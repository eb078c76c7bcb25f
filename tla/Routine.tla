------------------------------ MODULE Routine -------------------------------
(***************************************************************************)
(* fs_target_observe (routine.c) and fs_target_event_track                 *)
(* (fs_target_event_track.c): once the snapshot is taken, rounds over its  *)
(* targets compare each file with the latest event of its target and       *)
(* record and print what differs.                                          *)
(*                                                                         *)
(* The walk keeps the path of the target it is at in one global buffer,    *)
(* extended on the way down with the name of each target and cut on the    *)
(* way up.  The only system call of the walk is the lstat of Track.        *)
(***************************************************************************)
EXTENDS FsTarget

CONSTANT
  MaxEvents   \* the events an array can hold (array_adjust: INT_MAX bytes)

ASSUME MaxEventsAssumption == MaxEvents \in Nat \ {0}

VARIABLES
  stack,   \* the activations of fs_target_observe, outermost first
  cur,     \* __cur_path, as the sequence of the names in it
  out,     \* what the last step of the walk printed, a set of at most one
  crashed  \* a use of freed memory ended the process

walkVars == <<stack, cur, out, crashed>>
vars     == <<fsVars, targetVars, walkVars>>

-----------------------------------------------------------------------------
(* Comparing.                                                              *)

\* Faulty variant: the diffs array is searched from its start.
CmpStatForward(st1, st2) ==
  IF st1.atime # st2.atime THEN "OPEN"
  ELSE IF \/ st1.size # st2.size \/ st1.mtime # st2.mtime
          \/ st1.mode # st2.mode \/ st1.ino # st2.ino \/ st1.dev # st2.dev
  THEN "MODIFY" ELSE "none"

\* The diffs array of cmp_stat, searched from its end: the attributes other
\* than the access time decide first.
CmpStat(st1, st2) ==
  IF \/ st1.size # st2.size \/ st1.mtime # st2.mtime \/ st1.mode # st2.mode
     \/ st1.ino # st2.ino \/ st1.dev # st2.dev
  THEN "MODIFY"
  ELSE IF st1.atime # st2.atime THEN "OPEN" ELSE "none"

\* Faulty variant: the error of lstat is not looked at.
DetectNoError(r, previous) == CmpStat(r.st, previous.st)

\* The mask target_event_detect gives to an lstat, "none" for no event.
Detect(r, previous) ==
  CASE r.err = "OK"     -> CmpStat(r.st, previous.st)
    [] r.err = "EACCES" -> "FAIL"
    [] OTHER            -> "DELETE"

-----------------------------------------------------------------------------
(* The walk.                                                               *)

\* A printed line.
Line == [t : Addr, mask : Masks, st : Stats \cup {ZeroStat}, path : Seq(STRING)]

\* Faulty variants: the first event for the latest; one event too many; the
\* last child forgotten; a full array loses its first event.
LatestIsFirst(a) == heap[a].events[1]
FullTooLate(a) == Len(heap[a].events) > MaxEvents
ChildrenCountShort(a) ==
  IF heap[a].type = "directory" THEN Len(heap[a].children) - 1 ELSE 0
RecordShifting(a, e) ==
  heap' = [heap EXCEPT ![a].events =
             IF Len(@) = MaxEvents - 1 THEN Append(Tail(@), e) ELSE Append(@, e)]

Here     == stack[Len(stack)].t
Latest(a) == heap[a].events[Len(heap[a].events)]
Full(a)  == Len(heap[a].events) = MaxEvents

\* Faulty variant: the first name is never cut.
CutKeepsRoot == IF Len(cur) = 1 THEN cur ELSE SubSeq(cur, 1, Len(cur) - 1)

\* set_current_wd and unset_current_wd.
Extend(name) == Append(cur, name)
Cut          == IF Len(cur) = 1 THEN <<>> ELSE SubSeq(cur, 1, Len(cur) - 1)

ChildrenCount(a) ==
  IF heap[a].type = "directory" THEN Len(heap[a].children) ELSE 0

\* fs_target_observe(a), called with s the activations of its callers.  What
\* a freed target holds is undefined: the process dies, or finds no name and
\* no file type there and returns.
Observe(a, s) ==
  /\ out' = {}
  /\ \/ /\ a \in live
        /\ stack' = Append(s, [t |-> a, i |-> 0])
        /\ cur' = Extend(heap[a].name)
        /\ UNCHANGED crashed
     \/ /\ a \notin live
        /\ stack' = s
        /\ crashed' \in BOOLEAN
        /\ UNCHANGED cur

Awake == frames = <<>> /\ ~crashed

\* service calls fs_target_observe on what fs_target_create returned.
StartRound ==
  /\ Awake
  /\ result # NULL
  /\ stack = <<>>
  /\ Observe(result, <<>>)
  /\ UNCHANGED <<fsVars, targetVars>>

\* propagate_children_recursive: the next child.
ObserveChild ==
  /\ Awake
  /\ stack # <<>>
  /\ LET f == stack[Len(stack)]
     IN  /\ f.i < ChildrenCount(f.t)
         /\ Observe(heap[f.t].children[f.i + 1],
                    [stack EXCEPT ![Len(stack)].i = @ + 1])
  /\ UNCHANGED <<fsVars, targetVars>>

\* array_push on target->events.
Record(a, e) == heap' = [heap EXCEPT ![a].events = Append(@, e)]

ChildrenDone ==
  stack # <<>> /\ stack[Len(stack)].i >= ChildrenCount(Here)

Leave == stack' = SubSeq(stack, 1, Len(stack) - 1) /\ cur' = Cut

\* Printing reads the path from the buffer the event points into; the ACK
\* event of a child points into freed memory.
Printed(a, e) ==
  {[t |-> a, mask |-> e.mask, st |-> e.st,
    path |-> IF e.path = "__cur_path" THEN cur
             ELSE IF e.path = "argv" THEN Root ELSE <<>>]}

\* fs_target_event_track, then the end of fs_target_observe.  When the array
\* is full the push fails, and what is printed is the previous event.
Track ==
  /\ Awake
  /\ ChildrenDone
  /\ heap[Here].type # "unknown"
  /\ heap[Here].events # <<>>
  /\ LET r    == Lstat(cur)
         mask == Detect(r, Latest(Here))
         e    == [mask |-> mask, st |-> r.st, path |-> "__cur_path"]
     IN  \/ mask = "none" /\ out' = {} /\ UNCHANGED heap
         \/ /\ mask # "none" /\ ~Full(Here)
            /\ Record(Here, e)
            /\ out' = Printed(Here, e)
         \/ /\ mask # "none" /\ Full(Here)
            /\ out' = Printed(Here, Latest(Here))
            /\ UNCHANGED heap
  /\ Leave
  /\ UNCHANGED <<live, brk, frames, unopened, result, crashed, fsVars>>

\* A target of no known type is logged and left.
LeaveUnknown ==
  /\ Awake
  /\ ChildrenDone
  /\ heap[Here].type = "unknown"
  /\ out' = {}
  /\ Leave
  /\ UNCHANGED <<crashed, fsVars, targetVars>>

-----------------------------------------------------------------------------

Walk == StartRound \/ ObserveChild \/ Track \/ LeaveUnknown

Init == /\ CreateInit
        /\ stack = <<>> /\ cur = <<>> /\ out = {} /\ crashed = FALSE

Next == \/ CreateNext /\ UNCHANGED walkVars
        \/ Walk

Spec == Init /\ [][Next]_vars

\* The daemon's single thread goes on: the snapshot, then round after round.
FairSpec == Spec /\ WF_vars(Create /\ UNCHANGED walkVars) /\ WF_vars(Walk)

-----------------------------------------------------------------------------
(* Properties.                                                             *)

\* The variables of the walk have their types and the logs stay within the
\* capacity of their arrays.
RoutineTypeOK ==
  /\ FsTargetTypeOK
  /\ stack \in Seq([t : live, i : Nat])
  /\ cur \in Seq(STRING)
  /\ out \subseteq Line
  /\ crashed \in BOOLEAN
  /\ \A a \in Addr : Len(heap[a].events) <= MaxEvents

\* __cur_path is empty between two rounds, and while the walk is at a target
\* it holds the path of the file the target was made for: set_current_wd and
\* unset_current_wd match.  (In one piece, when every directory was opened and
\* the file on the command line is named without a directory.)
ObservesItsFile ==
  /\ stack = <<>> => cur = <<>>
  /\ (unopened = {} /\ Len(Root) = 1) =>
       \A i \in DOMAIN stack : SubSeq(cur, 1, i) = heap[stack[i].t].path

\* The events of a target make sense as a whole: the first, and only the
\* first, is the ACK of the snapshot; DELETE and FAIL carry no stat record;
\* MODIFY and OPEN say how the record differs from that of the event before.
Chained(events) ==
  \A i \in DOMAIN events :
    LET e == events[i]
        p == events[i - 1]
    IN  IF i = 1 THEN e.mask = "ACK" /\ e.st # ZeroStat
        ELSE \/ e.mask \in {"DELETE", "FAIL"} /\ e.st = ZeroStat
             \/ e.mask \in {"MODIFY", "OPEN"} /\ e.st # ZeroStat
                  /\ e.mask = CmpStat(e.st, p.st)

EventChain == \A a \in live : Chained(heap[a].events)

\* No step rewrites, drops or reorders recorded events, and a step records at
\* most one event, of one target.
LogsGrow ==
  [][/\ \A a \in live \cap live' :
          /\ Len(heap[a].events) <= Len(heap'[a].events)
          /\ SubSeq(heap'[a].events, 1, Len(heap[a].events)) = heap[a].events
     /\ Cardinality({a \in Addr : heap'[a].events # heap[a].events}) <= 1
    ]_vars

\* A target is up to date when its latest event says what lstat says now.
Current(a) ==
  LET r == Lstat(heap[a].path)
  IN  CASE r.err = "OK"     -> CmpStat(r.st, Latest(a).st) = "none"
        [] r.err = "EACCES" -> Latest(a).mask = "FAIL"
        [] OTHER            -> Latest(a).mask = "DELETE"

Watched(a) == a \in live /\ heap[a].events # <<>> /\ heap[a].type # "unknown"

\* A file that differs from its latest event does not stay so: the change is
\* recorded, or undone, or the array of events is full.
EveryChangeRecorded ==
  \A a \in Addr :
    (Watched(a) /\ ~Current(a) /\ unopened = {})
      ~> (unopened # {} \/ (Watched(a) => Current(a) \/ Full(a)))

\* What the program prints is true: the path is that of a file of the tree
\* ("name with full path", fs_target.h:58).
PrintsFullPath == \A o \in out : o.path = heap[o.t].path

-----------------------------------------------------------------------------
(* The promise.  A path's log is that of the live target made for it; the  *)
(* buffer an event's path points into is forgotten.                        *)

LogOf(p) ==
  LET made == {a \in live : heap[a].path = p}
      a    == CHOOSE a \in made : TRUE
  IN  IF made = {} THEN <<>>
      ELSE [i \in DOMAIN heap[a].events |->
              [mask |-> heap[a].events[i].mask, st |-> heap[a].events[i].st]]

logs == [p \in Paths |-> LogOf(p)]

W == INSTANCE Watch WITH log <- logs

\* The snapshot and the rounds implement Watch, for a file named without a
\* directory and as long as every directory could be opened.
WatchesTree ==
  W!WatchInit /\ [][unopened' = {} => W!WatchNext]_<<fsVars, logs>>
=============================================================================
