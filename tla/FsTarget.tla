------------------------------ MODULE FsTarget ------------------------------
(***************************************************************************)
(* fs_target_create (fs_target.c): the snapshot of a file tree, taken by a *)
(* recursion over lstat, opendir and readdir while other processes change  *)
(* the tree.  Each system call is a step; what the function does between   *)
(* two of them belongs to the step of the first.                           *)
(*                                                                         *)
(* Targets live on a heap.  malloc returns a fresh address or one that was *)
(* freed, so a pointer that outlives its target may come to designate      *)
(* another one.  malloc itself does not fail here.                         *)
(***************************************************************************)
EXTENDS FileSystem

CONSTANTS
  Root,       \* the file named on the command line
  MaxTargets  \* bound: the addresses of the heap

ASSUME RootAssumption == Root \in Paths
ASSUME MaxTargetsAssumption == MaxTargets \in Nat

VARIABLES
  heap,     \* heap[a]: what the memory at address a holds
  live,     \* the addresses malloc returned and nobody freed
  brk,      \* the highest address malloc has returned
  frames,   \* the activations of fs_target_create, outermost first
  unopened, \* the paths reported by "cannot open directory"
  result    \* the value the outermost call returned

heapVars   == <<heap, live, brk>>
targetVars == <<heap, live, brk, frames, unopened, result>>

-----------------------------------------------------------------------------
(* Data.                                                                   *)

NULL == 0
Addr == 1..MaxTargets

Masks == {"ACK", "ACCESS", "CREATE", "DELETE", "MODIFY", "OPEN", "FAIL"}

\* The buffer an event's path member points into: an argument of main, the
\* child_path that handle_children frees, or the __cur_path of routine.c.
Buffers == {"argv", "child_path", "__cur_path"}

Event == [mask : Masks, st : Stats \cup {ZeroStat}, path : Buffers]

Names == {p[Len(p)] : p \in Paths}

\* path is not in the struct: it records which file the target was made for.
Target == [name : Names \cup {""}, path : Paths \cup {<<>>}, type : FileTypes,
           ok : BOOLEAN, events : Seq(Event), children : Seq(Addr)]

\* A target after memset(target, 0, sizeof(fs_target_t)).
ZeroTarget == [name |-> "", path |-> <<>>, type |-> "unknown", ok |-> FALSE,
               events |-> <<>>, children |-> <<>>]

Frame == [path : Paths, pc : {"lstat", "event_init", "opendir", "readdir"},
          self : Addr \cup {NULL}, entries : SUBSET Paths, seen : SUBSET Paths]

NewFrame(p) == [path |-> p, pc |-> "lstat", self |-> NULL,
                entries |-> {}, seen |-> {}]

Top        == frames[Len(frames)]
SetTop(f)  == [frames EXCEPT ![Len(frames)] = f]
PopFrame   == SubSeq(frames, 1, Len(frames) - 1)
Running(s) == Len(frames) > 0 /\ Top.pc = s

-----------------------------------------------------------------------------
(* The steps of fs_target_create.                                          *)

\* malloc: a freed address again, or a fresh one.
Malloc == {a \in 1..brk : a \notin live} \cup
          {a \in Addr : a = brk + 1}

FiletypeOf(st) == st.mode.type

\* The zeroed memory of fs_target_alloc after fs_target_set_info.
SetInfo(p, st) == [name |-> p[Len(p)], path |-> p, type |-> FiletypeOf(st),
                   ok |-> TRUE, events |-> <<>>, children |-> <<>>]

\* Faulty variant: the push does not ignore NULL.
ReturnPushNull(a, h) ==
  /\ frames' = PopFrame
  /\ IF Len(frames) = 1
     THEN result' = a /\ heap' = h
     ELSE /\ heap' = [h EXCEPT ![frames[Len(frames) - 1].self].children =
                                  Append(@, a)]
          /\ UNCHANGED result

\* return (a): the caller is service_init, or handle_children, whose push
\* ignores NULL.
Return(a, h) ==
  /\ frames' = PopFrame
  /\ IF Len(frames) = 1
     THEN result' = a /\ heap' = h
     ELSE /\ LET parent == frames[Len(frames) - 1].self
             IN  heap' = IF a = NULL THEN h
                         ELSE [h EXCEPT ![parent].children = Append(@, a)]
          /\ UNCHANGED result

\* sys_lstat_exec returns true whatever lstat says: st may still be zero.
CreateLstat ==
  /\ Running("lstat")
  /\ \E a \in Malloc :
       /\ heap'   = [heap EXCEPT ![a] = SetInfo(Top.path, Lstat(Top.path).st)]
       /\ live'   = live \cup {a}
       /\ brk'    = IF a > brk THEN a ELSE brk
       /\ frames' = SetTop([Top EXCEPT !.pc = "event_init", !.self = a])
  /\ UNCHANGED <<unopened, result, fsVars>>

AckEvent(st) == [mask |-> "ACK", st |-> st,
                 path |-> IF Len(frames) = 1 THEN "argv" ELSE "child_path"]

\* Faulty variant: the target is returned although it has no event.
EventInitFailKept ==
  /\ Running("event_init")
  /\ Lstat(Top.path).err # "OK"
  /\ Return(Top.self, heap)
  /\ UNCHANGED <<live, brk, unopened, fsVars>>

\* Faulty variant: the target is freed and returned.
EventInitFailDangling ==
  /\ Running("event_init")
  /\ Lstat(Top.path).err # "OK"
  /\ live' = live \ {Top.self}
  /\ Return(Top.self, heap)
  /\ UNCHANGED <<brk, unopened, fsVars>>

\* fs_target_event_init calls lstat a second time.
EventInitFail ==
  /\ Running("event_init")
  /\ Lstat(Top.path).err # "OK"
  /\ live' = live \ {Top.self}
  /\ Return(NULL, heap)
  /\ UNCHANGED <<brk, unopened, fsVars>>

EventInit ==
  /\ Running("event_init")
  /\ Lstat(Top.path).err = "OK"
  /\ LET t == [heap[Top.self] EXCEPT
                 !.events = Append(@, AckEvent(Lstat(Top.path).st))]
         h == [heap EXCEPT ![Top.self] = t]
     IN  IF t.type = "directory"
         THEN /\ heap' = h
              /\ frames' = SetTop([Top EXCEPT !.pc = "opendir"])
              /\ UNCHANGED result
         ELSE Return(Top.self, h)
  /\ UNCHANGED <<live, brk, unopened, fsVars>>

OpenDir ==
  /\ Running("opendir")
  /\ CanOpenDir(Top.path)
  /\ frames' = SetTop([Top EXCEPT !.pc = "readdir",
                                  !.entries = Entries(Top.path)])
  /\ UNCHANGED <<heapVars, unopened, result, fsVars>>

\* handle_children frees the target; fs_target_create ignores that it failed
\* and returns the pointer all the same.
OpenDirFail ==
  /\ Running("opendir")
  /\ ~CanOpenDir(Top.path)
  /\ live' = live \ {Top.self}
  /\ unopened' = unopened \cup {Top.path}
  /\ Return(Top.self, [heap EXCEPT ![Top.self] = ZeroTarget])
  /\ UNCHANGED <<brk, fsVars>>

\* Faulty variant: "." is not skipped.
NextEntriesWithSelf(f) == ((f.entries \cup Entries(f.path)) \ f.seen) \cup {f.path}

\* What readdir may return: the entries of opendir's time and of now, each
\* once; "." and ".." are skipped.  An entry that stayed is not missed.
NextEntries(f) == (f.entries \cup Entries(f.path)) \ f.seen

ReadDir ==
  /\ Running("readdir")
  /\ \E q \in NextEntries(Top) :
       frames' = Append(SetTop([Top EXCEPT !.seen = @ \cup {q}]), NewFrame(q))
  /\ UNCHANGED <<heapVars, unopened, result, fsVars>>

\* Faulty variant: one entry is read, not all of them.
EndDirEarly ==
  /\ Running("readdir")
  /\ Top.seen # {} \/ Top.entries = {}
  /\ Return(Top.self, heap)
  /\ UNCHANGED <<live, brk, unopened, fsVars>>

EndDir ==
  /\ Running("readdir")
  /\ \A q \in NextEntries(Top) : q \notin Top.entries \/ ~Exists(q)
  /\ Return(Top.self, heap)
  /\ UNCHANGED <<live, brk, unopened, fsVars>>

Create == \/ CreateLstat \/ EventInit \/ EventInitFail
          \/ OpenDir \/ OpenDirFail \/ ReadDir \/ EndDir

-----------------------------------------------------------------------------

TargetInit ==
  /\ heap = [a \in Addr |-> ZeroTarget]
  /\ live = {}
  /\ brk = 0
  /\ frames = <<NewFrame(Root)>>
  /\ unopened = {}
  /\ result = NULL

OtherProcesses == FsChange /\ UNCHANGED targetVars

CreateInit == FsInit /\ TargetInit
CreateNext == Create \/ OtherProcesses
CreateSpec == CreateInit /\ [][CreateNext]_<<fsVars, targetVars>>

\* The call runs on as long as it has a step to take.
FairCreateSpec == CreateSpec /\ WF_<<fsVars, targetVars>>(Create)

-----------------------------------------------------------------------------
(* Properties.                                                             *)

\* The heap, the call stack and the result have their types; in particular a
\* children array never gets a NULL (fs_target_children_push refuses it).
FsTargetTypeOK ==
  /\ FsTypeOK
  /\ heap \in [Addr -> Target]
  /\ live \subseteq 1..brk
  /\ brk \in 0..MaxTargets
  /\ frames \in Seq(Frame)
  /\ unopened \subseteq Paths
  /\ result \in Addr \cup {NULL}

\* A target has no event only while fs_target_event_init runs on it: whoever
\* gets a live target finds its latest event (fs_target_latest_event).
EventsFollowInit ==
  \A a \in live :
    heap[a].events = <<>> <=>
      \E i \in DOMAIN frames : frames[i].pc = "event_init" /\ frames[i].self = a

\* Who holds a pointer to a: slots of children arrays, calls, the caller.
ChildSlots(a) ==
  UNION {{d} \X {n \in DOMAIN heap[d].children : heap[d].children[n] = a} :
           d \in live}
Holders(a) == Cardinality(ChildSlots(a))
                + Cardinality({i \in DOMAIN frames : frames[i].self = a})
                + IF result = a THEN 1 ELSE 0

\* No target is lost: every live one can be freed by service_deinit.  As long
\* as every directory could be opened the targets form a tree over the paths:
\* each has one owner, is the child of its directory, and no pointer dangles.
SnapshotIsTree ==
  /\ \A a \in live : Holders(a) >= 1
  /\ unopened = {} =>
       /\ \A a \in live : Holders(a) = 1
       /\ \A a \in Addr \ live : Holders(a) = 0
       /\ \A a \in live : \A i \in DOMAIN heap[a].children :
            Parent(heap[heap[a].children[i]].path) = heap[a].path

\* The files a snapshot keeps of a tree nobody changes: those lstat reaches
\* and whose directories, itself included, can be opened.
Kept == {q \in Paths :
           /\ Len(q) >= Len(Root) /\ SubSeq(q, 1, Len(Root)) = Root
           /\ Lstat(q).err = "OK"
           /\ \A n \in Len(Root)..Len(q) :
                IsDir(SubSeq(q, 1, n)) => CanOpenDir(SubSeq(q, 1, n))}

\* When nothing changes during the call, the snapshot has one target for each
\* of these files, with its type and its stat record, and, unless a freed
\* address came back as another target, under its directory.
SnapshotComplete ==
  (frames = <<>> /\ changes = 0) =>
    /\ {heap[a].path : a \in live} = Kept
    /\ Cardinality(live) = Cardinality(Kept)
    /\ \A a \in live :
         LET p == heap[a].path
             kids == {c \in live : \E i \in DOMAIN heap[a].children :
                                     heap[a].children[i] = c}
         IN  /\ heap[a].type = FiletypeOf(fs[p])
             /\ Len(heap[a].events) = 1
             /\ heap[a].events[1].st = fs[p]
             /\ unopened = {} =>
                  {heap[c].path : c \in kids} = Kept \cap Entries(p)

\* The call returns: lstat does not follow links, "." and ".." are skipped.
SnapshotEnds == <>(frames = <<>>)

\* "an array of pointers to child fs_target_t" (fs_target.h:42), and a
\* pointer to a target as the value returned.
PointersAreTargets ==
  /\ \A a \in live : \A i \in DOMAIN heap[a].children :
       heap[a].children[i] \in live
  /\ result # NULL => result \in live
=============================================================================
