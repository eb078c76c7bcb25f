---------------------------- MODULE WatchProofs -----------------------------
(***************************************************************************)
(* Theorems about the event logs: no step rewrites one, and the snapshot   *)
(* with its rounds implements Watch.  The theorems of TreeProofs are then  *)
(* taken to the snapshot alone.                                            *)
(***************************************************************************)
EXTENDS TreeProofs

-----------------------------------------------------------------------------
(* What each step does to the logs.                                        *)

\* The step leaves the log of a, and the file it is about, as they are.
KeepsLog(a) == heap'[a].events = heap[a].events /\ heap'[a].path = heap[a].path

\* fs_target_alloc: one new target, without an event.
LEMMA CreateLstatLog ==
  ASSUME IInv, CreateLstat
  PROVE  /\ unopened' = unopened
         /\ \E c \in Addr \ live :
              /\ live' = live \cup {c} /\ heap'[c].events = <<>>
              /\ \A a \in Addr \ {c} : KeepsLog(a)
<1>1. FsTargetTypeOK /\ heap \in [Addr -> Target]
  BY DEF IInv, RoutineTypeOK, FsTargetTypeOK
<1>2. PICK c \in Malloc :
        /\ heap' = [heap EXCEPT ![c] = SetInfo(Top.path, Lstat(Top.path).st)]
        /\ live' = live \cup {c}
  BY DEF CreateLstat
<1>3. c \in Addr \ live
  BY <1>1, <1>2, MaxTargetsAssumption
     DEF Malloc, Addr, FsTargetTypeOK
<1>4. /\ heap'[c] = SetInfo(Top.path, Lstat(Top.path).st)
      /\ \A a \in Addr \ {c} : heap'[a] = heap[a]
  BY <1>1, <1>2, <1>3
<1>5. heap'[c].events = <<>>
  BY <1>4 DEF SetInfo
<1>6. QED BY <1>2, <1>3, <1>4, <1>5 DEF KeepsLog, CreateLstat

\* fs_target_event_init: the first event of the target of the call.
LEMMA EventInitLog ==
  ASSUME IInv, EventInit
  PROVE  /\ unopened' = unopened /\ UNCHANGED fsVars
         /\ live' = live /\ Top.self \in live /\ Top.self \in Addr
         /\ heap[Top.self].events = <<>>
         /\ heap'[Top.self].events = <<AckEvent(Lstat(Top.path).st)>>
         /\ heap'[Top.self].path = heap[Top.self].path
         /\ \A a \in Addr \ {Top.self} : KeepsLog(a)
<1>1. /\ frames # <<>> /\ FsTargetTypeOK /\ heap \in [Addr -> Target]
      /\ Top.self \in live /\ Top.self \in Addr
      /\ heap[Top.self].events = <<>>
  BY RunningShape DEF EventInit, IInv, RoutineTypeOK, FsTargetTypeOK
<1> DEFINE st == Lstat(Top.path).st
           e  == AckEvent(st)
           t  == [heap[Top.self] EXCEPT !.events = Append(@, e)]
           h  == [heap EXCEPT ![Top.self] = t]
<1>2. live' = live /\ unopened' = unopened /\ UNCHANGED fsVars
      /\ IF t.type = "directory" THEN heap' = h ELSE Return(Top.self, h)
  BY DEF EventInit
<1>3. Lstat(Top.path).err = "OK" /\ st \in Stats
  BY <1>1, LstatOK DEF EventInit, FsTargetTypeOK
<1>4. e \in Event
  BY <1>3 DEF AckEvent, Event, Masks, Buffers
<1>5. /\ t \in Target /\ t.events = <<e>> /\ t.path = heap[Top.self].path
  <2> HIDE DEF e
  <2>1. heap[Top.self] \in Target
    BY <1>1
  <2>2. Append(heap[Top.self].events, e) = <<e>> /\ <<e>> \in Seq(Event)
    BY <1>1, <1>4
  <2>3. QED BY <2>1, <2>2 DEF Target
<1>6. /\ h \in [Addr -> Target] /\ h[Top.self] = t
      /\ \A x \in Addr \ {Top.self} : h[x] = heap[x]
  BY <1>1, <1>5
<1> HIDE DEF h, t, e, st
<1>7. \A x \in Addr : SameFields(heap'[x], h[x])
  BY <1>1, <1>2, <1>6, ReturnOK DEF SameFields
<1>8. e = AckEvent(Lstat(Top.path).st)
  BY DEF e, st
<1>9. QED BY <1>1, <1>2, <1>5, <1>6, <1>7, <1>8 DEF SameFields, KeepsLog

\* A target that cannot be initialised, or whose directory cannot be opened,
\* is freed; no other log changes.
LEMMA FailLog ==
  ASSUME IInv, EventInitFail \/ OpenDirFail
  PROVE  /\ live' = live \ {Top.self} /\ Top.self \in live /\ Top.self \in Addr
         /\ \A a \in Addr \ {Top.self} : KeepsLog(a)
         /\ UNCHANGED fsVars
         /\ \/ /\ heap[Top.self].events = <<>> /\ KeepsLog(Top.self)
               /\ unopened' = unopened
            \/ unopened' # {}
<1>1. CASE EventInitFail
  <2>1. /\ frames # <<>> /\ Top.self \in live /\ Top.self \in Addr
        /\ heap \in [Addr -> Target] /\ heap[Top.self].events = <<>>
    BY <1>1, RunningShape
       DEF EventInitFail, IInv, RoutineTypeOK, FsTargetTypeOK
  <2>2. Return(NULL, heap) /\ live' = live \ {Top.self} /\ unopened' = unopened
        /\ UNCHANGED fsVars
    BY <1>1 DEF EventInitFail
  <2>3. \A x \in Addr : SameFields(heap'[x], heap[x])
    BY <2>1, <2>2, ReturnOK
  <2>4. QED BY <2>1, <2>2, <2>3 DEF SameFields, KeepsLog
<1>2. CASE OpenDirFail
  <2> DEFINE h == [heap EXCEPT ![Top.self] = ZeroTarget]
  <2>1. /\ frames # <<>> /\ Top.self \in live /\ Top.self \in Addr
        /\ heap \in [Addr -> Target]
    BY <1>2, RunningShape
       DEF OpenDirFail, IInv, RoutineTypeOK, FsTargetTypeOK
  <2>2. /\ Return(Top.self, h) /\ live' = live \ {Top.self}
        /\ unopened' = unopened \cup {Top.path} /\ UNCHANGED fsVars
    BY <1>2 DEF OpenDirFail
  <2>3. h \in [Addr -> Target] /\ \A x \in Addr \ {Top.self} : h[x] = heap[x]
    BY <2>1, ZeroTargetOK
  <2> HIDE DEF h
  <2>4. \A x \in Addr : SameFields(heap'[x], h[x])
    BY <2>1, <2>2, <2>3, ReturnOK
  <2>5. QED BY <2>1, <2>2, <2>3, <2>4 DEF SameFields, KeepsLog
<1>3. QED BY <1>1, <1>2

\* The steps that record nothing.
LEMMA QuietLog ==
  ASSUME IInv,
         \/ OpenDir \/ ReadDir \/ EndDir \/ OtherProcesses
         \/ StartRound \/ ObserveChild \/ LeaveUnknown \/ UNCHANGED vars
  PROVE  /\ live' = live /\ unopened' = unopened
         /\ \A a \in Addr : KeepsLog(a)
         /\ OtherProcesses \/ UNCHANGED fsVars
<1>1. CASE EndDir
  <2>1. frames # <<>> /\ Top.self \in Addr /\ heap \in [Addr -> Target]
    BY <1>1, RunningShape DEF EndDir, IInv, RoutineTypeOK, FsTargetTypeOK
  <2>2. Return(Top.self, heap) /\ live' = live /\ unopened' = unopened
        /\ UNCHANGED fsVars
    BY <1>1 DEF EndDir
  <2>3. \A x \in Addr : SameFields(heap'[x], heap[x])
    BY <2>1, <2>2, ReturnOK
  <2>4. QED BY <2>2, <2>3 DEF SameFields, KeepsLog
<1>2. CASE ~EndDir
  BY <1>2 DEF OpenDir, ReadDir, OtherProcesses, StartRound, ObserveChild,
              LeaveUnknown, vars, targetVars, heapVars, KeepsLog
<1>3. QED BY <1>1, <1>2

\* fs_target_event_track: one event at the end of the log of the target the
\* walk leaves, or none.
LEMMA TrackLog ==
  ASSUME IInv, Track
  PROVE  /\ live' = live /\ unopened' = unopened /\ UNCHANGED fsVars
         /\ Here \in live /\ Here \in Addr
         /\ heap'[Here].path = heap[Here].path
         /\ \A a \in Addr \ {Here} : KeepsLog(a)
         /\ LET r == Lstat(cur)
                m == Detect(r, Latest(Here))
            IN  \/ KeepsLog(Here)
                \/ /\ m # "none" /\ ~Full(Here)
                   /\ heap'[Here].events =
                        Append(heap[Here].events,
                          [mask |-> m, st |-> r.st, path |-> "__cur_path"])
<1> DEFINE r == Lstat(cur)
           m == Detect(r, Latest(Here))
           e == [mask |-> m, st |-> r.st, path |-> "__cur_path"]
<1>1. /\ Here \in live /\ Here \in Addr /\ heap \in [Addr -> Target]
      /\ UNCHANGED <<live, unopened, fs, changes>>
      /\ \A x \in Addr : heap'[x].path = heap[x].path
      /\ \A x \in Addr \ {Here} : heap'[x] = heap[x]
  BY TrackShape
<1>2. \/ UNCHANGED heap
      \/ m # "none" /\ ~Full(Here) /\ Record(Here, e)
  BY DEF Track
<1> HIDE DEF e
<1>3. Record(Here, e) =>
        heap'[Here].events = Append(heap[Here].events, e)
  BY <1>1 DEF Record, Target
<1>4. QED BY <1>1, <1>2, <1>3 DEF KeepsLog, e, fsVars

-----------------------------------------------------------------------------
(* No step rewrites a log.                                                 *)

LEMMA AppendKeeps ==
  ASSUME NEW S, NEW s \in Seq(S), NEW e \in S
  PROVE  Len(s) <= Len(Append(s, e)) /\ SubSeq(Append(s, e), 1, Len(s)) = s
<1>1. Len(s) \in 0..Len(s) /\ SubSeq(s, 1, Len(s)) = s
  OBVIOUS
<1>2. QED BY <1>1, PrefixOfAppend, AppendProperties

\* Only the log of c changes, and if c stays live it grows by one event.
LEMMA OneLog ==
  ASSUME IInv, NEW c \in Addr,
         \A a \in Addr \ {c} : heap'[a].events = heap[a].events,
         c \in live \cap live' =>
           \/ heap'[c].events = heap[c].events
           \/ \E e \in Event : heap'[c].events = Append(heap[c].events, e)
  PROVE  /\ \A a \in live \cap live' :
              /\ Len(heap[a].events) <= Len(heap'[a].events)
              /\ SubSeq(heap'[a].events, 1, Len(heap[a].events))
                   = heap[a].events
         /\ Cardinality({a \in Addr : heap'[a].events # heap[a].events}) <= 1
<1>1. live \subseteq Addr /\ heap \in [Addr -> Target]
  BY AddrLive DEF IInv, RoutineTypeOK, FsTargetTypeOK
<1>2. ASSUME NEW a \in live \cap live'
      PROVE  /\ Len(heap[a].events) <= Len(heap'[a].events)
             /\ SubSeq(heap'[a].events, 1, Len(heap[a].events))
                  = heap[a].events
  <2>1. heap[a].events \in Seq(Event)
    BY <1>1, <1>2 DEF Target
  <2>2. CASE heap'[a].events = heap[a].events
    BY <2>1, <2>2
  <2>3. CASE heap'[a].events # heap[a].events
    <3>1. a = c
      BY <1>1, <1>2, <2>3
    <3>2. PICK e \in Event : heap'[a].events = Append(heap[a].events, e)
      BY <1>2, <2>3, <3>1
    <3>3. QED BY <2>1, <3>2, AppendKeeps
  <2>4. QED BY <2>2, <2>3
<1>3. Cardinality({a \in Addr : heap'[a].events # heap[a].events}) <= 1
  <2> DEFINE D == {a \in Addr : heap'[a].events # heap[a].events}
  <2>1. D \subseteq {c}
    OBVIOUS
  <2> HIDE DEF D
  <2>2. IsFiniteSet({c}) /\ Cardinality({c}) = 1
    BY FS_Singleton
  <2>3. Cardinality(D) <= Cardinality({c})
    BY <2>1, <2>2, FS_Subset
  <2>4. QED BY <2>2, <2>3 DEF D
<1>4. QED BY <1>2, <1>3

\* array_push is the only function that writes the array of events, and it
\* writes at the end: whatever the step, the logs of live targets keep what
\* they have and at most one of them gets an event.
THEOREM LogsGrowHolds == Spec => LogsGrow
<1> DEFINE Grows ==
      /\ \A a \in live \cap live' :
           /\ Len(heap[a].events) <= Len(heap'[a].events)
           /\ SubSeq(heap'[a].events, 1, Len(heap[a].events)) = heap[a].events
      /\ Cardinality({a \in Addr : heap'[a].events # heap[a].events}) <= 1
<1>1. ASSUME IInv, Next PROVE Grows
  <2>1. heap \in [Addr -> Target] /\ live \subseteq Addr /\ FsTypeOK
    BY <1>1, AddrLive DEF IInv, RoutineTypeOK, FsTargetTypeOK
  <2>2. CASE CreateLstat
    <3>1. PICK c \in Addr \ live :
            \A a \in Addr \ {c} : heap'[a].events = heap[a].events
      BY <1>1, <2>2, CreateLstatLog DEF KeepsLog
    <3>2. QED BY <1>1, <3>1, OneLog
  <2>3. CASE EventInit
    <3>1. /\ Top.self \in Addr /\ heap[Top.self].events = <<>>
          /\ heap'[Top.self].events = <<AckEvent(Lstat(Top.path).st)>>
          /\ \A a \in Addr \ {Top.self} : heap'[a].events = heap[a].events
      BY <1>1, <2>3, EventInitLog DEF KeepsLog
    <3>2. AckEvent(Lstat(Top.path).st) \in Event
      BY <2>1, LstatOK DEF AckEvent, Event, Masks, Buffers
    <3>3. heap'[Top.self].events =
            Append(heap[Top.self].events, AckEvent(Lstat(Top.path).st))
      BY <3>1
    <3>4. QED BY <1>1, <3>1, <3>2, <3>3, OneLog
  <2>4. CASE EventInitFail \/ OpenDirFail
    BY <1>1, <2>4, FailLog, OneLog DEF KeepsLog
  <2>5. CASE \/ OpenDir \/ ReadDir \/ EndDir \/ OtherProcesses
             \/ StartRound \/ ObserveChild \/ LeaveUnknown
    <3>1. \A a \in Addr : heap'[a].events = heap[a].events
      BY <1>1, <2>5, QuietLog DEF KeepsLog
    <3>2. CASE Addr = {}
      <4>1. live = {} /\ {a \in Addr : heap'[a].events # heap[a].events} = {}
        BY <2>1, <3>2
      <4>2. QED BY <4>1, FS_EmptySet
    <3>3. CASE Addr # {}
      BY <1>1, <3>1, <3>3, OneLog
    <3>4. QED BY <3>2, <3>3
  <2>6. CASE Track
    <3> DEFINE e == [mask |-> Detect(Lstat(cur), Latest(Here)),
                     st |-> Lstat(cur).st, path |-> "__cur_path"]
    <3>1. /\ Here \in Addr
          /\ \A a \in Addr \ {Here} : heap'[a].events = heap[a].events
          /\ \/ heap'[Here].events = heap[Here].events
             \/ /\ e.mask # "none"
                /\ heap'[Here].events = Append(heap[Here].events, e)
      BY <1>1, <2>6, TrackLog DEF KeepsLog
    <3>2. e.mask # "none" => e \in Event
      BY <2>1, LstatOK DEF Detect, CmpStat, Event, Masks, Buffers
    <3> HIDE DEF e
    <3>3. QED BY <1>1, <3>1, <3>2, OneLog
  <2>7. QED
    BY <1>1, <2>2, <2>3, <2>4, <2>5, <2>6 DEF Next, CreateNext, Create, Walk
<1>2. IInv /\ [Next]_vars => [Grows]_vars
  BY <1>1
<1> HIDE DEF Grows
<1>3. Spec => [][Grows]_vars
  BY <1>2, Invariance, PTL DEF Spec
<1>4. QED BY <1>3, PTL DEF LogsGrow, Grows

-----------------------------------------------------------------------------
(* The log of a path.                                                      *)

\* What LogOf keeps of an array of events.
View(es) ==
  [n \in DOMAIN es |-> [mask |-> es[n].mask, st |-> es[n].st]]

LEMMA ViewShape ==
  ASSUME NEW es \in Seq(Event)
  PROVE  /\ DOMAIN View(es) = DOMAIN es /\ DOMAIN View(es) = 1..Len(es)
         /\ View(es) \in Seq([mask : Masks, st : Stats \cup {ZeroStat}])
         /\ Len(View(es)) = Len(es) /\ Len(es) \in Nat
         /\ \A n \in 1..Len(es) :
              View(es)[n] = [mask |-> es[n].mask, st |-> es[n].st]
         /\ es = <<>> => View(es) = <<>>
<1> DEFINE S == [mask : Masks, st : Stats \cup {ZeroStat}]
<1>1. Len(es) \in Nat /\ DOMAIN es = 1..Len(es) /\ \A n \in 1..Len(es) : es[n] \in Event
  BY LenProperties, ElementOfSeq
<1>2. \A n \in 1..Len(es) : [mask |-> es[n].mask, st |-> es[n].st] \in S
  BY <1>1 DEF Event
<1>3. View(es) \in [1..Len(es) -> S]
  BY <1>1, <1>2 DEF View
<1>4. View(es) \in Seq(S) /\ Len(View(es)) = Len(es)
  <2> HIDE DEF S
  <2>1. View(es) \in Seq(S)
    BY <1>1, <1>3, IsASeq DEF View
  <2>2. DOMAIN View(es) = 1..Len(es)
    BY <1>3
  <2>3. QED BY <1>1, <2>1, <2>2, LenProperties
<1>5. es = <<>> => View(es) = <<>>
  <2> HIDE DEF S
  <2>1. es = <<>> => Len(View(es)) = 0
    BY <1>4
  <2>2. QED BY <1>4, <2>1, EmptySeq
<1>6. QED BY <1>1, <1>3, <1>4, <1>5 DEF View

\* A path has the log of the one live target made for it.
LEMMA LogIs ==
  ASSUME PathsOnce, NEW p
  PROVE  /\ \A a \in live : heap[a].path = p => LogOf(p) = View(heap[a].events)
         /\ (\A a \in live : heap[a].path # p) => LogOf(p) = <<>>
<1> DEFINE made == {a \in live : heap[a].path = p}
<1>1. ASSUME NEW a \in live, heap[a].path = p
      PROVE  LogOf(p) = View(heap[a].events)
  <2>1. \A b \in made : b = a
    BY <1>1 DEF PathsOnce
  <2>2. a \in made /\ (CHOOSE b \in made : TRUE) = a
    BY <1>1, <2>1
  <2>3. QED BY <2>2 DEF LogOf, View
<1>2. ASSUME \A a \in live : heap[a].path # p PROVE LogOf(p) = <<>>
  BY <1>2 DEF LogOf
<1>3. QED BY <1>1, <1>2

LEMMA NextLogIs ==
  ASSUME PathsOnce', NEW p
  PROVE  /\ \A a \in live' :
              heap'[a].path = p => LogOf(p)' = View(heap'[a].events)
         /\ (\A a \in live' : heap'[a].path # p) => LogOf(p)' = <<>>
<1> DEFINE made == {a \in live' : heap'[a].path = p}
<1>1. ASSUME NEW a \in live', heap'[a].path = p
      PROVE  LogOf(p)' = View(heap'[a].events)
  <2>1. \A b \in made : b = a
    BY <1>1 DEF PathsOnce
  <2>2. a \in made /\ (CHOOSE b \in made : TRUE) = a
    BY <1>1, <2>1
  <2>3. QED BY <2>2 DEF LogOf, View
<1>2. ASSUME \A a \in live' : heap'[a].path # p PROVE LogOf(p)' = <<>>
  BY <1>2 DEF LogOf
<1>3. QED BY <1>1, <1>2

\* Targets without an event come and go unseen; the others keep their logs.
LEMMA SameLog ==
  ASSUME TInv, TInv', NEW p,
         \A a \in live : heap[a].path = p =>
           heap[a].events = <<>> \/ (a \in live' /\ KeepsLog(a)),
         \A a \in live' : heap'[a].path = p =>
           heap'[a].events = <<>> \/ (a \in live /\ KeepsLog(a))
  PROVE  LogOf(p)' = LogOf(p)
<1>1. PathsOnce /\ PathsOnce'
  BY DEF TInv, SInv
<1>2. View(<<>>) = <<>>
  <2>1. <<>> \in Seq(Event)
    OBVIOUS
  <2>2. QED BY <2>1, ViewShape
<1>3. CASE \E a \in live : heap[a].path = p /\ heap[a].events # <<>>
  <2>1. PICK a \in live : heap[a].path = p /\ heap[a].events # <<>>
    BY <1>3
  <2>2. a \in live' /\ KeepsLog(a)
    BY <2>1
  <2>3. LogOf(p) = View(heap[a].events)
    BY <1>1, <2>1, LogIs
  <2>4. LogOf(p)' = View(heap'[a].events)
    BY <1>1, <2>1, <2>2, NextLogIs DEF KeepsLog
  <2>5. QED BY <2>2, <2>3, <2>4 DEF KeepsLog
<1>4. CASE \A a \in live : heap[a].path = p => heap[a].events = <<>>
  <2>1. LogOf(p) = <<>>
    BY <1>1, <1>2, <1>4, LogIs
  <2>2. \A a \in live' : heap'[a].path = p => heap'[a].events = <<>>
    BY <1>4 DEF KeepsLog
  <2>3. LogOf(p)' = <<>>
    BY <1>1, <1>2, <2>2, NextLogIs
  <2>4. QED BY <2>1, <2>3
<1>5. QED BY <1>3, <1>4

-----------------------------------------------------------------------------
(* Watch reads the file system as the daemon does.                         *)

LEMMA SameFileSystem ==
  /\ \A p : W!Lstat(p) = Lstat(p)
  /\ W!FsChange <=> FsChange
  /\ W!FsInit <=> FsInit
  /\ W!fsVars = fsVars
  /\ W!ZeroStat = ZeroStat
<1>1. W!ZeroStat = ZeroStat /\ W!fsVars = fsVars
  BY DEF W!ZeroStat, ZeroStat, W!fsVars, fsVars
<1>2. \A p : W!Exists(p) = Exists(p)
  BY <1>1 DEF W!Exists, Exists
<1>3. \A p : W!IsDir(p) = IsDir(p)
  BY <1>2 DEF W!IsDir, IsDir
<1>4. \A p : W!Blocks(p) = Blocks(p)
  BY <1>3 DEF W!Blocks, Blocks
<1>5. ASSUME NEW p PROVE W!Lstat(p) = Lstat(p)
  BY <1>1, <1>2, <1>3, <1>4 DEF W!Lstat, Lstat
<1>6. \A p : W!Parent(p) = Parent(p)
  BY DEF W!Parent, Parent
<1>7. \A p : W!Entries(p) = Entries(p)
  BY <1>2, <1>6 DEF W!Entries, Entries
<1>8. \A s, t : W!SameFile(s, t) = SameFile(s, t)
  BY DEF W!SameFile, SameFile
<1>9. \A p, s : W!WithEntry(p, s) = WithEntry(p, s)
  BY <1>6, <1>8 DEF W!WithEntry, WithEntry
<1>10. W!FsChange <=> FsChange
  <2>1. ASSUME NEW p PROVE W!CreateFile(p) <=> CreateFile(p)
    BY <1>2, <1>3, <1>6, <1>9 DEF W!CreateFile, CreateFile
  <2>2. ASSUME NEW p PROVE W!RemoveFile(p) <=> RemoveFile(p)
    BY <1>1, <1>2, <1>7, <1>9 DEF W!RemoveFile, RemoveFile
  <2>3. ASSUME NEW p PROVE W!ModifyFile(p) <=> ModifyFile(p)
    BY <1>2, <1>8 DEF W!ModifyFile, ModifyFile
  <2>4. QED BY <2>1, <2>2, <2>3 DEF W!FsChange, FsChange
<1>11. W!FsInit <=> FsInit
  BY <1>1, <1>6 DEF W!FsInit, FsInit, W!WellFormed, WellFormed
<1>12. QED BY <1>1, <1>5, <1>10, <1>11

-----------------------------------------------------------------------------
(* Every step is one of Watch, or leaves the logs as they are.             *)

LEMMA ViewAppend ==
  ASSUME NEW es \in Seq(Event), NEW e \in Event
  PROVE  View(Append(es, e)) = Append(View(es), [mask |-> e.mask, st |-> e.st])
<1> DEFINE S  == [mask : Masks, st : Stats \cup {ZeroStat}]
           v  == [mask |-> e.mask, st |-> e.st]
           a  == Append(es, e)
           b  == Append(View(es), v)
<1>1. v \in S
  BY DEF Event
<1>2. /\ a \in Seq(Event) /\ Len(a) = Len(es) + 1
      /\ \A n \in 1..Len(es) : a[n] = es[n]
      /\ a[Len(es) + 1] = e
  BY AppendProperties
<1>3. /\ View(es) \in Seq(S) /\ Len(View(es)) = Len(es) /\ Len(es) \in Nat
      /\ \A n \in 1..Len(es) : View(es)[n] = [mask |-> es[n].mask, st |-> es[n].st]
  BY ViewShape
<1>4. /\ View(a) \in Seq(S) /\ Len(View(a)) = Len(es) + 1
      /\ \A n \in 1..(Len(es) + 1) :
           View(a)[n] = [mask |-> a[n].mask, st |-> a[n].st]
  <2> HIDE DEF a
  <2> QED BY <1>2, ViewShape
<1>5. /\ b \in Seq(S) /\ Len(b) = Len(es) + 1
      /\ \A n \in 1..Len(es) : b[n] = View(es)[n]
      /\ b[Len(es) + 1] = v
  <2> HIDE DEF S, v
  <2> QED BY <1>1, <1>3, AppendProperties
<1> HIDE DEF S
<1>6. \A n \in 1..(Len(es) + 1) : View(a)[n] = b[n]
  <2> HIDE DEF a, b
  <2> SUFFICES ASSUME NEW n \in 1..(Len(es) + 1) PROVE View(a)[n] = b[n]
    OBVIOUS
  <2>1. CASE n \in 1..Len(es)
    <3>1. View(a)[n] = [mask |-> es[n].mask, st |-> es[n].st]
      BY <1>2, <1>4, <2>1
    <3>2. View(es)[n] = [mask |-> es[n].mask, st |-> es[n].st]
      BY <1>3, <2>1
    <3>3. QED BY <1>5, <2>1, <3>1, <3>2
  <2>2. CASE n = Len(es) + 1
    BY <1>2, <1>4, <1>5, <2>2
  <2>3. n \in 1..Len(es) \/ n = Len(es) + 1
    BY <1>3
  <2>4. QED BY <2>1, <2>2, <2>3
<1>7. View(a) = b
  <2> HIDE DEF a, b
  <2> QED BY <1>4, <1>5, <1>6, SeqEqual
<1>8. QED BY <1>7

LEMMA SameLogs ==
  ASSUME TInv, TInv',
         \A a \in live :
           heap[a].events = <<>> \/ (a \in live' /\ KeepsLog(a)),
         \A a \in live' :
           heap'[a].events = <<>> \/ (a \in live /\ KeepsLog(a))
  PROVE  logs' = logs
<1>1. \A p : LogOf(p)' = LogOf(p)
  BY SameLog
<1>2. QED BY <1>1 DEF logs

\* One target gets its log, or an event more; no other log changes.
LEMMA OneLogOf ==
  ASSUME TInv, TInv', live' = live, NEW c \in live,
         heap'[c].path = heap[c].path,
         \A a \in live \ {c} : KeepsLog(a)
  PROVE  /\ heap[c].path \in Paths
         /\ logs[heap[c].path] = View(heap[c].events)
         /\ logs' = [logs EXCEPT ![heap[c].path] = View(heap'[c].events)]
<1> DEFINE p == heap[c].path
<1>1. PathsOnce /\ PathsOnce' /\ p \in Paths
  BY DEF TInv, SInv, IInv, NamesOK
<1>2. LogOf(p) = View(heap[c].events)
  BY <1>1, LogIs
<1>3. LogOf(p)' = View(heap'[c].events)
  BY <1>1, NextLogIs
<1>4. ASSUME NEW q \in Paths, q # p PROVE LogOf(q)' = LogOf(q)
  BY <1>4, SameLog DEF KeepsLog
<1>5. QED BY <1>1, <1>2, <1>3, <1>4 DEF logs

\* The ACK of a target begins the log of its path.
LEMMA EventInitWatch ==
  ASSUME TInv, TInv', EventInit PROVE W!WatchNext
<1> DEFINE p == Top.path
           e == AckEvent(Lstat(p).st)
<1>1. IInv /\ CallsOK /\ FsTypeOK
  BY DEF TInv, SInv, IInv, RoutineTypeOK, FsTargetTypeOK
<1>2. /\ UNCHANGED fsVars
      /\ live' = live /\ Top.self \in live
      /\ heap[Top.self].events = <<>> /\ heap'[Top.self].events = <<e>>
      /\ heap'[Top.self].path = heap[Top.self].path
      /\ \A a \in live \ {Top.self} : KeepsLog(a)
  BY <1>1, EventInitLog, AddrLive DEF IInv, RoutineTypeOK
<1>3. heap[Top.self].path = p
  <2>1. frames # <<>>
    BY DEF EventInit, Running
  <2>2. Len(frames) \in DOMAIN frames /\ Top = frames[Len(frames)]
    BY <1>1, <2>1, CallShape
  <2>3. Top.self # NULL
    BY <1>1, <1>2, AddrLive DEF IInv, RoutineTypeOK
  <2>4. QED BY <1>1, <2>2, <2>3 DEF CallsOK
<1>4. Lstat(p).err = "OK" /\ Lstat(p).st = fs[p] /\ e \in Event
  <2>1. Lstat(p).err = "OK"
    BY DEF EventInit
  <2>2. Lstat(p).st = fs[p]
    BY <2>1 DEF Lstat
  <2>3. Lstat(p).st \in Stats
    BY <1>1, <2>1, LstatOK
  <2>4. QED BY <2>1, <2>2, <2>3 DEF AckEvent, Event, Masks, Buffers
<1>5. e.mask = "ACK" /\ e.st = fs[p]
  BY <1>4 DEF AckEvent
<1>6. View(<<e>>) = <<[mask |-> "ACK", st |-> fs[p]]>> /\ View(<<>>) = <<>>
  <2>1. <<>> \in Seq(Event) /\ <<e>> = Append(<<>>, e)
    OBVIOUS
  <2>2. View(<<>>) = <<>>
    BY <2>1, ViewShape
  <2> HIDE DEF e
  <2>3. View(<<e>>) = Append(View(<<>>), [mask |-> e.mask, st |-> e.st])
    BY <1>4, <2>1, ViewAppend
  <2>4. QED BY <1>5, <2>2, <2>3
<1> HIDE DEF e
<1>7. /\ p \in Paths /\ logs[p] = <<>>
      /\ logs' = [logs EXCEPT ![p] = <<[mask |-> "ACK", st |-> fs[p]]>>]
  BY <1>2, <1>3, <1>6, OneLogOf
<1>8. W!Acknowledge(p)
  <2>1. W!Lstat(p).err = "OK"
    BY <1>4, SameFileSystem
  <2>2. UNCHANGED W!fsVars
    BY <1>2 DEF W!fsVars, fsVars
  <2>3. QED BY <1>7, <2>1, <2>2 DEF W!Acknowledge, W!NotWatched
<1>9. QED BY <1>7, <1>8 DEF W!WatchNext

\* cmp_stat and target_event_detect give an event where Watch finds one.
LEMMA DetectFinds ==
  ASSUME FsTypeOK, NEW p, NEW previous \in Event, NEW last,
         last.st = previous.st,
         Detect(Lstat(p), previous) # "none"
  PROVE  [mask |-> Detect(Lstat(p), previous), st |-> Lstat(p).st]
           \in W!Finds(p, last)
<1> DEFINE r == Lstat(p)
           m == Detect(r, previous)
           e == [mask |-> m, st |-> r.st]
<1>1. /\ r.err \in {"OK", "EACCES", "ENOENT", "ENOTDIR"}
      /\ r.err = "OK" => r.st \in Stats
      /\ W!Lstat(p) = r
  BY LstatOK, SameFileSystem
<1> HIDE DEF r
<1>2. CASE r.err = "EACCES"
  <2>1. m = "FAIL"
    BY <1>2 DEF Detect
  <2>2. QED BY <1>1, <1>2, <2>1 DEF W!Finds, r
<1>3. CASE r.err \in {"ENOENT", "ENOTDIR"}
  <2>1. m = "DELETE"
    BY <1>3 DEF Detect
  <2>2. QED BY <1>1, <1>3, <2>1 DEF W!Finds, r
<1>4. CASE r.err = "OK"
  <2>1. m = CmpStat(r.st, previous.st) /\ m # "none"
    BY <1>4 DEF Detect, r
  <2>2. r.st \in Stat /\ previous.st \in Stat
    <3>1. ZeroStat \in Stat
      BY DEF ZeroStat, Stat, Mode, FileTypes
    <3>2. QED BY <1>1, <1>4, <3>1, StatsAssumption DEF Event
  <2>3. ASSUME NEW s \in Stat, NEW t \in Stat
        PROVE  /\ CmpStat(s, t) = "none" <=> s = t
               /\ CmpStat(s, t) = "OPEN" <=> s # t /\ W!Same(s, t)
               /\ CmpStat(s, t) \in {"none", "OPEN", "MODIFY"}
    BY DEF Stat, CmpStat, W!Same
  <2>4. \/ m = "OPEN" /\ r.st # last.st /\ W!Same(r.st, last.st)
        \/ m = "MODIFY" /\ r.st # last.st /\ ~W!Same(r.st, last.st)
    BY <2>1, <2>2, <2>3
  <2> HIDE DEF m
  <2>5. e \in W!Finds(p, last)
    BY <1>1, <1>4, <2>4 DEF W!Finds
  <2>6. QED BY <2>5 DEF m, r
<1>5. QED BY <1>1, <1>2, <1>3, <1>4

\* A round looks at the file whose path is in the buffer.
LEMMA TrackWatch ==
  ASSUME TInv, TInv', Track, unopened = {}, Len(Root) = 1
  PROVE  W!WatchNext \/ UNCHANGED <<fsVars, logs>>
<1> DEFINE p  == heap[Here].path
           es == heap[Here].events
           r  == Lstat(cur)
           e  == [mask |-> Detect(r, Latest(Here)), st |-> r.st,
                  path |-> "__cur_path"]
<1>1. IInv /\ WalkOK /\ FsTypeOK /\ live \subseteq Addr
  BY AddrLive DEF TInv, IInv, RoutineTypeOK, FsTargetTypeOK
<1>2. /\ UNCHANGED fsVars /\ live' = live /\ Here \in live
      /\ heap'[Here].path = p
      /\ \A a \in live \ {Here} : KeepsLog(a)
      /\ \/ KeepsLog(Here)
         \/ /\ e.mask # "none" /\ ~Full(Here)
            /\ heap'[Here].events = Append(es, e)
  BY <1>1, TrackLog
<1>3. /\ stack # <<>> /\ cur = p
  BY <1>1, TrackShape, BufferIsPath
<1>4. CASE KeepsLog(Here)
  <2>1. logs' = logs
    BY <1>2, <1>4, SameLogs
  <2>2. QED BY <1>2, <2>1
<1>5. CASE e.mask # "none" /\ ~Full(Here) /\ heap'[Here].events = Append(es, e)
  <2>1. /\ es \in Seq(Event) /\ es # <<>>
        /\ Len(es) \in Nat \ {0} /\ Len(es) <= MaxEvents /\ Len(es) # MaxEvents
        /\ Latest(Here) = es[Len(es)] /\ Latest(Here) \in Event
    <3>1. es \in Seq(Event) /\ Len(es) <= MaxEvents
      BY <1>1, <1>2 DEF IInv, RoutineTypeOK, FsTargetTypeOK, Target
    <3>2. es # <<>>
      BY DEF Track
    <3>3. Len(es) # MaxEvents
      BY <1>5 DEF Full
    <3>4. QED BY <3>1, <3>2, <3>3, LastOf DEF Latest
  <2>2. e \in Event
    BY <1>1, <1>5, LstatOK DEF Detect, CmpStat, Event, Masks, Buffers
  <2>3. /\ p \in Paths /\ logs[p] = View(es)
        /\ logs' = [logs EXCEPT ![p] = View(Append(es, e))]
    <3> HIDE DEF e
    <3> QED BY <1>2, <1>5, OneLogOf
  <2>4. View(Append(es, e)) = Append(View(es), [mask |-> e.mask, st |-> e.st])
    <3> HIDE DEF e
    <3> QED BY <2>1, <2>2, ViewAppend
  <2>5. /\ Len(View(es)) = Len(es) /\ View(es) # <<>>
        /\ View(es)[Len(es)] =
             [mask |-> Latest(Here).mask, st |-> Latest(Here).st]
    BY <2>1, ViewShape
  <2>6. [mask |-> e.mask, st |-> e.st] \in W!Finds(p, View(es)[Len(View(es))])
    BY <1>1, <1>3, <1>5, <2>1, <2>5, DetectFinds
  <2> HIDE DEF e
  <2>7. UNCHANGED W!fsVars
    BY <1>2 DEF W!fsVars, fsVars
  <2>8. Len(View(es)) < MaxEvents
    BY <2>1, <2>5, MaxEventsAssumption
  <2>9. W!Look(p)
    <3> HIDE DEF es
    <3> QED BY <2>3, <2>4, <2>5, <2>6, <2>7, <2>8 DEF W!Look, W!NotWatched
  <2>10. QED BY <2>3, <2>9 DEF W!WatchNext
<1>6. QED BY <1>2, <1>4, <1>5

LEMMA WatchStep ==
  ASSUME TInv, TInv', [Next]_vars, unopened' = {}, Len(Root) = 1
  PROVE  W!WatchNext \/ UNCHANGED <<fsVars, logs>>
<1>1. IInv /\ live \subseteq Addr
  BY AddrLive DEF TInv, IInv, RoutineTypeOK
<1>2. CASE CreateLstat
  <2>1. logs' = logs
    BY <1>1, <1>2, CreateLstatLog, SameLogs
  <2>2. QED BY <1>2, <2>1 DEF CreateLstat
<1>3. CASE EventInit
  BY <1>3, EventInitWatch
<1>4. CASE EventInitFail \/ OpenDirFail
  <2>1. logs' = logs /\ UNCHANGED fsVars
    BY <1>1, <1>4, FailLog, SameLogs
  <2>2. QED BY <2>1
<1>5. CASE \/ OpenDir \/ ReadDir \/ EndDir \/ OtherProcesses
           \/ StartRound \/ ObserveChild \/ LeaveUnknown \/ UNCHANGED vars
  <2>1. live' = live /\ \A a \in live : KeepsLog(a)
    BY <1>1, <1>5, QuietLog
  <2>2. logs' = logs
    BY <2>1, SameLogs
  <2>3. CASE OtherProcesses
    <3>1. W!FsChange
      BY <2>3, SameFileSystem DEF OtherProcesses
    <3>2. QED BY <2>2, <3>1 DEF W!WatchNext
  <2>4. CASE UNCHANGED fsVars
    BY <2>2, <2>4
  <2>5. QED BY <1>1, <1>5, <2>3, <2>4, QuietLog
<1>6. CASE Track
  <2>1. unopened = {}
    BY <1>1, <1>6, TrackLog
  <2>2. QED BY <1>6, <2>1, TrackWatch
<1>7. QED
  BY <1>2, <1>3, <1>4, <1>5, <1>6 DEF Next, CreateNext, Create, Walk

LEMMA WatchBegins == Init => W!WatchInit
<1> SUFFICES ASSUME Init PROVE W!WatchInit
  OBVIOUS
<1>1. live = {} /\ FsInit
  BY DEF Init, CreateInit, TargetInit
<1>2. logs = [p \in Paths |-> <<>>]
  BY <1>1 DEF logs, LogOf
<1>3. QED BY <1>1, <1>2, SameFileSystem DEF W!WatchInit, W!NotWatched

\* The snapshot and its rounds implement Watch, for every tree and whatever
\* the other processes do to it, when the file of the command line is named
\* without a directory and as long as every directory could be opened: a log
\* begins with the record of its file, and a round adds to it exactly the
\* event that a look at this file finds.
THEOREM WatchesTreeHolds ==
  ASSUME Len(Root) = 1 PROVE Spec => WatchesTree
<1>1. TInv /\ TInv' /\ [Next]_vars
        => [unopened' = {} => W!WatchNext]_<<fsVars, logs>>
  BY WatchStep
<1>2. QED BY <1>1, TreeInvariance, WatchBegins, PTL DEF Spec, WatchesTree

-----------------------------------------------------------------------------
(* fs_target_create by itself: the snapshot and the rounds, of which none  *)
(* ever begins.                                                            *)

T == INSTANCE TreeProofs
       WITH stack <- <<>>, cur <- <<>>, out <- {}, crashed <- FALSE,
            MaxEvents <- 1

-----------------------------------------------------------------------------
(* The two modules speak of the same program.                              *)

LEMMA SameData ==
  /\ T!NULL = NULL /\ T!Addr = Addr /\ T!ZeroStat = ZeroStat
  /\ T!Target = Target /\ T!Frame = Frame /\ T!ZeroTarget = ZeroTarget
  /\ T!FileTypes = FileTypes /\ T!Masks = Masks
  /\ \A p : /\ T!NewFrame(p) = NewFrame(p) /\ T!Parent(p) = Parent(p)
            /\ \A st : T!SetInfo(p, st) = SetInfo(p, st)
  /\ \A st : T!FiletypeOf(st) = FiletypeOf(st)
<1>1. T!NULL = NULL /\ T!Addr = Addr /\ T!ZeroStat = ZeroStat
  BY DEF T!NULL, NULL, T!Addr, Addr, T!ZeroStat, ZeroStat
<1>2. T!FileTypes = FileTypes /\ T!Masks = Masks /\ T!Names = Names
      /\ T!Buffers = Buffers
  BY DEF T!FileTypes, FileTypes, T!Masks, Masks, T!Names, Names,
         T!Buffers, Buffers
<1>3. T!Event = Event
  BY <1>1, <1>2 DEF T!Event, Event
<1>4. T!Target = Target /\ T!Frame = Frame /\ T!ZeroTarget = ZeroTarget
  BY <1>1, <1>2, <1>3
     DEF T!Target, Target, T!Frame, Frame, T!ZeroTarget, ZeroTarget
<1>5. \A st : T!FiletypeOf(st) = FiletypeOf(st)
  BY DEF T!FiletypeOf, FiletypeOf
<1>6. \A p : /\ T!NewFrame(p) = NewFrame(p) /\ T!Parent(p) = Parent(p)
             /\ \A st : T!SetInfo(p, st) = SetInfo(p, st)
  BY <1>1, <1>5
     DEF T!NewFrame, NewFrame, T!Parent, Parent, T!SetInfo, SetInfo
<1>7. QED BY <1>1, <1>2, <1>4, <1>5, <1>6

LEMMA SameCalls ==
  /\ \A p : /\ T!Exists(p) = Exists(p) /\ T!IsDir(p) = IsDir(p)
            /\ T!Entries(p) = Entries(p) /\ T!Lstat(p) = Lstat(p)
            /\ T!CanOpenDir(p) = CanOpenDir(p)
  /\ T!Kept = Kept
<1>1. \A p : T!Exists(p) = Exists(p)
  BY SameData DEF T!Exists, Exists
<1>2. \A p : T!IsDir(p) = IsDir(p)
  BY <1>1 DEF T!IsDir, IsDir
<1>3. \A p : T!Entries(p) = Entries(p)
  BY <1>1, SameData DEF T!Entries, Entries
<1>4. \A p : T!Blocks(p) = Blocks(p)
  BY <1>2 DEF T!Blocks, Blocks
<1>5. \A p : T!Lstat(p) = Lstat(p)
  BY <1>1, <1>2, <1>4, SameData DEF T!Lstat, Lstat
<1>6. \A p : T!CanOpenDir(p) = CanOpenDir(p)
  BY <1>2, <1>5 DEF T!CanOpenDir, CanOpenDir
<1>7. T!Kept = Kept
  BY <1>2, <1>5, <1>6 DEF T!Kept, Kept
<1>8. QED BY <1>1, <1>2, <1>3, <1>5, <1>6, <1>7

LEMMA SameStack ==
  /\ T!Top = Top /\ T!PopFrame = PopFrame /\ T!Malloc = Malloc
  /\ \A s : T!Running(s) = Running(s)
  /\ \A f : T!SetTop(f) = SetTop(f) /\ T!NextEntries(f) = NextEntries(f)
  /\ \A a, h : T!Return(a, h) = Return(a, h)
  /\ \A st : T!AckEvent(st) = AckEvent(st)
<1>1. T!Top = Top /\ T!PopFrame = PopFrame
  BY DEF T!Top, Top, T!PopFrame, PopFrame
<1>2. \A s : T!Running(s) = Running(s)
  BY <1>1 DEF T!Running, Running
<1>3. \A f : T!SetTop(f) = SetTop(f) /\ T!NextEntries(f) = NextEntries(f)
  BY SameCalls DEF T!SetTop, SetTop, T!NextEntries, NextEntries
<1>4. \A a, h : T!Return(a, h) = Return(a, h)
  BY <1>1, SameData DEF T!Return, Return
<1>5. T!Malloc = Malloc /\ \A st : T!AckEvent(st) = AckEvent(st)
  BY SameData DEF T!Malloc, Malloc, T!AckEvent, AckEvent
<1>6. QED BY <1>1, <1>2, <1>3, <1>4, <1>5

LEMMA SameChange == T!FsChange <=> FsChange
<1>1. \A st, new : T!SameFile(st, new) = SameFile(st, new)
  BY DEF T!SameFile, SameFile
<1>2. \A p, st : T!WithEntry(p, st) = WithEntry(p, st)
  BY <1>1, SameData DEF T!WithEntry, WithEntry
<1>3. \A p : T!CreateFile(p) <=> CreateFile(p)
  BY <1>2, SameData, SameCalls DEF T!CreateFile, CreateFile
<1>4. \A p : T!RemoveFile(p) <=> RemoveFile(p)
  BY <1>2, SameData, SameCalls DEF T!RemoveFile, RemoveFile
<1>5. \A p : T!ModifyFile(p) <=> ModifyFile(p)
  BY <1>1, SameCalls DEF T!ModifyFile, ModifyFile
<1>6. QED BY <1>3, <1>4, <1>5 DEF T!FsChange, FsChange

LEMMA SameCreate == Create => T!Create
<1> USE SameData, SameCalls, SameStack
        DEF T!fsVars, fsVars, T!heapVars, heapVars
<1>1. CreateLstat => T!CreateLstat
  BY DEF CreateLstat, T!CreateLstat
<1>2. EventInit => T!EventInit
  BY DEF EventInit, T!EventInit
<1>3. EventInitFail => T!EventInitFail
  BY DEF EventInitFail, T!EventInitFail
<1>4. OpenDir => T!OpenDir
  BY DEF OpenDir, T!OpenDir
<1>5. OpenDirFail => T!OpenDirFail
  BY DEF OpenDirFail, T!OpenDirFail
<1>6. ReadDir => T!ReadDir
  BY DEF ReadDir, T!ReadDir
<1>7. EndDir => T!EndDir
  BY DEF EndDir, T!EndDir
<1>8. QED
  BY <1>1, <1>2, <1>3, <1>4, <1>5, <1>6, <1>7 DEF Create, T!Create

LEMMA SameStep ==
  ASSUME [CreateNext]_<<fsVars, targetVars>>
  PROVE  /\ [T!CreateNext]_<<T!fsVars, T!targetVars>>
         /\ [T!Next]_(T!vars)
<1>1. UNCHANGED T!walkVars
  BY DEF T!walkVars
<1>2. CASE Create
  BY <1>1, <1>2, SameCreate DEF T!CreateNext, T!Next
<1>3. CASE OtherProcesses
  <2>1. T!OtherProcesses
    BY <1>3, SameChange DEF OtherProcesses, T!OtherProcesses, targetVars,
                            T!targetVars
  <2>2. QED BY <1>1, <2>1 DEF T!CreateNext, T!Next
<1>4. CASE UNCHANGED <<fsVars, targetVars>>
  BY <1>1, <1>4 DEF fsVars, T!fsVars, targetVars, T!targetVars, T!vars
<1>5. QED BY <1>2, <1>3, <1>4 DEF CreateNext

LEMMA SameInit == CreateInit => T!Init
<1>1. FsInit => T!FsInit
  BY SameData DEF FsInit, T!FsInit, WellFormed, T!WellFormed
<1>2. TargetInit => T!TargetInit
  BY SameData DEF TargetInit, T!TargetInit
<1>3. QED BY <1>1, <1>2 DEF CreateInit, T!CreateInit, T!Init

\* The constants of the instance are as its assumptions want them.
LEMMA SameAssumptions ==
  /\ T!PathsAssumption /\ T!StatsAssumption /\ T!MaxChangesAssumption
  /\ T!RootAssumption /\ T!MaxTargetsAssumption /\ T!MaxEventsAssumption
<1>1. T!Stat = Stat
  <2>1. T!Mode = Mode
    BY SameData DEF T!Mode, Mode
  <2>2. QED BY <2>1 DEF T!Stat, Stat
<1>2. T!PathsAssumption /\ T!MaxChangesAssumption
      /\ T!RootAssumption /\ T!MaxTargetsAssumption
  BY PathsAssumption, MaxChangesAssumption, RootAssumption,
     MaxTargetsAssumption
     DEF T!PathsAssumption, T!MaxChangesAssumption,
         T!RootAssumption, T!MaxTargetsAssumption
<1>3. T!StatsAssumption
  BY <1>1, StatsAssumption DEF T!StatsAssumption
<1>4. T!MaxEventsAssumption
  BY DEF T!MaxEventsAssumption
<1>5. QED BY <1>2, <1>3, <1>4

-----------------------------------------------------------------------------
(* The theorems.                                                           *)

\* The invariant of the snapshot and the rounds, with what the targets say of
\* the files as long as these stay as they are.
CInv == T!TInv /\ T!AsIs

LEMMA CreateInvariance == CreateSpec => []CInv
<1>1. CreateInit => CInv
  BY SameInit, SameAssumptions, T!TreeInit, T!AsIsInit DEF CInv
<1>2. CInv /\ [CreateNext]_<<fsVars, targetVars>> => CInv'
  BY SameStep, SameAssumptions, T!TreeNext, T!AsIsKept
     DEF CInv, T!TInv
<1>3. QED BY <1>1, <1>2, PTL DEF CreateSpec

\* The heap, the call stack and the result keep their types: no NULL gets into
\* a children array (fs_target_children_push), each address is malloc's.
THEOREM FsTargetTypeCorrect == CreateSpec => []FsTargetTypeOK
<1>1. CInv => FsTargetTypeOK
  <2>1. CInv => T!FsTargetTypeOK
    BY DEF CInv, T!TInv, T!IInv, T!RoutineTypeOK
  <2>2. T!FsTargetTypeOK => FsTargetTypeOK
    BY SameData DEF T!FsTargetTypeOK, FsTargetTypeOK, T!FsTypeOK, FsTypeOK
  <2>3. QED BY <2>1, <2>2
<1>2. QED BY <1>1, CreateInvariance, PTL

\* When nobody changes the tree, fs_target_create returns with one target for
\* each file it can reach whose directories it can open, itself included, with
\* the type and the record of the file; where every directory opened, in the
\* children array of its directory's target.
THEOREM SnapshotCompleteHolds == CreateSpec => []SnapshotComplete
<1>1. CInv => SnapshotComplete
  <2>1. CInv => T!SnapshotComplete
    BY SameAssumptions, T!AsIsComplete DEF CInv, T!TInv
  <2>2. T!SnapshotComplete => SnapshotComplete
    <3>1. /\ T!Kept = Kept
          /\ \A p : T!Entries(p) = Entries(p)
          /\ \A st : T!FiletypeOf(st) = FiletypeOf(st)
      BY SameData, SameCalls
    <3>2. ASSUME NEW a \in live
          PROVE  T!Entries(heap[a].path) = Entries(heap[a].path)
      BY <3>1
    <3>3. SUFFICES ASSUME T!SnapshotComplete, frames = <<>>, changes = 0
                   PROVE  SnapshotComplete
      BY DEF SnapshotComplete
    <3>4. {heap[a].path : a \in live} = Kept /\ Cardinality(live) = Cardinality(Kept)
      <4>1. {heap[a].path : a \in live} = T!Kept
        BY <3>3 DEF T!SnapshotComplete
      <4>2. Cardinality(live) = Cardinality(T!Kept)
        BY <3>3 DEF T!SnapshotComplete, T!Cardinality, Cardinality
      <4>3. QED BY <3>1, <4>1, <4>2
    <3>5. ASSUME NEW a \in live
          PROVE  LET p == heap[a].path
                     kids == {c \in live : \E i \in DOMAIN heap[a].children :
                                             heap[a].children[i] = c}
                 IN  /\ heap[a].type = FiletypeOf(fs[p])
                     /\ Len(heap[a].events) = 1
                     /\ heap[a].events[1].st = fs[p]
                     /\ unopened = {} =>
                          {heap[c].path : c \in kids} = Kept \cap Entries(p)
      BY <3>1, <3>2, <3>3 DEF T!SnapshotComplete
    <3>6. QED BY <3>4, <3>5 DEF SnapshotComplete
  <2>3. QED BY <2>1, <2>2
<1>2. QED BY <1>1, CreateInvariance, PTL
=============================================================================
