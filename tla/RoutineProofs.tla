---------------------------- MODULE RoutineProofs ----------------------------
(***************************************************************************)
(* Theorems about Routine, and about FsTarget inside it, for every tree,   *)
(* every number of changes and every capacity of the event arrays.         *)
(***************************************************************************)
EXTENDS Routine, SequenceTheorems, TLAPS

-----------------------------------------------------------------------------
(* The inductive invariant.                                                *)

Callers == 1..(Len(frames) - 1)

\* The call stack of fs_target_create.  The calls below the innermost are in
\* their readdir loops and own live targets, all different; the innermost owns
\* another one after its first step, without events until event_init is done.
FramesOK ==
  /\ \A n \in Callers : frames[n].pc = "readdir" /\ frames[n].self \in live
  /\ \A m, n \in Callers : m # n => frames[m].self # frames[n].self
  /\ frames # <<>> =>
       IF Top.pc = "lstat" THEN Top.self = NULL
       ELSE /\ Top.self \in live
            /\ \A n \in Callers : frames[n].self # Top.self
            /\ Top.pc = "event_init" => heap[Top.self].events = <<>>

\* EventsFollowInit, where only the innermost call can be in event_init.
EventsOK ==
  \A a \in live :
    heap[a].events = <<>> =>
      frames # <<>> /\ Top.pc = "event_init" /\ Top.self = a

\* A live target has the name of the file it was made for.
NamesOK ==
  \A a \in live : /\ heap[a].path \in Paths
                  /\ heap[a].name = heap[a].path[Len(heap[a].path)]

\* The walk runs when the snapshot is taken, not before.
WalkAfterCreate == stack # <<>> => frames = <<>>

IInv == /\ RoutineTypeOK
        /\ FramesOK
        /\ EventsOK
        /\ NamesOK
        /\ WalkAfterCreate
        /\ EventChain

-----------------------------------------------------------------------------
(* The file system.                                                        *)

LEMMA ZeroIsNoStat == ZeroStat \notin Stats
BY StatsAssumption DEF ZeroStat

\* What lstat returns.
LEMMA LstatOK ==
  ASSUME FsTypeOK, NEW p
  PROVE  /\ Lstat(p).err \in {"OK", "EACCES", "ENOENT", "ENOTDIR"}
         /\ Lstat(p).err = "OK" => Lstat(p).st \in Stats
         /\ Lstat(p).err # "OK" => Lstat(p).st = ZeroStat
BY DEF Lstat, Exists, FsTypeOK

LEMMA FsChangeOK ==
  ASSUME FsTypeOK, FsChange PROVE FsTypeOK'
<1>1. PICK p \in Volatile : CreateFile(p) \/ RemoveFile(p) \/ ModifyFile(p)
  BY DEF FsChange
<1>2. p \in Paths
  BY PathsAssumption
<1>3. ASSUME NEW st \in Stats \cup {ZeroStat}, fs' \in WithEntry(p, st)
      PROVE  fs' \in [Paths -> Stats \cup {ZeroStat}]
  BY <1>2, <1>3 DEF WithEntry, FsTypeOK
<1>4. fs' \in [Paths -> Stats \cup {ZeroStat}]
  <2>1. CASE CreateFile(p)
    BY <2>1, <1>3 DEF CreateFile
  <2>2. CASE RemoveFile(p)
    BY <2>2, <1>3 DEF RemoveFile
  <2>3. CASE ModifyFile(p)
    BY <2>3, <1>2 DEF ModifyFile, FsTypeOK
  <2>4. QED BY <1>1, <2>1, <2>2, <2>3
<1>5. changes' \in 0..MaxChanges
  BY MaxChangesAssumption DEF FsChange, FsTypeOK
<1>6. QED BY <1>4, <1>5 DEF FsTypeOK
-----------------------------------------------------------------------------
(* The call stack.                                                         *)

LEMMA LastOf ==
  ASSUME NEW S, NEW s \in Seq(S), s # <<>>
  PROVE  Len(s) \in Nat \ {0} /\ DOMAIN s = 1..Len(s) /\ s[Len(s)] \in S
BY EmptySeq, LenProperties, ElementOfSeq

LEMMA DropLast ==
  ASSUME NEW S, NEW s \in Seq(S), s # <<>>
  PROVE  LET t == SubSeq(s, 1, Len(s) - 1)
         IN  /\ t \in Seq(S)
             /\ Len(t) = Len(s) - 1 /\ DOMAIN t = 1..(Len(s) - 1)
             /\ \A n \in 1..(Len(s) - 1) : t[n] = s[n]
<1>1. /\ Len(s) \in Nat \ {0} /\ Len(s) - 1 \in 0..Len(s)
      /\ DOMAIN s = 1..Len(s)
  BY EmptySeq, LenProperties
<1> DEFINE m == Len(s) - 1
           t == SubSeq(s, 1, m)
<1>2. m \in Nat /\ m \in 0..Len(s) /\ 1..m \subseteq 1..Len(s)
  BY <1>1
<1>3. t = [n \in 1..m |-> s[n]]
  BY <1>2, SubSeqRestrict DEF Restrict
<1>4. \A n \in 1..m : s[n] \in S
  BY <1>2, ElementOfSeq
<1>5. t \in Seq(S) /\ Len(t) = m
  <2> HIDE DEF m
  <2>1. [n \in 1..m |-> s[n]] \in Seq(S)
    BY <1>2, <1>4, IsASeq
  <2>2. QED BY <1>2, <1>3, <2>1, LenProperties
<1>6. QED BY <1>3, <1>5

LEMMA FramesShape ==
  ASSUME FsTargetTypeOK, frames # <<>>
  PROVE  /\ Len(frames) \in Nat \ {0} /\ DOMAIN frames = 1..Len(frames)
         /\ Top \in Frame
         /\ Top = frames[Len(frames)]
BY LenProperties, ElementOfSeq, EmptySeq DEF FsTargetTypeOK, Top

LEMMA SetTopShape ==
  ASSUME FsTargetTypeOK, frames # <<>>, NEW f \in Frame
  PROVE  /\ SetTop(f) \in Seq(Frame)
         /\ DOMAIN SetTop(f) = 1..Len(frames) /\ Len(SetTop(f)) = Len(frames)
         /\ SetTop(f)[Len(frames)] = f
         /\ \A n \in 1..(Len(frames) - 1) : SetTop(f)[n] = frames[n]
<1>1. Len(frames) \in Nat \ {0} /\ Len(frames) \in 1..Len(frames)
  BY FramesShape
<1>2. frames \in Seq(Frame)
  BY DEF FsTargetTypeOK
<1>3. QED
  BY <1>1, <1>2, ExceptSeq DEF SetTop

LEMMA PopShape ==
  ASSUME FsTargetTypeOK, frames # <<>>
  PROVE  /\ PopFrame \in Seq(Frame)
         /\ Len(PopFrame) = Len(frames) - 1
         /\ DOMAIN PopFrame = 1..(Len(frames) - 1)
         /\ \A n \in 1..(Len(frames) - 1) : PopFrame[n] = frames[n]
BY FramesShape, DropLast DEF FsTargetTypeOK, PopFrame

\* A running call is on the stack, and then the walk has not begun.
LEMMA RunningShape ==
  ASSUME IInv, NEW s \in {"lstat", "event_init", "opendir", "readdir"},
         Running(s)
  PROVE  /\ frames # <<>> /\ stack = <<>>
         /\ s = "lstat" => Top.self = NULL
         /\ s # "lstat" => Top.self \in live /\ Top.self \in Addr
         /\ s = "event_init" => heap[Top.self].events = <<>>
<1>1. frames \in Seq(Frame) /\ Len(frames) > 0
  BY DEF IInv, RoutineTypeOK, FsTargetTypeOK, Running
<1>2. frames # <<>>
  BY <1>1, LenProperties
<1>3. live \subseteq Addr
  BY MaxTargetsAssumption
     DEF IInv, RoutineTypeOK, FsTargetTypeOK, Addr
<1>4. QED
  BY <1>2, <1>3 DEF IInv, WalkAfterCreate, FramesOK, Running

-----------------------------------------------------------------------------
(* The steps of fs_target_create.                                          *)

LEMMA AddrLive ==
  ASSUME FsTargetTypeOK PROVE live \subseteq Addr /\ NULL \notin Addr
BY MaxTargetsAssumption DEF FsTargetTypeOK, Addr, NULL

LEMMA ZeroTargetOK ==
  ZeroTarget \in Target /\ Len(ZeroTarget.events) = 0
BY EmptySeq DEF ZeroTarget, Target, FileTypes

\* What a step that only fills a children array leaves of a target.
SameFields(t, u) == t.events = u.events /\ t.name = u.name /\ t.path = u.path

\* return (a) keeps the types and these fields.
LEMMA ReturnOK ==
  ASSUME IInv, frames # <<>>, NEW a \in Addr \cup {NULL},
         NEW h \in [Addr -> Target], Return(a, h)
  PROVE  /\ heap' \in [Addr -> Target]
         /\ \A x \in Addr : SameFields(heap'[x], h[x])
         /\ result' \in Addr \cup {NULL}
         /\ frames' = PopFrame
<1>1. CASE Len(frames) = 1
  BY <1>1 DEF Return, SameFields
<1>2. CASE Len(frames) # 1
  <2>1. Len(frames) \in Nat \ {0} /\ DOMAIN frames = 1..Len(frames)
    BY FramesShape DEF IInv, RoutineTypeOK
  <2>2. Len(frames) - 1 \in Callers
    BY <1>2, <2>1 DEF Callers
  <2> DEFINE parent == frames[Len(frames) - 1].self
  <2>3. frames[Len(frames) - 1].pc = "readdir"
    BY <2>1, <2>2 DEF IInv, FramesOK
  <2>4. parent \in Addr
    BY <2>2, <2>3, AddrLive DEF IInv, FramesOK, RoutineTypeOK
  <2>5. /\ heap' = IF a = NULL THEN h
                   ELSE [h EXCEPT ![parent].children = Append(@, a)]
        /\ result' = result /\ frames' = PopFrame
    BY <1>2 DEF Return
  <2>6. CASE a = NULL
    BY <2>5, <2>6 DEF SameFields, IInv, RoutineTypeOK, FsTargetTypeOK
  <2>7. CASE a # NULL
    <3> HIDE DEF parent
    <3> DEFINE t == [h[parent] EXCEPT !.children = Append(@, a)]
    <3>1. h[parent] \in Target /\ h[parent].children \in Seq(Addr)
      BY <2>4 DEF Target
    <3>2. Append(h[parent].children, a) \in Seq(Addr)
      BY <2>7, <3>1, AppendProperties
    <3>3. t \in Target /\ SameFields(t, h[parent])
      BY <3>1, <3>2 DEF Target, SameFields
    <3>4. heap' = [h EXCEPT ![parent] = t]
      BY <2>5, <2>7
    <3>5. heap' \in [Addr -> Target]
      BY <2>4, <3>3, <3>4
    <3>6. \A x \in Addr : SameFields(heap'[x], h[x])
      BY <2>4, <3>3, <3>4 DEF SameFields
    <3>7. QED
      BY <2>5, <3>5, <3>6 DEF IInv, RoutineTypeOK, FsTargetTypeOK
  <2>8. QED BY <2>6, <2>7
<1>3. QED BY <1>1, <1>2

\* When a call returns, the calls that remain stay as they were.
LEMMA PopOK ==
  ASSUME IInv, frames # <<>>, frames' = PopFrame,
         live \ {Top.self} \subseteq live',
         Top.pc = "lstat" => live \subseteq live'
  PROVE  FramesOK' /\ frames' \in Seq(Frame)
<1>1. /\ Len(frames) \in Nat \ {0}
      /\ frames' \in Seq(Frame) /\ Len(frames') = Len(frames) - 1
      /\ DOMAIN frames' = Callers
      /\ \A n \in Callers : frames'[n] = frames[n]
  BY FramesShape, PopShape DEF IInv, RoutineTypeOK, Callers
<1>2. Callers' \subseteq Callers
  BY <1>1 DEF Callers
<1>3. \A n \in Callers : frames'[n].pc = "readdir" /\ frames'[n].self \in live'
  BY <1>1 DEF IInv, FramesOK
<1>4. \A m, n \in Callers : m # n => frames'[m].self # frames'[n].self
  BY <1>1 DEF IInv, FramesOK
<1>5. CASE frames' = <<>>
  BY <1>1, <1>2, <1>3, <1>4, <1>5 DEF FramesOK
<1>6. CASE frames' # <<>>
  <2>1. Len(frames') \in Nat \ {0} /\ Len(frames') \in Callers
    BY <1>1, <1>6, EmptySeq DEF Callers
  <2>2. \A n \in Callers' : n \in Callers /\ n # Len(frames')
    BY <1>1, <2>1 DEF Callers
  <2>3. Top'.pc = "readdir" /\ Top'.self \in live'
    BY <1>3, <2>1 DEF Top
  <2>4. \A n \in Callers' : frames'[n].self # Top'.self
    BY <1>4, <2>1, <2>2 DEF Top
  <2>5. QED
    BY <1>1, <1>2, <1>3, <1>4, <2>3, <2>4 DEF FramesOK
<1>7. QED BY <1>1, <1>5, <1>6

\* When the innermost call goes on, with a live target that was its own or
\* was not live, the calls below it stay as they were.
LEMMA SetTopOK ==
  ASSUME IInv, frames # <<>>, NEW f \in Frame, frames' = SetTop(f),
         live \subseteq live', f.self \in live', f.pc # "lstat",
         \/ f.self \notin live
         \/ f.self = Top.self /\ Top.pc # "lstat",
         f.pc = "event_init" => heap'[f.self].events = <<>>
  PROVE  FramesOK' /\ frames' \in Seq(Frame) /\ frames' # <<>> /\ Top' = f
<1>1. /\ Len(frames) \in Nat \ {0}
      /\ frames' \in Seq(Frame) /\ Len(frames') = Len(frames)
      /\ frames'[Len(frames)] = f
      /\ \A n \in Callers : frames'[n] = frames[n]
  BY FramesShape, SetTopShape DEF IInv, RoutineTypeOK, Callers
<1>2. Callers' = Callers /\ Top' = f /\ frames' # <<>>
  BY <1>1, EmptySeq DEF Callers, Top
<1>3. \A n \in Callers : frames[n].self \in live
  BY DEF IInv, FramesOK
<1>4. \A n \in Callers : frames[n].self # f.self
  BY <1>3 DEF IInv, FramesOK
<1>5. QED BY <1>1, <1>2, <1>3, <1>4 DEF FramesOK, IInv

\* What the walk needs of a step that it does not take part in.
LEMMA WalkIdle ==
  ASSUME IInv, UNCHANGED walkVars, stack = <<>>, FsTargetTypeOK',
         \A a \in Addr : Len(heap'[a].events) <= MaxEvents
  PROVE  RoutineTypeOK' /\ WalkAfterCreate'
<1>1. stack' \in Seq([t : live', i : Nat])
  BY EmptySeq DEF walkVars
<1>2. QED
  BY <1>1 DEF IInv, RoutineTypeOK, WalkAfterCreate, walkVars

LEMMA CreateLstatOK ==
  ASSUME IInv, CreateLstat, UNCHANGED walkVars PROVE IInv'
<1>1. PICK a \in Malloc :
        /\ heap'   = [heap EXCEPT ![a] = SetInfo(Top.path, Lstat(Top.path).st)]
        /\ live'   = live \cup {a}
        /\ brk'    = IF a > brk THEN a ELSE brk
        /\ frames' = SetTop([Top EXCEPT !.pc = "event_init", !.self = a])
  BY DEF CreateLstat
<1>2. frames # <<>> /\ stack = <<>> /\ FsTargetTypeOK /\ Top.pc = "lstat"
  BY RunningShape DEF CreateLstat, IInv, RoutineTypeOK, Running
<1>3. /\ Len(frames) \in Nat \ {0} /\ DOMAIN frames = 1..Len(frames)
      /\ Top \in Frame /\ Top = frames[Len(frames)]
  BY <1>2, FramesShape
<1>4. a \in Addr /\ a \notin live /\ a \in 1..brk' /\ brk' \in 0..MaxTargets
      /\ live' \subseteq 1..brk'
  BY <1>1, <1>2, MaxTargetsAssumption DEF Malloc, Addr, FsTargetTypeOK
<1> DEFINE t == SetInfo(Top.path, Lstat(Top.path).st)
<1>5. /\ t \in Target /\ t.events = <<>>
      /\ t.path \in Paths /\ t.name = t.path[Len(t.path)]
  <2>1. Top.path \in Paths /\ Lstat(Top.path).st \in Stats \cup {ZeroStat}
    BY <1>2, <1>3, LstatOK DEF Frame, FsTargetTypeOK
  <2>2. Lstat(Top.path).st.mode.type \in FileTypes
    BY <2>1, StatsAssumption DEF Stat, Mode, ZeroStat, FileTypes
  <2>3. <<>> \in Seq(Event) /\ <<>> \in Seq(Addr)
    BY EmptySeq
  <2>4. Top.path[Len(Top.path)] \in Names
    BY <2>1 DEF Names
  <2>5. QED
    BY <2>1, <2>2, <2>3, <2>4 DEF Target, SetInfo, FiletypeOf
<1>6. heap' \in [Addr -> Target] /\ heap'[a] = t
      /\ \A x \in Addr \ {a} : heap'[x] = heap[x]
  BY <1>1, <1>2, <1>4, <1>5 DEF FsTargetTypeOK
<1> DEFINE f == [Top EXCEPT !.pc = "event_init", !.self = a]
<1>7. f \in Frame /\ f.pc = "event_init" /\ f.self = a
  BY <1>3, <1>4 DEF Frame
<1>8. FramesOK' /\ frames' \in Seq(Frame) /\ frames' # <<>> /\ Top' = f
  <2>1. live \subseteq live' /\ f.self \in live' /\ f.self \notin live
    BY <1>1, <1>4, <1>7
  <2>2. heap'[f.self].events = <<>> /\ f.pc # "lstat"
    BY <1>5, <1>6, <1>7
  <2>3. QED BY <1>1, <1>2, <1>7, <2>1, <2>2, SetTopOK
<1>9. FsTargetTypeOK'
  BY <1>2, <1>4, <1>6, <1>8
     DEF CreateLstat, FsTargetTypeOK, FsTypeOK, fsVars
<1>10. RoutineTypeOK' /\ WalkAfterCreate'
  <2>1. Len(heap'[a].events) = 0
    BY <1>5, <1>6, EmptySeq
  <2>2. \A x \in Addr : Len(heap'[x].events) <= MaxEvents
    BY <1>4, <1>6, <2>1, MaxEventsAssumption DEF IInv, RoutineTypeOK
  <2>3. QED BY <1>2, <1>9, <2>2, WalkIdle
<1>11. EventsOK'
  BY <1>1, <1>2, <1>4, <1>6, <1>7, <1>8, AddrLive DEF EventsOK, IInv
<1>12. EventChain'
  <2>1. Chained(heap'[a].events)
    BY <1>5, <1>6 DEF Chained
  <2>2. \A x \in live : heap'[x] = heap[x]
    BY <1>2, <1>4, <1>6, AddrLive
  <2>3. QED BY <1>1, <2>1, <2>2 DEF EventChain, IInv
<1>13. NamesOK'
  BY <1>1, <1>2, <1>4, <1>5, <1>6, AddrLive DEF NamesOK, IInv
<1>14. QED BY <1>8, <1>10, <1>11, <1>12, <1>13 DEF IInv

\* The steps that change no event, name or path.
LEMMA SameTargets ==
  ASSUME IInv, live' \subseteq live,
         \A x \in live' : SameFields(heap'[x], heap[x])
  PROVE  EventChain' /\ NamesOK'
BY DEF IInv, EventChain, NamesOK, SameFields

LEMMA EventInitFailOK ==
  ASSUME IInv, EventInitFail, UNCHANGED walkVars PROVE IInv'
<1>1. frames # <<>> /\ stack = <<>> /\ FsTargetTypeOK
      /\ Top.self \in live /\ Top.pc = "event_init"
  BY RunningShape DEF EventInitFail, IInv, RoutineTypeOK, Running
<1>2. Return(NULL, heap) /\ live' = live \ {Top.self}
      /\ heap \in [Addr -> Target]
  BY <1>1 DEF EventInitFail, FsTargetTypeOK
<1>3. /\ heap' \in [Addr -> Target]
      /\ \A x \in Addr : SameFields(heap'[x], heap[x])
      /\ result' \in Addr \cup {NULL} /\ frames' = PopFrame
  BY <1>1, <1>2, ReturnOK
<1>4. FramesOK' /\ frames' \in Seq(Frame)
  BY <1>1, <1>2, <1>3, PopOK
<1>5. FsTargetTypeOK'
  BY <1>1, <1>2, <1>3, <1>4
     DEF EventInitFail, FsTargetTypeOK, FsTypeOK, fsVars
<1>6. RoutineTypeOK' /\ WalkAfterCreate'
  BY <1>1, <1>3, <1>5, WalkIdle DEF IInv, RoutineTypeOK, SameFields
<1>7. EventsOK'
  BY <1>1, <1>2, <1>3, AddrLive DEF EventsOK, IInv, SameFields
<1>8. EventChain' /\ NamesOK'
  BY <1>1, <1>2, <1>3, AddrLive, SameTargets
<1>9. QED BY <1>4, <1>6, <1>7, <1>8 DEF IInv

LEMMA EventInitOK ==
  ASSUME IInv, EventInit, UNCHANGED walkVars PROVE IInv'
<1>1. frames # <<>> /\ stack = <<>> /\ FsTargetTypeOK
      /\ Top.self \in live /\ Top.self \in Addr /\ Top.pc = "event_init"
      /\ heap[Top.self].events = <<>>
  BY RunningShape DEF EventInit, IInv, RoutineTypeOK, Running
<1>2. /\ Len(frames) \in Nat \ {0} /\ Top \in Frame
  BY <1>1, FramesShape
<1> DEFINE st == Lstat(Top.path).st
           e  == AckEvent(st)
           t  == [heap[Top.self] EXCEPT !.events = Append(@, e)]
           h  == [heap EXCEPT ![Top.self] = t]
<1>3. st \in Stats /\ st # ZeroStat
  BY <1>1, LstatOK, ZeroIsNoStat DEF EventInit, FsTargetTypeOK
<1>4. e \in Event /\ e.mask = "ACK" /\ e.st # ZeroStat
  BY <1>3 DEF AckEvent, Event, Masks, Buffers
<1>5. /\ t \in Target /\ t.events = <<e>>
      /\ t.name = heap[Top.self].name /\ t.path = heap[Top.self].path
  <2> HIDE DEF e
  <2>1. heap[Top.self] \in Target
    BY <1>1 DEF FsTargetTypeOK
  <2>2. Append(heap[Top.self].events, e) = <<e>> /\ <<e>> \in Seq(Event)
    BY <1>1, <1>4
  <2>3. QED BY <2>1, <2>2 DEF Target
<1>6. h \in [Addr -> Target] /\ h[Top.self] = t
      /\ \A x \in Addr \ {Top.self} : h[x] = heap[x]
  BY <1>1, <1>5 DEF FsTargetTypeOK
<1>7. live' = live /\ brk' = brk /\ unopened' = unopened /\ UNCHANGED fsVars
      /\ IF t.type = "directory"
         THEN /\ heap' = h /\ result' = result
              /\ frames' = SetTop([Top EXCEPT !.pc = "opendir"])
         ELSE Return(Top.self, h)
  BY DEF EventInit
<1> HIDE DEF h, t, e, st
<1>8. /\ heap' \in [Addr -> Target]
      /\ \A x \in Addr : SameFields(heap'[x], h[x])
      /\ result' \in Addr \cup {NULL}
      /\ FramesOK' /\ frames' \in Seq(Frame)
  <2>1. CASE t.type = "directory"
    <3> DEFINE f == [Top EXCEPT !.pc = "opendir"]
    <3>1. f \in Frame /\ f.pc = "opendir" /\ f.self = Top.self
      BY <1>2 DEF Frame
    <3>2. frames' = SetTop(f)
      BY <1>7, <2>1
    <3>3. FramesOK' /\ frames' \in Seq(Frame)
      <4> HIDE DEF f
      <4> QED BY <1>1, <1>7, <3>1, <3>2, SetTopOK
    <3>4. QED
      BY <1>1, <1>6, <1>7, <2>1, <3>3 DEF FsTargetTypeOK, SameFields
  <2>2. CASE t.type # "directory"
    <3>1. Return(Top.self, h)
      BY <1>7, <2>2
    <3>2. /\ heap' \in [Addr -> Target]
          /\ \A x \in Addr : SameFields(heap'[x], h[x])
          /\ result' \in Addr \cup {NULL} /\ frames' = PopFrame
      BY <1>1, <1>6, <3>1, ReturnOK
    <3>3. FramesOK' /\ frames' \in Seq(Frame)
      BY <1>1, <1>7, <3>2, PopOK
    <3>4. QED BY <3>2, <3>3
  <2>3. QED BY <2>1, <2>2
<1>9. FsTargetTypeOK'
  BY <1>1, <1>7, <1>8 DEF FsTargetTypeOK, FsTypeOK, fsVars
<1>10. /\ heap'[Top.self].events = <<e>>
       /\ \A x \in Addr \ {Top.self} : heap'[x].events = heap[x].events
  BY <1>1, <1>5, <1>6, <1>8 DEF SameFields
<1>11. RoutineTypeOK' /\ WalkAfterCreate'
  <2>1. Len(<<e>>) = 1 /\ 1 <= MaxEvents
    BY MaxEventsAssumption
  <2>2. \A x \in Addr : Len(heap'[x].events) <= MaxEvents
    BY <1>10, <2>1 DEF IInv, RoutineTypeOK
  <2>3. QED BY <1>1, <1>9, <2>2, WalkIdle
<1>12. EventsOK'
  <2>1. <<e>> # <<>>
    OBVIOUS
  <2>2. QED BY <1>1, <1>7, <1>10, <2>1, AddrLive DEF EventsOK, IInv
<1>13. EventChain'
  <2>1. Chained(<<e>>)
    BY <1>4 DEF Chained
  <2>2. QED BY <1>1, <1>7, <1>10, <2>1, AddrLive DEF EventChain, IInv
<1>14. NamesOK'
  BY <1>1, <1>5, <1>6, <1>7, <1>8, AddrLive DEF NamesOK, IInv, SameFields
<1>15. QED BY <1>8, <1>11, <1>12, <1>13, <1>14 DEF IInv

LEMMA OpenDirOK ==
  ASSUME IInv, OpenDir, UNCHANGED walkVars PROVE IInv'
<1>1. frames # <<>> /\ stack = <<>> /\ FsTargetTypeOK
      /\ Top.self \in live /\ Top.pc = "opendir"
  BY RunningShape DEF OpenDir, IInv, RoutineTypeOK, Running
<1> DEFINE f == [Top EXCEPT !.pc = "readdir", !.entries = Entries(Top.path)]
<1>2. f \in Frame /\ f.pc = "readdir" /\ f.self = Top.self
  BY <1>1, FramesShape DEF Frame, Entries
<1>3. frames' = SetTop(f) /\ UNCHANGED <<heap, live, brk, unopened, result, fs, changes>>
  BY DEF OpenDir, heapVars, fsVars
<1> HIDE DEF f
<1>4. FramesOK' /\ frames' \in Seq(Frame)
  BY <1>1, <1>2, <1>3, SetTopOK
<1>5. FsTargetTypeOK'
  BY <1>1, <1>3, <1>4 DEF FsTargetTypeOK, FsTypeOK
<1>6. RoutineTypeOK' /\ WalkAfterCreate'
  BY <1>1, <1>3, <1>5, WalkIdle DEF IInv, RoutineTypeOK, SameFields
<1>7. EventsOK'
  BY <1>1, <1>3 DEF EventsOK, IInv, SameFields
<1>8. EventChain' /\ NamesOK'
  BY <1>3, SameTargets DEF SameFields
<1>9. QED BY <1>4, <1>6, <1>7, <1>8 DEF IInv

LEMMA OpenDirFailOK ==
  ASSUME IInv, OpenDirFail, UNCHANGED walkVars PROVE IInv'
<1>1. frames # <<>> /\ stack = <<>> /\ FsTargetTypeOK
      /\ Top.self \in live /\ Top.self \in Addr /\ Top.pc = "opendir"
  BY RunningShape DEF OpenDirFail, IInv, RoutineTypeOK, Running
<1> DEFINE h == [heap EXCEPT ![Top.self] = ZeroTarget]
<1>2. ZeroTarget \in Target /\ Len(ZeroTarget.events) = 0
  BY ZeroTargetOK
<1>3. h \in [Addr -> Target]
  BY <1>1, <1>2 DEF FsTargetTypeOK
<1>4. \A x \in Addr \ {Top.self} : h[x] = heap[x]
  BY <1>1 DEF FsTargetTypeOK
<1>5. h[Top.self] = ZeroTarget
  BY <1>1 DEF FsTargetTypeOK
<1>6. Return(Top.self, h) /\ live' = live \ {Top.self}
      /\ unopened' = unopened \cup {Top.path} /\ UNCHANGED <<brk, fs, changes>>
  BY DEF OpenDirFail, fsVars
<1> HIDE DEF h
<1>7. /\ heap' \in [Addr -> Target]
      /\ \A x \in Addr : SameFields(heap'[x], h[x])
      /\ result' \in Addr \cup {NULL} /\ frames' = PopFrame
  BY <1>1, <1>3, <1>6, ReturnOK
<1>8. FramesOK' /\ frames' \in Seq(Frame)
  BY <1>1, <1>6, <1>7, PopOK
<1>9. Top.path \in Paths
  BY <1>1, FramesShape DEF Frame
<1>10. FsTargetTypeOK'
  BY <1>1, <1>6, <1>7, <1>8, <1>9 DEF FsTargetTypeOK, FsTypeOK
<1>11. RoutineTypeOK' /\ WalkAfterCreate'
  <2>1. \A x \in Addr : Len(heap'[x].events) <= MaxEvents
    BY <1>1, <1>2, <1>4, <1>5, <1>7, MaxEventsAssumption
       DEF IInv, RoutineTypeOK, SameFields
  <2>2. QED BY <1>1, <1>10, <2>1, WalkIdle
<1>12. \A x \in live' : SameFields(heap'[x], heap[x])
  BY <1>1, <1>4, <1>6, <1>7, AddrLive DEF SameFields
<1>13. EventsOK'
  BY <1>1, <1>6, <1>12 DEF EventsOK, IInv, SameFields
<1>14. EventChain' /\ NamesOK'
  BY <1>6, <1>12, SameTargets DEF SameFields
<1>15. QED BY <1>8, <1>11, <1>13, <1>14 DEF IInv

LEMMA EndDirOK ==
  ASSUME IInv, EndDir, UNCHANGED walkVars PROVE IInv'
<1>1. frames # <<>> /\ stack = <<>> /\ FsTargetTypeOK
      /\ Top.self \in live /\ Top.self \in Addr /\ Top.pc = "readdir"
  BY RunningShape DEF EndDir, IInv, RoutineTypeOK, Running
<1>2. Return(Top.self, heap) /\ UNCHANGED <<live, brk, unopened, fs, changes>>
      /\ heap \in [Addr -> Target]
  BY <1>1 DEF EndDir, fsVars, FsTargetTypeOK
<1>3. /\ heap' \in [Addr -> Target]
      /\ \A x \in Addr : SameFields(heap'[x], heap[x])
      /\ result' \in Addr \cup {NULL} /\ frames' = PopFrame
  BY <1>1, <1>2, ReturnOK
<1>4. FramesOK' /\ frames' \in Seq(Frame)
  BY <1>1, <1>2, <1>3, PopOK
<1>5. FsTargetTypeOK'
  BY <1>1, <1>2, <1>3, <1>4 DEF FsTargetTypeOK, FsTypeOK
<1>6. RoutineTypeOK' /\ WalkAfterCreate'
  BY <1>1, <1>3, <1>5, WalkIdle DEF IInv, RoutineTypeOK, SameFields
<1>7. \A x \in live' : SameFields(heap'[x], heap[x])
  BY <1>1, <1>2, <1>3, AddrLive
<1>8. EventsOK'
  BY <1>1, <1>2, <1>7 DEF EventsOK, IInv, SameFields
<1>9. EventChain' /\ NamesOK'
  BY <1>2, <1>7, SameTargets DEF SameFields
<1>10. QED BY <1>4, <1>6, <1>8, <1>9 DEF IInv

LEMMA ReadDirOK ==
  ASSUME IInv, ReadDir, UNCHANGED walkVars PROVE IInv'
<1>1. frames # <<>> /\ stack = <<>> /\ FsTargetTypeOK
      /\ Top.self \in live /\ Top.pc = "readdir"
  BY RunningShape DEF ReadDir, IInv, RoutineTypeOK, Running
<1>2. Len(frames) \in Nat \ {0} /\ Top \in Frame /\ Top = frames[Len(frames)]
  BY <1>1, FramesShape
<1>3. PICK q \in NextEntries(Top) :
        frames' = Append(SetTop([Top EXCEPT !.seen = @ \cup {q}]), NewFrame(q))
  BY DEF ReadDir
<1>4. UNCHANGED <<heap, live, brk, unopened, result, fs, changes>>
  BY DEF ReadDir, heapVars, fsVars
<1>5. q \in Paths
  BY <1>2, <1>3 DEF NextEntries, Entries, Frame
<1> DEFINE f == [Top EXCEPT !.seen = @ \cup {q}]
           s == SetTop(f)
<1>6. f \in Frame /\ f.pc = "readdir" /\ f.self = Top.self
  BY <1>1, <1>2, <1>5 DEF Frame
<1>7. NewFrame(q) \in Frame /\ NewFrame(q).pc = "lstat"
      /\ NewFrame(q).self = NULL
  BY <1>5 DEF NewFrame, Frame
<1> HIDE DEF f
<1>8. /\ s \in Seq(Frame) /\ Len(s) = Len(frames) /\ s[Len(frames)] = f
      /\ \A n \in Callers : s[n] = frames[n]
  BY <1>1, <1>6, SetTopShape DEF Callers
<1>9. frames' = Append(s, NewFrame(q))
  BY <1>3 DEF f
<1> HIDE DEF s
<1>10. /\ frames' \in Seq(Frame) /\ Len(frames') = Len(frames) + 1
       /\ frames'[Len(frames) + 1] = NewFrame(q)
       /\ \A n \in 1..Len(frames) : frames'[n] = s[n]
  BY <1>7, <1>8, <1>9, AppendProperties
<1>11. /\ Top' = NewFrame(q) /\ frames' # <<>>
       /\ Callers' = 1..Len(frames) /\ Callers' = Callers \cup {Len(frames)}
       /\ Len(frames) \notin Callers
  BY <1>2, <1>9, <1>10, EmptySeq DEF Top, Callers
<1>12. /\ frames'[Len(frames)] = f
       /\ \A n \in Callers : frames'[n] = frames[n]
  BY <1>8, <1>10, <1>11
<1>13. FramesOK'
  <2>1. \A n \in Callers : frames[n].pc = "readdir" /\ frames[n].self \in live
                             /\ frames[n].self # Top.self
    BY <1>1 DEF IInv, FramesOK
  <2>2. \A m, n \in Callers : m # n => frames[m].self # frames[n].self
    BY DEF IInv, FramesOK
  <2>3. \A n \in Callers' : frames'[n].pc = "readdir" /\ frames'[n].self \in live'
    BY <1>1, <1>4, <1>6, <1>11, <1>12, <2>1
  <2>4. \A m, n \in Callers' : m # n => frames'[m].self # frames'[n].self
    BY <1>6, <1>11, <1>12, <2>1, <2>2
  <2>5. QED BY <1>7, <1>11, <2>3, <2>4 DEF FramesOK
<1>14. FsTargetTypeOK'
  BY <1>1, <1>4, <1>10 DEF FsTargetTypeOK, FsTypeOK
<1>15. RoutineTypeOK' /\ WalkAfterCreate'
  BY <1>1, <1>4, <1>14, WalkIdle DEF IInv, RoutineTypeOK, SameFields
<1>16. EventsOK'
  BY <1>1, <1>4 DEF EventsOK, IInv, SameFields
<1>17. EventChain' /\ NamesOK'
  BY <1>4, SameTargets DEF SameFields
<1>18. QED BY <1>13, <1>15, <1>16, <1>17 DEF IInv

LEMMA OtherProcessesOK ==
  ASSUME IInv, OtherProcesses, UNCHANGED walkVars PROVE IInv'
<1>1. FsTypeOK'
  BY FsChangeOK DEF IInv, RoutineTypeOK, FsTargetTypeOK, OtherProcesses
<1>2. UNCHANGED <<heap, live, brk, frames, unopened, result>>
      /\ UNCHANGED <<stack, cur, out, crashed>>
  BY DEF OtherProcesses, targetVars, walkVars
<1>3. RoutineTypeOK'
  BY <1>1, <1>2 DEF IInv, RoutineTypeOK, FsTargetTypeOK
<1>4. FramesOK' /\ EventsOK'
  BY <1>2 DEF IInv, FramesOK, EventsOK, Top, Callers
<1>5. WalkAfterCreate' /\ EventChain' /\ NamesOK'
  BY <1>2 DEF IInv, WalkAfterCreate, EventChain, NamesOK
<1>6. QED BY <1>3, <1>4, <1>5 DEF IInv

-----------------------------------------------------------------------------
(* The steps of the walk.                                                  *)

\* An event that continues a log: what Detect finds against the last event.
Continues(e, last) ==
  \/ e.mask \in {"DELETE", "FAIL"} /\ e.st = ZeroStat
  \/ e.mask \in {"MODIFY", "OPEN"} /\ e.st # ZeroStat
       /\ e.mask = CmpStat(e.st, last.st)

LEMMA ChainAppend ==
  ASSUME NEW es \in Seq(Event), es # <<>>, Chained(es),
         NEW e \in Event, Continues(e, es[Len(es)])
  PROVE  Chained(Append(es, e))
<1>1. Len(es) \in Nat \ {0} /\ DOMAIN es = 1..Len(es)
  BY EmptySeq, LenProperties
<1> DEFINE t == Append(es, e)
<1>2. /\ t \in Seq(Event) /\ Len(t) = Len(es) + 1
      /\ \A n \in 1..Len(es) : t[n] = es[n]
      /\ t[Len(es) + 1] = e
  BY AppendProperties
<1>3. DOMAIN t = 1..(Len(es) + 1)
  BY <1>2, LenProperties
<1> HIDE DEF t
<1>4. SUFFICES ASSUME NEW n \in 1..(Len(es) + 1)
               PROVE  IF n = 1 THEN t[n].mask = "ACK" /\ t[n].st # ZeroStat
                      ELSE Continues(t[n], t[n - 1])
  BY <1>3 DEF Chained, Continues, t
<1>5. CASE n = Len(es) + 1
  BY <1>1, <1>2, <1>5
<1>6. CASE n \in 1..Len(es)
  <2>1. t[n] = es[n] /\ (n # 1 => t[n - 1] = es[n - 1])
    BY <1>1, <1>2, <1>6
  <2>2. IF n = 1 THEN es[n].mask = "ACK" /\ es[n].st # ZeroStat
        ELSE Continues(es[n], es[n - 1])
    BY <1>1, <1>6 DEF Chained, Continues
  <2>3. QED BY <2>1, <2>2
<1>7. QED BY <1>1, <1>5, <1>6

\* A step of the walk finds no call of fs_target_create, so every live target
\* has an event.
LEMMA AwakeShape ==
  ASSUME IInv, Awake
  PROVE  /\ FsTargetTypeOK /\ frames = <<>> /\ live \subseteq Addr
         /\ stack \in Seq([t : live, i : Nat])
         /\ \A a \in live : heap[a].events # <<>>
BY AddrLive DEF IInv, Awake, RoutineTypeOK, EventsOK

LEMMA TopOfWalk ==
  ASSUME IInv, Awake, stack # <<>>
  PROVE  /\ Len(stack) \in Nat \ {0} /\ DOMAIN stack = 1..Len(stack)
         /\ stack[Len(stack)] \in [t : live, i : Nat]
         /\ Here \in live /\ Here \in Addr
<1>1. stack \in Seq([t : live, i : Nat]) /\ live \subseteq Addr
  BY AwakeShape
<1> DEFINE S == [t : live, i : Nat]
<1>2. /\ Len(stack) \in Nat \ {0} /\ DOMAIN stack = 1..Len(stack)
      /\ stack[Len(stack)] \in S
  <2> HIDE DEF S
  <2> QED BY <1>1, LastOf DEF S
<1>3. QED BY <1>1, <1>2 DEF Here

\* Steps that leave the snapshot alone.
LEMMA SnapshotKept ==
  ASSUME IInv, Awake, UNCHANGED <<fsVars, targetVars>>,
         stack' \in Seq([t : live, i : Nat]), cur' \in Seq(STRING),
         out' \subseteq Line, crashed' \in BOOLEAN
  PROVE  IInv'
<1>1. UNCHANGED <<fs, changes, heap, live, brk, frames, unopened, result>>
      /\ frames = <<>>
  BY DEF fsVars, targetVars, Awake
<1>2. RoutineTypeOK'
  BY <1>1 DEF IInv, RoutineTypeOK, FsTargetTypeOK, FsTypeOK
<1>3. FramesOK' /\ EventsOK' /\ NamesOK' /\ WalkAfterCreate' /\ EventChain'
  BY <1>1 DEF IInv, FramesOK, EventsOK, NamesOK, WalkAfterCreate, EventChain,
              Top, Callers
<1>4. QED BY <1>2, <1>3 DEF IInv

LEMMA ObserveOK ==
  ASSUME IInv, Awake, NEW a \in Addr, NEW s \in Seq([t : live, i : Nat]),
         Observe(a, s), UNCHANGED <<fsVars, targetVars>>
  PROVE  IInv'
<1>1. CASE a \in live
  <2>1. heap[a].name \in STRING
    <3>1. heap[a].path \in Seq(STRING) /\ heap[a].path # <<>>
          /\ heap[a].name = heap[a].path[Len(heap[a].path)]
      BY <1>1, PathsAssumption DEF IInv, NamesOK
    <3>2. QED BY <3>1, LastOf
  <2>2. stack' = Append(s, [t |-> a, i |-> 0])
        /\ cur' = Append(cur, heap[a].name) /\ out' = {} /\ crashed' = crashed
    BY <1>1 DEF Observe, Extend
  <2>3. stack' \in Seq([t : live, i : Nat])
    BY <1>1, <2>2, AppendProperties
  <2>4. cur' \in Seq(STRING)
    BY <2>1, <2>2, AppendProperties DEF IInv, RoutineTypeOK
  <2>5. QED
    BY <2>2, <2>3, <2>4, SnapshotKept DEF IInv, RoutineTypeOK
<1>2. CASE a \notin live
  BY <1>2, SnapshotKept DEF Observe, IInv, RoutineTypeOK
<1>3. QED BY <1>1, <1>2

LEMMA StartRoundOK ==
  ASSUME IInv, StartRound PROVE IInv'
<1>1. Awake /\ result \in Addr /\ Observe(result, <<>>)
      /\ UNCHANGED <<fsVars, targetVars>>
  BY AwakeShape DEF StartRound, Awake, FsTargetTypeOK
<1>2. <<>> \in Seq([t : live, i : Nat])
  BY EmptySeq
<1>3. QED BY <1>1, <1>2, ObserveOK

LEMMA ObserveChildOK ==
  ASSUME IInv, ObserveChild PROVE IInv'
<1> DEFINE f == stack[Len(stack)]
           s == [stack EXCEPT ![Len(stack)].i = @ + 1]
           a == heap[f.t].children[f.i + 1]
<1>1. Awake /\ stack # <<>> /\ f.i < ChildrenCount(f.t)
      /\ Observe(a, s) /\ UNCHANGED <<fsVars, targetVars>>
  BY DEF ObserveChild
<1>2. /\ Len(stack) \in Nat \ {0} /\ f \in [t : live, i : Nat]
      /\ f.t \in Addr /\ heap[f.t].children \in Seq(Addr)
  BY <1>1, TopOfWalk, AwakeShape DEF FsTargetTypeOK, Target
<1>3. a \in Addr
  <2>1. f.i + 1 \in 1..Len(heap[f.t].children)
    BY <1>1, <1>2, LenProperties DEF ChildrenCount
  <2>2. QED BY <1>2, <2>1, ElementOfSeq
<1>4. s \in Seq([t : live, i : Nat])
  <2> DEFINE g == [f EXCEPT !.i = @ + 1]
  <2>1. g \in [t : live, i : Nat]
    BY <1>2
  <2>2. s = [stack EXCEPT ![Len(stack)] = g]
    OBVIOUS
  <2>3. stack \in Seq([t : live, i : Nat]) /\ Len(stack) \in 1..Len(stack)
    BY <1>1, <1>2, AwakeShape
  <2>4. QED BY <2>1, <2>2, <2>3, ExceptSeq
<1> HIDE DEF a, s, f
<1>5. QED BY <1>1, <1>3, <1>4, ObserveOK

\* Leaving a target.
LEMMA LeaveOK ==
  ASSUME IInv, Awake, stack # <<>>, Leave
  PROVE  stack' \in Seq([t : live, i : Nat]) /\ cur' \in Seq(STRING)
<1>1. stack \in Seq([t : live, i : Nat]) /\ cur \in Seq(STRING)
  BY AwakeShape DEF IInv, RoutineTypeOK
<1>2. stack' \in Seq([t : live, i : Nat])
  BY <1>1, DropLast DEF Leave
<1>3. CASE cur = <<>>
  <2>1. Len(cur) = 0 /\ 1 \in Int /\ Len(cur) - 1 \in Int /\ Len(cur) - 1 < 1
    BY <1>3, EmptySeq
  <2>2. cur' = SubSeq(cur, 1, Len(cur) - 1)
    BY <2>1 DEF Leave, Cut
  <2>3. cur' = <<>>
    BY <2>1, <2>2, SubSeqEmpty
  <2>4. QED BY <1>2, <2>3, EmptySeq
<1>4. CASE cur # <<>>
  BY <1>1, <1>2, <1>4, DropLast, EmptySeq DEF Leave, Cut
<1>5. QED BY <1>3, <1>4

LEMMA LeaveUnknownOK ==
  ASSUME IInv, LeaveUnknown PROVE IInv'
<1>1. Awake /\ stack # <<>> /\ Leave /\ out' = {} /\ crashed' = crashed
      /\ UNCHANGED <<fsVars, targetVars>>
  BY DEF LeaveUnknown, ChildrenDone, fsVars, targetVars
<1>2. QED BY <1>1, LeaveOK, SnapshotKept DEF IInv, RoutineTypeOK

LEMMA TrackOK ==
  ASSUME IInv, Track PROVE IInv'
<1> DEFINE r    == Lstat(cur)
           mask == Detect(r, Latest(Here))
           e    == [mask |-> mask, st |-> r.st, path |-> "__cur_path"]
           es   == heap[Here].events
<1>1. /\ Awake /\ stack # <<>> /\ Leave
      /\ UNCHANGED <<live, brk, frames, unopened, result, crashed, fs, changes>>
  BY DEF Track, ChildrenDone, fsVars
<1>2. \/ UNCHANGED heap /\ out' \subseteq Printed(Here, Latest(Here))
      \/ /\ mask # "none" /\ ~Full(Here)
         /\ heap' = [heap EXCEPT ![Here].events = Append(@, e)]
         /\ out' = Printed(Here, e)
  BY DEF Track, Record
<1>3. /\ Here \in live /\ Here \in Addr /\ FsTargetTypeOK /\ frames = <<>>
      /\ es \in Seq(Event) /\ es # <<>> /\ heap[Here] \in Target
      /\ heap \in [Addr -> Target]
  BY <1>1, AwakeShape, TopOfWalk DEF FsTargetTypeOK, Target
<1>4. Len(es) \in Nat \ {0} /\ Latest(Here) \in Event /\ Latest(Here) = es[Len(es)]
  BY <1>3, EmptySeq, ElementOfSeq DEF Latest
<1>5. stack' \in Seq([t : live, i : Nat]) /\ cur' \in Seq(STRING)
  BY <1>1, LeaveOK
<1>6. ASSUME NEW d \in Event PROVE Printed(Here, d) \subseteq Line
  <2>1. cur \in Seq(STRING) /\ Root \in Seq(STRING) /\ <<>> \in Seq(STRING)
    BY RootAssumption, PathsAssumption, EmptySeq DEF IInv, RoutineTypeOK
  <2>2. d.mask \in Masks /\ d.st \in Stats \cup {ZeroStat}
    BY DEF Event
  <2>3. \A p \in Seq(STRING) :
          [t |-> Here, mask |-> d.mask, st |-> d.st, path |-> p] \in Line
    BY <1>3, <2>2 DEF Line
  <2>4. QED BY <2>1, <2>3 DEF Printed
<1>7. CASE UNCHANGED heap /\ out' \subseteq Printed(Here, Latest(Here))
  <2>1. UNCHANGED <<fsVars, targetVars>>
    BY <1>1, <1>7 DEF fsVars, targetVars
  <2>2. out' \subseteq Line
    BY <1>4, <1>6, <1>7
  <2>3. QED
    BY <1>1, <1>5, <2>1, <2>2, SnapshotKept DEF IInv, RoutineTypeOK
<1>8. CASE /\ mask # "none" /\ ~Full(Here)
           /\ heap' = [heap EXCEPT ![Here].events = Append(@, e)]
           /\ out' = Printed(Here, e)
  <2>1. e \in Event /\ Continues(e, Latest(Here))
    <3>1. /\ r.err = "OK" => r.st \in Stats
          /\ r.err # "OK" => r.st = ZeroStat
      BY <1>3, LstatOK DEF FsTargetTypeOK
    <3>2. CASE r.err = "OK"
      <4>1. mask = CmpStat(r.st, Latest(Here).st) /\ mask \in {"MODIFY", "OPEN"}
        BY <1>8, <3>2 DEF Detect, CmpStat
      <4>2. r.st \in Stats /\ r.st # ZeroStat
        BY <3>1, <3>2, ZeroIsNoStat
      <4> HIDE DEF r, mask
      <4>3. QED BY <4>1, <4>2 DEF Event, Masks, Buffers, Continues
    <3>3. CASE r.err # "OK"
      <4>1. mask \in {"DELETE", "FAIL"}
        BY <3>3 DEF Detect
      <4>2. r.st = ZeroStat
        BY <3>1, <3>3
      <4> HIDE DEF r, mask
      <4>3. QED BY <4>1, <4>2 DEF Event, Masks, Buffers, Continues
    <3>4. QED BY <3>2, <3>3
  <2> DEFINE new == Append(es, e)
             t   == [heap[Here] EXCEPT !.events = new]
  <2>2. heap' = [heap EXCEPT ![Here] = t]
    BY <1>8
  <2> HIDE DEF e, mask, r
  <2>3. new \in Seq(Event) /\ Len(new) = Len(es) + 1 /\ new # <<>>
    BY <1>3, <1>4, <2>1, AppendProperties
  <2>4. /\ t \in Target /\ t.events = new
        /\ t.name = heap[Here].name /\ t.path = heap[Here].path
    BY <1>3, <2>3 DEF Target
  <2>5. /\ heap' \in [Addr -> Target] /\ heap'[Here] = t
        /\ heap'[Here].events = new
        /\ \A x \in Addr \ {Here} : heap'[x] = heap[x]
    BY <1>3, <2>2, <2>4
  <2>6. FsTargetTypeOK'
    BY <1>1, <1>3, <2>5 DEF FsTargetTypeOK, FsTypeOK
  <2>7. \A x \in Addr : Len(heap'[x].events) <= MaxEvents
    <3>1. Len(es) <= MaxEvents /\ Len(es) # MaxEvents
      BY <1>3, <1>8 DEF Full, IInv, RoutineTypeOK
    <3>2. Len(new) <= MaxEvents
      BY <1>4, <2>3, <3>1, MaxEventsAssumption
    <3>3. QED BY <2>5, <3>2 DEF IInv, RoutineTypeOK
  <2>8. RoutineTypeOK'
    <3>1. out' \subseteq Line
      BY <1>6, <1>8, <2>1 DEF e, mask, r
    <3>2. QED
      BY <1>1, <1>5, <2>6, <2>7, <3>1 DEF IInv, RoutineTypeOK
  <2>9. FramesOK' /\ WalkAfterCreate'
    <3>1. frames' = <<>> /\ Callers' = {}
      BY <1>1, <1>3, EmptySeq DEF Callers
    <3>2. QED BY <3>1 DEF FramesOK, WalkAfterCreate
  <2>10. EventsOK'
    BY <1>1, <1>3, <2>3, <2>5, AwakeShape DEF EventsOK
  <2>11. EventChain'
    <3>1. Chained(es)
      BY <1>3 DEF IInv, EventChain
    <3>2. Chained(new)
      BY <1>3, <1>4, <2>1, <3>1, ChainAppend
    <3>3. QED BY <1>1, <1>3, <2>5, <3>2, AwakeShape DEF IInv, EventChain
  <2>12. NamesOK'
    BY ZenonT(40), <1>1, <1>3, <2>4, <2>5, AwakeShape DEF IInv, NamesOK
  <2>13. QED BY <2>8, <2>9, <2>10, <2>11, <2>12 DEF IInv
<1>9. QED BY <1>2, <1>7, <1>8

-----------------------------------------------------------------------------
(* The theorems.                                                           *)

LEMMA InitOK == Init => IInv
<1> SUFFICES ASSUME Init PROVE IInv
  OBVIOUS
<1> USE DEF Init, CreateInit, TargetInit
<1>1. NewFrame(Root) \in Frame /\ <<NewFrame(Root)>> \in Seq(Frame)
  BY RootAssumption DEF NewFrame, Frame
<1>2. ZeroTarget \in Target /\ Len(ZeroTarget.events) <= MaxEvents
  BY ZeroTargetOK, MaxEventsAssumption
<1>3. FsTypeOK
  BY MaxChangesAssumption DEF FsInit, FsTypeOK
<1>4. FsTargetTypeOK
  BY <1>1, <1>2, <1>3, MaxTargetsAssumption DEF FsTargetTypeOK
<1>5. RoutineTypeOK
  BY <1>2, <1>4, EmptySeq DEF RoutineTypeOK
<1>6. Len(frames) = 1 /\ Top = NewFrame(Root)
  BY DEF Top
<1>7. FramesOK
  BY <1>6 DEF FramesOK, Callers, NewFrame
<1>8. QED
  BY <1>5, <1>7 DEF IInv, EventsOK, NamesOK, WalkAfterCreate, EventChain

LEMMA NextOK == IInv /\ [Next]_vars => IInv'
<1> SUFFICES ASSUME IInv, [Next]_vars PROVE IInv'
  OBVIOUS
<1>1. CASE CreateNext /\ UNCHANGED walkVars
  BY <1>1, CreateLstatOK, EventInitOK, EventInitFailOK, OpenDirOK,
     OpenDirFailOK, ReadDirOK, EndDirOK, OtherProcessesOK
     DEF CreateNext, Create
<1>2. CASE Walk
  BY <1>2, StartRoundOK, ObserveChildOK, TrackOK, LeaveUnknownOK DEF Walk
<1>3. CASE UNCHANGED vars
  <2>1. UNCHANGED <<fs, changes, heap, live, brk, frames, unopened, result,
                    stack, cur, out, crashed>>
    BY <1>3 DEF vars, fsVars, targetVars, walkVars
  <2>2. RoutineTypeOK'
    BY <2>1 DEF IInv, RoutineTypeOK, FsTargetTypeOK, FsTypeOK
  <2>3. FramesOK' /\ EventsOK' /\ NamesOK' /\ WalkAfterCreate' /\ EventChain'
    BY <2>1 DEF IInv, FramesOK, EventsOK, NamesOK, WalkAfterCreate,
                EventChain, Top, Callers
  <2>4. QED BY <2>2, <2>3 DEF IInv
<1>4. QED BY <1>1, <1>2, <1>3 DEF Next

LEMMA Invariance == Spec => []IInv
BY InitOK, NextOK, PTL DEF Spec

\* Every variable of the snapshot and of the walk keeps its type: no NULL gets
\* into a children array (fs_target_children_push), no index leaves the call
\* stack, and no log outgrows its array (array_adjust).
THEOREM RoutineTypeCorrect == Spec => []RoutineTypeOK
<1>1. IInv => RoutineTypeOK
  BY DEF IInv
<1>2. QED BY <1>1, Invariance, PTL

\* The log of every live target starts with its one ACK and continues with
\* events that agree with their stat records (target_event_detect, cmp_stat),
\* whatever other processes do and even when a freed address is used again.
THEOREM EventChainHolds == Spec => []EventChain
<1>1. IInv => EventChain
  BY DEF IInv
<1>2. QED BY <1>1, Invariance, PTL

\* A live target has no event only while fs_target_event_init runs on it, so
\* the walk finds a latest event on every target (fs_target_latest_event).
THEOREM EventsFollowInitHolds == Spec => []EventsFollowInit
<1>1. IInv => EventsFollowInit
  <2> SUFFICES ASSUME IInv, NEW a \in live
               PROVE  heap[a].events = <<>> <=>
                        \E i \in DOMAIN frames :
                          frames[i].pc = "event_init" /\ frames[i].self = a
    BY DEF EventsFollowInit
  <2>1. FsTargetTypeOK
    BY DEF IInv, RoutineTypeOK
  <2>2. CASE frames = <<>>
    <3>1. DOMAIN frames = {}
      BY <2>2
    <3>2. QED BY <2>2, <3>1 DEF IInv, EventsOK
  <2>3. CASE frames # <<>>
    <3>1. /\ Len(frames) \in Nat \ {0} /\ DOMAIN frames = 1..Len(frames)
          /\ Top = frames[Len(frames)]
      BY <2>1, <2>3, FramesShape
    <3>2. DOMAIN frames = Callers \cup {Len(frames)}
      BY <3>1 DEF Callers
    <3>3. QED
      BY <2>3, <3>1, <3>2 DEF IInv, EventsOK, FramesOK
  <2>4. QED BY <2>2, <2>3
<1>2. QED BY <1>1, Invariance, PTL


=============================================================================
