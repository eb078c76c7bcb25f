----------------------------- MODULE BackdProofs ----------------------------
(***************************************************************************)
(* Theorems about the daemon as a whole: its loop is that of Service, so   *)
(* what ServiceProofs shows holds of it, and what RoutineProofs shows of   *)
(* one snapshot holds of all of them on their common heap.  From malloc to *)
(* free a target has one owner, a round is at each once, and at the exit   *)
(* all of them have been freed, once.                                      *)
(***************************************************************************)
EXTENDS Backd, TreeProofs

SP == INSTANCE ServiceProofs

-----------------------------------------------------------------------------
(* The loop.                                                               *)

\* ServiceProofs, for the constants and variables of the daemon, is about the
\* same actions as S.
LEMMA SameLoop ==
  /\ S!Init <=> SP!Init
  /\ S!Next <=> SP!Next
<1> USE DEF S!NoFile, SP!NoFile, S!NoTarget, SP!NoTarget, S!Indices, SP!Indices,
            S!loopVars, SP!loopVars, S!timeVars, SP!timeVars,
            S!Time, SP!Time
<1>2. S!Init <=> SP!Init
  BY DEF S!Init, SP!Init
<1>3. (S!PopFile <=> SP!PopFile) /\ (S!NoMoreFiles <=> SP!NoMoreFiles)
  BY DEF S!PopFile, SP!PopFile, S!NoMoreFiles, SP!NoMoreFiles
<1>4. (S!Created <=> SP!Created) /\ (S!Skipped <=> SP!Skipped)
  BY DEF S!Created, SP!Created, S!Skipped, SP!Skipped
<1>5. /\ S!HandleSigint <=> SP!HandleSigint
      /\ S!HandleSigterm <=> SP!HandleSigterm
      /\ S!Signal <=> SP!Signal
  BY DEF S!HandleSigint, SP!HandleSigint, S!HandleSigterm, SP!HandleSigterm,
         S!Handle, SP!Handle, S!Signal, SP!Signal, S!Signals, SP!Signals
<1>6. /\ S!SpinBegins <=> SP!SpinBegins
      /\ S!SpinEnds <=> SP!SpinEnds
      /\ S!SpinGoesOn <=> SP!SpinGoesOn
  BY DEF S!SpinBegins, SP!SpinBegins, S!SpinEnds, SP!SpinEnds,
         S!SpinGoesOn, SP!SpinGoesOn, S!Since, SP!Since,
         S!CountLate, SP!CountLate
<1>7. (S!SpinFlag <=> SP!SpinFlag) /\ (S!SpinWakes <=> SP!SpinWakes)
  BY DEF S!SpinFlag, SP!SpinFlag, S!SpinWakes, SP!SpinWakes
<1>8. (S!ObserveTarget <=> SP!ObserveTarget) /\ (S!RoundEnds <=> SP!RoundEnds)
  BY DEF S!ObserveTarget, SP!ObserveTarget, S!RoundEnds, SP!RoundEnds
<1>9. (S!DeinitTarget <=> SP!DeinitTarget) /\ (S!Exit <=> SP!Exit)
  BY DEF S!DeinitTarget, SP!DeinitTarget, S!Exit, SP!Exit,
         S!Printing, SP!Printing
<1>10. (S!Tick <=> SP!Tick) /\ (S!SetClock <=> SP!SetClock)
  BY DEF S!Tick, SP!Tick, S!SetClock, SP!SetClock, S!Spinning, SP!Spinning
<1>11. S!Next <=> SP!Next
  BY <1>3, <1>4, <1>5, <1>6, <1>7, <1>8, <1>9, <1>10
     DEF S!Next, SP!Next, S!Thread, SP!Thread
<1>12. QED BY <1>2, <1>11

LEMMA LoopStepOfService == [BackdNext]_backdVars => [S!Next]_(S!vars)
<1> SUFFICES ASSUME [BackdNext]_backdVars PROVE [S!Next]_(S!vars)
  OBVIOUS
<1>1. S!Next <=> \/ S!PopFile \/ S!NoMoreFiles \/ S!Created \/ S!Skipped
                 \/ S!HandleSigint \/ S!HandleSigterm
                 \/ S!SpinBegins \/ S!SpinEnds \/ S!SpinGoesOn \/ S!SpinFlag
                 \/ S!SpinWakes \/ S!ObserveTarget \/ S!RoundEnds
                 \/ S!DeinitTarget \/ S!Exit
                 \/ S!Signal \/ S!Tick \/ S!SetClock
  BY DEF S!Next, S!Thread
<1>2. UNCHANGED loopVars => UNCHANGED S!vars
  BY DEF loopVars, S!vars, S!loopVars, S!timeVars
<1>3. CASE CreateStep \/ Visit \/ Look \/ Others \/ UNCHANGED backdVars
  BY <1>2, <1>3 DEF CreateStep, Visit, Look, Others, backdVars, daemonVars
<1>4. CASE PopFile \/ Created \/ Skipped \/ LoopStep
  BY <1>1, <1>4 DEF PopFile, Created, Skipped, LoopStep
<1>5. CASE RoundBegins \/ ObserveTarget \/ RoundEnds \/ DeinitTarget \/ Exit
  BY <1>1, <1>5
     DEF RoundBegins, ObserveTarget, RoundEnds, DeinitTarget, Exit
<1>6. CASE Signal \/ Tick
  BY <1>1, <1>6 DEF Signal, Tick
<1>7. QED BY <1>3, <1>4, <1>5, <1>6 DEF BackdNext, Daemon

\* What Service says of the loop, its single steps for fs_target_create and
\* fs_target_observe included, holds of the daemon with these calls in full.
LoopIsService == S!Spec

\* The snapshots, the rounds and the release, call by call, are steps that
\* Service takes at once, or none of its business.
THEOREM LoopIsServiceHolds == BackdSpec => LoopIsService
<1>1. BackdInit => S!Init
  BY DEF BackdInit
<1>2. QED
  BY <1>1, LoopStepOfService, PTL DEF BackdSpec, LoopIsService, S!Spec

LEMMA ServiceConstants == SP!FilesAssumption /\ SP!TimeAssumption
BY BackdAssumption
   DEF S!FilesAssumption, SP!FilesAssumption, S!NoFile, SP!NoFile,
       S!TimeAssumption, SP!TimeAssumption

LEMMA ServiceInvariant == BackdSpec => []SP!IInv
<1>1. S!Spec => SP!Spec
  <2>1. [S!Next]_(S!vars) => [SP!Next]_(SP!vars)
    BY SameLoop
       DEF S!vars, SP!vars, S!loopVars, SP!loopVars, S!timeVars, SP!timeVars
  <2>2. S!Init => SP!Init
    BY SameLoop
  <2>3. QED BY <2>1, <2>2, PTL DEF S!Spec, SP!Spec
<1>2. SP!Spec => []SP!IInv
  BY SP!Invariance, ServiceConstants
<1>3. QED BY <1>1, <1>2, LoopIsServiceHolds, PTL DEF LoopIsService

-----------------------------------------------------------------------------
(* The inductive invariant of the composition.                             *)

\* Snapshots are taken, and rounds are made, where the loop calls for them.
PcOK ==
  /\ frames # <<>> => pc \in {"create", "killed"}
  /\ stack # <<>> => pc \in {"observe", "killed"}

\* at has an address for each target in a slot.
AtOK ==
  /\ at \in [DOMAIN Files -> Addr \cup {NULL}]
  /\ looked \in [Addr -> Nat]
  /\ \A j \in S!Indices : fp[j] # S!NoTarget => at[fp[j]] # NULL

BInv == IInv /\ PcOK /\ AtOK

\* What the slots refer to, from ServiceProofs.
LEMMA LoopShape ==
  ASSUME SP!IInv
  PROVE  /\ popped \in 0..Len(Files) /\ DOMAIN Files = 1..Len(Files)
         /\ Len(Files) \in Nat
         /\ fp \in [S!Indices -> Nat]
         /\ fpIndex \in S!Indices /\ i \in S!Indices
         /\ pc = "create" => popped \in DOMAIN Files
         /\ \A j \in S!Indices :
              IF j < fpIndex THEN fp[j] \in 1..popped ELSE fp[j] = S!NoTarget
<1>1. Len(Files) \in Nat /\ DOMAIN Files = 1..Len(Files)
  BY ServiceConstants DEF SP!FilesAssumption
<1>2. /\ popped \in 0..Len(Files) /\ fp \in [S!Indices -> Nat]
      /\ fpIndex \in S!Indices /\ i \in S!Indices
  BY <1>1 DEF SP!IInv, SP!ServiceTypeOK, SP!Indices, S!Indices, SP!Targets,
              SP!NoTarget
<1>3. pc = "create" => popped \in 1..Len(Files)
  BY <1>1, <1>2, ServiceConstants
     DEF SP!IInv, SP!IndexOK, S!Indices, SP!FilesAssumption
<1>4. ASSUME NEW j \in S!Indices
      PROVE  IF j < fpIndex THEN fp[j] \in 1..popped ELSE fp[j] = S!NoTarget
  <2>1. j \in Nat /\ fpIndex \in Nat
    BY <1>2, ServiceConstants DEF S!Indices, SP!FilesAssumption
  <2>2. /\ j < fpIndex => fp[j] \in 1..popped
        /\ j >= fpIndex => fp[j] = S!NoTarget
    BY DEF SP!IInv, SP!SlotsAgree, SP!Indices, S!Indices, SP!NoTarget, S!NoTarget
  <2>3. QED BY <2>1, <2>2
<1>5. QED BY <1>1, <1>2, <1>3, <1>4

\* The steps in which the loop alone moves.
LEMMA LoopAlone ==
  ASSUME IInv, UNCHANGED vars PROVE IInv'
BY NextOK

LEMMA PopFileOK ==
  ASSUME IInv, PcOK, SP!IInv, PopFile PROVE IInv'
<1> DEFINE f == NewFrame(FileOf(popped + 1))
<1>1. /\ pc = "pop" /\ popped < Len(Files) /\ frames' = <<f>>
      /\ UNCHANGED <<heap, live, brk, unopened, result, walkVars, fs, changes>>
  BY DEF PopFile, S!PopFile, heapVars, fsVars
<1>2. FileOf(popped + 1) \in Paths
  BY <1>1, LoopShape, BackdAssumption
<1>3. f \in Frame /\ f.pc = "lstat" /\ f.self = NULL
  BY <1>2 DEF NewFrame, Frame
<1> HIDE DEF f
<1>4. /\ frames' \in Seq(Frame) /\ frames' # <<>> /\ Len(frames') = 1
      /\ Top' = f
  BY <1>1, <1>3 DEF Top
<1>5. frames = <<>> /\ stack = <<>>
  BY <1>1 DEF PcOK
<1>6. RoutineTypeOK'
  BY <1>1, <1>4 DEF IInv, RoutineTypeOK, FsTargetTypeOK, FsTypeOK, walkVars
<1>7. FramesOK'
  BY <1>3, <1>4 DEF FramesOK, Callers
<1>8. EventsOK' /\ NamesOK' /\ EventChain'
  BY <1>1, <1>5 DEF IInv, EventsOK, NamesOK, EventChain
<1>9. WalkAfterCreate'
  BY <1>1, <1>5 DEF WalkAfterCreate, walkVars
<1>10. QED BY <1>6, <1>7, <1>8, <1>9 DEF IInv

\* service_deinit: the memory that is freed is no longer looked at.
LEMMA DeinitTargetOK ==
  ASSUME IInv, PcOK, DeinitTarget PROVE IInv'
<1> DEFINE gone == Q!ToSet(Released(at[fp[i]]))
<1>1. /\ pc = "deinit"
      /\ heap' = [b \in Addr |-> IF b \in gone THEN ZeroTarget ELSE heap[b]]
      /\ live' = live \ gone
      /\ crashed' \in BOOLEAN
      /\ UNCHANGED <<brk, frames, unopened, result, stack, cur, out, fs, changes>>
  BY DEF DeinitTarget, Release, S!DeinitTarget, fsVars
<1> HIDE DEF gone
<1>2. frames = <<>> /\ stack = <<>>
  BY <1>1 DEF PcOK
<1>3. /\ heap \in [Addr -> Target] /\ live \subseteq Addr
      /\ \A a \in Addr : Len(heap[a].events) <= MaxEvents
  BY AddrLive DEF IInv, RoutineTypeOK, FsTargetTypeOK
<1>4. heap' \in [Addr -> Target]
  BY <1>1, <1>3, ZeroTargetOK
<1>5. FsTargetTypeOK'
  BY <1>1, <1>4 DEF IInv, RoutineTypeOK, FsTargetTypeOK, FsTypeOK
<1>6. \A a \in Addr : Len(heap'[a].events) <= MaxEvents
  <2> SUFFICES ASSUME NEW a \in Addr PROVE Len(heap'[a].events) <= MaxEvents
    OBVIOUS
  <2>1. heap'[a] = ZeroTarget \/ heap'[a] = heap[a]
    BY <1>1
  <2>2. QED BY <1>3, <2>1, ZeroTargetOK, MaxEventsAssumption
<1>7. RoutineTypeOK'
  <2>1. stack' \in Seq([t : live', i : Nat])
    BY <1>1, <1>2
  <2>2. QED BY <1>1, <1>5, <1>6, <2>1 DEF IInv, RoutineTypeOK, Line
<1>8. \A a \in live' : a \in live /\ heap'[a] = heap[a]
  BY <1>1, <1>3
<1>9. EventsOK' /\ NamesOK' /\ EventChain'
  BY <1>1, <1>8 DEF IInv, EventsOK, NamesOK, EventChain, Top
<1>10. FramesOK'
  BY <1>1, <1>2, EmptySeq DEF FramesOK, Callers
<1>11. QED BY <1>1, <1>2, <1>7, <1>9, <1>10 DEF IInv, WalkAfterCreate

\* fs_target_observe is called on a target: a slot below fp_index has one.
LEMMA ObserveTargetOK ==
  ASSUME IInv, AtOK, SP!IInv, ObserveTarget PROVE IInv'
<1>1. /\ Awake /\ Observe(at[fp[i]], <<>>) /\ UNCHANGED <<fsVars, targetVars>>
      /\ i < fpIndex
  BY DEF ObserveTarget, S!ObserveTarget
<1>2. fp[i] \in DOMAIN Files /\ fp[i] # S!NoTarget
  BY <1>1, LoopShape DEF S!NoTarget
<1>3. at[fp[i]] \in Addr
  BY <1>2, LoopShape DEF AtOK
<1>4. <<>> \in Seq([t : live, i : Nat])
  OBVIOUS
<1>5. QED BY <1>1, <1>3, <1>4, ObserveOK

LEMMA BackdKeepsIInv ==
  ASSUME BInv, SP!IInv, [BackdNext]_backdVars PROVE IInv'
<1>1. IInv /\ PcOK /\ AtOK
  BY DEF BInv
<1>2. CASE CreateStep
  <2>1. Create /\ UNCHANGED walkVars
    BY <1>2 DEF CreateStep
  <2>2. QED
    BY <1>1, <2>1, CreateLstatOK, EventInitOK, EventInitFailOK, OpenDirOK,
       OpenDirFailOK, ReadDirOK, EndDirOK DEF Create
<1>3. CASE Others
  BY <1>1, <1>3, OtherProcessesOK DEF Others
<1>4. CASE \/ Created \/ Skipped \/ LoopStep \/ RoundBegins \/ RoundEnds \/ Exit
           \/ Signal \/ Tick \/ UNCHANGED backdVars
  BY <1>1, <1>4, LoopAlone
     DEF Created, Skipped, LoopStep, RoundBegins, RoundEnds, Exit, Signal, Tick,
         backdVars
<1>5. CASE Visit \/ Look
  BY <1>1, <1>5, ObserveChildOK, TrackOK, LeaveUnknownOK DEF Visit, Look
<1>6. QED
  BY <1>1, <1>2, <1>3, <1>4, <1>5, PopFileOK, ObserveTargetOK, DeinitTargetOK
     DEF BackdNext, Daemon

LEMMA BackdKeepsPc ==
  ASSUME BInv, [BackdNext]_backdVars PROVE PcOK'
<1>1. PcOK
  BY DEF BInv
<1>2. CASE CreateStep \/ Others \/ UNCHANGED backdVars
  BY <1>1, <1>2 DEF PcOK, CreateStep, Others, OtherProcesses, targetVars,
     walkVars, daemonVars, loopVars, backdVars, vars
<1>3. CASE Visit \/ Look
  <2>1. pc' = pc /\ pc = "observe" /\ UNCHANGED frames
    BY <1>3 DEF Visit, Look, daemonVars, loopVars, ObserveChild, Track,
                LeaveUnknown, targetVars
  <2>2. QED BY <1>1, <2>1 DEF PcOK
<1>4. CASE PopFile
  BY <1>1, <1>4 DEF PcOK, PopFile, S!PopFile, walkVars
<1>5. CASE Created \/ Skipped \/ LoopStep \/ RoundBegins \/ RoundEnds \/ Exit
  <2>1. frames' = frames /\ stack' = stack
    BY <1>5 DEF Created, Skipped, LoopStep, RoundBegins, RoundEnds, Exit,
                vars, targetVars, walkVars
  <2>2. frames = <<>>
    BY <1>1, <1>5 DEF PcOK, Created, Skipped, LoopStep, RoundBegins, RoundEnds,
       Exit, S!NoMoreFiles, S!HandleSigint, S!HandleSigterm, S!Handle,
       S!SpinBegins, S!SpinGoesOn, S!SpinFlag, S!SpinWakes, S!SpinEnds,
       S!RoundEnds, S!Exit
  <2>3. stack = <<>>
    BY <1>1, <1>5 DEF PcOK, Created, Skipped, LoopStep, RoundBegins, RoundEnds,
       Exit, S!NoMoreFiles, S!HandleSigint, S!HandleSigterm, S!Handle,
       S!SpinBegins, S!SpinGoesOn, S!SpinFlag, S!SpinWakes, S!SpinEnds,
       S!RoundEnds, S!Exit, S!Created, S!Skipped
  <2>4. QED BY <2>1, <2>2, <2>3 DEF PcOK
<1>6. CASE ObserveTarget
  BY <1>1, <1>6 DEF PcOK, ObserveTarget, S!ObserveTarget, targetVars
<1>7. CASE DeinitTarget
  BY <1>1, <1>7 DEF PcOK, DeinitTarget, S!DeinitTarget
<1>8. CASE Signal
  BY <1>1, <1>8 DEF PcOK, Signal, S!Signal, vars, targetVars, walkVars
<1>9. CASE Tick
  BY <1>1, <1>9 DEF PcOK, Tick, S!Tick, vars, targetVars, walkVars
<1>10. QED
  BY <1>2, <1>3, <1>4, <1>5, <1>6, <1>7, <1>8, <1>9 DEF BackdNext, Daemon

LEMMA BackdKeepsAt ==
  ASSUME BInv, SP!IInv, [BackdNext]_backdVars PROVE AtOK'
<1>1. AtOK /\ IInv
  BY DEF BInv
<1>2. /\ DOMAIN Files = 1..Len(Files) /\ Len(Files) \in Nat
      /\ fp \in [S!Indices -> Nat] /\ fpIndex \in S!Indices
  BY LoopShape
<1>3. CASE Created
  <2>1. /\ result # NULL /\ pc = "create"
        /\ fp' = [fp EXCEPT ![fpIndex] = popped]
        /\ at' = [at EXCEPT ![popped] = result] /\ looked' = looked
    BY <1>3 DEF Created, S!Created
  <2>2. result \in Addr /\ popped \in DOMAIN Files
    BY <1>1, <2>1, LoopShape DEF IInv, RoutineTypeOK, FsTargetTypeOK
  <2>3. at' \in [DOMAIN Files -> Addr \cup {NULL}]
    BY <1>1, <2>1, <2>2 DEF AtOK
  <2>4. ASSUME NEW j \in S!Indices, fp'[j] # S!NoTarget PROVE at'[fp'[j]] # NULL
    <3>1. CASE fp'[j] = popped
      BY <1>1, <2>1, <2>2, <3>1 DEF AtOK
    <3>2. CASE fp'[j] # popped
      <4>1. fp'[j] = fp[j]
        BY <1>2, <2>1, <3>2
      <4>2. at'[fp[j]] = at[fp[j]]
        BY <1>1, <2>1, <3>2, <4>1 DEF AtOK
      <4>3. QED BY <1>1, <2>4, <4>1, <4>2 DEF AtOK
    <3>3. QED BY <3>1, <3>2
  <2>5. QED BY <1>1, <2>1, <2>3, <2>4 DEF AtOK
<1>4. CASE Skipped
  BY <1>1, <1>2, <1>4 DEF AtOK, Skipped, S!Skipped, S!NoTarget
<1>5. CASE Look
  <2>1. /\ looked' = [looked EXCEPT ![Here] = @ + 1] /\ at' = at /\ fp' = fp
    BY <1>5 DEF Look, loopVars
  <2>2. Here \in Addr
    BY <1>1, <1>5, TopOfWalk DEF Look, Track, LeaveUnknown, ChildrenDone
  <2> DEFINE h == Here
  <2>3. h \in Addr /\ looked' = [looked EXCEPT ![h] = @ + 1]
    BY <2>1, <2>2
  <2> HIDE DEF h
  <2>4. looked' \in [Addr -> Nat]
    BY <1>1, <2>3 DEF AtOK
  <2>5. QED BY <1>1, <2>1, <2>4 DEF AtOK
<1>6. CASE RoundBegins
  BY <1>1, <1>6 DEF AtOK, RoundBegins, S!SpinEnds, S!loopVars
<1>7. CASE \/ PopFile \/ CreateStep \/ LoopStep \/ ObserveTarget \/ Visit
           \/ RoundEnds \/ DeinitTarget \/ Exit \/ Signal \/ Tick \/ Others
           \/ UNCHANGED backdVars
  <2>1. UNCHANGED <<at, looked, fp>>
    BY <1>7
       DEF PopFile, S!PopFile, CreateStep, LoopStep, S!NoMoreFiles,
           S!HandleSigint, S!HandleSigterm, S!Handle, S!SpinBegins, S!SpinGoesOn,
           S!SpinFlag, S!SpinWakes, ObserveTarget, S!ObserveTarget, Visit,
           RoundEnds, S!RoundEnds, DeinitTarget, S!DeinitTarget, Exit, S!Exit,
           Signal, S!Signal, Tick, S!Tick, Others, S!loopVars, daemonVars,
           loopVars, backdVars
  <2>2. QED BY <1>1, <2>1 DEF AtOK
<1>8. QED BY <1>3, <1>4, <1>5, <1>6, <1>7 DEF BackdNext, Daemon

LEMMA BackdInvariance == BackdSpec => []BInv
<1>1. BackdInit => BInv
  <2> SUFFICES ASSUME BackdInit PROVE BInv
    OBVIOUS
  <2>1. /\ FsInit /\ live = {} /\ brk = 0 /\ frames = <<>> /\ unopened = {}
        /\ result = NULL /\ heap = [a \in Addr |-> ZeroTarget]
        /\ stack = <<>> /\ cur = <<>> /\ out = {} /\ crashed = FALSE
        /\ at = [n \in DOMAIN Files |-> NULL] /\ looked = [a \in Addr |-> 0]
        /\ fp = [j \in S!Indices |-> S!NoTarget]
    BY DEF BackdInit, S!Init
  <2>2. heap \in [Addr -> Target] /\ \A a \in Addr : Len(heap[a].events) = 0
    BY <2>1, ZeroTargetOK
  <2>3. IInv
    <3>1. FsTargetTypeOK
      BY <2>1, <2>2, MaxChangesAssumption, MaxTargetsAssumption
         DEF FsTargetTypeOK, FsTypeOK, FsInit
    <3>2. RoutineTypeOK
      <4>1. stack \in Seq([t : live, i : Nat]) /\ cur \in Seq(STRING)
        BY <2>1
      <4>2. \A a \in Addr : Len(heap[a].events) <= MaxEvents
        BY <2>2, MaxEventsAssumption
      <4>3. QED BY <2>1, <3>1, <4>1, <4>2 DEF RoutineTypeOK
    <3>3. QED
      BY <2>1, <3>2 DEF IInv, FramesOK, Callers, EventsOK, NamesOK,
                        WalkAfterCreate, EventChain
  <2>4. QED BY <2>1, <2>3 DEF BInv, PcOK, AtOK
<1>2. BInv /\ SP!IInv /\ [BackdNext]_backdVars => BInv'
  BY BackdKeepsIInv, BackdKeepsPc, BackdKeepsAt DEF BInv
<1>3. QED BY <1>1, <1>2, ServiceInvariant, PTL DEF BackdSpec

\* The parts keep their types when the files share heap, buffer and loop.
THEOREM BackdTypeCorrect == BackdSpec => []BackdTypeOK
<1>1. BInv /\ SP!IInv => BackdTypeOK
  BY DEF BInv, IInv, AtOK, BackdTypeOK, SP!IInv, SP!ServiceTypeOK,
     S!ServiceTypeOK, SP!Indices, S!Indices, SP!Targets, S!Targets,
     SP!NoFile, S!NoFile, SP!NoTarget, S!NoTarget, SP!Signals, S!Signals,
     SP!Time, S!Time
<1>2. QED BY <1>1, BackdInvariance, ServiceInvariant, PTL

\* The logs of all files' targets are chained as those of one file are, until
\* the targets are freed.
THEOREM BackdEventChain == BackdSpec => []EventChain
<1>1. BInv => EventChain
  BY DEF BInv, IInv
<1>2. QED BY <1>1, BackdInvariance, PTL

-----------------------------------------------------------------------------
(* Who owns the targets of all files.                                      *)

RootOf(j)  == at[fp[j]]
Pending(a) == pc = "create" /\ frames = <<>> /\ result = a

\* A target was allocated before the live targets its children array points
\* to, and a call's target before those of the calls it makes: some ranking of
\* the addresses says so, also when addresses are used again.
Ranked(r) ==
  /\ \A d \in live : \A n \in DOMAIN heap[d].children :
       heap[d].children[n] \in live => r[d] < r[heap[d].children[n]]
  /\ \A m, n \in DOMAIN frames :
       m < n /\ frames[n].self # NULL => r[frames[m].self] < r[frames[n].self]

RankOK == \E b \in Nat : \E r \in [Addr -> 0..b] : Ranked(r)

\* Only directories have children, and only those whose entries are read.
KidsOK ==
  /\ \A a \in live :
       heap[a].type # "directory" => DOMAIN heap[a].children = {}
  /\ \A n \in DOMAIN frames : frames[n].pc \in {"opendir", "readdir"} =>
       heap[frames[n].self].type = "directory"
  /\ frames # <<>> /\ Top.pc \in {"event_init", "opendir"} =>
       DOMAIN heap[Top.self].children = {}

\* No target is lost, whatever went wrong.
OwnedOK ==
  pc # "killed" =>
    \A a \in live :
      \/ \E d \in live : \E n \in DOMAIN heap[d].children :
           heap[d].children[n] = a
      \/ \E n \in DOMAIN frames : frames[n].self = a
      \/ \E j \in SlotsLeft : RootOf(j) = a
      \/ Pending(a)

SlotIndexOK ==
  /\ pc = "exited" => i >= fpIndex
  /\ pc = "create" => \A j \in S!Indices : j < fpIndex => fp[j] < popped

\* As long as every directory could be opened nothing has two owners and
\* nothing dangles.
ChildrenOK ==
  \A d \in live : \A n \in DOMAIN heap[d].children :
    LET c == heap[d].children[n]
    IN  /\ c \in live
        /\ \A m \in DOMAIN frames : frames[m].self # c
        /\ \A j \in SlotsLeft : RootOf(j) # c
        /\ ~Pending(c)

OneParent ==
  \A d, e \in live :
    \A n \in DOMAIN heap[d].children, m \in DOMAIN heap[e].children :
      heap[d].children[n] = heap[e].children[m] => d = e /\ n = m

RootsOK ==
  /\ \A j \in SlotsLeft :
       /\ RootOf(j) \in live
       /\ \A k \in SlotsLeft : RootOf(j) = RootOf(k) => j = k
       /\ \A m \in DOMAIN frames : frames[m].self # RootOf(j)
       /\ ~Pending(RootOf(j))
  /\ \A a \in Addr : Pending(a) => a \in live

ForestOK ==
  unopened = {} /\ pc # "killed" =>
    ~crashed /\ ChildrenOK /\ OneParent /\ RootsOK

OwnInv == RankOK /\ KidsOK /\ OwnedOK /\ SlotIndexOK /\ ForestOK

\* Steps that hand no target on: calls come and go without a target, the slots
\* that are left, and the addresses in them, stay.
LEMMA OwnersKept ==
  ASSUME BInv, OwnInv,
         live' = live, unopened' = unopened,
         \A d \in live : heap'[d].children = heap[d].children,
         DOMAIN frames \subseteq DOMAIN frames', DOMAIN frames' \subseteq Nat,
         \A n \in DOMAIN frames : frames'[n].self = frames[n].self,
         \A n \in DOMAIN frames' : n \notin DOMAIN frames =>
           frames'[n].self = NULL /\ \A m \in DOMAIN frames : m < n,
         pc' # "killed" => SlotsLeft' = SlotsLeft,
         \A j \in SlotsLeft : at'[fp'[j]] = at[fp[j]],
         pc' # "killed" => \A a \in Addr : Pending(a)' <=> Pending(a),
         pc = "killed" => pc' = "killed",
         unopened = {} => crashed' = crashed
  PROVE  RankOK' /\ OwnedOK' /\ ForestOK'
<1>1. live \subseteq Addr /\ NULL \notin Addr
  BY AddrLive DEF BInv, IInv, RoutineTypeOK
<1>2. RankOK'
  <2>1. PICK b \in Nat : \E r \in [Addr -> 0..b] : Ranked(r)
    BY DEF OwnInv, RankOK
  <2> PICK r \in [Addr -> 0..b] : Ranked(r)
    BY <2>1
  <2>2. ASSUME NEW m \in DOMAIN frames', NEW n \in DOMAIN frames',
               m < n, frames'[n].self # NULL
        PROVE  r[frames'[m].self] < r[frames'[n].self]
    <3>1. n \in DOMAIN frames
      BY <2>2
    <3>2. m \in DOMAIN frames
      <4>1. m \notin DOMAIN frames => n < m
        BY <3>1
      <4>2. m \in Nat /\ n \in Nat
        OBVIOUS
      <4>3. QED BY <2>2, <4>1, <4>2
    <3>3. QED BY <2>2, <3>1, <3>2 DEF Ranked
  <2>3. Ranked(r)'
    BY <2>2 DEF Ranked
  <2>4. QED BY <2>3 DEF RankOK
<1>3. OwnedOK'
  <2> SUFFICES ASSUME pc' # "killed", NEW a \in live
               PROVE  \/ \E d \in live : \E n \in DOMAIN heap'[d].children :
                           heap'[d].children[n] = a
                      \/ \E n \in DOMAIN frames' : frames'[n].self = a
                      \/ \E j \in SlotsLeft' : RootOf(j)' = a
                      \/ Pending(a)'
    BY DEF OwnedOK
  <2>1. pc # "killed" /\ SlotsLeft' = SlotsLeft
    OBVIOUS
  <2>2. CASE \E d \in live : \E n \in DOMAIN heap[d].children :
               heap[d].children[n] = a
    BY <2>2
  <2>3. CASE \E n \in DOMAIN frames : frames[n].self = a
    BY <2>3
  <2>4. CASE \E j \in SlotsLeft : RootOf(j) = a
    BY <2>1, <2>4 DEF RootOf
  <2>5. CASE Pending(a)
    BY <1>1, <2>5
  <2>6. QED BY <2>1, <2>2, <2>3, <2>4, <2>5 DEF OwnInv, OwnedOK
<1>4. ForestOK'
  <2> SUFFICES ASSUME unopened = {}, pc' # "killed"
               PROVE  ~crashed' /\ ChildrenOK' /\ OneParent' /\ RootsOK'
    BY DEF ForestOK
  <2>1. /\ pc # "killed" /\ SlotsLeft' = SlotsLeft
        /\ \A j \in SlotsLeft : RootOf(j)' = RootOf(j)
        /\ \A a \in Addr : Pending(a)' <=> Pending(a)
    BY DEF RootOf
  <2>2. ~crashed /\ ChildrenOK /\ OneParent /\ RootsOK
    BY <2>1 DEF OwnInv, ForestOK
  <2>3. \A a \in live : (\A m \in DOMAIN frames : frames[m].self # a)
          => \A m \in DOMAIN frames' : frames'[m].self # a
    BY <1>1
  <2>4. ChildrenOK'
    BY <1>1, <2>1, <2>2, <2>3 DEF ChildrenOK
  <2>5. OneParent'
    BY <2>2 DEF OneParent
  <2>6. RootsOK'
    BY <1>1, <2>1, <2>2, <2>3 DEF RootsOK
  <2>7. QED BY <2>2, <2>4, <2>5, <2>6
<1>5. QED BY <1>2, <1>3, <1>4

\* The calls in progress hold different live targets.
LEMMA CallsLive ==
  ASSUME IInv
  PROVE  /\ \A n \in DOMAIN frames :
              IF frames[n].pc = "lstat" THEN frames[n].self = NULL
              ELSE frames[n].self \in live
         /\ \A m, n \in DOMAIN frames : m # n => frames[m].self # frames[n].self
<1>1. CASE frames = <<>>
  BY <1>1
<1>2. CASE frames # <<>>
  <2>1. live \subseteq Addr /\ NULL \notin Addr /\ FramesOK
    BY AddrLive DEF IInv, RoutineTypeOK
  <2>2. DOMAIN frames = Callers \cup {Len(frames)} /\ Top = frames[Len(frames)]
    BY <1>2, CallShape
  <2>3. QED BY <1>2, <2>1, <2>2 DEF FramesOK
<1>3. QED BY <1>1, <1>2

\* The slots that are left, where the loop moves without a target.
LEMMA SlotsStay ==
  ASSUME SP!IInv,
         \/ LoopStep \/ RoundBegins \/ RoundEnds \/ ObserveTarget \/ Exit
         \/ Signal \/ Tick \/ PopFile
         \/ UNCHANGED loopVars
  PROVE  /\ fp' = fp /\ (pc' # "killed" => SlotsLeft' = SlotsLeft)
         /\ pc = "killed" => pc' = "killed"
         /\ fpIndex' = fpIndex
         /\ pc' = "exited" => i' = i /\ (pc = "exited" \/ i >= fpIndex)
<1>1. /\ fpIndex \in Nat /\ \A j \in S!Indices : j \in Nat /\ j >= 0
      /\ i \in Nat
  BY LoopShape, ServiceConstants DEF S!Indices, SP!FilesAssumption
<1>2. pc \in {"sigint", "sigterm", "spin_time", "spin_flag", "sleep", "pop"}
        => i = 0
  BY DEF SP!IInv, SP!IndexOK
<1>3. CASE LoopStep
  <2>1. CASE S!NoMoreFiles
    BY <1>1, <1>2, <2>1 DEF S!NoMoreFiles, SlotsLeft
  <2>2. CASE S!HandleSigint \/ S!HandleSigterm
    BY <1>1, <1>2, <2>2
       DEF S!HandleSigint, S!HandleSigterm, S!Handle, S!loopVars, SlotsLeft
  <2>3. CASE S!SpinBegins
    BY <1>1, <1>2, <2>3 DEF S!SpinBegins, SlotsLeft
  <2>4. CASE S!SpinGoesOn \/ S!SpinFlag \/ S!SpinWakes
    BY <1>1, <1>2, <2>4
       DEF S!SpinGoesOn, S!SpinFlag, S!SpinWakes, S!loopVars, SlotsLeft
  <2>5. QED BY <1>3, <2>1, <2>2, <2>3, <2>4 DEF LoopStep
<1>4. CASE RoundBegins
  BY <1>1, <1>2, <1>4 DEF RoundBegins, S!SpinEnds, S!loopVars, SlotsLeft
<1>5. CASE RoundEnds
  BY <1>1, <1>5 DEF RoundEnds, S!RoundEnds, S!loopVars, SlotsLeft
<1>6. CASE ObserveTarget
  BY <1>1, <1>6 DEF ObserveTarget, S!ObserveTarget, SlotsLeft
<1>7. CASE Exit
  BY <1>1, <1>7 DEF Exit, S!Exit, S!loopVars, SlotsLeft
<1>8. CASE Signal
  BY <1>1, <1>8 DEF Signal, S!Signal, S!loopVars, SlotsLeft
<1>9. CASE Tick
  BY <1>1, <1>9 DEF Tick, S!Tick, S!loopVars, SlotsLeft
<1>10. CASE PopFile
  BY <1>1, <1>10 DEF PopFile, S!PopFile, SlotsLeft
<1>11. CASE UNCHANGED loopVars
  BY <1>1, <1>11 DEF loopVars, SlotsLeft
<1>12. QED
  BY <1>3, <1>4, <1>5, <1>6, <1>7, <1>8, <1>9, <1>10, <1>11

\* The end of fs_target_observe changes no children array and no type.
LEMMA LookShape ==
  ASSUME IInv, Track \/ LeaveUnknown
  PROVE  /\ Awake /\ ChildrenDone /\ Leave /\ Here \in live /\ Here \in Addr
         /\ UNCHANGED <<live, frames, unopened, result, crashed>>
         /\ \A x \in Addr : /\ heap'[x].children = heap[x].children
                            /\ heap'[x].type = heap[x].type
<1>1. /\ Awake /\ ChildrenDone /\ stack # <<>> /\ Leave
      /\ UNCHANGED <<live, frames, unopened, result, crashed>>
  BY DEF Track, LeaveUnknown, ChildrenDone, targetVars
<1>2. Here \in live /\ Here \in Addr
  BY <1>1, TopOfWalk
<1>3. heap \in [Addr -> Target]
  BY DEF IInv, RoutineTypeOK, FsTargetTypeOK
<1>4. \/ UNCHANGED heap
      \/ \E es : heap' = [heap EXCEPT ![Here].events = es]
  BY DEF Track, LeaveUnknown, Record, targetVars
<1>5. ASSUME NEW es, heap' = [heap EXCEPT ![Here].events = es]
      PROVE  \A x \in Addr : /\ heap'[x].children = heap[x].children
                             /\ heap'[x].type = heap[x].type
  BY <1>2, <1>3, <1>5 DEF Target
<1>6. QED BY <1>1, <1>2, <1>4, <1>5

\* While every directory could be opened a round meets live targets only.
LEMMA RoundIsSafe ==
  ASSUME BInv, SP!IInv, OwnInv, unopened = {}
  PROVE  /\ ObserveTarget => at[fp[i]] \in live /\ crashed' = crashed
         /\ Visit => LET f == stack[Len(stack)]
                     IN  /\ heap[f.t].children[f.i + 1] \in live
                         /\ f.i + 1 \in DOMAIN heap[f.t].children
                         /\ crashed' = crashed
<1>1. ASSUME ObserveTarget PROVE at[fp[i]] \in live /\ crashed' = crashed
  <2>1. pc = "observe" /\ i < fpIndex /\ i \in S!Indices
    BY <1>1, LoopShape DEF ObserveTarget, S!ObserveTarget
  <2>2. i \in SlotsLeft
    BY <2>1 DEF SlotsLeft
  <2>3. at[fp[i]] \in live
    BY <2>1, <2>2 DEF OwnInv, ForestOK, RootsOK, RootOf
  <2>4. QED BY <1>1, <2>3 DEF ObserveTarget, Observe
<1>2. ASSUME Visit
      PROVE  LET f == stack[Len(stack)]
             IN  /\ heap[f.t].children[f.i + 1] \in live
                 /\ f.i + 1 \in DOMAIN heap[f.t].children
                 /\ crashed' = crashed
  <2> DEFINE f == stack[Len(stack)]
  <2>1. /\ Awake /\ stack # <<>> /\ f.i < ChildrenCount(f.t) /\ pc = "observe"
        /\ \E s : Observe(heap[f.t].children[f.i + 1], s)
    BY <1>2 DEF Visit, ObserveChild
  <2>2. /\ f \in [t : live, i : Nat] /\ f.t \in Addr
        /\ heap[f.t].children \in Seq(Addr)
    BY <2>1, TopOfWalk, AwakeShape DEF BInv, FsTargetTypeOK, Target
  <2>3. f.i + 1 \in DOMAIN heap[f.t].children
    BY <2>1, <2>2, LenProperties DEF ChildrenCount
  <2> HIDE DEF f
  <2>4. heap[f.t].children[f.i + 1] \in live
    BY <2>1, <2>2, <2>3 DEF OwnInv, ForestOK, ChildrenOK
  <2>5. crashed' = crashed
    BY <2>1, <2>4 DEF Observe
  <2>6. QED BY <2>3, <2>4, <2>5 DEF f
<1>3. QED BY <1>1, <1>2

\* Steps without a call of fs_target_create that hand no target on.
LEMMA LoopKeepsOwners ==
  ASSUME BInv, SP!IInv, OwnInv,
         \/ LoopStep \/ RoundBegins \/ RoundEnds \/ ObserveTarget \/ Exit
         \/ Signal \/ Tick \/ Visit \/ Look \/ Others \/ UNCHANGED backdVars
  PROVE  OwnInv'
<1>1. /\ IInv /\ live \subseteq Addr /\ frames \in Seq(Frame)
      /\ DOMAIN frames \subseteq Nat
  <2>1. IInv /\ live \subseteq Addr /\ frames \in Seq(Frame)
    BY AddrLive DEF BInv, IInv, RoutineTypeOK, FsTargetTypeOK
  <2>2. DOMAIN frames = 1..Len(frames) /\ Len(frames) \in Nat
    BY <2>1, LenProperties
  <2>3. QED BY <2>1, <2>2
<1>2. UNCHANGED <<live, frames, unopened, result, at>>
  <2>1. CASE Look
    BY <1>1, <2>1, LookShape DEF Look
  <2>2. CASE ~Look
    BY <2>2 DEF LoopStep, RoundBegins, RoundEnds, ObserveTarget, Exit, Signal,
       Tick, Visit, Others, OtherProcesses, ObserveChild, targetVars, daemonVars,
       vars, backdVars
  <2>3. QED BY <2>1, <2>2
<1>3. \A d \in live : /\ heap'[d].children = heap[d].children
                      /\ heap'[d].type = heap[d].type
  <2>1. CASE Look
    BY <1>1, <2>1, LookShape DEF Look
  <2>2. CASE ~Look
    <3>1. heap' = heap
      BY <2>2 DEF LoopStep, RoundBegins, RoundEnds, ObserveTarget, Exit, Signal,
         Tick, Visit, Others, OtherProcesses, ObserveChild, targetVars, vars,
         backdVars
    <3>2. QED BY <3>1
  <2>3. QED BY <2>1, <2>2
<1>4. unopened = {} => crashed' = crashed
  <2>1. CASE Look
    BY <1>1, <2>1, LookShape DEF Look
  <2>2. CASE ObserveTarget \/ Visit
    BY <2>2, RoundIsSafe
  <2>3. CASE ~(Look \/ ObserveTarget \/ Visit)
    BY <2>3 DEF LoopStep, RoundBegins, RoundEnds, Exit, Signal,
         Tick, Others, OtherProcesses, targetVars, vars, walkVars, backdVars
  <2>4. QED BY <2>1, <2>2, <2>3
<1>5. /\ fp' = fp /\ (pc' # "killed" => SlotsLeft' = SlotsLeft)
      /\ pc = "killed" => pc' = "killed"
      /\ fpIndex' = fpIndex
      /\ pc' = "exited" => i' = i /\ (pc = "exited" \/ i >= fpIndex)
  <2>1. CASE Visit \/ Look \/ Others \/ UNCHANGED backdVars
    <3>1. UNCHANGED loopVars
      BY <2>1 DEF Visit, Look, Others, daemonVars, backdVars
    <3>2. QED BY <3>1, SlotsStay
  <2>2. QED BY <2>1, SlotsStay
<1>6. /\ pc' \notin {"create", "killed"} => pc # "create"
      /\ pc' = "create" => pc = "create"
      /\ popped' = popped
  BY DEF LoopStep, S!NoMoreFiles, S!HandleSigint, S!HandleSigterm, S!Handle,
         S!SpinBegins, S!SpinGoesOn, S!SpinFlag, S!SpinWakes, S!loopVars,
         RoundBegins, S!SpinEnds, RoundEnds, S!RoundEnds, ObserveTarget,
         S!ObserveTarget, Exit, S!Exit, Signal, S!Signal, Tick, S!Tick,
         Visit, Look, Others, daemonVars, loopVars, backdVars
<1>7. pc' # "killed" => \A a \in Addr : Pending(a)' <=> Pending(a)
  BY <1>2, <1>6 DEF Pending
<1>8. RankOK' /\ OwnedOK' /\ ForestOK'
  <2>1. \A j \in SlotsLeft : at'[fp'[j]] = at[fp[j]]
    BY <1>2, <1>5
  <2>2. QED
    BY <1>1, <1>2, <1>3, <1>4, <1>5, <1>7, <2>1, OwnersKept
<1>9. KidsOK'
  <2>1. KidsOK /\ FramesOK
    BY <1>1 DEF OwnInv, IInv
  <2>2. \A n \in DOMAIN frames : frames[n].pc \in {"opendir", "readdir"} =>
          frames[n].self \in live
    BY <1>1, CallsLive
  <2>3. frames # <<>> /\ Top.pc \in {"event_init", "opendir"} => Top.self \in live
    BY <1>1 DEF IInv, FramesOK
  <2>4. QED BY <1>2, <1>3, <2>1, <2>2, <2>3 DEF KidsOK, Top
<1>10. SlotIndexOK'
  <2>1. SlotIndexOK
    BY DEF OwnInv
  <2>2. QED BY <1>5, <1>6, <2>1 DEF SlotIndexOK
<1>11. QED BY <1>8, <1>9, <1>10 DEF OwnInv

LEMMA PopFileOwners ==
  ASSUME BInv, SP!IInv, OwnInv, PopFile PROVE OwnInv'
<1> DEFINE f == NewFrame(FileOf(popped + 1))
<1>1. /\ pc = "pop" /\ pc' = "create" /\ frames' = <<f>> /\ frames = <<>>
      /\ popped' = popped + 1
      /\ UNCHANGED <<heap, live, unopened, result, crashed, at, fp, fpIndex>>
  BY DEF PopFile, S!PopFile, heapVars, walkVars, BInv, PcOK
<1>2. f.self = NULL /\ f.pc = "lstat"
  BY DEF NewFrame
<1> HIDE DEF f
<1>3. DOMAIN frames' = {1} /\ frames'[1] = f /\ Top' = f /\ frames' # <<>>
  BY <1>1 DEF Top
<1>4. fp' = fp /\ SlotsLeft' = SlotsLeft
  BY <1>1, SlotsStay
<1>5. RankOK' /\ OwnedOK' /\ ForestOK'
  <2>1. \A a \in Addr : ~Pending(a) /\ ~Pending(a)'
    BY <1>1, <1>3 DEF Pending
  <2>2. DOMAIN frames = {} /\ {1} \subseteq Nat
    BY <1>1
  <2>3. QED BY <1>1, <1>2, <1>3, <1>4, <2>1, <2>2, OwnersKept
<1>6. KidsOK'
  BY <1>1, <1>2, <1>3 DEF KidsOK, OwnInv
<1>7. SlotIndexOK'
  <2>1. \A j \in S!Indices : j < fpIndex => fp[j] \in 1..popped
    BY LoopShape
  <2>2. popped \in Nat
    BY LoopShape
  <2>3. \A j \in S!Indices : j < fpIndex => fp[j] < popped + 1
    BY <2>1, <2>2
  <2>4. QED BY <1>1, <2>3 DEF SlotIndexOK
<1>8. QED BY <1>5, <1>6, <1>7 DEF OwnInv

LEMMA SkippedOwners ==
  ASSUME BInv, SP!IInv, OwnInv, Skipped PROVE OwnInv'
<1>1. /\ pc = "create" /\ pc' = "pop" /\ frames = <<>> /\ result = NULL
      /\ fp' = [fp EXCEPT ![fpIndex] = S!NoTarget]
      /\ UNCHANGED <<heap, live, frames, unopened, result, crashed, at, fpIndex>>
  BY DEF Skipped, S!Skipped, vars, targetVars, walkVars
<1>2. fp' = fp
  <2>1. /\ fp \in [S!Indices -> Nat] /\ fpIndex \in S!Indices
        /\ ~(fpIndex < fpIndex) => fp[fpIndex] = S!NoTarget
    BY LoopShape
  <2>2. ~(fpIndex < fpIndex)
    BY <2>1, ServiceConstants DEF S!Indices, SP!FilesAssumption
  <2>3. QED BY <1>1, <2>1, <2>2
<1>3. SlotsLeft' = SlotsLeft
  BY <1>1 DEF SlotsLeft
<1>4. RankOK' /\ OwnedOK' /\ ForestOK'
  <2>1. NULL \notin Addr
    BY AddrLive DEF BInv, IInv, RoutineTypeOK
  <2>2. \A a \in Addr : ~Pending(a) /\ ~Pending(a)'
    BY <1>1, <2>1 DEF Pending
  <2>3. DOMAIN frames = {} /\ {} \subseteq Nat
    BY <1>1
  <2>4. QED BY <1>1, <1>2, <1>3, <2>2, <2>3, OwnersKept
<1>5. KidsOK'
  BY <1>1 DEF KidsOK, OwnInv
<1>6. SlotIndexOK'
  BY <1>1 DEF SlotIndexOK
<1>7. QED BY <1>4, <1>5, <1>6 DEF OwnInv

\* The result goes from service_init's local variable to its slot of fp.
LEMMA CreatedOwners ==
  ASSUME BInv, SP!IInv, OwnInv, Created PROVE OwnInv'
<1>1. /\ pc = "create" /\ pc' = "pop" /\ frames = <<>> /\ result # NULL
      /\ fp' = [fp EXCEPT ![fpIndex] = popped] /\ fpIndex' = fpIndex + 1
      /\ at' = [at EXCEPT ![popped] = result]
      /\ UNCHANGED <<heap, live, frames, unopened, result, crashed>>
  BY DEF Created, S!Created, vars, targetVars, walkVars
<1>2. /\ fp \in [S!Indices -> Nat] /\ fpIndex \in S!Indices
      /\ popped \in DOMAIN Files
      /\ \A j \in S!Indices : j \in Nat
      /\ fpIndex \in Nat /\ popped \in Nat
      /\ \A j \in S!Indices : j < fpIndex => fp[j] < popped /\ fp[j] \in 1..popped
  BY <1>1, LoopShape, ServiceConstants
     DEF S!Indices, SP!FilesAssumption, OwnInv, SlotIndexOK
<1>3. /\ live \subseteq Addr /\ at \in [DOMAIN Files -> Addr \cup {NULL}]
  BY AddrLive DEF BInv, IInv, RoutineTypeOK, AtOK
<1>4. /\ SlotsLeft = {j \in S!Indices : j < fpIndex}
      /\ SlotsLeft' = SlotsLeft \cup {fpIndex} /\ fpIndex \notin SlotsLeft
  <2>1. /\ SlotsLeft = {j \in S!Indices : j < fpIndex}
        /\ SlotsLeft' = {j \in S!Indices : j < fpIndex + 1}
    BY <1>1 DEF SlotsLeft
  <2>2. \A j, m \in Nat : (j < m + 1 <=> j < m \/ j = m) /\ ~(m < m)
    OBVIOUS
  <2>3. \A j \in S!Indices : j < fpIndex + 1 <=> j < fpIndex \/ j = fpIndex
    BY <1>2, <2>2
  <2>4. fpIndex \notin SlotsLeft
    BY <1>2, <2>1, <2>2
  <2>5. SlotsLeft' = SlotsLeft \cup {fpIndex}
    <3>1. fpIndex \in S!Indices
      BY <1>2
    <3>2. QED BY <2>1, <2>3, <3>1
  <2>6. QED BY <2>1, <2>4, <2>5
<1>5. fp'[fpIndex] = popped /\ at'[fp'[fpIndex]] = result
  BY <1>1, <1>2, <1>3
<1>6. \A j \in SlotsLeft : at'[fp'[j]] = at[fp[j]]
  <2>1. \A j \in SlotsLeft : fp'[j] = fp[j] /\ fp[j] # popped
    BY <1>1, <1>2, <1>4
  <2>2. QED BY <1>1, <1>2, <1>3, <1>4, <2>1
<1>7. Pending(result) /\ \A a : a # result => ~Pending(a)
  BY <1>1 DEF Pending
<1>8. \A a : ~Pending(a)'
  BY <1>1 DEF Pending
<1>9. RankOK'
  BY <1>1 DEF RankOK, Ranked, OwnInv
<1>10. OwnedOK'
  <2> SUFFICES ASSUME NEW a \in live
               PROVE  \/ \E d \in live : \E n \in DOMAIN heap[d].children :
                           heap[d].children[n] = a
                      \/ \E n \in DOMAIN frames : frames[n].self = a
                      \/ \E j \in SlotsLeft' : at'[fp'[j]] = a
    BY <1>1 DEF OwnedOK, RootOf
  <2>1. CASE \E j \in SlotsLeft : RootOf(j) = a
    BY <1>4, <1>6, <2>1 DEF RootOf
  <2>2. CASE Pending(a)
    BY <1>4, <1>5, <1>7, <2>2
  <2>3. QED BY <1>1, <2>1, <2>2 DEF OwnInv, OwnedOK
<1>11. ForestOK'
  <2> SUFFICES ASSUME unopened = {}
               PROVE  ~crashed' /\ ChildrenOK' /\ OneParent' /\ RootsOK'
    BY <1>1 DEF ForestOK
  <2>1. ~crashed /\ ChildrenOK /\ OneParent /\ RootsOK
    BY <1>1 DEF OwnInv, ForestOK
  <2>2. /\ result \in Addr /\ result \in live
        /\ \A j \in SlotsLeft : at[fp[j]] # result
    <3>1. result \in Addr
      BY <1>1 DEF BInv, IInv, RoutineTypeOK, FsTargetTypeOK
    <3>2. QED BY <1>7, <2>1, <3>1 DEF RootsOK, RootOf
  <2>3. \A d \in live : \A n \in DOMAIN heap[d].children :
          /\ heap[d].children[n] \in live
          /\ heap[d].children[n] # result
          /\ \A j \in SlotsLeft : at[fp[j]] # heap[d].children[n]
    BY <1>7, <2>1 DEF ChildrenOK, RootOf
  <2>4. ChildrenOK'
    BY <1>1, <1>4, <1>5, <1>6, <1>8, <2>3 DEF ChildrenOK, RootOf
  <2>5. OneParent'
    BY <1>1, <2>1 DEF OneParent
  <2>6. RootsOK'
    <3>1. \A j \in SlotsLeft' : at'[fp'[j]] \in live
      BY <1>4, <1>5, <1>6, <2>1, <2>2 DEF RootsOK, RootOf
    <3>2. \A j, k \in SlotsLeft' : at'[fp'[j]] = at'[fp'[k]] => j = k
      BY <1>4, <1>5, <1>6, <2>1, <2>2 DEF RootsOK, RootOf
    <3>3. QED BY <1>1, <1>8, <3>1, <3>2 DEF RootsOK, RootOf
  <2>7. QED BY <1>1, <2>1, <2>4, <2>5, <2>6
<1>12. KidsOK' /\ SlotIndexOK'
  BY <1>1 DEF KidsOK, SlotIndexOK, OwnInv, Top
<1>13. QED BY <1>9, <1>10, <1>11, <1>12 DEF OwnInv

\* A call goes on with its target, or calls itself for an entry.
LEMMA CallGoesOn ==
  ASSUME BInv, SP!IInv, OwnInv, CreateStep, frames # <<>>, frames' # <<>>,
         UNCHANGED <<live, unopened, result>>,
         \A x \in live : /\ heap'[x].children = heap[x].children
                         /\ heap'[x].type = heap[x].type,
         DOMAIN frames \subseteq DOMAIN frames', DOMAIN frames' \subseteq Nat,
         \A n \in DOMAIN frames : frames'[n].self = frames[n].self,
         \A n \in DOMAIN frames' : n \notin DOMAIN frames =>
           /\ frames'[n].self = NULL /\ frames'[n].pc = "lstat"
           /\ \A m \in DOMAIN frames : m < n,
         \A n \in DOMAIN frames : frames'[n].pc \in {"opendir", "readdir"} =>
           /\ frames[n].self \in live
           /\ heap[frames[n].self].type = "directory",
         Top'.pc \in {"event_init", "opendir"} =>
           /\ Top'.self = Top.self /\ Top.pc \in {"event_init", "opendir"}
  PROVE  OwnInv'
<1>1. IInv
  BY DEF BInv
<1>2. /\ pc = "create" /\ pc' = pc
      /\ UNCHANGED <<at, fp, fpIndex, popped, i, crashed>>
  BY DEF CreateStep, daemonVars, loopVars, walkVars
<1>3. SlotsLeft' = SlotsLeft
  BY <1>2 DEF SlotsLeft
<1>4. RankOK' /\ OwnedOK' /\ ForestOK'
  <2>1. \A a \in Addr : Pending(a)' <=> Pending(a)
    BY DEF Pending
  <2>2. \A j \in SlotsLeft : at'[fp'[j]] = at[fp[j]]
    BY <1>2
  <2>3. QED BY <1>2, <1>3, <2>1, <2>2, OwnersKept
<1>5. KidsOK'
  <2>1. KidsOK
    BY DEF OwnInv
  <2>2. \A n \in DOMAIN frames' : frames'[n].pc \in {"opendir", "readdir"} =>
          heap'[frames'[n].self].type = "directory"
    BY <1>1
  <2>3. Top'.pc \in {"event_init", "opendir"} =>
          DOMAIN heap'[Top'.self].children = {}
    <3> SUFFICES ASSUME Top'.pc \in {"event_init", "opendir"}
                 PROVE  DOMAIN heap'[Top'.self].children = {}
      OBVIOUS
    <3>1. Top'.self = Top.self /\ Top.pc \in {"event_init", "opendir"}
      OBVIOUS
    <3>2. Top.self \in live
      BY <1>1, <3>1 DEF IInv, FramesOK
    <3>3. DOMAIN heap[Top.self].children = {}
      BY <2>1, <3>1 DEF KidsOK
    <3>4. QED BY <3>1, <3>2, <3>3
  <2>4. QED BY <2>1, <2>2, <2>3 DEF KidsOK
<1>6. SlotIndexOK'
  BY <1>2 DEF SlotIndexOK, OwnInv
<1>7. QED BY <1>4, <1>5, <1>6 DEF OwnInv

LEMMA SetTopOwners ==
  ASSUME BInv, SP!IInv, OwnInv, CreateStep, frames # <<>>, Top.pc # "lstat",
         NEW f \in Frame, frames' = SetTop(f), f.self = Top.self,
         f.pc # "event_init", f.pc = "opendir" => Top.pc = "event_init",
         heap[Top.self].type = "directory",
         UNCHANGED <<live, unopened, result>>,
         \A x \in live : /\ heap'[x].children = heap[x].children
                         /\ heap'[x].type = heap[x].type
  PROVE  OwnInv'
<1>1. /\ IInv /\ FsTargetTypeOK
      /\ Len(frames) \in Nat \ {0} /\ DOMAIN frames = 1..Len(frames)
      /\ DOMAIN frames = Callers \cup {Len(frames)}
      /\ Callers = 1..(Len(frames) - 1)
      /\ Top = frames[Len(frames)]
  BY CallShape DEF BInv, IInv, RoutineTypeOK
<1>2. /\ DOMAIN frames' = DOMAIN frames /\ Len(frames') = Len(frames)
      /\ frames'[Len(frames)] = f
      /\ \A n \in Callers : frames'[n] = frames[n]
  BY <1>1, SetTopShape
<1>3. frames' # <<>> /\ Top' = f
  BY <1>1, <1>2, EmptySeq DEF Top
<1>4. Top.self \in live /\ \A n \in Callers : frames[n].self \in live
  BY <1>1 DEF IInv, FramesOK
<1>5. \A n \in DOMAIN frames : frames'[n].pc \in {"opendir", "readdir"} =>
           /\ frames[n].self \in live
           /\ heap[frames[n].self].type = "directory"
  BY <1>1, <1>2, <1>4 DEF OwnInv, KidsOK
<1>6. /\ \A n \in DOMAIN frames : frames'[n].self = frames[n].self
      /\ DOMAIN frames' \subseteq Nat
  BY <1>1, <1>2
<1>7. Top'.pc \in {"event_init", "opendir"} =>
        Top'.self = Top.self /\ Top.pc \in {"event_init", "opendir"}
  BY <1>3
<1>8. QED BY <1>2, <1>3, <1>5, <1>6, <1>7, CallGoesOn

LEMMA OpenDirOwners ==
  ASSUME BInv, SP!IInv, OwnInv, CreateStep, OpenDir PROVE OwnInv'
<1>1. frames # <<>> /\ Top.pc = "opendir" /\ FsTargetTypeOK /\ IInv
  BY RunningShape DEF OpenDir, Running, BInv, IInv, RoutineTypeOK
<1> DEFINE f == [Top EXCEPT !.pc = "readdir", !.entries = Entries(Top.path)]
<1>2. f \in Frame /\ f.pc = "readdir" /\ f.self = Top.self
  BY <1>1, FramesShape DEF Frame, Entries
<1>3. frames' = SetTop(f) /\ UNCHANGED <<heap, live, unopened, result>>
  BY DEF OpenDir, heapVars
<1>4. heap[Top.self].type = "directory"
  BY <1>1, CallShape DEF OwnInv, KidsOK
<1> HIDE DEF f
<1>5. QED BY <1>1, <1>2, <1>3, <1>4, SetTopOwners

LEMMA ReadDirOwners ==
  ASSUME BInv, SP!IInv, OwnInv, CreateStep, ReadDir PROVE OwnInv'
<1>1. PICK q \in NextEntries(Top) :
        frames' = Append(SetTop([Top EXCEPT !.seen = @ \cup {q}]), NewFrame(q))
  BY DEF ReadDir
<1>2. frames # <<>> /\ Top.pc = "readdir" /\ FsTargetTypeOK /\ IInv
      /\ UNCHANGED <<heap, live, unopened, result>>
  BY RunningShape DEF ReadDir, Running, BInv, IInv, RoutineTypeOK, heapVars
<1>3. /\ Len(frames) \in Nat \ {0} /\ DOMAIN frames = 1..Len(frames)
      /\ DOMAIN frames = Callers \cup {Len(frames)}
      /\ Callers = 1..(Len(frames) - 1)
      /\ Top = frames[Len(frames)] /\ Top \in Frame
  BY <1>2, CallShape, FramesShape
<1> DEFINE f == [Top EXCEPT !.seen = @ \cup {q}]
           s == SetTop(f)
<1>4. /\ f \in Frame /\ f.self = Top.self /\ f.pc = "readdir"
      /\ NewFrame(q) \in Frame /\ NewFrame(q).pc = "lstat"
      /\ NewFrame(q).self = NULL
  <2>1. q \in Paths
    BY <1>3 DEF NextEntries, Frame, Entries
  <2>2. QED BY <1>2, <1>3, <2>1 DEF Frame, NewFrame
<1>5. frames' = Append(s, NewFrame(q))
  BY <1>1
<1> HIDE DEF f
<1>6. /\ s \in Seq(Frame) /\ Len(s) = Len(frames) /\ s[Len(frames)] = f
      /\ \A n \in Callers : s[n] = frames[n]
  BY <1>2, <1>4, SetTopShape DEF Callers
<1> HIDE DEF s
<1>7. /\ frames' \in Seq(Frame) /\ Len(frames') = Len(frames) + 1
      /\ frames'[Len(frames) + 1] = NewFrame(q)
      /\ \A n \in 1..Len(frames) : frames'[n] = s[n]
  BY <1>4, <1>5, <1>6, AppendProperties
<1>8. /\ DOMAIN frames' = 1..(Len(frames) + 1) /\ frames' # <<>>
      /\ Top' = NewFrame(q)
  BY <1>3, <1>7, LenProperties, EmptySeq DEF Top
<1>9. /\ DOMAIN frames \subseteq DOMAIN frames' /\ DOMAIN frames' \subseteq Nat
      /\ \A n \in DOMAIN frames' : n \notin DOMAIN frames =>
           n = Len(frames) + 1 /\ \A m \in DOMAIN frames : m < n
  BY <1>3, <1>8
<1>10. \A n \in DOMAIN frames' : n \notin DOMAIN frames =>
           /\ frames'[n].self = NULL /\ frames'[n].pc = "lstat"
           /\ \A m \in DOMAIN frames : m < n
  BY <1>4, <1>7, <1>9
<1>11. \A n \in DOMAIN frames : /\ frames'[n].self = frames[n].self
                                /\ frames'[n].pc = frames[n].pc
  BY <1>2, <1>3, <1>4, <1>6, <1>7
<1>12. \A n \in DOMAIN frames : frames'[n].pc \in {"opendir", "readdir"} =>
           /\ frames[n].self \in live
           /\ heap[frames[n].self].type = "directory"
  BY <1>2, <1>11, CallsLive DEF OwnInv, KidsOK
<1>13. QED
  BY <1>2, <1>4, <1>8, <1>9, <1>10, <1>11, <1>12, CallGoesOn

\* malloc: the new target ranks above all others, and belongs to its call.
LEMMA CreateLstatOwners ==
  ASSUME BInv, SP!IInv, OwnInv, CreateStep, CreateLstat PROVE OwnInv'
<1>1. PICK a \in Malloc :
        /\ heap'   = [heap EXCEPT ![a] = SetInfo(Top.path, Lstat(Top.path).st)]
        /\ live'   = live \cup {a}
        /\ frames' = SetTop([Top EXCEPT !.pc = "event_init", !.self = a])
  BY DEF CreateLstat
<1>2. frames # <<>> /\ Top.pc = "lstat" /\ Top.self = NULL /\ IInv
      /\ FsTargetTypeOK /\ unopened' = unopened /\ result' = result
  BY RunningShape DEF CreateLstat, Running, BInv, IInv, RoutineTypeOK
<1>3. /\ Len(frames) \in Nat \ {0} /\ DOMAIN frames = 1..Len(frames)
      /\ DOMAIN frames = Callers \cup {Len(frames)}
      /\ Callers = 1..(Len(frames) - 1) /\ Len(frames) \notin Callers
      /\ Top = frames[Len(frames)] /\ Top \in Frame
  BY <1>2, CallShape, FramesShape
<1>4. a \in Addr /\ a \notin live /\ live \subseteq Addr /\ NULL \notin live
      /\ a # NULL
  <2>1. a \in Addr /\ a \notin live
    BY <1>1, <1>2, MaxTargetsAssumption DEF Malloc, Addr, FsTargetTypeOK
  <2>2. QED BY <1>2, <2>1, AddrLive
<1>5. /\ DOMAIN heap'[a].children = {}
      /\ \A x \in live : heap'[x] = heap[x]
  BY <1>1, <1>2, <1>4 DEF FsTargetTypeOK, SetInfo
<1> DEFINE f == [Top EXCEPT !.pc = "event_init", !.self = a]
<1>6. f \in Frame /\ f.pc = "event_init" /\ f.self = a
  BY <1>3, <1>4 DEF Frame
<1>7. frames' = SetTop(f)
  BY <1>1
<1> HIDE DEF f
<1>8. /\ DOMAIN frames' = DOMAIN frames /\ Len(frames') = Len(frames)
      /\ frames'[Len(frames)] = f
      /\ \A n \in Callers : frames'[n] = frames[n]
  BY <1>2, <1>3, <1>6, <1>7, SetTopShape
<1>9. frames' # <<>> /\ Top' = f
  BY <1>3, <1>8, EmptySeq DEF Top
<1>10. \A n \in Callers : frames[n].self \in live
  BY <1>2 DEF IInv, FramesOK
<1>11. /\ pc = "create" /\ pc' = pc
       /\ UNCHANGED <<at, fp, fpIndex, popped, i, crashed>>
  BY DEF CreateStep, daemonVars, loopVars, walkVars
<1>12. /\ SlotsLeft' = SlotsLeft
       /\ \A x : ~Pending(x) /\ ~Pending(x)'
  BY <1>2, <1>9, <1>11 DEF SlotsLeft, Pending
<1>13. RankOK'
  <2>1. PICK b \in Nat : \E r \in [Addr -> 0..b] : Ranked(r)
    BY DEF OwnInv, RankOK
  <2>2. PICK r \in [Addr -> 0..b] : Ranked(r)
    BY <2>1
  <2> DEFINE q == [x \in Addr |-> IF x = a THEN b + 1 ELSE r[x]]
  <2>3. /\ q \in [Addr -> 0..(b + 1)] /\ q[a] = b + 1
        /\ \A x \in live : q[x] = r[x] /\ q[x] < q[a]
    BY <1>4
  <2> HIDE DEF q
  <2>4. ASSUME NEW d \in live', NEW n \in DOMAIN heap'[d].children,
               heap'[d].children[n] \in live'
        PROVE  q[d] < q[heap'[d].children[n]]
    <3>1. d \in live /\ heap'[d] = heap[d]
      BY <1>1, <1>5, <2>4
    <3>2. CASE heap[d].children[n] = a
      BY <2>3, <3>1, <3>2
    <3>3. CASE heap[d].children[n] \in live
      BY <2>2, <2>3, <2>4, <3>1, <3>3 DEF Ranked
    <3>4. QED BY <1>1, <2>4, <3>1, <3>2, <3>3
  <2>5. ASSUME NEW m \in DOMAIN frames', NEW n \in DOMAIN frames', m < n
        PROVE  q[frames'[m].self] < q[frames'[n].self]
    <3>1. m \in Callers /\ frames'[m] = frames[m] /\ frames[m].self \in live
      BY <1>3, <1>8, <1>10, <2>5
    <3>2. CASE n = Len(frames)
      BY <1>6, <1>8, <2>3, <3>1, <3>2
    <3>3. CASE n \in Callers
      <4>1. frames'[n] = frames[n] /\ frames[n].self \in live
        BY <1>8, <1>10, <3>3
      <4>2. r[frames[m].self] < r[frames[n].self]
        BY <1>3, <1>4, <2>2, <2>5, <3>1, <3>3, <4>1 DEF Ranked
      <4>3. QED BY <2>3, <3>1, <4>1, <4>2
    <3>4. QED BY <1>3, <1>8, <3>2, <3>3
  <2>6. Ranked(q)' /\ b + 1 \in Nat
    BY <2>4, <2>5 DEF Ranked
  <2>7. QED BY <2>3, <2>6 DEF RankOK
<1>14. KidsOK'
  <2>1. \A x \in live' : heap'[x].type # "directory" =>
          DOMAIN heap'[x].children = {}
    BY <1>1, <1>5 DEF OwnInv, KidsOK
  <2>2. \A n \in DOMAIN frames' : frames'[n].pc \in {"opendir", "readdir"} =>
          heap'[frames'[n].self].type = "directory"
    BY <1>3, <1>5, <1>6, <1>8, <1>10 DEF OwnInv, KidsOK
  <2>3. QED BY <1>5, <1>6, <1>9, <2>1, <2>2 DEF KidsOK
<1>15. OwnedOK'
  <2> SUFFICES ASSUME NEW x \in live'
               PROVE  \/ \E d \in live' : \E n \in DOMAIN heap'[d].children :
                           heap'[d].children[n] = x
                      \/ \E n \in DOMAIN frames' : frames'[n].self = x
                      \/ \E j \in SlotsLeft : at[fp[j]] = x
    BY <1>11, <1>12 DEF OwnedOK, RootOf
  <2>1. CASE x = a
    BY <1>3, <1>6, <1>8, <2>1
  <2>2. CASE x \in live
    <3>1. \/ \E d \in live : \E n \in DOMAIN heap[d].children :
               heap[d].children[n] = x
          \/ \E n \in DOMAIN frames : frames[n].self = x
          \/ \E j \in SlotsLeft : at[fp[j]] = x
      BY <1>11, <1>12, <2>2 DEF OwnInv, OwnedOK, RootOf
    <3>2. CASE \E d \in live : \E n \in DOMAIN heap[d].children :
                 heap[d].children[n] = x
      BY <1>1, <1>5, <3>2
    <3>3. CASE \E n \in DOMAIN frames : frames[n].self = x
      BY <1>2, <1>3, <1>4, <1>8, <2>2, <3>3
    <3>4. QED BY <3>1, <3>2, <3>3
  <2>3. QED BY <1>1, <2>1, <2>2
<1>16. ForestOK'
  <2> SUFFICES ASSUME unopened = {}
               PROVE  ~crashed' /\ ChildrenOK' /\ OneParent' /\ RootsOK'
    BY <1>2 DEF ForestOK
  <2>1. ~crashed /\ ChildrenOK /\ OneParent /\ RootsOK
    BY <1>11 DEF OwnInv, ForestOK
  <2>2. \A x \in live : (\A m \in DOMAIN frames : frames[m].self # x)
          => \A m \in DOMAIN frames' : frames'[m].self # x
    BY <1>3, <1>4, <1>6, <1>8
  <2>3. /\ \A d \in live : heap'[d].children = heap[d].children
        /\ \A d \in live' : \A n \in DOMAIN heap'[d].children : d \in live
    BY <1>1, <1>5
  <2>4. ChildrenOK'
    BY <1>1, <1>11, <1>12, <2>1, <2>2, <2>3 DEF ChildrenOK, RootOf
  <2>5. OneParent'
    BY <2>1, <2>3 DEF OneParent
  <2>6. RootsOK'
    BY <1>1, <1>11, <1>12, <2>1, <2>2 DEF RootsOK, RootOf
  <2>7. QED BY <1>11, <2>1, <2>4, <2>5, <2>6
<1>17. SlotIndexOK'
  BY <1>11 DEF SlotIndexOK, OwnInv
<1>18. QED BY <1>13, <1>14, <1>15, <1>16, <1>17 DEF OwnInv

\* A return hands the target to the caller's target or to service_init, or
\* comes after its release.
LEMMA ReturnOwners ==
  ASSUME BInv, SP!IInv, OwnInv, CreateStep, frames # <<>>, Top.pc # "lstat",
         NEW a \in {NULL, Top.self}, NEW h \in [Addr -> Target], Return(a, h),
         live \ {Top.self} \subseteq live', live' \subseteq live,
         \A x \in live' : /\ h[x].path = heap[x].path
                          /\ h[x].children = heap[x].children
                          /\ h[x].type = heap[x].type,
         Top.self \in live' => a = Top.self,
         Top.self \notin live' => DOMAIN heap[Top.self].children = {},
         unopened \subseteq unopened',
         unopened' = {} /\ a # NULL => Top.self \in live'
  PROVE  OwnInv'
<1> DEFINE parent == frames[Len(frames) - 1].self
           handed == Len(frames) # 1 /\ a # NULL
           returned(x) == frames' = <<>> /\ result' = x
<1>1. IInv
  BY DEF BInv
<1>2. /\ Len(frames) \in Nat \ {0} /\ DOMAIN frames = 1..Len(frames)
      /\ DOMAIN frames = Callers \cup {Len(frames)}
      /\ Callers = 1..(Len(frames) - 1)
      /\ Top = frames[Len(frames)]
  BY <1>1, CallShape
<1>3. /\ Len(frames') = Len(frames) - 1 /\ DOMAIN frames' = Callers
      /\ \A n \in Callers : frames'[n] = frames[n]
      /\ result' = IF Len(frames) = 1 THEN a ELSE result
      /\ Len(frames) # 1 => /\ Len(frames) - 1 \in Callers
                            /\ parent \in live' /\ parent # Top.self
      /\ \A d \in live' : \A n \in DOMAIN heap[d].children :
           /\ n \in DOMAIN heap'[d].children
           /\ heap'[d].children[n] = heap[d].children[n]
      /\ \A d \in live' : \A n \in DOMAIN heap'[d].children :
           \/ /\ n \in DOMAIN heap[d].children
              /\ heap'[d].children[n] = heap[d].children[n]
           \/ /\ handed /\ d = parent
              /\ n = Len(heap[d].children) + 1
              /\ n \notin DOMAIN heap[d].children
              /\ heap'[d].children[n] = a
      /\ handed => \E n \in DOMAIN heap'[parent].children :
                     heap'[parent].children[n] = a
  BY <1>1, ReturnShape
<1>4. /\ live \subseteq Addr /\ Top.self \in live /\ Top.self # NULL
      /\ NULL \notin live
  BY <1>1, AddrLive DEF IInv, RoutineTypeOK, FramesOK
<1>5. \A x \in live' : heap'[x].type = heap[x].type
  <2>1. \/ heap' = h
        \/ /\ Len(frames) # 1
           /\ heap' = [h EXCEPT ![parent].children = Append(@, a)]
    BY DEF Return
  <2> HIDE DEF parent
  <2>2. CASE heap' = h
    BY <2>2
  <2>3. CASE Len(frames) # 1 /\ heap' = [h EXCEPT ![parent].children = Append(@, a)]
    <3>1. parent \in Addr /\ h[parent] \in Target
      BY <1>3, <1>4, <2>3
    <3>2. \A x \in Addr : heap'[x].type = h[x].type
      BY <2>3, <3>1 DEF Target
    <3>3. QED BY <1>4, <3>2
  <2>4. QED BY <2>1, <2>2, <2>3
<1>6. /\ pc = "create" /\ pc' = pc
      /\ UNCHANGED <<at, fp, fpIndex, popped, i, crashed>>
  BY DEF CreateStep, daemonVars, loopVars, walkVars
<1>7. SlotsLeft' = SlotsLeft
  BY <1>6 DEF SlotsLeft
<1>8. /\ \A x : ~Pending(x)
      /\ \A x : Pending(x)' <=> returned(x)
      /\ \A x : returned(x) => x = a /\ Len(frames) = 1
      /\ Len(frames) = 1 => returned(a)
  <2>1. frames' = <<>> <=> Len(frames) = 1
    <3>1. frames' \in Seq(Frame)
      BY <1>1, PopShape DEF IInv, RoutineTypeOK, Return
    <3>2. frames' = <<>> <=> Len(frames') = 0
      BY <3>1, EmptySeq
    <3>3. QED BY <1>2, <1>3, <3>2
  <2>2. QED BY <1>3, <1>6, <2>1 DEF Pending
<1>9. \A m \in Callers : frames[m].self # Top.self /\ frames[m].self \in live
  BY <1>1 DEF IInv, FramesOK
<1>10. \A x : returned(x) => frames' = <<>>
  OBVIOUS
<1> HIDE DEF parent, handed, returned
<1>11. parent = frames[Len(frames) - 1].self
       /\ (handed <=> Len(frames) # 1 /\ a # NULL)
  BY DEF parent, handed
<1>12. RankOK'
  <2>1. PICK b \in Nat : \E r \in [Addr -> 0..b] : Ranked(r)
    BY DEF OwnInv, RankOK
  <2>2. PICK r \in [Addr -> 0..b] : Ranked(r)
    BY <2>1
  <2>3. ASSUME NEW d \in live', NEW n \in DOMAIN heap'[d].children,
               heap'[d].children[n] \in live'
        PROVE  r[d] < r[heap'[d].children[n]]
    <3>1. CASE handed /\ d = parent /\ heap'[d].children[n] = a
      <4>1. a = Top.self
        BY <1>4, <1>11, <3>1
      <4>2. /\ Len(frames) - 1 \in DOMAIN frames /\ Len(frames) \in DOMAIN frames
            /\ Len(frames) - 1 < Len(frames)
        BY <1>2, <1>3, <1>11, <3>1
      <4>3. parent = frames[Len(frames) - 1].self /\ a = frames[Len(frames)].self
            /\ a # NULL
        BY <1>2, <1>4, <1>11, <3>1, <4>1
      <4>4. r[frames[Len(frames) - 1].self] < r[frames[Len(frames)].self]
        BY <2>2, <4>2, <4>3 DEF Ranked
      <4>5. QED BY <3>1, <4>3, <4>4
    <3>2. CASE /\ n \in DOMAIN heap[d].children
               /\ heap'[d].children[n] = heap[d].children[n]
      BY <2>2, <2>3, <3>2 DEF Ranked
    <3>3. QED BY <1>3, <2>3, <3>1, <3>2
  <2>4. \A m, n \in DOMAIN frames' : m < n /\ frames'[n].self # NULL =>
          r[frames'[m].self] < r[frames'[n].self]
    BY ZenonT(40), <1>2, <1>3, <2>2 DEF Ranked
  <2>5. Ranked(r)'
    BY <2>3, <2>4 DEF Ranked
  <2>6. QED BY <2>5 DEF RankOK
<1>13. KidsOK'
  <2>1. KidsOK
    BY DEF OwnInv
  <2>2. Len(frames) # 1 => heap[parent].type = "directory"
    BY <1>1, <1>2, <1>3, <1>11, <2>1 DEF IInv, FramesOK, KidsOK
  <2>3. ASSUME NEW x \in live', heap'[x].type # "directory"
        PROVE  DOMAIN heap'[x].children = {}
    BY <1>3, <1>5, <1>11, <2>1, <2>2, <2>3 DEF KidsOK
  <2>4. \A n \in Callers : frames[n].self \in live'
    BY <1>9
  <2>5. \A n \in DOMAIN frames' : frames'[n].pc \in {"opendir", "readdir"} =>
          heap'[frames'[n].self].type = "directory"
    BY <1>2, <1>3, <1>5, <2>1, <2>4 DEF KidsOK
  <2>6. frames' # <<>> => Top'.pc = "readdir"
    <3>1. frames' # <<>> => Len(frames) # 1
      BY <1>8, <1>10
    <3>2. Len(frames) # 1 => Top' = frames[Len(frames) - 1]
      BY <1>3 DEF Top
    <3>3. QED BY <1>1, <1>3, <3>1, <3>2 DEF IInv, FramesOK
  <2>7. QED BY <2>3, <2>5, <2>6 DEF KidsOK
<1>14. OwnedOK'
  <2> SUFFICES ASSUME NEW x \in live'
               PROVE  \/ \E d \in live' : \E n \in DOMAIN heap'[d].children :
                           heap'[d].children[n] = x
                      \/ \E n \in DOMAIN frames' : frames'[n].self = x
                      \/ \E j \in SlotsLeft : at[fp[j]] = x
                      \/ returned(x)
    BY <1>6, <1>7, <1>8 DEF OwnedOK, RootOf
  <2>1. \/ \E d \in live : \E n \in DOMAIN heap[d].children :
             heap[d].children[n] = x
        \/ \E n \in DOMAIN frames : frames[n].self = x
        \/ \E j \in SlotsLeft : at[fp[j]] = x
    BY <1>6, <1>8 DEF OwnInv, OwnedOK, RootOf
  <2>2. CASE \E d \in live : \E n \in DOMAIN heap[d].children :
               heap[d].children[n] = x
    <3>1. PICK d \in live : \E n \in DOMAIN heap[d].children :
                              heap[d].children[n] = x
      BY <2>2
    <3>2. d \in live'
      BY <3>1
    <3>3. QED BY <1>3, <3>1, <3>2
  <2>3. CASE \E n \in Callers : frames[n].self = x
    BY <1>3, <2>3
  <2>4. CASE x = Top.self
    <3>1. a = x /\ a # NULL
      BY <1>4, <2>4
    <3>2. CASE Len(frames) = 1
      BY <1>8, <3>1, <3>2
    <3>3. CASE Len(frames) # 1
      BY <1>3, <1>11, <3>1, <3>3
    <3>4. QED BY <3>2, <3>3
  <2>5. QED BY <1>2, <2>1, <2>2, <2>3, <2>4
<1>15. ForestOK'
  <2> SUFFICES ASSUME unopened' = {}
               PROVE  ~crashed' /\ ChildrenOK' /\ OneParent' /\ RootsOK'
    BY DEF ForestOK
  <2>1. ~crashed /\ ChildrenOK /\ OneParent /\ RootsOK
    BY <1>6 DEF OwnInv, ForestOK
  <2>2. /\ \A j \in SlotsLeft : /\ at[fp[j]] # Top.self
                                /\ at[fp[j]] \in live'
                                /\ \A n \in Callers : frames[n].self # at[fp[j]]
        /\ \A d \in live : \A n \in DOMAIN heap[d].children :
             /\ heap[d].children[n] # Top.self
             /\ heap[d].children[n] \in live'
             /\ \A m \in Callers : frames[m].self # heap[d].children[n]
             /\ \A j \in SlotsLeft : at[fp[j]] # heap[d].children[n]
    BY <1>2, <2>1 DEF ChildrenOK, RootsOK, RootOf
  <2>3. a # NULL => a = Top.self /\ a \in live'
    OBVIOUS
  <2>4. \A x \in live' : returned(x) => x = Top.self
    BY <1>4, <1>8
  <2>5. ASSUME NEW d \in live', NEW n \in DOMAIN heap'[d].children
        PROVE  LET c == heap'[d].children[n]
               IN  /\ c \in live'
                   /\ \A m \in DOMAIN frames' : frames'[m].self # c
                   /\ \A j \in SlotsLeft : at[fp[j]] # c
                   /\ ~returned(c)
    <3>1. CASE /\ n \in DOMAIN heap[d].children
               /\ heap'[d].children[n] = heap[d].children[n]
      BY <1>3, <2>2, <2>4, <3>1
    <3>2. CASE handed /\ heap'[d].children[n] = a
      <4>1. a = Top.self /\ a \in live'
        BY <1>11, <2>3, <3>2
      <4>2. ~returned(a)
        BY <1>8, <1>11, <3>2
      <4>3. QED BY <1>3, <1>9, <2>2, <3>2, <4>1, <4>2
    <3>3. QED BY <1>3, <3>1, <3>2
  <2>6. ChildrenOK'
    BY <1>6, <1>7, <1>8, <2>5 DEF ChildrenOK, RootOf
  <2>7. OneParent'
    <3>1. ASSUME NEW d \in live', NEW e \in live',
                 NEW n \in DOMAIN heap'[d].children,
                 NEW m \in DOMAIN heap'[e].children,
                 heap'[d].children[n] = heap'[e].children[m]
          PROVE  d = e /\ n = m
      <4>1. \/ /\ n \in DOMAIN heap[d].children
               /\ heap'[d].children[n] = heap[d].children[n]
            \/ /\ d = parent /\ n = Len(heap[d].children) + 1
               /\ heap'[d].children[n] = Top.self
        BY <1>3, <1>11, <2>3
      <4>2. \/ /\ m \in DOMAIN heap[e].children
               /\ heap'[e].children[m] = heap[e].children[m]
            \/ /\ e = parent /\ m = Len(heap[e].children) + 1
               /\ heap'[e].children[m] = Top.self
        BY <1>3, <1>11, <2>3
      <4>3. QED BY <2>1, <2>2, <3>1, <4>1, <4>2 DEF OneParent
    <3>2. QED BY <3>1 DEF OneParent
  <2>8. RootsOK'
    <3>1. \A j \in SlotsLeft : ~returned(at[fp[j]])
      BY <2>2, <2>4
    <3>2. \A x \in Addr : returned(x) => x \in live'
      <4>1. NULL \notin Addr
        BY <1>1, AddrLive DEF IInv, RoutineTypeOK
      <4>2. QED BY <1>8, <2>3, <4>1
    <3>3. \A j, k \in SlotsLeft : at[fp[j]] = at[fp[k]] => j = k
      BY <2>1 DEF RootsOK, RootOf
    <3>4. QED BY <1>3, <1>6, <1>7, <1>8, <2>2, <3>1, <3>2, <3>3 DEF RootsOK, RootOf
  <2>9. QED BY <1>6, <2>1, <2>6, <2>7, <2>8
<1>16. SlotIndexOK'
  BY <1>6 DEF SlotIndexOK, OwnInv
<1>17. QED BY <1>12, <1>13, <1>14, <1>15, <1>16 DEF OwnInv

LEMMA EventInitFailOwners ==
  ASSUME BInv, SP!IInv, OwnInv, CreateStep, EventInitFail PROVE OwnInv'
<1>1. frames # <<>> /\ Top.pc = "event_init"
      /\ Return(NULL, heap) /\ live' = live \ {Top.self}
      /\ heap \in [Addr -> Target] /\ unopened' = unopened
  BY RunningShape
     DEF EventInitFail, Running, BInv, IInv, RoutineTypeOK, FsTargetTypeOK
<1>2. DOMAIN heap[Top.self].children = {}
  BY <1>1 DEF OwnInv, KidsOK
<1>3. QED BY <1>1, <1>2, ReturnOwners

LEMMA OpenDirFailOwners ==
  ASSUME BInv, SP!IInv, OwnInv, CreateStep, OpenDirFail PROVE OwnInv'
<1> DEFINE h == [heap EXCEPT ![Top.self] = ZeroTarget]
<1>1. frames # <<>> /\ Top.pc = "opendir" /\ Top.self \in Addr
      /\ Return(Top.self, h) /\ live' = live \ {Top.self}
      /\ heap \in [Addr -> Target] /\ unopened' = unopened \cup {Top.path}
  BY RunningShape
     DEF OpenDirFail, Running, BInv, IInv, RoutineTypeOK, FsTargetTypeOK
<1>2. DOMAIN heap[Top.self].children = {}
  BY <1>1 DEF OwnInv, KidsOK
<1>3. h \in [Addr -> Target] /\ \A x \in Addr \ {Top.self} : h[x] = heap[x]
  BY <1>1, ZeroTargetOK
<1>4. live \subseteq Addr
  BY AddrLive DEF BInv, IInv, RoutineTypeOK
<1> HIDE DEF h
<1>5. \A x \in live' : h[x] = heap[x]
  BY <1>1, <1>3, <1>4
<1>6. QED BY <1>1, <1>2, <1>3, <1>5, ReturnOwners

LEMMA EndDirOwners ==
  ASSUME BInv, SP!IInv, OwnInv, CreateStep, EndDir PROVE OwnInv'
<1>1. frames # <<>> /\ Top.pc = "readdir" /\ Top.self \in live
      /\ Return(Top.self, heap) /\ live' = live
      /\ heap \in [Addr -> Target] /\ unopened' = unopened
  BY RunningShape DEF EndDir, Running, BInv, IInv, RoutineTypeOK, FsTargetTypeOK
<1>2. QED BY <1>1, ReturnOwners

LEMMA EventInitOwners ==
  ASSUME BInv, SP!IInv, OwnInv, CreateStep, EventInit PROVE OwnInv'
<1> DEFINE t == [heap[Top.self] EXCEPT
                   !.events = Append(@, AckEvent(Lstat(Top.path).st))]
           h == [heap EXCEPT ![Top.self] = t]
<1>1. frames # <<>> /\ Top.pc = "event_init" /\ FsTargetTypeOK
      /\ Top.self \in live /\ Top.self \in Addr
      /\ heap[Top.self].events = <<>> /\ Top \in Frame
  BY RunningShape, FramesShape
     DEF EventInit, Running, BInv, IInv, RoutineTypeOK
<1>2. live' = live /\ unopened' = unopened
      /\ IF t.type = "directory"
         THEN /\ heap' = h /\ result' = result
              /\ frames' = SetTop([Top EXCEPT !.pc = "opendir"])
         ELSE Return(Top.self, h)
  BY DEF EventInit
<1>3. AckEvent(Lstat(Top.path).st) \in Event
  <2>1. Lstat(Top.path).st \in Stats
    BY <1>1, LstatOK DEF EventInit, FsTargetTypeOK
  <2>2. QED BY <2>1 DEF AckEvent, Event, Masks, Buffers
<1>4. /\ h \in [Addr -> Target] /\ t.type = heap[Top.self].type
      /\ \A x \in live : /\ h[x].path = heap[x].path
                         /\ h[x].children = heap[x].children
                         /\ h[x].type = heap[x].type
  <2>1. t \in Target /\ t.path = heap[Top.self].path
        /\ t.children = heap[Top.self].children
        /\ t.type = heap[Top.self].type
    <3> DEFINE e == AckEvent(Lstat(Top.path).st)
    <3> HIDE DEF e
    <3>1. heap[Top.self] \in Target
      BY <1>1 DEF FsTargetTypeOK
    <3>2. Append(heap[Top.self].events, e) = <<e>> /\ <<e>> \in Seq(Event)
      BY <1>1, <1>3 DEF e
    <3>3. t = [heap[Top.self] EXCEPT !.events = Append(@, e)]
      BY DEF e
    <3> HIDE DEF t
    <3>4. QED BY <3>1, <3>2, <3>3 DEF Target
  <2> HIDE DEF t
  <2>2. QED BY <1>1, <2>1, AddrLive DEF FsTargetTypeOK
<1> HIDE DEF h, t
<1>5. CASE t.type = "directory"
  <2> DEFINE f == [Top EXCEPT !.pc = "opendir"]
  <2>1. f \in Frame /\ f.pc = "opendir" /\ f.self = Top.self
    BY <1>1 DEF Frame
  <2>2. frames' = SetTop(f)
    BY <1>2, <1>5
  <2> HIDE DEF f
  <2>3. heap[Top.self].type = "directory"
    BY <1>4, <1>5
  <2>4. QED BY <1>1, <1>2, <1>4, <1>5, <2>1, <2>2, <2>3, SetTopOwners
<1>6. CASE t.type # "directory"
  BY <1>1, <1>2, <1>4, <1>6, ReturnOwners
<1>7. QED BY <1>5, <1>6

-----------------------------------------------------------------------------
(* What a call of fs_target_delete frees.                                  *)

\* A set of natural numbers has a least one.
LEMMA Least ==
  ASSUME NEW T, T \subseteq Nat, T # {}
  PROVE  \E m \in T : \A n \in T : m <= n
<1> DEFINE U == {0..n : n \in T}
           R == StrictSubsetOrdering(Nat)
<1>1. \A n \in Nat : 0..n \in FiniteSubsetsOf(Nat)
  BY FS_Interval DEF FiniteSubsetsOf
<1>2. U \subseteq FiniteSubsetsOf(Nat) /\ U # {}
  BY <1>1
<1>3. \E x \in U : \A y \in U : ~(<<y, x>> \in R)
  <2> HIDE DEF U, R
  <2>1. IsWellFoundedOn(R, FiniteSubsetsOf(Nat))
    BY FS_StrictSubsetOrderingWellFounded DEF R
  <2> QED BY <1>2, <2>1, WFMin
<1>4. PICK m \in T : \A n \in T : <<0..n, 0..m>> \notin R
  BY <1>3
<1>5. ASSUME NEW n \in T, n < m PROVE FALSE
  <2>1. 0..n \subseteq 0..m /\ 0..n # 0..m /\ 0..n \subseteq Nat /\ 0..m \subseteq Nat
    <3>1. m \in 0..m /\ m \notin 0..n
      BY <1>5
    <3> QED BY <1>5, <3>1
  <2> QED BY <1>4, <2>1, <1>5 DEF StrictSubsetOrdering
<1> QED BY <1>4, <1>5

\* f follows H on 0..n, from v on, within V.
Follows(f, n, V, v, H) ==
  f \in [0..n -> V] /\ f[0] = v /\ \A k \in 1..n : f[k] = H[k][f[k - 1]]
Steps(n, V) == [1..n -> [V -> V]]

\* A function on 0..n may be defined by what it is at 0 and how it goes on.
LEMMA Recursion ==
  ASSUME NEW n \in Nat, NEW V, NEW v \in V, NEW H \in Steps(n, V)
  PROVE  \E f : Follows(f, n, V, v, H)
<1> USE DEF Steps
<1> DEFINE Val(f, k) == IF k = 0 THEN v ELSE H[k][f[k - 1]]
           Good == {m \in 0..n : \E f \in [0..m -> V] :
                                  \A k \in 0..m : f[k] = Val(f, k)}
           T == (0..n) \ Good
<1>1. 0 \in Good
  <2> DEFINE f == [k \in 0..0 |-> v]
  <2>1. f \in [0..0 -> V] /\ \A k \in 0..0 : k = 0 /\ f[k] = v
    OBVIOUS
  <2> HIDE DEF f
  <2>2. \A k \in 0..0 : f[k] = Val(f, k)
    BY <2>1
  <2>3. QED BY <2>1, <2>2
<1>2. ASSUME NEW m \in 1..n, m - 1 \in Good PROVE m \in Good
  <2>1. PICK f \in [0..(m - 1) -> V] : \A k \in 0..(m - 1) : f[k] = Val(f, k)
    BY <1>2
  <2> DEFINE w == H[m][f[m - 1]]
             g == [k \in 0..m |-> IF k = m THEN w ELSE f[k]]
  <2>2. w \in V
    BY <2>1
  <2> HIDE DEF w, Good, T
  <2>3. g \in [0..m -> V]
    BY <2>2
  <2>4. g[m] = w /\ \A k \in 0..(m - 1) : g[k] = f[k]
    OBVIOUS
  <2> HIDE DEF g
  <2>5. ASSUME NEW k \in 0..m PROVE g[k] = Val(g, k)
    <3>1. CASE k = m
      <4>1. m # 0 /\ g[m - 1] = f[m - 1]
        BY <2>4
      <4>2. QED BY <2>4, <3>1, <4>1 DEF w
    <3>2. CASE k # m
      <4>1. k \in 0..(m - 1) /\ (k # 0 => k - 1 \in 0..(m - 1))
        BY <3>2
      <4>2. Val(f, k) = Val(g, k)
        BY <2>4, <4>1
      <4>3. QED BY <2>1, <2>4, <4>1, <4>2
    <3>3. QED BY <3>1, <3>2
  <2>6. m \in 0..n
    OBVIOUS
  <2>7. QED BY <2>3, <2>5, <2>6 DEF Good
<1>3. n \in Good
  <2> SUFFICES ASSUME n \notin Good PROVE FALSE
    OBVIOUS
  <2> HIDE DEF Good
  <2>1. T \subseteq Nat /\ T # {}
    OBVIOUS
  <2>2. PICK m \in T : \A k \in T : m <= k
    BY <2>1, Least
  <2>3. m \in 1..n
    BY <1>1, <2>2
  <2>4. m - 1 \in Good
    BY <2>2, <2>3
  <2>5. QED BY <1>2, <2>2, <2>3, <2>4
<1>4. PICK f \in [0..n -> V] : \A k \in 0..n : f[k] = Val(f, k)
  BY <1>3
<1>5. Follows(f, n, V, v, H)
  BY <1>4 DEF Follows
<1>6. QED BY <1>5

Injective(s) == \A m, n \in DOMAIN s : s[m] = s[n] => m = n

LEMMA ConcatSet ==
  ASSUME NEW D, NEW s \in Seq(D), NEW t \in Seq(D)
  PROVE  /\ s \o t \in Seq(D)
         /\ Q!ToSet(s \o t) = Q!ToSet(s) \cup Q!ToSet(t)
         /\ Injective(s) /\ Injective(t) /\ Q!ToSet(s) \cap Q!ToSet(t) = {}
              => Injective(s \o t)
<1> DEFINE u == s \o t
<1>1. /\ Len(s) \in Nat /\ DOMAIN s = 1..Len(s)
      /\ Len(t) \in Nat /\ DOMAIN t = 1..Len(t)
  BY LenProperties
<1>2. /\ u \in Seq(D) /\ DOMAIN u = 1..(Len(s) + Len(t))
      /\ \A k \in 1..(Len(s) + Len(t)) :
           u[k] = IF k <= Len(s) THEN s[k] ELSE t[k - Len(s)]
  BY ConcatProperties, LenProperties
<1> HIDE DEF u
<1>3. ASSUME NEW k \in DOMAIN u
      PROVE  \/ k \in DOMAIN s /\ u[k] = s[k]
             \/ k > Len(s) /\ k - Len(s) \in DOMAIN t /\ u[k] = t[k - Len(s)]
  BY <1>1, <1>2
<1>4. \A k \in DOMAIN s : k \in DOMAIN u /\ u[k] = s[k]
  BY <1>1, <1>2
<1>5. ASSUME NEW k \in DOMAIN t
      PROVE  k + Len(s) \in DOMAIN u /\ u[k + Len(s)] = t[k]
  BY <1>1, <1>2
<1>6. Q!ToSet(u) = Q!ToSet(s) \cup Q!ToSet(t)
  BY <1>3, <1>4, <1>5 DEF Q!ToSet
<1>7. ASSUME Injective(s), Injective(t), Q!ToSet(s) \cap Q!ToSet(t) = {},
             NEW m \in DOMAIN u, NEW n \in DOMAIN u, u[m] = u[n]
      PROVE  m = n
  <2>1. \A j \in DOMAIN s, k \in DOMAIN t : s[j] # t[k]
    BY <1>7 DEF Q!ToSet
  <2>2. m \in Nat /\ n \in Nat
    BY <1>1, <1>2
  <2>3. CASE m \in DOMAIN s /\ u[m] = s[m]
    BY <1>3, <1>7, <2>1, <2>3 DEF Injective
  <2>4. CASE m > Len(s) /\ m - Len(s) \in DOMAIN t /\ u[m] = t[m - Len(s)]
    <3>1. n - Len(s) \in DOMAIN t /\ u[n] = t[n - Len(s)]
      BY <1>3, <1>7, <2>1, <2>4
    <3>2. m - Len(s) = n - Len(s)
      BY <1>7, <2>4, <3>1 DEF Injective
    <3>3. QED BY <1>1, <2>2, <3>2
  <2>5. QED BY <1>3, <2>3, <2>4
<1>8. QED BY <1>2, <1>6, <1>7 DEF u, Injective

\* The elements of a sequence of sequences, one after the other.
LEMMA FlattenSet ==
  ASSUME NEW D, NEW s \in Seq(Seq(D))
  PROVE  /\ Q!FlattenSeq(s) \in Seq(D)
         /\ Q!ToSet(Q!FlattenSeq(s)) = UNION {Q!ToSet(s[n]) : n \in DOMAIN s}
         /\ /\ \A n \in DOMAIN s : Injective(s[n])
            /\ \A m, n \in DOMAIN s :
                 m # n => Q!ToSet(s[m]) \cap Q!ToSet(s[n]) = {}
            => Injective(Q!FlattenSeq(s))
<1>1. /\ Len(s) \in Nat /\ DOMAIN s = 1..Len(s)
      /\ \A n \in DOMAIN s : s[n] \in Seq(D)
  BY LenProperties, ElementOfSeq
<1>2. CASE Len(s) = 0
  <2>1. s = <<>> /\ Q!FlattenSeq(s) = <<>>
    BY <1>2, EmptySeq DEF Q!FlattenSeq
  <2>2. <<>> \in Seq(D) /\ DOMAIN s = {} /\ Q!ToSet(<<>>) = {} /\ Injective(<<>>)
    BY <1>1, <1>2 DEF Q!ToSet, Injective
  <2>3. QED BY <2>1, <2>2
<1>3. CASE Len(s) # 0
  <2> DEFINE N == Len(s)
             f == CHOOSE f : f = [j \in 1..N |->
                                    IF j = 1 THEN s[j] ELSE f[j - 1] \o s[j]]
  <2>1. Q!FlattenSeq(s) = f[N]
    BY <1>3 DEF Q!FlattenSeq
  <2>2. \E g : g = [j \in 1..N |-> IF j = 1 THEN s[j] ELSE g[j - 1] \o s[j]]
    <3> DEFINE H == [k \in 1..N |-> [x \in Seq(D) |-> x \o s[k]]]
    <3>1. H \in [1..N -> [Seq(D) -> Seq(D)]]
      BY <1>1, ConcatProperties
    <3>2. /\ \A k \in 1..N : \A x \in Seq(D) : H[k][x] = x \o s[k]
          /\ <<>> \in Seq(D) /\ N \in Nat /\ N # 0
      BY <1>1, <1>3
    <3> HIDE DEF H, N
    <3> DEFINE V == Seq(D)
               e == <<>>
    <3>3. PICK g : Follows(g, N, V, e, H)
      <4>1. N \in Nat /\ e \in V /\ H \in Steps(N, V)
        BY <3>1, <3>2 DEF Steps
      <4> HIDE DEF V, e
      <4>2. QED BY <4>1, Recursion
    <3> USE DEF Follows
    <3> DEFINE h == [k \in 1..N |-> g[k]]
    <3>4. ASSUME NEW k \in 1..N
          PROVE  h[k] = IF k = 1 THEN s[k] ELSE h[k - 1] \o s[k]
      <4>1. k \in 0..N /\ k # 0 /\ k - 1 \in 0..N /\ (k # 1 => k - 1 \in 1..N)
        BY <3>2
      <4>2. g[k] = g[k - 1] \o s[k]
        BY <3>2, <3>3, <4>1
      <4>3. CASE k = 1
        <5>1. g[k - 1] = <<>>
          BY <3>2, <3>3, <4>1, <4>3
        <5>2. s[k] \in Seq(D)
          BY <1>1 DEF N
        <5>3. g[k] = <<>> \o s[k]
          BY <4>2, <5>1
        <5>4. g[k] = s[k]
          BY <5>2, <5>3, ConcatEmptySeq
        <5>5. QED BY <4>3, <5>4
      <4>4. CASE k # 1
        BY <4>1, <4>2, <4>4
      <4>5. QED BY <4>3, <4>4
    <3>5. h = [j \in 1..N |-> IF j = 1 THEN s[j] ELSE h[j - 1] \o s[j]]
      <4>1. DOMAIN h = 1..N /\ h = [j \in 1..N |-> h[j]]
        OBVIOUS
      <4> HIDE DEF h
      <4>2. QED BY <3>4, <4>1
    <3>6. QED BY <3>5
  <2>3. f = [j \in 1..N |-> IF j = 1 THEN s[j] ELSE f[j - 1] \o s[j]]
    BY <2>2
  <2> DEFINE separate == /\ \A n \in DOMAIN s : Injective(s[n])
                         /\ \A m, n \in DOMAIN s :
                              m # n => Q!ToSet(s[m]) \cap Q!ToSet(s[n]) = {}
             Good(k) == /\ f[k] \in Seq(D)
                        /\ Q!ToSet(f[k]) = UNION {Q!ToSet(s[n]) : n \in 1..k}
                        /\ separate => Injective(f[k])
  <2>4. N \in Nat \ {0} /\ DOMAIN s = 1..N /\ \A n \in 1..N : s[n] \in Seq(D)
    BY <1>1, <1>3
  <2> HIDE DEF f, N
  <2>5. Good(1)
    <3>1. f[1] = s[1] /\ 1..1 = {1} /\ 1 \in 1..N
      BY <2>3, <2>4
    <3>2. QED BY <2>4, <3>1
  <2>6. ASSUME NEW k \in 2..N, Good(k - 1) PROVE Good(k)
    <3>1. f[k] = f[k - 1] \o s[k] /\ k \in 1..N /\ 1..k = (1..(k - 1)) \cup {k}
      <4>1. k \in 1..N /\ k # 1 /\ k \in Nat
        BY <2>4
      <4>2. 1..k = (1..(k - 1)) \cup {k}
        BY <4>1
      <4>3. QED BY <2>3, <4>1, <4>2
    <3>2. /\ f[k - 1] \in Seq(D) /\ s[k] \in Seq(D)
      BY <2>4, <2>6, <3>1
    <3>3. /\ f[k] \in Seq(D)
          /\ Q!ToSet(f[k]) = Q!ToSet(f[k - 1]) \cup Q!ToSet(s[k])
          /\ Injective(f[k - 1]) /\ Injective(s[k])
               /\ Q!ToSet(f[k - 1]) \cap Q!ToSet(s[k]) = {} => Injective(f[k])
      BY <3>1, <3>2, ConcatSet
    <3>4. Q!ToSet(f[k]) = UNION {Q!ToSet(s[n]) : n \in 1..k}
      BY <2>6, <3>1, <3>3
    <3>5. ASSUME separate PROVE Q!ToSet(f[k - 1]) \cap Q!ToSet(s[k]) = {}
      <4>1. \A n \in 1..(k - 1) : n \in DOMAIN s /\ n # k /\ k \in DOMAIN s
        BY <2>4
      <4>2. \A n \in 1..(k - 1) : Q!ToSet(s[n]) \cap Q!ToSet(s[k]) = {}
        BY <3>5, <4>1
      <4>3. QED BY <2>6, <4>2
    <3>6. separate => Injective(f[k])
      BY <2>4, <2>6, <3>1, <3>3, <3>5
    <3>7. QED BY <3>3, <3>4, <3>6
  <2> HIDE DEF Good
  <2>7. Good(N)
    <3> DEFINE T == {k \in 1..N : ~Good(k)}
    <3> SUFFICES ASSUME ~Good(N) PROVE FALSE
      OBVIOUS
    <3>1. T \subseteq Nat /\ T # {}
      BY <2>4
    <3>2. PICK m \in T : \A k \in T : m <= k
      BY <3>1, Least
    <3>3. m \in 2..N
      BY <2>4, <2>5, <3>2
    <3>4. Good(m - 1)
      <4>1. m - 1 \in 1..N /\ ~(m <= m - 1)
        BY <2>4, <3>3
      <4>2. m - 1 \notin T
        BY <3>2, <4>1
      <4>3. QED BY <4>1, <4>2
    <3>5. QED BY <2>6, <3>2, <3>3, <3>4
  <2>8. QED BY <2>1, <2>4, <2>7 DEF Good
<1>4. QED BY <1>2, <1>3


\* What FreedBy is, by one level.
Parts(k, a) ==
  [n \in DOMAIN heap[a].children |-> FreedBy[k - 1][heap[a].children[n]]]

LEMMA FreedShape ==
  ASSUME IInv, KidsOK
  PROVE  /\ \A k \in 0..MaxTargets, a \in Addr : FreedBy[k][a] \in Seq(Addr)
         /\ \A k \in 0..MaxTargets, a \in Addr :
              k = 0 \/ a \notin live => FreedBy[k][a] = <<a>>
         /\ \A k \in 1..MaxTargets, a \in live :
              FreedBy[k][a] = Q!FlattenSeq(Parts(k, a)) \o <<a>>
         /\ \A k \in 1..MaxTargets, a \in live :
              /\ Parts(k, a) \in Seq(Seq(Addr))
              /\ DOMAIN Parts(k, a) = DOMAIN heap[a].children
              /\ \A n \in DOMAIN heap[a].children :
                   Parts(k, a)[n] = FreedBy[k - 1][heap[a].children[n]]
<1> DEFINE V == [Addr -> Seq(Addr)]
           v == [a \in Addr |-> <<a>>]
           G(x, a) == IF a \notin live THEN <<a>>
                      ELSE Q!FlattenSeq([n \in 1..ChildrenCount(a) |->
                                           x[heap[a].children[n]]]) \o <<a>>
           H == [k \in 1..MaxTargets |-> [x \in V |-> [a \in Addr |-> G(x, a)]]]
<1>1. /\ MaxTargets \in Nat /\ live \subseteq Addr
      /\ \A a \in Addr : heap[a].children \in Seq(Addr)
  BY MaxTargetsAssumption, AddrLive DEF IInv, RoutineTypeOK, FsTargetTypeOK, Target
<1>2. \A a \in live : /\ DOMAIN heap[a].children = 1..ChildrenCount(a)
                      /\ ChildrenCount(a) \in Nat
                      /\ \A n \in 1..ChildrenCount(a) :
                           heap[a].children[n] \in Addr
  <2> SUFFICES ASSUME NEW a \in live
               PROVE  /\ DOMAIN heap[a].children = 1..ChildrenCount(a)
                      /\ ChildrenCount(a) \in Nat
                      /\ \A n \in 1..ChildrenCount(a) :
                           heap[a].children[n] \in Addr
    OBVIOUS
  <2> DEFINE s == heap[a].children
  <2>1. s \in Seq(Addr)
    BY <1>1
  <2>2. heap[a].type # "directory" => DOMAIN s = {}
    BY DEF KidsOK
  <2>3. ChildrenCount(a) = IF heap[a].type = "directory" THEN Len(s) ELSE 0
    BY DEF ChildrenCount
  <2> HIDE DEF s
  <2>4. DOMAIN s = 1..Len(s) /\ Len(s) \in Nat
    BY <2>1, LenProperties
  <2>5. DOMAIN s = 1..ChildrenCount(a) /\ ChildrenCount(a) \in Nat
    BY <2>2, <2>3, <2>4
  <2>6. \A n \in 1..ChildrenCount(a) : s[n] \in Addr
    BY <2>1, <2>4, <2>5, ElementOfSeq
  <2>7. QED BY <2>5, <2>6 DEF s
<1>3. ASSUME NEW x \in V, NEW a \in live
      PROVE  /\ [n \in 1..ChildrenCount(a) |-> x[heap[a].children[n]]]
                  \in Seq(Seq(Addr))
             /\ G(x, a) \in Seq(Addr)
  <2> DEFINE s == [n \in 1..ChildrenCount(a) |-> x[heap[a].children[n]]]
  <2>1. s \in [1..ChildrenCount(a) -> Seq(Addr)]
    BY <1>2
  <2>2. s \in Seq(Seq(Addr))
    BY <1>2, <2>1, IsASeq
  <2>3. Q!FlattenSeq(s) \in Seq(Addr)
    <3> HIDE DEF s
    <3> QED BY <2>2, FlattenSet
  <2>4. <<a>> \in Seq(Addr)
    BY <1>1
  <2>5. Q!FlattenSeq(s) \o <<a>> \in Seq(Addr)
    BY <2>3, <2>4, ConcatProperties
  <2>6. QED BY <2>2, <2>5
<1>4. ASSUME NEW x \in V, NEW a \in Addr PROVE G(x, a) \in Seq(Addr)
  <2> HIDE DEF V
  <2>1. <<a>> \in Seq(Addr)
    OBVIOUS
  <2>2. CASE a \in live
    BY <1>3, <2>2
  <2>3. CASE a \notin live
    BY <2>1, <2>3
  <2>4. QED BY <2>2, <2>3
<1>5. /\ v \in V /\ H \in Steps(MaxTargets, V)
      /\ \A k \in 1..MaxTargets : \A x \in V : \A a \in Addr : H[k][x][a] = G(x, a)
  <2> HIDE DEF G
  <2>1. v \in V
    OBVIOUS
  <2>2. H \in [1..MaxTargets -> [V -> V]]
    BY <1>4
  <2>3. QED BY <2>1, <2>2 DEF Steps
<1>6. PICK g : Follows(g, MaxTargets, V, v, H)
  <2> HIDE DEF V, v, H
  <2> QED BY <1>1, <1>5, Recursion
<1> DEFINE F(y) == [k \in 0..MaxTargets |->
                     [a \in Addr |->
                        IF k = 0 \/ a \notin live THEN <<a>>
                        ELSE Q!FlattenSeq([n \in 1..ChildrenCount(a) |->
                                            y[k - 1][heap[a].children[n]]])
                               \o <<a>>]]
<1>7. g = F(g)
  <2>1. g \in [0..MaxTargets -> V] /\ g[0] = v
        /\ \A k \in 1..MaxTargets : g[k] = H[k][g[k - 1]]
    BY <1>6 DEF Follows
  <2>2. ASSUME NEW k \in 0..MaxTargets, NEW a \in Addr
        PROVE  g[k][a] = F(g)[k][a]
    <3>1. CASE k = 0
      BY <2>1, <3>1
    <3>2. CASE k # 0
      <4>1. k \in 1..MaxTargets /\ k - 1 \in 0..MaxTargets
        BY <1>1, <3>2
      <4>2. g[k][a] = G(g[k - 1], a)
        <5> HIDE DEF V, v, H, G
        <5> QED BY <1>5, <2>1, <4>1
      <4>3. QED BY <3>2, <4>2
    <3>3. QED BY <3>1, <3>2
  <2>3. \A k \in 0..MaxTargets : g[k] = F(g)[k]
    BY <2>1, <2>2
  <2>4. QED BY <2>1, <2>3
<1>8. FreedBy = F(FreedBy)
  <2>1. FreedBy = CHOOSE y : y = F(y)
    BY DEF FreedBy
  <2> HIDE DEF F
  <2>2. QED BY <1>7, <2>1
<1>9. \A k \in 0..MaxTargets : \A a \in Addr :
        FreedBy[k][a] = IF k = 0 \/ a \notin live THEN <<a>>
                        ELSE G(FreedBy[k - 1], a)
  <2>1. \A k \in 0..MaxTargets : \A a \in Addr :
          F(FreedBy)[k][a] = IF k = 0 \/ a \notin live THEN <<a>>
                             ELSE G(FreedBy[k - 1], a)
    OBVIOUS
  <2> HIDE DEF F, G
  <2>2. QED BY <1>8, <2>1
<1> HIDE DEF F
<1>10. \A k \in 0..MaxTargets :
         FreedBy[k] \in V
           <=> \A a \in Addr : FreedBy[k][a] \in Seq(Addr)
  <2>1. \A k \in 0..MaxTargets : \E X : FreedBy[k] = [a \in Addr |-> X[a]]
    <3>1. \A k \in 0..MaxTargets : F(FreedBy)[k] = [a \in Addr |-> F(FreedBy)[k][a]]
      BY DEF F
    <3>2. QED BY <1>8, <3>1
  <2>2. QED BY <2>1
<1>11. \A k \in 0..MaxTargets : FreedBy[k] \in V
  <2> DEFINE T == {k \in 0..MaxTargets : FreedBy[k] \notin V}
  <2> HIDE DEF V
  <2> SUFFICES ASSUME T # {} PROVE FALSE
    OBVIOUS
  <2>1. PICK m \in T : \A k \in T : m <= k
    <3>1. T \subseteq Nat
      OBVIOUS
    <3> HIDE DEF T
    <3>2. QED BY <3>1, Least
  <2>2. m = 0 \/ (m # 0 /\ m - 1 \in 0..MaxTargets /\ ~(m <= m - 1))
    BY <1>1
  <2>3. m # 0 => FreedBy[m - 1] \in V
    BY <2>1, <2>2
  <2>4. ASSUME NEW a \in Addr PROVE FreedBy[m][a] \in Seq(Addr)
    <3> HIDE DEF G
    <3>1. CASE m = 0 \/ a \notin live
      <4>1. FreedBy[m][a] = <<a>>
        BY <1>9, <3>1
      <4>2. QED BY <4>1
    <3>2. CASE m # 0 /\ a \in live
      BY <1>4, <1>9, <2>3, <3>2
    <3>3. QED BY <3>1, <3>2
  <2>5. FreedBy[m] \in V
    BY <1>10, <2>4
  <2>6. QED BY <2>5
<1>12. ASSUME NEW k \in 1..MaxTargets, NEW a \in live
       PROVE  /\ FreedBy[k][a] = Q!FlattenSeq(Parts(k, a)) \o <<a>>
              /\ Parts(k, a) \in Seq(Seq(Addr))
              /\ DOMAIN Parts(k, a) = DOMAIN heap[a].children
              /\ \A n \in DOMAIN heap[a].children :
                   Parts(k, a)[n] = FreedBy[k - 1][heap[a].children[n]]
  <2>1. k \in 0..MaxTargets /\ k # 0 /\ k - 1 \in 0..MaxTargets /\ a \in Addr
    BY <1>1
  <2>2. FreedBy[k - 1] \in V
    BY <1>11, <2>1
  <2>3. Parts(k, a) = [n \in 1..ChildrenCount(a) |->
                         FreedBy[k - 1][heap[a].children[n]]]
    BY <1>2 DEF Parts
  <2>4. FreedBy[k][a] = G(FreedBy[k - 1], a)
    <3> HIDE DEF G
    <3> QED BY <1>9, <2>1
  <2>5. QED BY <1>2, <1>3, <2>2, <2>3, <2>4
<1>13. QED
  <2>1. \A k \in 0..MaxTargets, a \in Addr : FreedBy[k][a] \in Seq(Addr)
    BY <1>11
  <2>2. \A k \in 0..MaxTargets, a \in Addr :
          k = 0 \/ a \notin live => FreedBy[k][a] = <<a>>
    BY <1>9
  <2> HIDE DEF V, v, G, H
  <2>3. QED BY <1>12, <2>1, <2>2

Gone(k, a) == Q!ToSet(FreedBy[k][a])

LEMMA Singleton ==
  ASSUME NEW a
  PROVE  Q!ToSet(<<a>>) = {a} /\ Injective(<<a>>)
BY DEF Q!ToSet, Injective

\* The addresses that are freed: the target's, after those below it.
LEMMA GoneShape ==
  ASSUME IInv, KidsOK, NEW k \in 0..MaxTargets, NEW a \in Addr
  PROVE  /\ Gone(k, a) \subseteq Addr /\ a \in Gone(k, a)
         /\ k = 0 \/ a \notin live => Gone(k, a) = {a}
         /\ k # 0 /\ a \in live =>
              /\ k - 1 \in 0..MaxTargets
              /\ \A n \in DOMAIN heap[a].children :
                   /\ heap[a].children[n] \in Addr
                   /\ Gone(k - 1, heap[a].children[n]) \subseteq Gone(k, a)
              /\ \A b \in Gone(k, a) :
                   \/ b = a
                   \/ \E n \in DOMAIN heap[a].children :
                        b \in Gone(k - 1, heap[a].children[n])
<1>1. FreedBy[k][a] \in Seq(Addr)
  BY FreedShape
<1>2. Gone(k, a) \subseteq Addr
  <2> DEFINE s == FreedBy[k][a]
  <2> HIDE DEF s
  <2>1. s \in Seq(Addr)
    BY <1>1 DEF s
  <2>2. \A n \in DOMAIN s : s[n] \in Addr
    BY <2>1, ElementOfSeq, LenProperties
  <2>3. Q!ToSet(s) \subseteq Addr
    BY <2>2 DEF Q!ToSet
  <2>4. QED BY <2>3 DEF s, Gone
<1>3. ASSUME k = 0 \/ a \notin live PROVE Gone(k, a) = {a}
  <2>1. FreedBy[k][a] = <<a>>
    BY <1>3, FreedShape
  <2>2. QED BY <2>1, Singleton DEF Gone
<1>4. ASSUME k # 0, a \in live
      PROVE  /\ k - 1 \in 0..MaxTargets
             /\ \A n \in DOMAIN heap[a].children : heap[a].children[n] \in Addr
             /\ \A b : b \in Gone(k, a)
                   <=> \/ b = a
                       \/ \E n \in DOMAIN heap[a].children :
                            b \in Gone(k - 1, heap[a].children[n])
  <2>1. k \in 1..MaxTargets /\ k - 1 \in 0..MaxTargets
    BY <1>4, MaxTargetsAssumption
  <2> DEFINE s == Parts(k, a)
  <2>2. /\ FreedBy[k][a] = Q!FlattenSeq(s) \o <<a>>
        /\ s \in Seq(Seq(Addr)) /\ DOMAIN s = DOMAIN heap[a].children
        /\ \A n \in DOMAIN heap[a].children :
             s[n] = FreedBy[k - 1][heap[a].children[n]]
    BY <1>4, <2>1, FreedShape
  <2> HIDE DEF s
  <2>3. /\ Q!FlattenSeq(s) \in Seq(Addr)
        /\ Q!ToSet(Q!FlattenSeq(s)) = UNION {Q!ToSet(s[n]) : n \in DOMAIN s}
    BY <2>2, FlattenSet
  <2>4. <<a>> \in Seq(Addr)
    OBVIOUS
  <2>5. Gone(k, a) = Q!ToSet(Q!FlattenSeq(s)) \cup Q!ToSet(<<a>>)
    <3> DEFINE u == Q!FlattenSeq(s)
               w == <<a>>
    <3>1. u \in Seq(Addr) /\ w \in Seq(Addr) /\ FreedBy[k][a] = u \o w
      BY <2>2, <2>3, <2>4
    <3> HIDE DEF u, w
    <3>2. Q!ToSet(u \o w) = Q!ToSet(u) \cup Q!ToSet(w)
      BY <3>1, ConcatSet
    <3>3. Gone(k, a) = Q!ToSet(u) \cup Q!ToSet(w)
      BY <3>1, <3>2 DEF Gone
    <3>4. QED BY <3>3 DEF u, w
  <2>6. \A n \in DOMAIN s : Q!ToSet(s[n]) = Gone(k - 1, heap[a].children[n])
    BY <2>2 DEF Gone
  <2>7. \A n \in DOMAIN heap[a].children : heap[a].children[n] \in Addr
    <3> DEFINE t == heap[a].children
    <3>1. t \in Seq(Addr)
      BY DEF IInv, RoutineTypeOK, FsTargetTypeOK, Target
    <3> HIDE DEF t
    <3>2. \A n \in DOMAIN t : t[n] \in Addr
      BY <3>1, ElementOfSeq, LenProperties
    <3>3. QED BY <3>2 DEF t
  <2>8. Q!ToSet(<<a>>) = {a}
    BY Singleton
  <2>9. ASSUME NEW b
        PROVE  b \in Q!ToSet(Q!FlattenSeq(s))
                 <=> \E n \in DOMAIN heap[a].children :
                       b \in Gone(k - 1, heap[a].children[n])
    <3>1. b \in Q!ToSet(Q!FlattenSeq(s)) <=> \E n \in DOMAIN s : b \in Q!ToSet(s[n])
      BY <2>3
    <3>2. QED BY <2>2, <2>6, <3>1
  <2>10. QED BY <2>1, <2>5, <2>7, <2>8, <2>9
<1>5. a \in Gone(k, a)
  <2>1. CASE k = 0 \/ a \notin live
    BY <1>3, <2>1
  <2>2. CASE k # 0 /\ a \in live
    BY <1>4, <2>2
  <2>3. QED BY <2>1, <2>2
<1>6. ASSUME k # 0, a \in live, NEW n \in DOMAIN heap[a].children
      PROVE  Gone(k - 1, heap[a].children[n]) \subseteq Gone(k, a)
  BY <1>4, <1>6
<1>7. QED BY <1>2, <1>3, <1>4, <1>5, <1>6

\* Where the calls do not run out of depth, what a freed target points to is
\* freed with it.
Above(r, a) == {b \in live : r[b] >= r[a]}

LEMMA GoneClosed ==
  ASSUME IInv, KidsOK, NEW m \in Nat, NEW r \in [Addr -> 0..m], Ranked(r),
         NEW a \in Addr, NEW d \in live, d \in Gone(MaxTargets, a),
         NEW n \in DOMAIN heap[d].children
  PROVE  heap[d].children[n] \in Gone(MaxTargets, a)
<1> DEFINE Good(k) == \A x \in Addr :
             Cardinality(Above(r, x)) <= k =>
               \A y \in live : y \in Gone(k, x) =>
                 \A j \in DOMAIN heap[y].children :
                   heap[y].children[j] \in Gone(k, x)
           T == {k \in 0..MaxTargets : ~Good(k)}
<1>1. /\ MaxTargets \in Nat /\ live \subseteq Addr /\ IsFiniteSet(Addr)
      /\ Cardinality(Addr) = MaxTargets
  <2>1. IsFiniteSet(1..MaxTargets) /\ Cardinality(1..MaxTargets) = MaxTargets
    BY MaxTargetsAssumption, FS_Interval
  <2>2. QED BY <2>1, MaxTargetsAssumption, AddrLive
            DEF IInv, RoutineTypeOK, Addr
<1>2. \A x \in Addr : /\ IsFiniteSet(Above(r, x))
                      /\ Cardinality(Above(r, x)) \in 0..MaxTargets
  <2> SUFFICES ASSUME NEW x \in Addr
               PROVE  /\ IsFiniteSet(Above(r, x))
                      /\ Cardinality(Above(r, x)) \in 0..MaxTargets
    OBVIOUS
  <2>1. Above(r, x) \subseteq Addr
    BY <1>1 DEF Above
  <2>2. IsFiniteSet(Above(r, x)) /\ Cardinality(Above(r, x)) <= MaxTargets
    BY <1>1, <2>1, FS_Subset
  <2>3. QED BY <1>1, <2>2, FS_CardinalityType
<1>3. ASSUME NEW k \in 0..MaxTargets, \A j \in 0..MaxTargets : j < k => Good(j)
      PROVE  Good(k)
  <2> SUFFICES ASSUME NEW x \in Addr, Cardinality(Above(r, x)) <= k,
                      NEW y \in live, y \in Gone(k, x),
                      NEW j \in DOMAIN heap[y].children
               PROVE  heap[y].children[j] \in Gone(k, x)
    BY DEF Good
  <2> HIDE DEF Good
  <2>1. x \in live => Cardinality(Above(r, x)) # 0
    <3>1. r[x] \in Nat
      OBVIOUS
    <3>2. x \in live => x \in Above(r, x)
      BY <3>1 DEF Above
    <3>3. IsFiniteSet(Above(r, x))
      BY <1>2
    <3>4. QED BY <3>2, <3>3, FS_EmptySet
  <2>2. x \in live
    BY GoneShape
  <2>3. k # 0
    BY <1>2, <2>1, <2>2
  <2>4. CASE y = x
    <3>1. /\ k - 1 \in 0..MaxTargets /\ heap[x].children[j] \in Addr
          /\ Gone(k - 1, heap[x].children[j]) \subseteq Gone(k, x)
      BY <2>2, <2>3, <2>4, GoneShape
    <3>2. heap[x].children[j] \in Gone(k - 1, heap[x].children[j])
      BY <3>1, GoneShape
    <3>3. QED BY <2>4, <3>1, <3>2
  <2>5. CASE y # x
    <3>1. PICK l \in DOMAIN heap[x].children :
            y \in Gone(k - 1, heap[x].children[l])
      BY <2>2, <2>3, <2>5, GoneShape
    <3> DEFINE c == heap[x].children[l]
    <3>2. /\ k - 1 \in 0..MaxTargets /\ c \in Addr
          /\ Gone(k - 1, c) \subseteq Gone(k, x)
      BY <2>2, <2>3, GoneShape
    <3>3. c \in live
      <4> HIDE DEF c
      <4>1. c \notin live => Gone(k - 1, c) = {c}
        BY <3>2, GoneShape
      <4>2. QED BY <3>1, <4>1 DEF c
    <3>4. r[x] < r[c] /\ r[x] \in Nat /\ r[c] \in Nat /\ \A b \in live : r[b] \in Nat
      BY <1>1, <2>2, <3>3 DEF Ranked
    <3> HIDE DEF c
    <3>5. Above(r, c) \subseteq Above(r, x) /\ x \in Above(r, x) /\ x \notin Above(r, c)
      BY <2>2, <3>4 DEF Above
    <3>6. Cardinality(Above(r, c)) < Cardinality(Above(r, x))
      <4>1. Above(r, c) # Above(r, x)
        BY <3>5
      <4> DEFINE A == Above(r, c)
                 B == Above(r, x)
      <4> HIDE DEF A, B
      <4>2. A \subseteq B /\ A # B /\ IsFiniteSet(B)
        BY <1>2, <3>5, <4>1 DEF A, B
      <4>3. /\ IsFiniteSet(A) /\ Cardinality(A) <= Cardinality(B)
            /\ Cardinality(A) # Cardinality(B)
        BY <4>2, FS_Subset
      <4>4. Cardinality(A) \in Nat /\ Cardinality(B) \in Nat
        BY <4>2, <4>3, FS_CardinalityType
      <4>5. QED BY <4>3, <4>4 DEF A, B
    <3>7. Cardinality(Above(r, c)) <= k - 1
      BY <1>2, <3>2, <3>6
    <3>8. Good(k - 1)
      BY <1>3, <3>2
    <3>9. heap[y].children[j] \in Gone(k - 1, c)
      BY <3>1, <3>2, <3>7, <3>8 DEF Good, c
    <3>10. QED BY <3>2, <3>9
  <2>6. QED BY <2>4, <2>5
<1>4. Good(MaxTargets)
  <2> HIDE DEF Good
  <2> SUFFICES ASSUME ~Good(MaxTargets) PROVE FALSE
    OBVIOUS
  <2>1. T \subseteq Nat /\ T # {}
    BY <1>1
  <2>2. PICK k \in T : \A j \in T : k <= j
    <3> HIDE DEF T
    <3> QED BY <2>1, Least
  <2>3. \A j \in 0..MaxTargets : j < k => Good(j)
    BY <1>1, <2>2
  <2>4. QED BY <1>3, <2>2, <2>3
<1>5. QED BY <1>2, <1>4 DEF Good

\* Each target of X is x, or another of X points to it.
Rooted(X, x) ==
  \A b \in X : b = x \/ \E d \in X : \E n \in DOMAIN heap[d].children :
                                     heap[d].children[n] = b

\* Two trees have nothing in common unless one holds the root of the other.
LEMMA Apart ==
  ASSUME live \subseteq Addr, OneParent,
         NEW m \in Nat, NEW r \in [Addr -> 0..m], Ranked(r),
         NEW X \in SUBSET live, NEW x \in X, Rooted(X, x),
         NEW Y \in SUBSET live, NEW y \in Y, Rooted(Y, y),
         x \notin Y, y \notin X
  PROVE  X \cap Y = {}
<1> DEFINE Ranks == {r[b] : b \in X \cap Y}
<1> SUFFICES ASSUME X \cap Y # {} PROVE FALSE
  OBVIOUS
<1>1. \A b \in live : r[b] \in Nat
  OBVIOUS
<1>2. PICK b \in X \cap Y : \A c \in X \cap Y : r[b] <= r[c]
  <2>1. Ranks \subseteq Nat /\ Ranks # {}
    BY <1>1
  <2> HIDE DEF Ranks
  <2>2. PICK l \in Ranks : \A n \in Ranks : l <= n
    BY <2>1, Least
  <2>3. QED BY <2>2 DEF Ranks
<1>3. PICK d \in X : \E n \in DOMAIN heap[d].children : heap[d].children[n] = b
  BY <1>2 DEF Rooted
<1>4. PICK e \in Y : \E n \in DOMAIN heap[e].children : heap[e].children[n] = b
  BY <1>2 DEF Rooted
<1>5. d = e
  BY <1>3, <1>4 DEF OneParent
<1>6. r[d] < r[b]
  BY <1>2, <1>3 DEF Ranked
<1>7. ~(r[b] <= r[d])
  BY <1>1, <1>2, <1>6
<1>8. QED BY <1>2, <1>5, <1>7

\* As long as every directory could be opened, the targets that are freed with
\* a live one are live, and each is freed once.
LEMMA GoneOnce ==
  ASSUME IInv, KidsOK, ChildrenOK, OneParent,
         NEW m \in Nat, NEW r \in [Addr -> 0..m], Ranked(r),
         NEW k \in 0..MaxTargets, NEW a \in live
  PROVE  /\ Gone(k, a) \subseteq live /\ Rooted(Gone(k, a), a)
         /\ \A b \in Gone(k, a) : r[b] >= r[a]
         /\ Injective(FreedBy[k][a])
<1> DEFINE Sound(j, x) == /\ Gone(j, x) \subseteq live /\ Rooted(Gone(j, x), x)
                          /\ \A b \in Gone(j, x) : r[b] >= r[x]
                          /\ Injective(FreedBy[j][x])
           Good(j) == \A x \in live : Sound(j, x)
           T == {j \in 0..MaxTargets : ~Good(j)}
<1>1. live \subseteq Addr /\ \A b \in live : r[b] \in Nat
  BY AddrLive DEF IInv, RoutineTypeOK
<1>2. Good(0)
  <2> SUFFICES ASSUME NEW x \in live PROVE Sound(0, x)
    BY DEF Good
  <2>1. 0 \in 0..MaxTargets /\ x \in Addr
    BY <1>1, MaxTargetsAssumption
  <2>2. FreedBy[0][x] = <<x>> /\ Gone(0, x) = {x}
    BY <2>1, FreedShape, GoneShape
  <2>3. Injective(FreedBy[0][x])
    BY <2>2, Singleton
  <2>4. QED BY <1>1, <2>2, <2>3 DEF Rooted
<1>3. ASSUME NEW j \in 1..MaxTargets, Good(j - 1) PROVE Good(j)
  <2> SUFFICES ASSUME NEW x \in live PROVE Sound(j, x)
    BY DEF Good
  <2> DEFINE K == DOMAIN heap[x].children
             C(n) == heap[x].children[n]
             X(n) == Gone(j - 1, C(n))
  <2>1. j \in 0..MaxTargets /\ j # 0 /\ x \in Addr
    BY <1>1
  <2>2. /\ j - 1 \in 0..MaxTargets
        /\ \A n \in K : C(n) \in Addr /\ X(n) \subseteq Gone(j, x)
        /\ \A b \in Gone(j, x) : b = x \/ \E n \in K : b \in X(n)
        /\ x \in Gone(j, x)
    BY <2>1, GoneShape
  <2>3. \A n \in K : C(n) \in live
    BY DEF ChildrenOK
  <2>4. \A n \in K : Sound(j - 1, C(n))
    BY <1>3, <2>3 DEF Good
  <2>5. \A n \in K : r[x] < r[C(n)] /\ C(n) \in X(n)
    BY <2>2, <2>3, GoneShape DEF Ranked
  <2>6. \A n \in K : \A b \in X(n) : b \in live /\ r[b] > r[x] /\ b # x
    <3> SUFFICES ASSUME NEW n \in K, NEW b \in X(n)
                 PROVE  b \in live /\ r[b] > r[x] /\ b # x
      OBVIOUS
    <3>1. b \in live /\ r[b] >= r[C(n)] /\ r[x] < r[C(n)] /\ C(n) \in live
      BY <2>3, <2>4, <2>5
    <3>2. r[b] \in Nat /\ r[x] \in Nat /\ r[C(n)] \in Nat
      BY <1>1, <3>1
    <3> HIDE DEF C, X, K
    <3>3. r[b] > r[x]
      BY <3>1, <3>2
    <3>4. QED BY <3>1, <3>2, <3>3
  <2>7. Gone(j, x) \subseteq live /\ \A b \in Gone(j, x) : r[b] >= r[x]
    BY <1>1, <2>2, <2>6
  <2>8. Rooted(Gone(j, x), x)
    <3> SUFFICES ASSUME NEW b \in Gone(j, x), b # x
                 PROVE  \E d \in Gone(j, x) : \E n \in DOMAIN heap[d].children :
                          heap[d].children[n] = b
      BY DEF Rooted
    <3>1. PICK n \in K : b \in X(n)
      BY <2>2
    <3>2. CASE b = C(n)
      BY <2>2, <3>2
    <3>3. CASE b # C(n)
      <4>1. \E d \in X(n) : \E l \in DOMAIN heap[d].children :
              heap[d].children[l] = b
        BY <2>4, <3>1, <3>3 DEF Rooted
      <4>2. QED BY <2>2, <4>1
    <3>4. QED BY <3>2, <3>3
  <2>9. ASSUME NEW n \in K, NEW l \in K, n # l PROVE X(n) \cap X(l) = {}
    <3>1. ASSUME NEW u \in K, NEW w \in K, u # w PROVE C(u) \notin X(w)
      <4> SUFFICES ASSUME C(u) \in X(w) PROVE FALSE
        OBVIOUS
      <4>1. C(u) # C(w)
        BY <3>1 DEF OneParent
      <4>2. PICK d \in X(w) : \E q \in DOMAIN heap[d].children :
                                 heap[d].children[q] = C(u)
        BY <2>4, <4>1 DEF Rooted
      <4>3. d \in live /\ d # x
        BY <2>6
      <4>4. QED BY <4>2, <4>3 DEF OneParent
    <3>2. /\ X(n) \in SUBSET live /\ C(n) \in X(n) /\ Rooted(X(n), C(n))
          /\ X(l) \in SUBSET live /\ C(l) \in X(l) /\ Rooted(X(l), C(l))
          /\ C(n) \notin X(l) /\ C(l) \notin X(n)
      BY <2>4, <2>5, <2>9, <3>1
    <3> HIDE DEF X, C, K, Good, Sound
    <3>3. QED BY <1>1, <3>2, Apart
  <2>10. Injective(FreedBy[j][x])
    <3> DEFINE s == Parts(j, x)
               u == Q!FlattenSeq(s)
               w == <<x>>
    <3>1. /\ FreedBy[j][x] = u \o w
          /\ s \in Seq(Seq(Addr)) /\ DOMAIN s = K
          /\ \A n \in K : s[n] = FreedBy[j - 1][C(n)]
      BY FreedShape
    <3> HIDE DEF s
    <3>2. /\ \A n \in DOMAIN s : Injective(s[n])
          /\ \A n \in DOMAIN s : Q!ToSet(s[n]) = X(n)
      BY <2>4, <3>1 DEF Gone
    <3>3. \A n, l \in DOMAIN s :
             n # l => Q!ToSet(s[n]) \cap Q!ToSet(s[l]) = {}
      <4> HIDE DEF X, C, K
      <4>1. QED BY <2>9, <3>1, <3>2
    <3> HIDE DEF X, C, K
    <3>4. /\ u \in Seq(Addr) /\ Injective(u)
          /\ Q!ToSet(u) = UNION {Q!ToSet(s[n]) : n \in DOMAIN s}
      BY <3>1, <3>2, <3>3, FlattenSet
    <3>5. \A b \in Q!ToSet(u) : \E n \in K : b \in X(n)
      BY <3>1, <3>2, <3>4
    <3> HIDE DEF u
    <3>6. x \notin Q!ToSet(u)
      BY <2>6, <3>5
    <3>7. w \in Seq(Addr) /\ Injective(w) /\ Q!ToSet(w) = {x}
      BY <2>1, Singleton
    <3> HIDE DEF w
    <3>8. Q!ToSet(u) \cap Q!ToSet(w) = {}
      BY <3>6, <3>7
    <3>9. Injective(u \o w)
      BY <3>4, <3>7, <3>8, ConcatSet
    <3>10. QED BY <3>1, <3>9
  <2>11. QED BY <2>7, <2>8, <2>10
<1>4. Good(k)
  <2> HIDE DEF Good
  <2> SUFFICES ASSUME ~Good(k) PROVE FALSE
    OBVIOUS
  <2>1. T \subseteq Nat /\ T # {}
    OBVIOUS
  <2>2. PICK j \in T : \A l \in T : j <= l
    <3> HIDE DEF T
    <3> QED BY <2>1, Least
  <2>3. j # 0 /\ j \in 1..MaxTargets /\ j - 1 \in 0..MaxTargets /\ ~(j <= j - 1)
    BY <1>2, <2>2, MaxTargetsAssumption
  <2>4. Good(j - 1)
    BY <2>2, <2>3
  <2>5. QED BY <1>3, <2>2, <2>3, <2>4
<1>5. QED BY <1>4 DEF Good


LEMMA DeinitTargetOwners ==
  ASSUME BInv, SP!IInv, OwnInv, DeinitTarget PROVE OwnInv'
<1> DEFINE a == at[fp[i]]
           gone == Gone(MaxTargets, a)
<1>1. /\ pc = "deinit" /\ pc' = pc /\ i < fpIndex /\ i' = i + 1
      /\ ~crashed /\ frames = <<>> /\ IInv
      /\ heap' = [b \in Addr |-> IF b \in gone THEN ZeroTarget ELSE heap[b]]
      /\ live' = live \ gone
      /\ UNCHANGED <<frames, unopened, result, at, fp, fpIndex, popped>>
  BY DEF DeinitTarget, S!DeinitTarget, Release, Released, Gone, BInv, PcOK
<1>2. /\ i \in S!Indices /\ fpIndex \in S!Indices
      /\ \A j \in S!Indices : j \in Nat
      /\ i \in SlotsLeft /\ SlotsLeft' = SlotsLeft \ {i}
  <2>1. i \in S!Indices /\ fpIndex \in S!Indices /\ \A j \in S!Indices : j \in Nat
    BY LoopShape, ServiceConstants DEF S!Indices, SP!FilesAssumption
  <2>2. SlotsLeft = {j \in S!Indices : j < fpIndex /\ j >= i}
        /\ SlotsLeft' = {j \in S!Indices : j < fpIndex /\ j >= i + 1}
    BY <1>1 DEF SlotsLeft
  <2>3. \A j \in S!Indices : j >= i + 1 <=> j >= i /\ j # i
    BY <2>1
  <2>4. QED BY <1>1, <2>1, <2>2, <2>3
<1>3. a \in Addr
  <2>1. fp[i] \in DOMAIN Files /\ fp[i] # S!NoTarget
    BY <1>1, <1>2, LoopShape DEF S!NoTarget
  <2>2. QED BY <1>2, <2>1 DEF BInv, AtOK
<1> HIDE DEF a, gone
<1>4. /\ live \subseteq Addr /\ live' \subseteq live
      /\ \A d \in live' : heap'[d] = heap[d]
      /\ MaxTargets \in 0..MaxTargets
  BY <1>1, MaxTargetsAssumption, AddrLive DEF IInv, RoutineTypeOK
<1>5. PICK m \in Nat : \E r \in [Addr -> 0..m] : Ranked(r)
  BY DEF OwnInv, RankOK
<1>6. PICK r \in [Addr -> 0..m] : Ranked(r)
  BY <1>5
<1>7. RankOK'
  <2>1. Ranked(r)'
    BY <1>1, <1>4, <1>6 DEF Ranked
  <2>2. QED BY <2>1 DEF RankOK
<1>8. KidsOK'
  BY <1>1, <1>4 DEF OwnInv, KidsOK
<1>9. \A j \in SlotsLeft : RootOf(j)' = RootOf(j)
  BY <1>1 DEF RootOf
<1>10. a = RootOf(i) /\ a \in gone
  BY <1>1, <1>3, <1>4, GoneShape DEF a, gone, RootOf, OwnInv
<1>11. OwnedOK'
  <2> SUFFICES ASSUME NEW b \in live'
               PROVE  \/ \E d \in live' : \E n \in DOMAIN heap'[d].children :
                           heap'[d].children[n] = b
                      \/ \E j \in SlotsLeft' : RootOf(j)' = b
    BY <1>1 DEF OwnedOK
  <2>1. b \in live /\ b \notin gone
    BY <1>1
  <2>2. CASE \E d \in live : \E n \in DOMAIN heap[d].children :
               heap[d].children[n] = b
    <3>1. PICK d \in live : \E n \in DOMAIN heap[d].children :
            heap[d].children[n] = b
      BY <2>2
    <3>2. d \notin gone
      BY <1>1, <1>3, <1>6, <2>1, <3>1, GoneClosed DEF OwnInv, gone
    <3>3. d \in live'
      BY <1>1, <3>2
    <3>4. QED BY <1>4, <3>1, <3>3
  <2>3. CASE \E j \in SlotsLeft : RootOf(j) = b
    BY <1>2, <1>9, <1>10, <2>1, <2>3
  <2>4. \/ \E d \in live : \E n \in DOMAIN heap[d].children :
             heap[d].children[n] = b
        \/ \E j \in SlotsLeft : RootOf(j) = b
    BY <1>1, <2>1 DEF OwnInv, OwnedOK, Pending
  <2>5. QED BY <2>2, <2>3, <2>4
<1>12. SlotIndexOK'
  BY <1>1 DEF SlotIndexOK
<1>13. ForestOK'
  <2> SUFFICES ASSUME unopened = {}
               PROVE  ~crashed' /\ ChildrenOK' /\ OneParent' /\ RootsOK'
    BY <1>1 DEF ForestOK
  <2>1. ChildrenOK /\ OneParent /\ RootsOK /\ a \in live
    BY <1>1, <1>2, <1>10 DEF OwnInv, ForestOK, RootsOK
  <2>2. /\ gone \subseteq live /\ Rooted(gone, a)
        /\ Injective(FreedBy[MaxTargets][a])
    BY <1>1, <1>4, <1>6, <2>1, GoneOnce DEF OwnInv, gone
  <2>3. crashed' = FALSE
    <3> DEFINE s == FreedBy[MaxTargets][a]
    <3>1. s \in Seq(Addr)
      BY <1>1, <1>3, <1>4, FreedShape DEF OwnInv
    <3>2. Released(a) = s /\ gone = Q!ToSet(s)
      BY DEF Released, gone, Gone
    <3>3. crashed' \in IF /\ Q!ToSet(Released(a)) \subseteq live
                          /\ Cardinality(Q!ToSet(Released(a))) = Len(Released(a))
                       THEN {FALSE} ELSE BOOLEAN
      BY DEF DeinitTarget, Release, a
    <3> HIDE DEF s
    <3>4. Cardinality(Q!ToSet(s)) = Len(s)
      <4>1. Len(s) \in Nat /\ DOMAIN s = 1..Len(s)
        BY <3>1, LenProperties
      <4>2. IsFiniteSet(1..Len(s)) /\ Cardinality(1..Len(s)) = Len(s)
        BY <4>1, FS_Interval
      <4>3. \A x, y \in 1..Len(s) : s[x] = s[y] => x = y
        BY <2>2, <4>1 DEF Injective, s
      <4>4. s \in Bijection(1..Len(s), Q!ToSet(s))
        <5>1. \A b \in Q!ToSet(s) : \E n \in 1..Len(s) : s[n] = b
          BY <4>1 DEF Q!ToSet
        <5>2. s \in [1..Len(s) -> Q!ToSet(s)]
          <6>1. \A n \in 1..Len(s) : s[n] \in Q!ToSet(s)
            BY <4>1 DEF Q!ToSet
          <6>2. s = [n \in 1..Len(s) |-> s[n]]
            BY <3>1, <4>1
          <6>3. QED BY <6>1, <6>2
        <5>3. QED BY <4>3, <5>1, <5>2
                  DEF Bijection, Injection, Surjection, IsInjective
      <4>5. QED BY <4>2, <4>4, FS_Bijection DEF ExistsBijection
    <3>5. QED BY <2>2, <3>2, <3>3, <3>4
  \* Nothing that is left points into what has gone.
  <2>4. ASSUME NEW d \in live', NEW n \in DOMAIN heap[d].children
        PROVE  heap[d].children[n] \in live'
    <3> DEFINE c == heap[d].children[n]
    <3>1. d \in live /\ d \notin gone /\ c \in live /\ c # a
      BY <1>1, <1>2, <1>10, <2>1 DEF ChildrenOK
    <3>2. c \notin gone
      <4> SUFFICES ASSUME c \in gone PROVE FALSE
        OBVIOUS
      <4>1. PICK e \in gone : \E l \in DOMAIN heap[e].children :
                                heap[e].children[l] = c
        BY <2>2, <3>1 DEF Rooted, c
      <4>2. QED BY <2>1, <2>2, <3>1, <4>1 DEF OneParent
    <3>3. QED BY <1>1, <3>1, <3>2
  <2>5. ASSUME NEW j \in SlotsLeft, j # i
        PROVE  RootOf(j) \in live'
    <3>1. RootOf(j) \in live /\ RootOf(j) # a
      BY <1>2, <1>10, <2>1, <2>5 DEF RootsOK
    <3>2. RootOf(j) \notin gone
      <4> SUFFICES ASSUME RootOf(j) \in gone PROVE FALSE
        OBVIOUS
      <4>1. PICK e \in gone : \E l \in DOMAIN heap[e].children :
                                heap[e].children[l] = RootOf(j)
        BY <2>2, <3>1 DEF Rooted
      <4>2. QED BY <2>1, <2>2, <4>1 DEF ChildrenOK
    <3>3. QED BY <1>1, <3>1, <3>2
  <2>6. \A b : ~Pending(b)'
    BY <1>1 DEF Pending
  <2>7. ChildrenOK'
    BY <1>1, <1>2, <1>4, <1>9, <2>1, <2>4, <2>6 DEF ChildrenOK
  <2>8. OneParent'
    BY <1>4, <2>1 DEF OneParent
  <2>9. RootsOK'
    BY <1>1, <1>2, <1>9, <2>1, <2>5, <2>6 DEF RootsOK
  <2>10. QED BY <2>3, <2>7, <2>8, <2>9
<1>14. QED BY <1>7, <1>8, <1>11, <1>12, <1>13 DEF OwnInv

\* Nothing is freed twice, and nothing freed is used, without a directory that
\* could not be opened.
SoundOK == unopened = {} => ~crashed

LEMMA OwnersBegin == BackdInit => OwnInv /\ SoundOK
<1> SUFFICES ASSUME BackdInit PROVE OwnInv /\ SoundOK
  OBVIOUS
<1>1. /\ live = {} /\ frames = <<>> /\ crashed = FALSE /\ result = NULL
      /\ pc = "pop" /\ fpIndex = 0
  BY DEF BackdInit, S!Init
<1>2. SlotsLeft = {} /\ NULL \notin Addr
  <2>1. \A j \in S!Indices : ~(j < 0)
    BY ServiceConstants DEF S!Indices, SP!FilesAssumption
  <2>2. QED BY <1>1, <2>1, MaxTargetsAssumption DEF SlotsLeft, Addr, NULL
<1>3. RankOK
  <2> DEFINE r == [a \in Addr |-> 0]
  <2>1. r \in [Addr -> 0..0]
    OBVIOUS
  <2>2. Ranked(r)
    BY <1>1 DEF Ranked
  <2>3. QED BY <2>1, <2>2 DEF RankOK
<1>4. KidsOK /\ OwnedOK /\ SlotIndexOK
  BY <1>1 DEF KidsOK, OwnedOK, SlotIndexOK
<1>5. ForestOK
  BY <1>1, <1>2 DEF ForestOK, ChildrenOK, OneParent, RootsOK, Pending
<1>6. QED BY <1>1, <1>3, <1>4, <1>5 DEF OwnInv, SoundOK

LEMMA OwnersKeptByAll ==
  ASSUME BInv, SP!IInv, OwnInv, SoundOK, [BackdNext]_backdVars
  PROVE  OwnInv' /\ SoundOK'
<1>1. OwnInv'
  <2>1. CASE CreateStep
    <3>1. Create
      BY <2>1 DEF CreateStep
    <3>2. QED
      BY <2>1, <3>1, CreateLstatOwners, EventInitOwners, EventInitFailOwners,
         OpenDirOwners, OpenDirFailOwners, ReadDirOwners, EndDirOwners DEF Create
  <2>2. CASE PopFile \/ Created \/ Skipped \/ DeinitTarget
    BY <2>2, PopFileOwners, CreatedOwners, SkippedOwners, DeinitTargetOwners
  <2>3. CASE ~(CreateStep \/ PopFile \/ Created \/ Skipped \/ DeinitTarget)
    BY <2>3, LoopKeepsOwners DEF BackdNext, Daemon
  <2>4. QED BY <2>1, <2>2, <2>3
<1>2. SoundOK'
  <2>1. CASE pc' # "killed" /\ unopened' = {}
    BY <1>1, <2>1 DEF OwnInv, ForestOK, SoundOK
  <2>2. CASE pc' = "killed"
    <3>1. Signal \/ Tick \/ Others \/ UNCHANGED backdVars
      BY <2>2 DEF BackdNext, Daemon, PopFile, S!PopFile, CreateStep, Created,
         S!Created, Skipped, S!Skipped, LoopStep, Ended, S!NoMoreFiles,
         S!HandleSigint, S!HandleSigterm, S!Handle, S!SpinBegins, S!SpinGoesOn,
         S!SpinFlag, S!SpinWakes, S!loopVars, RoundBegins, S!SpinEnds,
         ObserveTarget, S!ObserveTarget, Visit, Look, daemonVars, loopVars,
         RoundEnds, S!RoundEnds, DeinitTarget, S!DeinitTarget, Exit, S!Exit
    <3>2. UNCHANGED <<unopened, crashed>>
      BY <3>1 DEF Signal, Tick, Others, OtherProcesses, targetVars, walkVars,
                  vars, backdVars
    <3>3. QED BY <3>2 DEF SoundOK
  <2>3. QED BY <2>1, <2>2 DEF SoundOK
<1>3. QED BY <1>1, <1>2

LEMMA OwnersInvariance == BackdSpec => [](OwnInv /\ SoundOK)
<1>1. BInv /\ SP!IInv /\ OwnInv /\ SoundOK /\ [BackdNext]_backdVars
        => (OwnInv /\ SoundOK)'
  BY OwnersKeptByAll
<1>2. QED
  BY <1>1, OwnersBegin, BackdInvariance, ServiceInvariant, PTL DEF BackdSpec

\* service_deinit (loop.c:52) frees every target, also those of snapshots that
\* went wrong, and nothing twice unless a directory could not be opened.
THEOREM AllReleasedHolds == BackdSpec => []AllReleased
<1>1. BInv /\ SP!IInv /\ OwnInv /\ SoundOK => AllReleased
  <2> SUFFICES ASSUME BInv, SP!IInv, OwnInv, SoundOK PROVE AllReleased
    OBVIOUS
  <2>1. ASSUME pc = "exited", live # {} PROVE FALSE
    <3>1. frames = <<>> /\ live \subseteq Addr
      BY <2>1, AddrLive DEF BInv, PcOK, IInv, RoutineTypeOK
    <3>2. SlotsLeft = {}
      <4>1. /\ i >= fpIndex /\ i \in S!Indices /\ fpIndex \in S!Indices
            /\ \A j \in S!Indices : j \in Nat
        BY <2>1, LoopShape, ServiceConstants
           DEF OwnInv, SlotIndexOK, S!Indices, SP!FilesAssumption
      <4>2. \A j \in S!Indices : ~(j < fpIndex /\ j >= i)
        BY <4>1
      <4>3. QED BY <2>1, <4>2 DEF SlotsLeft
    <3>3. \A a \in live : \E d \in live : \E n \in DOMAIN heap[d].children :
            heap[d].children[n] = a
      BY <2>1, <3>1, <3>2 DEF OwnInv, OwnedOK, Pending
    <3>4. PICK m \in Nat : \E r \in [Addr -> 0..m] : Ranked(r)
      BY DEF OwnInv, RankOK
    <3>5. PICK r \in [Addr -> 0..m] : Ranked(r)
      BY <3>4
    <3> DEFINE Ranks == {r[a] : a \in live}
    <3>6. \A a \in live : r[a] \in Nat
      BY <3>1
    <3>7. PICK a \in live : \A b \in live : r[a] <= r[b]
      <4>1. Ranks \subseteq Nat /\ Ranks # {}
        BY <2>1, <3>6
      <4> HIDE DEF Ranks
      <4>2. PICK l \in Ranks : \A n \in Ranks : l <= n
        BY <4>1, Least
      <4>3. QED BY <4>2 DEF Ranks
    <3>8. PICK d \in live : r[d] < r[a]
      BY <3>3, <3>5 DEF Ranked
    <3>9. r[a] <= r[d] /\ r[a] \in Nat /\ r[d] \in Nat
      BY <3>6, <3>7
    <3>10. QED BY <3>8, <3>9
  <2>2. QED BY <2>1 DEF AllReleased, SoundOK
<1>2. QED BY <1>1, BackdInvariance, ServiceInvariant, OwnersInvariance, PTL

\* Who owns a target, one by one.
LEMMA OwnersAre ==
  ASSUME BInv, SP!IInv, OwnInv, NEW a \in Addr,
         unopened = {}, pc # "killed"
  PROVE  Owners(a) = IF a \in live THEN 1 ELSE 0
<1> DEFINE K == ChildSlots(a)
           C == CallsOf(a)
           R == {j \in SlotsLeft : at[fp[j]] = a}
           P == IF pc = "create" /\ frames = <<>> /\ result = a THEN 1 ELSE 0
<1>1. /\ IInv /\ live \subseteq Addr /\ NULL \notin Addr /\ a # NULL
  BY AddrLive DEF BInv, IInv, RoutineTypeOK
<1>2. Cardinality({}) = 0 /\ \A x : Cardinality({x}) = 1
  BY FS_EmptySet, FS_Singleton
<1>3. ChildrenOK /\ OneParent /\ RootsOK
  BY DEF OwnInv, ForestOK
<1>4. P = IF Pending(a) THEN 1 ELSE 0
  BY DEF Pending
<1>5. Owners(a) = Cardinality(K) + Cardinality(C) + Cardinality(R) + P
  BY DEF Owners, CallsOf
<1>6. K = {} \/ \E x : K = {x}
  <2>1. \A x, y \in K : x = y
    BY <1>3, SlotOf DEF OneParent
  <2>2. QED BY <2>1
<1>7. C = {} \/ \E x : C = {x}
  <2>1. \A x, y \in C : x = y
    BY <1>1, CallsLive DEF CallsOf
  <2>2. QED BY <2>1
<1>8. R = {} \/ \E x : R = {x}
  <2>1. \A x, y \in R : x = y
    BY <1>3 DEF RootsOK, RootOf
  <2>2. QED BY <2>1
\* A child is no call's target, no root and not handed over; nor are these two
\* of each other.
<1>9. K # {} => C = {} /\ R = {} /\ ~Pending(a) /\ a \in live
  BY <1>3, SlotOf DEF ChildrenOK, CallsOf, RootOf
<1>10. C # {} => R = {} /\ ~Pending(a) /\ a \in live
  <2>1. C # {} => R = {}
    BY <1>3 DEF RootsOK, CallsOf, RootOf
  <2>2. C # {} => a \in live
    BY <1>1, CallsLive DEF CallsOf
  <2>3. C # {} => frames # <<>>
    BY DEF CallsOf
  <2>4. QED BY <2>1, <2>2, <2>3 DEF Pending
<1>11. R # {} => ~Pending(a) /\ a \in live
  BY <1>3 DEF RootsOK, RootOf
<1>12. Pending(a) => a \in live
  BY <1>3 DEF RootsOK
<1>13. a \in live => K # {} \/ C # {} \/ R # {} \/ Pending(a)
  <2> SUFFICES ASSUME a \in live
               PROVE  K # {} \/ C # {} \/ R # {} \/ Pending(a)
    OBVIOUS
  <2>1. (\E d \in live : \E n \in DOMAIN heap[d].children :
           heap[d].children[n] = a) => K # {}
    BY SlotOf
  <2>2. (\E n \in DOMAIN frames : frames[n].self = a) => C # {}
    BY DEF CallsOf
  <2>3. (\E j \in SlotsLeft : RootOf(j) = a) => R # {}
    BY DEF RootOf
  <2> HIDE DEF K, C, R
  <2>4. QED BY <2>1, <2>2, <2>3 DEF OwnInv, OwnedOK
<1>14. /\ K # {} => Cardinality(K) = 1
       /\ C # {} => Cardinality(C) = 1
       /\ R # {} => Cardinality(R) = 1
       /\ K = {} => Cardinality(K) = 0
       /\ C = {} => Cardinality(C) = 0
       /\ R = {} => Cardinality(R) = 0
  <2> HIDE DEF K, C, R
  <2> QED BY <1>2, <1>6, <1>7, <1>8
<1> HIDE DEF K, C, R, P
<1>15. QED BY <1>4, <1>5, <1>9, <1>10, <1>11, <1>12, <1>13, <1>14

\* As long as every directory could be opened, each target the daemon's
\* snapshots hold has one owner, and what is free has none.
THEOREM OneOwnerHolds == BackdSpec => []OneOwner
<1>1. BInv /\ SP!IInv /\ OwnInv => OneOwner
  <2> SUFFICES ASSUME BInv, SP!IInv, OwnInv, unopened = {}, pc # "killed"
               PROVE  /\ \A a \in live : Owners(a) = 1
                      /\ \A a \in Addr \ live : Owners(a) = 0
    BY DEF OneOwner
  <2>1. live \subseteq Addr
    BY AddrLive DEF BInv, IInv, RoutineTypeOK
  <2>2. QED BY <2>1, OwnersAre
<1>2. QED BY <1>1, BackdInvariance, ServiceInvariant, OwnersInvariance, PTL


-----------------------------------------------------------------------------
(* A round: the walk goes down from a slot's target, and what it has been  *)
(* at, is the slots before, the children before, and all that is below.    *)

Kids(a)    == heap[a].children
OnStack(a) == \E n \in DOMAIN stack : stack[n].t = a

\* The activations are at a target, at the child it is about to come back
\* from, at that one's child and so on.
PathDown ==
  /\ \A m, n \in DOMAIN stack : stack[m].t = stack[n].t => m = n
  /\ stack # <<>> => i > 0 /\ stack[1].t = RootOf(i - 1)
  /\ \A n \in DOMAIN stack :
       /\ stack[n].i <= Len(Kids(stack[n].t))
       /\ n < Len(stack) => /\ stack[n].i > 0
                            /\ stack[n + 1].t = Kids(stack[n].t)[stack[n].i]

LookedOnPath ==
  \A n \in DOMAIN stack :
    LET f == stack[n]
    IN  /\ looked[f.t] = 0
        /\ \A m \in DOMAIN Kids(f.t) :
             looked[Kids(f.t)[m]] =
               IF m < f.i \/ (m = f.i /\ n = Len(stack)) THEN 1 ELSE 0

LookedElsewhere ==
  /\ \A a \in Addr : looked[a] \in {0, 1}
  /\ \A a \in live : ~OnStack(a) =>
       \A n \in DOMAIN Kids(a) : looked[Kids(a)[n]] = looked[a]
  /\ \A j \in SlotsLeft : ~OnStack(RootOf(j)) =>
       looked[RootOf(j)] = IF j < i THEN 1 ELSE 0

RoundOK ==
  unopened = {} /\ pc = "observe" =>
    PathDown /\ LookedOnPath /\ LookedElsewhere

LEMMA RoundShape ==
  ASSUME BInv, SP!IInv, OwnInv, unopened = {}, pc \in {"spin_time", "observe"}
  PROVE  /\ Awake /\ ChildrenOK /\ OneParent /\ RootsOK /\ live \subseteq Addr
         /\ Len(stack) \in Nat /\ DOMAIN stack = 1..Len(stack)
         /\ stack = <<>> <=> Len(stack) = 0
         /\ \A n \in DOMAIN stack : stack[n].t \in live /\ stack[n].i \in Nat
         /\ \A a \in live : /\ Len(Kids(a)) \in Nat
                            /\ DOMAIN Kids(a) = 1..Len(Kids(a))
                            /\ ChildrenCount(a) = Len(Kids(a))
                            /\ \A n \in DOMAIN Kids(a) : Kids(a)[n] \in live
         /\ i \in Nat /\ i <= fpIndex /\ fpIndex \in Nat
         /\ SlotsLeft = {j \in S!Indices : j < fpIndex}
         /\ \A j \in S!Indices : j \in Nat
         /\ \A j \in SlotsLeft : RootOf(j) \in live
         /\ i > 0 => i - 1 \in SlotsLeft
<1>1. Awake /\ ChildrenOK /\ OneParent /\ RootsOK
  BY DEF BInv, PcOK, OwnInv, ForestOK, Awake
<1>2. live \subseteq Addr /\ stack \in Seq([t : live, i : Nat])
  BY <1>1, AwakeShape DEF BInv
<1>3. /\ Len(stack) \in Nat /\ DOMAIN stack = 1..Len(stack)
      /\ stack = <<>> <=> Len(stack) = 0
      /\ \A n \in DOMAIN stack : stack[n].t \in live /\ stack[n].i \in Nat
  <2> DEFINE F == [t : live, i : Nat]
  <2>1. \A f \in F : f.t \in live /\ f.i \in Nat
    OBVIOUS
  <2> HIDE DEF F
  <2>2. stack \in Seq(F)
    BY <1>2 DEF F
  <2>3. /\ Len(stack) \in Nat /\ DOMAIN stack = 1..Len(stack)
        /\ stack = <<>> <=> Len(stack) = 0
    BY <2>2, LenProperties, EmptySeq
  <2>4. \A n \in DOMAIN stack : stack[n] \in F
    BY <2>2, <2>3, ElementOfSeq
  <2>5. QED BY <2>1, <2>3, <2>4
<1>4. ASSUME NEW a \in live
      PROVE  /\ Len(Kids(a)) \in Nat /\ DOMAIN Kids(a) = 1..Len(Kids(a))
             /\ ChildrenCount(a) = Len(Kids(a))
             /\ \A n \in DOMAIN Kids(a) : Kids(a)[n] \in live
  <2> DEFINE s == Kids(a)
  <2>1. s \in Seq(Addr)
    BY <1>2 DEF BInv, IInv, RoutineTypeOK, FsTargetTypeOK, Target, Kids
  <2>2. heap[a].type # "directory" => DOMAIN s = {}
    BY DEF OwnInv, KidsOK, Kids
  <2>3. ChildrenCount(a) = IF heap[a].type = "directory" THEN Len(s) ELSE 0
    BY DEF ChildrenCount, Kids
  <2>4. \A n \in DOMAIN s : s[n] \in live
    BY <1>1 DEF ChildrenOK, Kids
  <2> HIDE DEF s
  <2>5. DOMAIN s = 1..Len(s) /\ Len(s) \in Nat
    BY <2>1, LenProperties
  <2>6. ChildrenCount(a) = Len(s)
    <3>1. CASE heap[a].type # "directory"
      <4>1. ~(1 <= Len(s))
        BY <2>2, <2>5, <3>1
      <4>2. QED BY <2>3, <2>5, <3>1, <4>1
    <3>2. CASE heap[a].type = "directory"
      BY <2>3, <3>2
    <3>3. QED BY <3>1, <3>2
  <2>7. QED BY <2>4, <2>5, <2>6 DEF s
<1>5. /\ i \in S!Indices /\ fpIndex \in S!Indices /\ i <= fpIndex
      /\ S!Indices = 0..(Slots - 1) /\ Slots \in Nat
  BY LoopShape, ServiceConstants
     DEF SP!IInv, SP!IndexOK, SP!FilesAssumption, S!Indices
<1>6. SlotsLeft = {j \in S!Indices : j < fpIndex}
  BY DEF SlotsLeft
<1>7. i > 0 => i - 1 \in SlotsLeft
  BY <1>5, <1>6
<1>8. \A j \in SlotsLeft : RootOf(j) \in live
  BY <1>1 DEF RootsOK
<1>9. QED BY <1>1, <1>2, <1>3, <1>4, <1>5, <1>6, <1>7, <1>8

LEMMA RoundBeginsRound ==
  ASSUME BInv, SP!IInv, OwnInv, RoundBegins PROVE RoundOK'
<1>1. /\ pc = "spin_time" /\ looked' = [a \in Addr |-> 0]
      /\ UNCHANGED <<heap, live, stack, fp, fpIndex, at, i>>
  BY DEF RoundBegins, S!SpinEnds, S!loopVars, vars, targetVars, walkVars
<1>2. stack = <<>> /\ i = 0 /\ DOMAIN stack = {}
  BY <1>1 DEF BInv, PcOK, SP!IInv, SP!IndexOK
<1>3. PathDown' /\ LookedOnPath'
  BY <1>1, <1>2 DEF PathDown, LookedOnPath
<1>4. ASSUME unopened = {} PROVE LookedElsewhere'
  <2>1. /\ live \subseteq Addr
        /\ \A a \in live : \A n \in DOMAIN Kids(a) : Kids(a)[n] \in live
        /\ \A j \in SlotsLeft : RootOf(j) \in live
        /\ SlotsLeft = {j \in S!Indices : j < fpIndex}
        /\ \A j \in S!Indices : j \in Nat
    BY <1>1, <1>4, RoundShape
  <2>2. SlotsLeft' = SlotsLeft /\ \A j \in SlotsLeft : ~(j < 0)
    <3>1. pc' # "killed"
      BY DEF RoundBegins, S!SpinEnds
    <3>2. QED BY <2>1, <3>1, SlotsStay
  <2>3. \A a \in Addr : looked'[a] = 0
    BY <1>1
  <2>4. \A a \in live : Kids(a)' = Kids(a)
    BY <1>1 DEF Kids
  <2>5. \A j \in SlotsLeft : RootOf(j)' = RootOf(j)
    BY <1>1 DEF RootOf
  <2>6. QED BY <1>1, <1>2, <2>1, <2>2, <2>3, <2>4, <2>5 DEF LookedElsewhere
<1>5. unopened' = unopened
  BY DEF RoundBegins, vars, targetVars
<1>6. QED BY <1>3, <1>4, <1>5 DEF RoundOK

LEMMA ObserveTargetRound ==
  ASSUME BInv, SP!IInv, OwnInv, RoundOK, ObserveTarget PROVE RoundOK'
<1> SUFFICES ASSUME unopened = {}
             PROVE  PathDown' /\ LookedOnPath' /\ LookedElsewhere'
  BY DEF RoundOK, ObserveTarget, targetVars
<1> DEFINE a == at[fp[i]]
<1>1. /\ pc = "observe" /\ stack = <<>> /\ i < fpIndex /\ i' = i + 1
      /\ Observe(a, <<>>)
      /\ UNCHANGED <<heap, live, fp, at, looked, fpIndex>>
  BY DEF ObserveTarget, S!ObserveTarget, targetVars, heapVars
<1>2. /\ a \in live /\ a = RootOf(i)
  BY RoundIsSafe DEF RootOf
<1> HIDE DEF a
<1>3. stack' = <<[t |-> a, i |-> 0]>>
  BY <1>1, <1>2 DEF Observe
<1>4. /\ DOMAIN stack' = {1} /\ Len(stack') = 1 /\ stack' # <<>>
      /\ stack'[1].t = a /\ stack'[1].i = 0
  BY <1>3
<1>5. /\ live \subseteq Addr /\ i \in Nat /\ DOMAIN stack = {}
      /\ \A x \in live : /\ Len(Kids(x)) \in Nat
                         /\ DOMAIN Kids(x) = 1..Len(Kids(x))
                         /\ \A n \in DOMAIN Kids(x) : Kids(x)[n] \in live
      /\ \A j \in SlotsLeft : RootOf(j) \in live /\ j \in Nat
      /\ i \in SlotsLeft /\ SlotsLeft' = SlotsLeft
  <2>1. pc' # "killed" /\ i \in S!Indices
    BY <1>1, LoopShape DEF ObserveTarget, S!ObserveTarget
  <2>2. QED BY <1>1, <2>1, RoundShape, SlotsStay
<1>6. /\ \A x \in live : Kids(x)' = Kids(x)
      /\ \A j \in SlotsLeft : RootOf(j)' = RootOf(j)
  BY <1>1 DEF Kids, RootOf
<1>7. LookedElsewhere
  BY <1>1 DEF RoundOK
<1>8. /\ \A x : ~OnStack(x)
      /\ \A x : OnStack(x)' <=> x = a
  BY <1>4, <1>5 DEF OnStack
<1>9. looked[a] = 0 /\ \A n \in DOMAIN Kids(a) : looked[Kids(a)[n]] = 0
  BY <1>2, <1>5, <1>7, <1>8 DEF LookedElsewhere
<1>10. PathDown'
  <2>1. at'[fp'[i' - 1]] = a /\ i' > 0
    <3>1. i' - 1 = i /\ i' > 0
      BY <1>1, <1>5
    <3>2. QED BY <1>1, <1>2, <3>1 DEF RootOf
  <2>2. 0 <= Len(heap'[a].children)
    BY <1>1, <1>2, <1>5 DEF Kids
  <2>3. QED BY <1>4, <2>1, <2>2 DEF PathDown, RootOf, Kids
<1>11. LookedOnPath'
  <2>1. \A m \in DOMAIN Kids(a) : ~(m < 0) /\ m # 0
    BY <1>2, <1>5
  <2>2. heap'[a].children = Kids(a) /\ looked' = looked
    BY <1>1 DEF Kids
  <2>3. QED BY <1>4, <1>9, <2>1, <2>2 DEF LookedOnPath, Kids
<1>12. LookedElsewhere'
  <2>1. \A j \in SlotsLeft : RootOf(j) # a => j # i /\ (j < i <=> j < i + 1)
    BY <1>2, <1>5
  <2>2. QED BY <1>1, <1>5, <1>6, <1>7, <1>8, <2>1 DEF LookedElsewhere
<1>13. QED BY <1>10, <1>11, <1>12

\* The child that is visited next is not a target that the round is at already.
LEMMA VisitRound ==
  ASSUME BInv, SP!IInv, OwnInv, RoundOK, Visit PROVE RoundOK'
<1> SUFFICES ASSUME unopened = {}
             PROVE  PathDown' /\ LookedOnPath' /\ LookedElsewhere'
  BY DEF RoundOK, Visit, ObserveChild, targetVars
<1> DEFINE L == Len(stack)
           f == stack[L]
           c == Kids(f.t)[f.i + 1]
           s == [stack EXCEPT ![L].i = @ + 1]
<1>1. /\ pc = "observe" /\ pc' = "observe" /\ stack # <<>>
      /\ f.i < ChildrenCount(f.t) /\ Observe(c, s)
      /\ UNCHANGED <<heap, live, fp, at, looked, fpIndex, i>>
  BY DEF Visit, ObserveChild, targetVars, heapVars, daemonVars, loopVars, Kids
<1>2. /\ c \in live /\ f.i + 1 \in DOMAIN Kids(f.t)
  BY RoundIsSafe DEF Kids
<1>3. /\ live \subseteq Addr /\ i \in Nat
      /\ L \in Nat /\ L # 0 /\ DOMAIN stack = 1..L /\ L \in DOMAIN stack
      /\ \A n \in DOMAIN stack : stack[n].t \in live /\ stack[n].i \in Nat
      /\ \A x \in live : /\ Len(Kids(x)) \in Nat
                         /\ DOMAIN Kids(x) = 1..Len(Kids(x))
                         /\ \A n \in DOMAIN Kids(x) : Kids(x)[n] \in live
      /\ \A j \in SlotsLeft : RootOf(j) \in live
      /\ i > 0 => i - 1 \in SlotsLeft
      /\ ChildrenOK /\ OneParent
  BY <1>1, RoundShape
<1>4. SlotsLeft' = SlotsLeft
  BY <1>1 DEF SlotsLeft
<1>5. PathDown /\ LookedOnPath /\ LookedElsewhere
  BY <1>1 DEF RoundOK
<1>6. f.t \in live /\ f.i \in Nat
  BY <1>3
<1>7. stack' = Append(s, [t |-> c, i |-> 0])
  BY <1>1, <1>2 DEF Observe
<1>8. /\ DOMAIN stack' = 1..(L + 1) /\ Len(stack') = L + 1 /\ stack' # <<>>
      /\ stack'[L + 1].t = c /\ stack'[L + 1].i = 0
      /\ stack'[L].t = f.t /\ stack'[L].i = f.i + 1
      /\ \A n \in 1..(L - 1) : stack'[n] = stack[n]
      /\ \A n \in 1..L : stack'[n].t = stack[n].t
  <2> DEFINE F == [t : live, i : Nat]
             e == [t |-> c, i |-> 0]
  <2>1. stack \in Seq(F)
    BY <1>1, AwakeShape, RoundShape DEF BInv
  <2>2. [f EXCEPT !.i = f.i + 1] \in F /\ e \in F
    <3>1. f \in F
      <4> HIDE DEF F
      <4> QED BY <1>3, <2>1, ElementOfSeq
    <3> HIDE DEF c
    <3>2. QED BY <1>2, <1>6, <3>1
  <2> DEFINE g == [f EXCEPT !.i = f.i + 1]
  <2>3. g.t = f.t /\ g.i = f.i + 1 /\ e.t = c /\ e.i = 0
    <3>1. f \in F
      <4> HIDE DEF F
      <4> QED BY <1>3, <2>1, ElementOfSeq
    <3> HIDE DEF c, f
    <3>2. QED BY <3>1
  <2>4. s = [stack EXCEPT ![L] = g]
    OBVIOUS
  <2> HIDE DEF F, f, c, e, g, L, s
  <2>5. /\ s \in Seq(F) /\ Len(s) = L /\ s[L] = g
        /\ \A n \in 1..(L - 1) : s[n] = stack[n]
    <3>1. s \in Seq(F) /\ Len(s) = Len(stack)
      BY <1>3, <2>1, <2>2, <2>4, ExceptSeq DEF g
    <3>2. s[L] = g /\ \A n \in 1..(L - 1) : s[n] = stack[n]
      BY <1>3, <2>4
    <3>3. QED BY <3>1, <3>2 DEF L
  <2>6. /\ Len(stack') = L + 1 /\ DOMAIN stack' = 1..(L + 1)
        /\ stack'[L + 1] = e /\ \A n \in 1..L : stack'[n] = s[n]
    <3>1. stack' = Append(s, e)
      BY <1>7 DEF e
    <3>2. stack' \in Seq(F)
      BY <2>2, <2>5, <3>1, AppendProperties
    <3>3. QED BY <2>2, <2>5, <3>1, <3>2, AppendProperties, LenProperties
  <2>7. L \in 1..L /\ \A n \in 1..(L - 1) : n \in 1..L
    BY <1>3
  <2>8. \A n \in 1..(L - 1) : stack'[n] = stack[n]
    BY <2>5, <2>6, <2>7
  <2>9. \A n \in 1..L : n = L \/ n \in 1..(L - 1)
    BY <1>3
  <2>10. stack' # <<>>
    BY <1>3, <2>6
  <2>11. stack'[L] = g /\ f = stack[L]
    BY <2>5, <2>6, <2>7 DEF f
  <2>12. QED BY <2>3, <2>6, <2>8, <2>9, <2>10, <2>11
<1> HIDE DEF s
<1>9. \A n \in DOMAIN stack : stack[n].t # c
  <2> SUFFICES ASSUME NEW n \in DOMAIN stack, stack[n].t = c PROVE FALSE
    OBVIOUS
  <2>1. CASE n = 1
    <3>1. c = RootOf(i - 1) /\ i - 1 \in SlotsLeft
      BY <1>1, <1>3, <1>5, <2>1 DEF PathDown
    <3>2. QED BY <1>2, <1>3, <1>6, <3>1 DEF ChildrenOK, Kids
  <2>2. CASE n # 1
    <3> DEFINE m == n - 1
    <3>1. m \in DOMAIN stack /\ m < L /\ n = m + 1 /\ m # L
      BY <1>3, <2>2
    <3> HIDE DEF m
    <3>2. stack[m].i > 0 /\ c = Kids(stack[m].t)[stack[m].i]
          /\ stack[m].i <= Len(Kids(stack[m].t))
      BY <1>5, <3>1 DEF PathDown
    <3>3. stack[m].i \in DOMAIN Kids(stack[m].t) /\ stack[m].t \in live
      BY <1>3, <3>1, <3>2
    <3>4. stack[m].t = f.t
      <4>1. \A d, e \in live : \A k \in DOMAIN Kids(d), l \in DOMAIN Kids(e) :
              Kids(d)[k] = Kids(e)[l] => d = e
        BY <1>3 DEF OneParent, Kids
      <4>2. Kids(f.t)[f.i + 1] = Kids(stack[m].t)[stack[m].i]
        BY <3>2
      <4> HIDE DEF f
      <4>3. QED BY <1>2, <1>6, <3>3, <4>1, <4>2
    <3>5. m = L
      BY <1>3, <1>5, <3>1, <3>4 DEF PathDown
    <3>6. QED BY <3>1, <3>5
  <2>3. QED BY <2>1, <2>2
<1>10. ~OnStack(c) /\ \A x : OnStack(x)' <=> OnStack(x) \/ x = c
  <2>1. ~OnStack(c)
    BY <1>9 DEF OnStack
  <2>2. \A n \in 1..(L + 1) : n = L + 1 \/ n \in 1..L
    BY <1>3
  <2>3. L + 1 \in 1..(L + 1) /\ \A n \in 1..L : n \in 1..(L + 1)
    BY <1>3
  <2>4. QED BY <1>3, <1>8, <2>1, <2>2, <2>3 DEF OnStack
\* The targets and what they have been looked at stay.
<1>11. /\ \A x : heap'[x].children = Kids(x)
       /\ \A x \in live : Kids(x)' = Kids(x)
       /\ \A j : RootOf(j)' = RootOf(j)
  BY <1>1 DEF Kids, RootOf
<1>12. looked[c] = 0
  <2>1. ~(f.i + 1 < f.i) /\ f.i + 1 # f.i
    BY <1>6
  <2>2. QED BY <1>2, <1>3, <1>5, <2>1 DEF LookedOnPath
<1>13. \A m \in DOMAIN Kids(c) : looked[Kids(c)[m]] = 0
  BY <1>2, <1>5, <1>10, <1>12 DEF LookedElsewhere
<1>14. \A n \in DOMAIN stack' : n = L + 1 \/ n = L \/ n \in 1..(L - 1)
  BY <1>3, <1>8
<1> HIDE DEF L, f, c
<1>15. PathDown'
  <2>1. ASSUME NEW m \in DOMAIN stack', NEW n \in DOMAIN stack',
               stack'[m].t = stack'[n].t
        PROVE  m = n
    <3>1. \A l \in DOMAIN stack' : l = L + 1 \/ l \in DOMAIN stack
      BY <1>3, <1>8
    <3>2. \A l \in DOMAIN stack : stack'[l].t = stack[l].t /\ stack'[l].t # c
      BY <1>3, <1>8, <1>9
    <3>3. QED BY <1>5, <1>8, <2>1, <3>1, <3>2 DEF PathDown
  <2>2. i' > 0 /\ stack'[1].t = RootOf(i - 1)
    <3>1. 1 \in 1..L
      BY <1>3
    <3>2. QED BY <1>1, <1>3, <1>5, <1>8, <3>1 DEF PathDown
  <2>3. ASSUME NEW n \in DOMAIN stack'
        PROVE  /\ stack'[n].i <= Len(Kids(stack'[n].t))
               /\ n < Len(stack') =>
                    /\ stack'[n].i > 0
                    /\ stack'[n + 1].t = Kids(stack'[n].t)[stack'[n].i]
    <3>1. CASE n = L + 1
      <4>1. 0 <= Len(Kids(c)) /\ ~(n < Len(stack'))
        BY <1>2, <1>3, <1>8, <3>1
      <4>2. QED BY <1>8, <3>1, <4>1
    <3>2. CASE n = L
      <4>1. f.i + 1 > 0 /\ f.i + 1 <= Len(Kids(f.t))
        BY <1>2, <1>3, <1>6
      <4>2. QED BY <1>8, <3>2, <4>1 DEF c
    <3>3. CASE n \in 1..(L - 1)
      <4>1. n \in DOMAIN stack /\ n < Len(stack) /\ n + 1 \in 1..L
        BY <1>3, <3>3 DEF L
      <4>2. /\ stack[n].i <= Len(Kids(stack[n].t)) /\ stack[n].i > 0
            /\ stack[n + 1].t = Kids(stack[n].t)[stack[n].i]
        BY <1>5, <4>1 DEF PathDown
      <4>3. stack'[n] = stack[n] /\ stack'[n + 1].t = stack[n + 1].t
        BY <1>8, <3>3, <4>1
      <4>4. QED BY <4>2, <4>3
    <3>4. QED BY <1>14, <3>1, <3>2, <3>3
  <2>4. \A x : Kids(x)' = Kids(x)
    BY <1>1 DEF Kids
  <2>5. RootOf(i - 1) = at'[fp'[i' - 1]]
    BY <1>1 DEF RootOf
  <2>6. QED BY <2>1, <2>2, <2>3, <2>5, <1>11 DEF PathDown, Kids, RootOf
<1>16. LookedOnPath'
  <2> SUFFICES ASSUME NEW n \in DOMAIN stack'
               PROVE  /\ looked[stack'[n].t] = 0
                      /\ \A m \in DOMAIN Kids(stack'[n].t) :
                           looked[Kids(stack'[n].t)[m]] =
                             IF m < stack'[n].i
                                  \/ (m = stack'[n].i /\ n = Len(stack'))
                             THEN 1 ELSE 0
    BY <1>1 DEF LookedOnPath, Kids
  <2>1. CASE n = L + 1
    <3>1. \A m \in DOMAIN Kids(c) : ~(m < 0) /\ m # 0
      BY <1>2, <1>3
    <3>2. QED BY <1>8, <1>12, <1>13, <2>1, <3>1
  <2>2. CASE n = L
    <3>1. /\ looked[f.t] = 0
          /\ \A m \in DOMAIN Kids(f.t) :
               looked[Kids(f.t)[m]] = IF m < f.i \/ m = f.i THEN 1 ELSE 0
      BY <1>3, <1>5 DEF LookedOnPath, f, L
    <3>2. \A m \in DOMAIN Kids(f.t) : (m < f.i \/ m = f.i) <=> m < f.i + 1
      BY <1>3, <1>6
    <3>3. n # Len(stack')
      BY <1>3, <1>8, <2>2
    <3>4. QED BY <1>8, <2>2, <3>1, <3>2, <3>3
  <2>3. CASE n \in 1..(L - 1)
    <3>1. n \in DOMAIN stack /\ n # Len(stack) /\ n # Len(stack')
      BY <1>3, <1>8, <2>3 DEF L
    <3>2. QED BY <1>5, <1>8, <2>3, <3>1 DEF LookedOnPath
  <2>4. QED BY <1>14, <2>1, <2>2, <2>3
<1>17. LookedElsewhere'
  <2>1. \A j \in SlotsLeft : ~OnStack(RootOf(j))' => ~OnStack(RootOf(j))
    BY <1>10, <1>11
  <2>2. QED BY <1>1, <1>4, <1>5, <1>10, <1>11, <2>1 DEF LookedElsewhere
<1>18. QED BY <1>15, <1>16, <1>17

\* Where the round has been at all children it looks at the target and leaves.
LEMMA LookRound ==
  ASSUME BInv, SP!IInv, OwnInv, RoundOK, Look PROVE RoundOK'
<1>1. /\ pc = "observe" /\ looked' = [looked EXCEPT ![Here] = @ + 1]
      /\ UNCHANGED <<pc, fp, fpIndex, i, at>>
  BY DEF Look, loopVars
<1>2. /\ ChildrenDone /\ Leave /\ stack # <<>> /\ Here \in live /\ Here \in Addr
      /\ UNCHANGED <<live, frames, unopened>>
      /\ \A x \in Addr : heap'[x].children = heap[x].children
  BY LookShape DEF Look, ChildrenDone, BInv
<1> SUFFICES ASSUME unopened = {}
             PROVE  PathDown' /\ LookedOnPath' /\ LookedElsewhere'
  BY <1>2 DEF RoundOK
<1> DEFINE L == Len(stack)
<1> PICK a \in live : a = Here
  BY <1>2
<1>3. /\ live \subseteq Addr /\ i \in Nat
      /\ L \in Nat /\ L # 0 /\ DOMAIN stack = 1..L /\ L \in DOMAIN stack
      /\ \A n \in DOMAIN stack : stack[n].t \in live /\ stack[n].i \in Nat
      /\ \A x \in live : /\ Len(Kids(x)) \in Nat
                         /\ DOMAIN Kids(x) = 1..Len(Kids(x))
                         /\ ChildrenCount(x) = Len(Kids(x))
                         /\ \A n \in DOMAIN Kids(x) : Kids(x)[n] \in live
      /\ \A j \in SlotsLeft : RootOf(j) \in live /\ j \in Nat
      /\ i > 0 => i - 1 \in SlotsLeft
      /\ ChildrenOK /\ OneParent /\ RootsOK
  BY <1>1, <1>2, RoundShape
<1>4. SlotsLeft' = SlotsLeft
  BY <1>1 DEF SlotsLeft
<1>5. PathDown /\ LookedOnPath /\ LookedElsewhere
  BY <1>1 DEF RoundOK
<1>6. /\ DOMAIN stack' = 1..(L - 1) /\ Len(stack') = L - 1
      /\ \A n \in 1..(L - 1) : stack'[n] = stack[n]
      /\ stack' # <<>> => 1 \in 1..(L - 1)
  <2> DEFINE F == [t : live, i : Nat]
  <2>1. stack \in Seq(F)
    BY <1>1, AwakeShape, RoundShape DEF BInv
  <2> HIDE DEF F
  <2>2. stack' = SubSeq(stack, 1, Len(stack) - 1)
    BY <1>2 DEF Leave
  <2>3. /\ stack' \in Seq(F) /\ Len(stack') = L - 1 /\ DOMAIN stack' = 1..(L - 1)
        /\ \A n \in 1..(L - 1) : stack'[n] = stack[n]
    BY <1>2, <2>1, <2>2, DropLast
  <2>4. stack' # <<>> => Len(stack') # 0
    BY <2>3, EmptySeq
  <2>5. QED BY <1>3, <2>3, <2>4
<1>7. a = stack[L].t /\ stack[L].i = Len(Kids(a))
  <2>1. a = stack[L].t /\ stack[L].i >= ChildrenCount(a)
    BY <1>2 DEF Here, ChildrenDone
  <2>2. stack[L].i <= Len(Kids(a)) /\ stack[L].i \in Nat
    BY <1>3, <1>5, <2>1 DEF PathDown
  <2>3. ChildrenCount(a) = Len(Kids(a)) /\ Len(Kids(a)) \in Nat
    BY <1>2, <1>3
  <2>4. QED BY <2>1, <2>2, <2>3
<1>8. a \in live /\ a \in Addr /\ looked' = [looked EXCEPT ![a] = @ + 1]
  BY <1>1, <1>2
<1>9. looked[a] = 0 /\ \A m \in DOMAIN Kids(a) : looked[Kids(a)[m]] = 1
  <2>1. \A m \in DOMAIN Kids(a) : m < Len(Kids(a)) \/ m = Len(Kids(a))
    BY <1>3, <1>8
  <2>2. QED BY <1>3, <1>5, <1>7, <2>1 DEF LookedOnPath
<1>10. looked'[a] = 1 /\ \A x \in Addr \ {a} : looked'[x] = looked[x]
  <2>1. looked \in [Addr -> Nat]
    BY DEF BInv, AtOK
  <2>2. QED BY <1>8, <1>9, <2>1
<1> HIDE DEF L
<1>11. \A n \in DOMAIN stack : n = L \/ (n \in 1..(L - 1) /\ n # L /\ stack[n].t # a)
  <2>1. \A n \in 1..L : n = L \/ (n \in 1..(L - 1) /\ n # L)
    BY <1>3
  <2>2. QED BY <1>3, <1>5, <1>7, <2>1 DEF PathDown
<1>12. \A n \in 1..(L - 1) :
         n \in DOMAIN stack /\ n < Len(stack) /\ n # L /\ n # Len(stack)
  <2>1. L \in Nat /\ DOMAIN stack = 1..L
    BY <1>3
  <2>2. \A n \in 1..(L - 1) : n \in DOMAIN stack /\ n < L /\ n # L
    BY <2>1
  <2>3. QED BY <2>2 DEF L
<1>13. \A x : OnStack(x) <=> OnStack(x)' \/ x = a
  BY <1>3, <1>6, <1>7, <1>11, <1>12 DEF OnStack
<1>14. ~OnStack(a)'
  BY <1>3, <1>6, <1>7, <1>11, <1>12 DEF OnStack
<1>15. \A x \in live : Kids(x)' = Kids(x)
  BY <1>2, <1>3 DEF Kids
<1>16. \A x \in Addr : looked'[x] \in {0, 1}
  BY <1>5, <1>10 DEF LookedElsewhere
<1>17. /\ \A j : RootOf(j)' = RootOf(j)
       /\ \A x \in live : heap'[x].children = Kids(x)
  BY <1>1, <1>2, <1>3 DEF RootOf, Kids
\* The target the round leaves is the child the caller is at, or a slot's.
<1>18. CASE L = 1
  <2>1. a = RootOf(i - 1) /\ i - 1 \in SlotsLeft /\ i > 0
    BY <1>2, <1>3, <1>5, <1>7, <1>18 DEF PathDown
  <2>2. DOMAIN stack' = {} /\ stack' = <<>>
    <3>1. \A n \in 1..(L - 1) : FALSE
      BY <1>18
    <3>2. QED BY <1>6, <3>1
  <2>3. PathDown' /\ LookedOnPath'
    BY <2>2 DEF PathDown, LookedOnPath
  <2>4. \A x \in live : \A n \in DOMAIN Kids(x) : Kids(x)[n] # a
    BY <1>3, <2>1 DEF ChildrenOK, Kids
  <2>5. ASSUME NEW x \in live, ~OnStack(x)', NEW n \in DOMAIN Kids(x)
        PROVE  looked'[Kids(x)[n]] = looked'[x]
    <3>1. Kids(x)[n] \in Addr \ {a} /\ x \in Addr
      BY <1>3, <2>4
    <3>2. CASE x = a
      BY <1>9, <1>10, <3>1, <3>2
    <3>3. CASE x # a
      BY <1>5, <1>10, <1>13, <2>5, <3>1, <3>3 DEF LookedElsewhere
    <3>4. QED BY <3>2, <3>3
  <2>6. ASSUME NEW j \in SlotsLeft, ~OnStack(RootOf(j))'
        PROVE  looked'[RootOf(j)] = IF j < i THEN 1 ELSE 0
    <3>1. CASE RootOf(j) = a
      <4>1. j = i - 1 /\ j < i
        BY <1>3, <2>1, <3>1 DEF RootsOK
      <4>2. QED BY <1>10, <3>1, <4>1
    <3>2. CASE RootOf(j) # a
      <4>1. RootOf(j) \in Addr \ {a}
        BY <1>3, <3>2
      <4>2. RootOf(j)' = RootOf(j)
        BY <1>1 DEF RootOf
      <4>3. ~OnStack(RootOf(j))
        <5>1. OnStack(RootOf(j)) => \E n \in DOMAIN stack' : stack'[n].t = RootOf(j)
          BY <1>13, <3>2 DEF OnStack
        <5>2. QED BY <2>6, <4>2, <5>1 DEF OnStack
      <4>4. looked'[RootOf(j)] = looked[RootOf(j)]
        BY <1>10, <4>1
      <4>5. QED BY <1>5, <4>3, <4>4 DEF LookedElsewhere
    <3>3. QED BY <3>1, <3>2
  <2>7. LookedElsewhere'
    BY <1>1, <1>2, <1>4, <2>5, <2>6, <1>15, <1>16, <1>17 DEF LookedElsewhere
  <2>8. QED BY <2>3, <2>7
<1>19. CASE L # 1
  <2> DEFINE M == L - 1
  <2>1. /\ M \in 1..(L - 1) /\ M \in DOMAIN stack /\ M < Len(stack) /\ M + 1 = L
        /\ M = Len(stack') /\ stack # <<>> /\ M \in DOMAIN stack' /\ M \in Nat
        /\ DOMAIN stack' = 1..(L - 1)
    <3>1. M \in 1..(L - 1) /\ M + 1 = L /\ M \in Nat
      BY <1>3, <1>19
    <3>2. QED BY <1>2, <1>6, <1>12, <3>1
  <2> HIDE DEF M
  <2> DEFINE p == stack[M].t
             k == stack[M].i
  <2>2. /\ p \in live /\ k \in DOMAIN Kids(p) /\ a = Kids(p)[k]
    <3>1. p \in live /\ k \in Nat /\ Len(Kids(p)) \in Nat
          /\ DOMAIN Kids(p) = 1..Len(Kids(p))
      BY <1>3, <2>1
    <3>2. k > 0 /\ k <= Len(Kids(p)) /\ a = Kids(p)[k]
      BY <1>5, <1>7, <2>1 DEF PathDown
    <3>3. QED BY <3>1, <3>2
  <2>3. \A x \in live : \A n \in DOMAIN Kids(x) : Kids(x)[n] = a => x = p /\ n = k
    BY <1>3, <2>2 DEF OneParent, Kids
  <2>4. \A j \in SlotsLeft : RootOf(j) # a
    BY <1>3, <2>2 DEF ChildrenOK, Kids
  <2> HIDE DEF p, k
  <2>6. PathDown'
    <3>1. \A m, n \in DOMAIN stack' : stack'[m].t = stack'[n].t => m = n
      BY <1>5, <1>6, <1>12, <2>1 DEF PathDown
    <3>2. i > 0 /\ stack'[1].t = at'[fp'[i' - 1]]
      <4>1. stack'[1] = stack[1]
        BY <1>6, <2>1
      <4>2. at'[fp'[i' - 1]] = RootOf(i - 1)
        BY <1>1 DEF RootOf
      <4>3. QED BY <1>5, <2>1, <4>1, <4>2 DEF PathDown
    <3>3. ASSUME NEW n \in DOMAIN stack'
          PROVE  /\ stack'[n].i <= Len(Kids(stack'[n].t))
                 /\ n < Len(stack') =>
                      /\ stack'[n].i > 0
                      /\ stack'[n + 1].t = Kids(stack'[n].t)[stack'[n].i]
      <4>1. n \in DOMAIN stack /\ n < Len(stack) /\ stack'[n] = stack[n]
        BY <1>6, <1>12, <2>1
      <4>2. n < Len(stack') => stack'[n + 1] = stack[n + 1]
        <5>1. n < M => n + 1 \in 1..(L - 1)
          BY <2>1, <1>3
        <5>2. QED BY <1>6, <2>1, <5>1
      <4>3. QED BY <1>5, <4>1, <4>2 DEF PathDown
    <3>4. \A n \in DOMAIN stack' : heap'[stack'[n].t].children = Kids(stack'[n].t)
      BY <1>3, <1>6, <1>12, <1>17, <2>1
    <3>5. QED BY <1>1, <3>1, <3>2, <3>3, <3>4 DEF PathDown, RootOf, Kids
  <2>7. LookedOnPath'
    <3> SUFFICES ASSUME NEW n \in DOMAIN stack'
                 PROVE  /\ looked'[stack[n].t] = 0
                        /\ \A m \in DOMAIN Kids(stack[n].t) :
                             looked'[Kids(stack[n].t)[m]] =
                               IF m < stack[n].i
                                    \/ (m = stack[n].i /\ n = M)
                               THEN 1 ELSE 0
      <4>1. \A n \in DOMAIN stack' : /\ stack'[n] = stack[n]
                                    /\ heap'[stack[n].t].children = Kids(stack[n].t)
        BY <1>3, <1>6, <1>12, <1>17, <2>1
      <4>2. ASSUME NEW n \in DOMAIN stack',
                   /\ looked'[stack[n].t] = 0
                   /\ \A m \in DOMAIN Kids(stack[n].t) :
                        looked'[Kids(stack[n].t)[m]] =
                          IF m < stack[n].i \/ (m = stack[n].i /\ n = M)
                          THEN 1 ELSE 0
            PROVE  /\ looked'[stack'[n].t] = 0
                   /\ \A m \in DOMAIN heap'[stack'[n].t].children :
                        looked'[heap'[stack'[n].t].children[m]] =
                          IF m < stack'[n].i
                               \/ (m = stack'[n].i /\ n = Len(stack'))
                          THEN 1 ELSE 0
        BY <2>1, <4>1, <4>2
      <4>3. QED BY <4>2 DEF LookedOnPath, Kids
    <3>1. /\ n \in DOMAIN stack /\ n # Len(stack) /\ n # L
          /\ stack[n].t \in live /\ stack[n].t # a
      BY <1>3, <1>11, <1>12, <2>1
    <3>2. looked'[stack[n].t] = 0
      BY <1>3, <1>5, <1>10, <3>1 DEF LookedOnPath
    <3>3. ASSUME NEW m \in DOMAIN Kids(stack[n].t)
          PROVE  looked'[Kids(stack[n].t)[m]] =
                   IF m < stack[n].i \/ (m = stack[n].i /\ n = M)
                   THEN 1 ELSE 0
      <4>1. Kids(stack[n].t)[m] \in Addr
        BY <1>3, <3>1
      <4>2. CASE Kids(stack[n].t)[m] = a
        <5>1. stack[n].t = p /\ m = k
          BY <2>3, <3>1, <4>2
        <5>2. n = M
          BY <1>5, <2>1, <3>1, <5>1 DEF PathDown, p
        <5>3. QED BY <1>10, <4>2, <5>1, <5>2 DEF k
      <4>3. CASE Kids(stack[n].t)[m] # a
        <5>1. looked'[Kids(stack[n].t)[m]] = looked[Kids(stack[n].t)[m]]
          BY <1>10, <4>1, <4>3
        <5>2. looked[Kids(stack[n].t)[m]] = IF m < stack[n].i THEN 1 ELSE 0
          BY <1>5, <3>1 DEF LookedOnPath
        <5>3. ~(m = stack[n].i /\ n = M)
          BY <2>2, <4>3 DEF p, k
        <5>4. QED BY <5>1, <5>2, <5>3
      <4>4. QED BY <4>2, <4>3
    <3>4. QED BY <3>2, <3>3
  <2>8. ASSUME NEW x \in live, ~OnStack(x)', NEW n \in DOMAIN Kids(x)
        PROVE  looked'[Kids(x)[n]] = looked'[x]
    <3>1. Kids(x)[n] \in Addr \ {a} /\ x \in Addr
      <4>1. x = p => OnStack(x)'
        <5>1. \E l \in DOMAIN stack' : stack'[l].t = p
          BY <1>6, <2>1 DEF p
        <5>2. QED BY <5>1 DEF OnStack
      <4>2. QED BY <1>3, <2>3, <2>8, <4>1
    <3>2. CASE x = a
      BY <1>9, <1>10, <3>1, <3>2
    <3>3. CASE x # a
      BY <1>5, <1>10, <1>13, <2>8, <3>1, <3>3 DEF LookedElsewhere
    <3>4. QED BY <3>2, <3>3
  <2>9. ASSUME NEW j \in SlotsLeft, ~OnStack(RootOf(j))'
        PROVE  looked'[RootOf(j)] = IF j < i THEN 1 ELSE 0
    <3>1. RootOf(j) \in Addr \ {a}
      BY <1>3, <2>4
    <3>2. RootOf(j)' = RootOf(j)
      BY <1>17
    <3>3. ~OnStack(RootOf(j))
      <4>1. OnStack(RootOf(j)) => \E n \in DOMAIN stack' : stack'[n].t = RootOf(j)
        BY <1>13, <3>1 DEF OnStack
      <4>2. QED BY <2>9, <3>2, <4>1 DEF OnStack
    <3>4. looked'[RootOf(j)] = looked[RootOf(j)]
      BY <1>10, <3>1
    <3>5. QED BY <1>5, <3>3, <3>4 DEF LookedElsewhere
  <2>10. LookedElsewhere'
    BY <1>1, <1>2, <1>4, <2>8, <2>9, <1>15, <1>16, <1>17 DEF LookedElsewhere
  <2>11. QED BY <2>6, <2>7, <2>10
<1>20. QED BY <1>18, <1>19

LEMMA RoundKept ==
  ASSUME BInv, SP!IInv, OwnInv, RoundOK, [BackdNext]_backdVars
  PROVE  RoundOK'
<1>1. CASE RoundBegins \/ ObserveTarget \/ Visit \/ Look
  BY <1>1, RoundBeginsRound, ObserveTargetRound, VisitRound, LookRound
<1>2. CASE Signal \/ Others \/ UNCHANGED backdVars
  <2>1. /\ UNCHANGED <<heap, live, unopened, stack, at, looked, fp, fpIndex, i>>
        /\ pc' = "observe" => pc = "observe"
    BY <1>2 DEF Signal, S!Signal, Others, OtherProcesses, targetVars, heapVars,
                walkVars, daemonVars, loopVars, S!loopVars, vars, backdVars
  <2>2. SUFFICES ASSUME unopened = {}, pc' = "observe"
                 PROVE  PathDown' /\ LookedOnPath' /\ LookedElsewhere'
    BY <2>1 DEF RoundOK
  <2>3. PathDown /\ LookedOnPath /\ LookedElsewhere
    BY <2>1, <2>2 DEF RoundOK
  <2>4. SlotsLeft' = SlotsLeft
    BY <2>1, <2>2 DEF SlotsLeft
  <2>5. QED
    BY <2>1, <2>3, <2>4 DEF PathDown, LookedOnPath, LookedElsewhere, Kids,
                            OnStack, RootOf
<1>3. CASE ~(RoundBegins \/ ObserveTarget \/ Visit \/ Look \/ Signal \/ Others
              \/ UNCHANGED backdVars)
  <2>1. pc' # "observe"
    BY <1>3 DEF BackdNext, Daemon, PopFile, S!PopFile, CreateStep, Created,
       S!Created, Skipped, S!Skipped, LoopStep, S!NoMoreFiles,
       S!HandleSigint, S!HandleSigterm, S!Handle, S!SpinBegins, S!SpinGoesOn,
       S!SpinFlag, S!SpinWakes, S!loopVars, daemonVars, loopVars,
       RoundEnds, S!RoundEnds, DeinitTarget, S!DeinitTarget, Exit, S!Exit,
       Tick, S!Tick, S!Spinning
  <2>2. QED BY <2>1 DEF RoundOK
<1>4. QED BY <1>1, <1>2, <1>3

LEMMA RoundInvariance == BackdSpec => []RoundOK
<1>1. BackdInit => RoundOK
  BY DEF BackdInit, S!Init, RoundOK
<1>2. BInv /\ SP!IInv /\ OwnInv /\ SoundOK /\ RoundOK /\ [BackdNext]_backdVars
        => RoundOK'
  BY RoundKept
<1>3. QED
  BY <1>1, <1>2, BackdInvariance, ServiceInvariant, OwnersInvariance, PTL
     DEF BackdSpec

\* A round of service (loop.c:124) is at each target of each file once, at a
\* directory's after all that is below it, before the next wait begins.
THEOREM RoundLooksOnceHolds == BackdSpec => []RoundLooksOnce
<1>1. BInv /\ SP!IInv /\ OwnInv /\ RoundOK => RoundLooksOnce
  <2> SUFFICES ASSUME BInv, SP!IInv, OwnInv, RoundOK, pc = "observe", unopened = {}
               PROVE  /\ \A a \in live : looked[a] <= 1
                      /\ \A a \in live : looked[a] = 1 =>
                           \A n \in DOMAIN Kids(a) : looked[Kids(a)[n]] = 1
                      /\ i = fpIndex /\ stack = <<>> =>
                           \A a \in live : looked[a] = 1
    BY DEF RoundLooksOnce, Kids
  <2>1. LookedOnPath /\ LookedElsewhere
    BY DEF RoundOK
  <2>2. live \subseteq Addr /\ frames = <<>> /\ DOMAIN stack = 1..Len(stack)
        /\ (stack = <<>> => Len(stack) = 0) /\ i \in Nat
        /\ \A j \in SlotsLeft : j < fpIndex
    BY RoundShape DEF Awake
  <2>3. \A a \in live : looked[a] \in {0, 1}
    BY <2>1, <2>2 DEF LookedElsewhere
  <2>4. ASSUME NEW a \in live, looked[a] = 1, NEW n \in DOMAIN Kids(a)
        PROVE  looked[Kids(a)[n]] = 1
    <3>1. ~OnStack(a)
      BY <2>1, <2>4 DEF LookedOnPath, OnStack
    <3>2. QED BY <2>1, <2>4, <3>1 DEF LookedElsewhere
  <2>5. ASSUME i = fpIndex, stack = <<>>, \E a \in live : looked[a] # 1
        PROVE  FALSE
    <3>1. PICK m \in Nat : \E r \in [Addr -> 0..m] : Ranked(r)
      BY DEF OwnInv, RankOK
    <3>2. PICK r \in [Addr -> 0..m] : Ranked(r)
      BY <3>1
    <3> DEFINE Left == {a \in live : looked[a] # 1}
               Ranks == {r[a] : a \in Left}
    <3>3. \A a \in live : r[a] \in Nat
      BY <2>2
    <3>4. PICK a \in Left : \A b \in Left : r[a] <= r[b]
      <4>1. Ranks \subseteq Nat /\ Ranks # {}
        BY <2>5, <3>3
      <4> HIDE DEF Ranks
      <4>2. PICK l \in Ranks : \A n \in Ranks : l <= n
        BY <4>1, Least
      <4> HIDE DEF Left
      <4>3. QED BY <4>2 DEF Ranks
    <3>5. ASSUME NEW d \in live, NEW n \in DOMAIN Kids(d), Kids(d)[n] = a
          PROVE  FALSE
      <4>1. r[d] < r[a]
        BY <3>2, <3>5 DEF Ranked, Kids
      <4>2. d \in Left => r[a] <= r[d]
        BY <3>4
      <4>3. d \notin Left
        BY <3>3, <4>1, <4>2
      <4>4. looked[a] = 1
        BY <2>4, <3>5, <4>3
      <4>5. QED BY <3>4, <4>4
    <3>6. ASSUME NEW j \in SlotsLeft, RootOf(j) = a
          PROVE  FALSE
      <4>1. ~OnStack(a) /\ j < i
        BY <2>2, <2>5 DEF OnStack
      <4>2. looked[a] = 1
        BY <2>1, <3>6, <4>1 DEF LookedElsewhere
      <4>3. QED BY <3>4, <4>2
    <3>7. \/ \E d \in live : \E n \in DOMAIN Kids(d) : Kids(d)[n] = a
          \/ \E j \in SlotsLeft : RootOf(j) = a
      BY <2>2, <3>4 DEF OwnInv, OwnedOK, Pending, Kids
    <3>8. QED BY <3>5, <3>6, <3>7
  <2>6. QED BY <2>3, <2>4, <2>5
<1>2. QED
  BY <1>1, BackdInvariance, ServiceInvariant, OwnersInvariance, RoundInvariance,
     PTL
=============================================================================
