------------------------------- MODULE Backd --------------------------------
(***************************************************************************)
(* The daemon as a whole: the service loop of Service (loop.c) with, in    *)
(* the place of its single steps, the snapshots of FsTarget and the rounds *)
(* of Routine over all the files of the command line, and the release of   *)
(* the snapshots by fs_target_delete at the end.                           *)
(*                                                                         *)
(* In Service a target is the number of the pop that led to it; at maps    *)
(* that number to the address that fs_target_create returned.  All files   *)
(* share one heap, one path buffer and one file system.  Root stands only  *)
(* in the lines that a full array of one event prints.                     *)
(***************************************************************************)
EXTENDS Routine

CONSTANTS Files, Slots, SpinMs, TimeMod, MaxElapsed, MaxLag, MaxSteps

VARIABLES
  pc, popped, paths, fp, fpIndex, i, handled, terminate, clock, start, freed,
  failed, elapsed, lag, steps, stepped, late   \* see Service

VARIABLES
  at,       \* at[n]: what fs_target_create returned for the nth file
  looked    \* history: how often the round has been at each target

S == INSTANCE Service
Q == INSTANCE SequencesExt

loopVars   == <<pc, popped, paths, fp, fpIndex, i, handled, terminate, clock,
                start, freed, failed, elapsed, lag, steps, stepped, late>>
daemonVars == <<loopVars, at, looked>>
backdVars  == <<vars, daemonVars>>

\* Each file is named by one name, in the working directory.
FileOf(n) == <<Files[n]>>

ASSUME BackdAssumption ==
  /\ \A n \in DOMAIN Files : FileOf(n) \in Paths
  /\ S!FilesAssumption /\ S!TimeAssumption

Ended == pc \in {"exited", "killed"} \/ crashed

-----------------------------------------------------------------------------
(* service_init: the snapshot of each file.                                *)

PopFile ==
  /\ S!PopFile
  /\ frames' = <<NewFrame(FileOf(popped + 1))>>
  /\ UNCHANGED <<heapVars, unopened, result, walkVars, fsVars, at, looked>>

CreateStep ==
  /\ pc = "create"
  /\ Create
  /\ UNCHANGED <<walkVars, daemonVars>>

Created ==
  /\ frames = <<>> /\ result # NULL
  /\ S!Created
  /\ at' = [at EXCEPT ![popped] = result]
  /\ UNCHANGED <<vars, looked>>

Skipped ==
  /\ frames = <<>> /\ result = NULL
  /\ S!Skipped
  /\ UNCHANGED <<vars, at, looked>>

\* The steps in which the loop does not touch a target.
LoopStep ==
  /\ ~Ended
  /\ \/ S!NoMoreFiles \/ S!HandleSigint \/ S!HandleSigterm
     \/ S!SpinBegins \/ S!SpinGoesOn \/ S!SpinFlag \/ S!SpinWakes
  /\ UNCHANGED <<vars, at, looked>>

-----------------------------------------------------------------------------
(* A round: fs_target_observe on each slot, one after the other.           *)

RoundBegins ==
  /\ S!SpinEnds
  /\ looked' = [a \in Addr |-> 0]
  /\ UNCHANGED <<vars, at>>

ObserveTarget ==
  /\ Awake
  /\ stack = <<>>
  /\ S!ObserveTarget
  /\ Observe(at[fp[i]], <<>>)
  /\ UNCHANGED <<fsVars, targetVars, at, looked>>

Visit ==
  /\ pc = "observe"
  /\ ObserveChild
  /\ UNCHANGED daemonVars

Look ==
  /\ pc = "observe"
  /\ Track \/ LeaveUnknown
  /\ looked' = [looked EXCEPT ![Here] = @ + 1]
  /\ UNCHANGED <<loopVars, at>>

RoundEnds ==
  /\ Awake
  /\ stack = <<>>
  /\ S!RoundEnds
  /\ UNCHANGED <<vars, at, looked>>

-----------------------------------------------------------------------------
(* service_deinit: fs_target_dealloc frees the children, then the target.  *)

\* The addresses it gives to free, in order; what a freed target holds is
\* not followed.
FreedBy[depth \in 0..MaxTargets] ==
  [a \in Addr |->
     IF depth = 0 \/ a \notin live THEN <<a>>
     ELSE Q!FlattenSeq([n \in 1..ChildrenCount(a) |->
                          FreedBy[depth - 1][heap[a].children[n]]]) \o <<a>>]

\* Faulty variant: the children stay.
ReleasedAlone(a) == <<a>>
Released(a) == FreedBy[MaxTargets][a]

\* To free what is free already may end the process.
Release(a) ==
  LET order == Released(a)
      sound == /\ Q!ToSet(order) \subseteq live
               /\ Cardinality(Q!ToSet(order)) = Len(order)
  IN  /\ heap' = [b \in Addr |-> IF b \in Q!ToSet(order) THEN ZeroTarget
                                 ELSE heap[b]]
      /\ live' = live \ Q!ToSet(order)
      /\ crashed' \in IF sound THEN {FALSE} ELSE BOOLEAN

DeinitTarget ==
  /\ ~crashed
  /\ S!DeinitTarget
  /\ Release(at[fp[i]])
  /\ UNCHANGED <<brk, frames, unopened, result, stack, cur, out, fsVars, at,
                 looked>>

Exit ==
  /\ ~crashed
  /\ S!Exit
  /\ UNCHANGED <<vars, at, looked>>

-----------------------------------------------------------------------------
(* The surroundings.                                                       *)

Signal == ~crashed /\ S!Signal /\ UNCHANGED <<vars, at, looked>>

\* Only spin looks at the clock, and only at how far it went meanwhile.
Tick == S!Spinning /\ S!Tick /\ UNCHANGED <<vars, at, looked>>

Others == ~Ended /\ OtherProcesses /\ UNCHANGED <<walkVars, daemonVars>>

BackdInit ==
  /\ FsInit
  /\ heap = [a \in Addr |-> ZeroTarget] /\ live = {} /\ brk = 0
  /\ frames = <<>> /\ unopened = {} /\ result = NULL
  /\ stack = <<>> /\ cur = <<>> /\ out = {} /\ crashed = FALSE
  /\ S!Init /\ clock = 0
  /\ at = [n \in DOMAIN Files |-> NULL]
  /\ looked = [a \in Addr |-> 0]

Daemon ==
  \/ PopFile \/ CreateStep \/ Created \/ Skipped \/ LoopStep
  \/ RoundBegins \/ ObserveTarget \/ Visit \/ Look \/ RoundEnds
  \/ DeinitTarget \/ Exit

BackdNext == Daemon \/ Signal \/ Tick \/ Others

BackdSpec == BackdInit /\ [][BackdNext]_backdVars

\* As in Service: the thread is scheduled, and time does not stand still.
Fairness == WF_backdVars(Daemon) /\ SF_backdVars(Tick)

FairBackdSpec == BackdSpec /\ Fairness

-----------------------------------------------------------------------------
(* Properties.                                                             *)

\* The parts keep their types together, and no slot refers to a file for
\* which there is no address.
BackdTypeOK ==
  /\ RoutineTypeOK
  /\ S!ServiceTypeOK
  /\ at \in [DOMAIN Files -> Addr \cup {NULL}]
  /\ looked \in [Addr -> Nat]
  /\ \A j \in S!Indices : fp[j] # S!NoTarget => at[fp[j]] # NULL

\* The slots that service_deinit has not released yet.
SlotsLeft == {j \in S!Indices : j < fpIndex
                /\ (pc \in {"deinit", "exited"} => j >= i)}

Owners(a) ==
  Cardinality(ChildSlots(a))
  + Cardinality({n \in DOMAIN frames : frames[n].self = a})
  + Cardinality({j \in SlotsLeft : at[fp[j]] = a})
  + IF pc = "create" /\ frames = <<>> /\ result = a THEN 1 ELSE 0

\* As long as every directory could be opened, each target has one owner, a
\* directory's target, a slot of fp or a call, from malloc until it is freed,
\* and nothing points to one that is free: also for two files of the command
\* line that are the same, and when a slot of fp is used again.
OneOwner ==
  (unopened = {} /\ pc # "killed") =>
    /\ \A a \in live : Owners(a) = 1
    /\ \A a \in Addr \ live : Owners(a) = 0

\* service_deinit frees all there is, whatever went wrong in the snapshots,
\* unless it dies of a double free, which takes a directory that could not be
\* opened.
AllReleased ==
  /\ pc = "exited" /\ ~crashed => live = {}
  /\ unopened = {} => ~crashed

\* A round is at every target of every file, and once, before it ends; at a
\* directory when it has been at all its entries.
RoundLooksOnce ==
  (pc = "observe" /\ unopened = {}) =>
    /\ \A a \in live : looked[a] <= 1
    /\ \A a \in live : looked[a] = 1 =>
         \A n \in DOMAIN heap[a].children : looked[heap[a].children[n]] = 1
    /\ i = fpIndex /\ stack = <<>> => \A a \in live : looked[a] = 1

\* A handled signal leads through the rest of the round and the release to the
\* end of the program.
SignalReleases ==
  terminate ~> (pc = "exited" /\ live = {}) \/ pc = "killed" \/ crashed
=============================================================================
