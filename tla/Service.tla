------------------------------ MODULE Service -------------------------------
(***************************************************************************)
(* service (loop.c): the single thread of the daemon takes a snapshot of   *)
(* each file named on the command line, installs the signal handlers, and  *)
(* alternates a wait of one second, spin, with a round that observes the   *)
(* snapshots, until spin sees that a signal came.                          *)
(*                                                                         *)
(* fs_target_create and fs_target_observe are single steps here; FsTarget  *)
(* and Routine model their insides.  spin reads the wall clock, which      *)
(* counts milliseconds in an unsigned integer and which others may set.    *)
(***************************************************************************)
EXTENDS Naturals, Sequences, FiniteSets

CONSTANTS
  Files,      \* what filename_stack_pop returns, in order
  Slots,      \* the length of the arrays fp and paths: 64
  SpinMs,     \* what spin is told to wait: 1000
  TimeMod,    \* the clock counts modulo this: 2^64
  MaxElapsed, \* bound: the time that may pass during one spin
  MaxLag,     \* bound: the part of it that passes outside of usleep
  MaxSteps    \* bound: how many times the clock is set

NoFile   == "(null)"
NoTarget == 0

\* main pushes at most FILE_STACK_SIZE - 1 = 15 files.
ASSUME FilesAssumption ==
  /\ Files \in Seq(STRING)
  /\ \A n \in DOMAIN Files : Files[n] # NoFile
  /\ Slots \in Nat /\ Len(Files) < Slots

ASSUME TimeAssumption ==
  /\ SpinMs \in Nat \ {0} /\ TimeMod \in Nat \ {0}
  /\ MaxElapsed \in Nat /\ MaxLag \in Nat /\ MaxSteps \in Nat
  /\ SpinMs * (MaxSteps + 1) <= MaxElapsed
  /\ MaxElapsed + SpinMs * MaxSteps < TimeMod

VARIABLES
  pc,        \* where the thread is
  popped,    \* how many files were popped
  paths, fp, \* paths[j]: a file; fp[j]: its target, the number of the pop
  fpIndex,   \* fp_index
  i,         \* the index of the loop the thread is in
  handled,   \* the signals that have a handler
  terminate, \* set by the handler
  clock,     \* what gettimeofday returns, in milliseconds
  start,     \* its value when spin began
  freed,     \* the targets given to fs_target_delete, in order
  failed     \* the assertions that failed, by their place

\* History of the spin under way and of the rounds.
VARIABLES
  elapsed, lag, \* the time that has passed in it, and outside of usleep
  steps,        \* how many times the clock was set
  stepped,      \* whether it was set during this spin
  late          \* the rounds begun with terminate set

loopVars  == <<popped, paths, fp, fpIndex, i, freed, failed>>
timeVars  == <<clock, start, elapsed, lag, steps, stepped>>
vars      == <<pc, loopVars, handled, terminate, timeVars, late>>

Signals == {"SIGINT", "SIGTERM"}
Indices == 0..(Slots - 1)
Targets == 1..Len(Files)
Time    == 0..(TimeMod - 1)

-----------------------------------------------------------------------------
(* service_init.                                                           *)

PopFile ==
  /\ pc = "pop"
  /\ popped < Len(Files)
  /\ paths'  = [paths EXCEPT ![fpIndex] = Files[popped + 1]]
  /\ popped' = popped + 1
  /\ pc' = "create"
  /\ UNCHANGED <<fp, fpIndex, i, freed, failed, handled, terminate, timeVars,
                 late>>

NoMoreFiles ==
  /\ pc = "pop"
  /\ popped = Len(Files)
  /\ paths' = [paths EXCEPT ![fpIndex] = NoFile]
  /\ i' = 0
  /\ pc' = IF fpIndex = 0 THEN "deinit" ELSE "sigint"
  /\ UNCHANGED <<popped, fp, fpIndex, freed, failed, handled, terminate,
                 timeVars, late>>

\* fs_target_create returns a target, or NULL and the file is skipped.
Created ==
  /\ pc = "create"
  /\ fp' = [fp EXCEPT ![fpIndex] = popped]
  /\ fpIndex' = fpIndex + 1
  /\ pc' = "pop"
  /\ UNCHANGED <<popped, paths, i, freed, failed, handled, terminate, timeVars,
                 late>>

\* Faulty variant: the slot of a skipped file is not used again.
SkippedKeepsSlot ==
  /\ pc = "create"
  /\ fp' = [fp EXCEPT ![fpIndex] = NoTarget]
  /\ fpIndex' = fpIndex + 1
  /\ pc' = "pop"
  /\ UNCHANGED <<popped, paths, i, freed, failed, handled, terminate, timeVars,
                 late>>

Skipped ==
  /\ pc = "create"
  /\ fp' = [fp EXCEPT ![fpIndex] = NoTarget]
  /\ pc' = "pop"
  /\ UNCHANGED <<popped, paths, fpIndex, i, freed, failed, handled, terminate,
                 timeVars, late>>

-----------------------------------------------------------------------------
(* handle_signals: two calls of sigaction.                                 *)

Handle(sig, here, next) ==
  /\ pc = here
  /\ \/ handled' = handled \cup {sig} /\ pc' = next
     \/ UNCHANGED handled /\ pc' = "deinit"
  /\ UNCHANGED <<loopVars, terminate, timeVars, late>>

HandleSigint  == Handle("SIGINT", "sigint", "sigterm")
HandleSigterm == Handle("SIGTERM", "sigterm", "round")

\* Without a handler a signal ends the process.
Signal ==
  /\ pc \notin {"exited", "killed"}
  /\ \E sig \in Signals :
       \/ sig \in handled /\ terminate' = TRUE /\ UNCHANGED pc
       \/ sig \notin handled /\ pc' = "killed" /\ UNCHANGED terminate
  /\ UNCHANGED <<loopVars, handled, timeVars, late>>

-----------------------------------------------------------------------------
(* spin(1000) and the rounds.                                              *)

Spinning == pc \in {"spin_time", "spin_flag", "sleep"}

\* Faulty variant: the difference is taken in signed arithmetic.
SinceSigned == IF clock >= start THEN clock - start ELSE 0

\* get_timestamp() - start, in unsigned arithmetic.
Since == (clock + TimeMod - start) % TimeMod

\* late counts no further than PromptStop allows, and one.
CountLate == late' = IF terminate /\ late < MaxSteps + 2 THEN late + 1 ELSE late

SpinBegins ==
  /\ pc = "round"
  /\ i' = 0
  /\ start' = clock
  /\ elapsed' = 0 /\ lag' = 0 /\ stepped' = FALSE
  /\ pc' = "spin_time"
  /\ UNCHANGED <<popped, paths, fp, fpIndex, freed, failed, handled, terminate,
                 clock, steps, late>>

\* Faulty variant: the wait is one millisecond short.
SpinEndsEarly ==
  /\ pc = "spin_time"
  /\ Since + 1 >= SpinMs
  /\ CountLate
  /\ pc' = "observe"
  /\ UNCHANGED <<loopVars, handled, terminate, timeVars>>

\* The condition of the loop is false: the flag is not looked at any more.
SpinEnds ==
  /\ pc = "spin_time"
  /\ Since >= SpinMs
  /\ CountLate
  /\ pc' = "observe"
  /\ UNCHANGED <<loopVars, handled, terminate, timeVars>>

SpinGoesOn ==
  /\ pc = "spin_time"
  /\ Since < SpinMs
  /\ pc' = "spin_flag"
  /\ UNCHANGED <<loopVars, handled, terminate, timeVars, late>>

\* Faulty variant: spin_wait (time.c), which does not look at the flag.
SpinFlagIgnored ==
  /\ pc = "spin_flag"
  /\ pc' = "sleep"
  /\ UNCHANGED <<loopVars, handled, terminate, timeVars, late>>

SpinFlag ==
  /\ pc = "spin_flag"
  /\ pc' = IF terminate THEN "deinit" ELSE "sleep"
  /\ UNCHANGED <<loopVars, handled, terminate, timeVars, late>>

\* usleep returns, after a while or because of a signal.
SpinWakes ==
  /\ pc = "sleep"
  /\ pc' = "spin_time"
  /\ UNCHANGED <<loopVars, handled, terminate, timeVars, late>>

\* Faulty variant: one slot too many.
ObserveTargetPast ==
  /\ pc = "observe"
  /\ i <= fpIndex
  /\ i' = i + 1
  /\ UNCHANGED <<pc, popped, paths, fp, fpIndex, freed, failed, handled,
                 terminate, timeVars, late>>

ObserveTarget ==
  /\ pc = "observe"
  /\ i < fpIndex
  /\ i' = i + 1
  /\ UNCHANGED <<pc, popped, paths, fp, fpIndex, freed, failed, handled,
                 terminate, timeVars, late>>

\* Faulty variant: the next round begins without a wait.
RoundEndsAgain ==
  /\ pc = "observe"
  /\ i >= fpIndex
  /\ i' = 0
  /\ UNCHANGED <<pc, popped, paths, fp, fpIndex, freed, failed, handled,
                 terminate, timeVars, late>>

RoundEnds ==
  /\ pc = "observe"
  /\ i >= fpIndex
  /\ pc' = "round"
  /\ UNCHANGED <<loopVars, handled, terminate, timeVars, late>>

-----------------------------------------------------------------------------
(* service_deinit, then exit(EXIT_FAILURE).                                *)

\* fs_target_print(fp[fp_index], ...) begins with an assertion on its target.
Printing == failed' = IF fp[fpIndex] = NoTarget
                      THEN failed \cup {"fs_target.c:259"} ELSE failed

DeinitTarget ==
  /\ pc = "deinit"
  /\ i < fpIndex
  /\ IF fp[i] # NoTarget THEN Printing /\ freed' = Append(freed, fp[i])
                         ELSE UNCHANGED <<failed, freed>>
  /\ i' = i + 1
  /\ UNCHANGED <<pc, popped, paths, fp, fpIndex, handled, terminate, timeVars,
                 late>>

\* Faulty variant: the last target is forgotten.
ExitEarly ==
  /\ pc = "deinit"
  /\ i + 1 >= fpIndex
  /\ pc' = "exited"
  /\ UNCHANGED <<loopVars, handled, terminate, timeVars, late>>

Exit ==
  /\ pc = "deinit"
  /\ i >= fpIndex
  /\ pc' = "exited"
  /\ UNCHANGED <<loopVars, handled, terminate, timeVars, late>>

-----------------------------------------------------------------------------
(* The clock.                                                              *)

Tick ==
  /\ pc \notin {"exited", "killed"}
  /\ clock' = (clock + 1) % TimeMod
  /\ IF Spinning
     THEN /\ elapsed < MaxElapsed
          /\ pc # "sleep" => lag < MaxLag
          /\ elapsed' = elapsed + 1
          /\ lag' = IF pc = "sleep" THEN lag ELSE lag + 1
     ELSE UNCHANGED <<elapsed, lag>>
  /\ UNCHANGED <<pc, loopVars, handled, terminate, start, steps, stepped, late>>

\* An administrator or a time service sets the clock, forward or backward by
\* at most SpinMs.
SetClock ==
  /\ pc \notin {"exited", "killed"}
  /\ steps < MaxSteps
  /\ steps' = steps + 1
  /\ stepped' = (stepped \/ Spinning)
  /\ \E ms \in 1..SpinMs : \/ clock' = (clock + ms) % TimeMod
                           \/ clock' = (clock + TimeMod - ms) % TimeMod
  /\ UNCHANGED <<pc, loopVars, handled, terminate, start, elapsed, lag, late>>

-----------------------------------------------------------------------------

Init ==
  /\ pc = "pop" /\ popped = 0 /\ fpIndex = 0 /\ i = 0
  /\ paths = [j \in Indices |-> NoFile]
  /\ fp = [j \in Indices |-> NoTarget]
  /\ handled = {} /\ terminate = FALSE
  /\ clock \in Time /\ start = 0
  /\ freed = <<>> /\ failed = {}
  /\ elapsed = 0 /\ lag = 0 /\ steps = 0 /\ stepped = FALSE /\ late = 0

Thread ==
  \/ PopFile \/ NoMoreFiles \/ Created \/ Skipped
  \/ HandleSigint \/ HandleSigterm
  \/ SpinBegins \/ SpinEnds \/ SpinGoesOn \/ SpinFlag \/ SpinWakes
  \/ ObserveTarget \/ RoundEnds
  \/ DeinitTarget \/ Exit

Next == Thread \/ Signal \/ Tick \/ SetClock

Spec == Init /\ [][Next]_vars

\* The thread is scheduled, and time does not stand still: every usleep takes
\* half a millisecond at least.
FairSpec == Spec /\ WF_vars(Thread) /\ SF_vars(Tick)

-----------------------------------------------------------------------------
(* Properties.                                                             *)

\* Every variable has its type; the indices stay within the arrays.
ServiceTypeOK ==
  /\ pc \in {"pop", "create", "sigint", "sigterm", "round", "spin_time",
             "spin_flag", "sleep", "observe", "deinit", "exited", "killed"}
  /\ popped \in 0..Len(Files)
  /\ paths \in [Indices -> {Files[n] : n \in Targets} \cup {NoFile}]
  /\ fp \in [Indices -> Targets \cup {NoTarget}]
  /\ fpIndex \in Indices /\ i \in Indices
  /\ handled \subseteq Signals /\ terminate \in BOOLEAN
  /\ clock \in Time /\ start \in Time
  /\ freed \in Seq(Targets) /\ failed \subseteq {"fs_target.c:259"}
  /\ elapsed \in 0..MaxElapsed /\ lag \in 0..MaxLag
  /\ steps \in 0..MaxSteps /\ stepped \in BOOLEAN /\ late \in 0..(MaxSteps + 2)

\* fp and paths stay in step although a skipped file's slot is used again:
\* below fp_index each slot has a target and the name it was made from, in the
\* order of the command line; at fp_index and above there is no target.
SlotsAgree ==
  /\ \A j \in Indices : j < fpIndex =>
       /\ fp[j] \in 1..popped
       /\ paths[j] = Files[fp[j]]
       /\ j > 0 => fp[j - 1] < fp[j]
  /\ \A j \in Indices : j >= fpIndex => fp[j] = NoTarget
  /\ pc = "create" => paths[fpIndex] = Files[popped]
                        /\ (fpIndex > 0 => fp[fpIndex - 1] < popped)

\* The loop over fp frees the targets in order and each of them once, and none
\* is left when the program exits.
FreedOnce ==
  /\ Len(freed) <= fpIndex
  /\ \A n \in DOMAIN freed : freed[n] = fp[n - 1]
  /\ pc \notin {"deinit", "exited", "killed"} => freed = <<>>
  /\ pc = "deinit" => Len(freed) = i
  /\ pc = "exited" => Len(freed) = fpIndex

\* A round begins at the earliest SpinMs after the wait began, whatever the
\* clock shows, its wrap-around included, unless it is set meanwhile.
RoundSpacing == [][SpinEnds => elapsed >= SpinMs \/ stepped]_vars

\* Once a signal was handled, at most one more round begins, and one for each
\* time the clock is set: spin looks at the flag first thing, provided less
\* than SpinMs pass outside of usleep.
PromptStop == MaxLag < SpinMs => late <= 1 + steps

\* A handled signal ends the program.
SignalStops == terminate ~> pc \in {"exited", "killed"}

\* The rounds go on as long as no signal comes, whatever is done to the clock.
RoundsGoOn == []<>(pc \in {"observe", "exited", "killed"})

\* The assertions of the source hold; here __return_if_fail__(target) of
\* fs_target_print (fs_target.c:259).
AssertionsHold == failed = {}
=============================================================================
