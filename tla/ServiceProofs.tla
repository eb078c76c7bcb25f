---------------------------- MODULE ServiceProofs ----------------------------
(***************************************************************************)
(* Theorems about Service, for every list of files, every wait, every      *)
(* modulus of the clock and every number of times it is set.               *)
(***************************************************************************)
EXTENDS Service, SequenceTheorems, TLAPS

-----------------------------------------------------------------------------
(* The inductive invariant.                                                *)

\* The index of the loop under way stays within the slots in use, of which
\* there are no more than files popped; it is 0 outside of the three loops.
IndexOK ==
  /\ fpIndex <= popped
  /\ pc = "create" => fpIndex < popped
  /\ i <= fpIndex
  /\ pc \notin {"round", "observe", "deinit", "exited", "killed"} => i = 0

\* As long as nobody sets the clock, it shows the time that passed since the
\* wait began, up to one wrap-around.
ClockOK ==
  Spinning /\ ~stepped =>
    clock = start + elapsed \/ clock + TimeMod = start + elapsed

\* A round begins late only in a wait that the signal came into, or in one in
\* which the clock was set: a wait that begins with the flag set does not sleep,
\* so what passes of it is lag.
LateOK ==
  /\ late > 0 => terminate
  /\ Spinning /\ late > 0 => pc # "sleep" /\ elapsed = lag
  /\ MaxLag < SpinMs =>
       /\ late <= 1 + steps
       /\ Spinning /\ stepped => late <= steps

IInv == /\ ServiceTypeOK
        /\ IndexOK
        /\ SlotsAgree
        /\ FreedOnce
        /\ ClockOK
        /\ LateOK

-----------------------------------------------------------------------------
(* Constants and arithmetic.                                               *)

LEMMA Constants ==
  /\ Len(Files) \in Nat /\ Slots \in Nat /\ Len(Files) < Slots
  /\ 0 \in Indices
  /\ SpinMs \in Nat \ {0} /\ TimeMod \in Nat \ {0}
  /\ MaxElapsed \in Nat /\ MaxLag \in Nat /\ MaxSteps \in Nat
  /\ SpinMs <= MaxElapsed /\ MaxElapsed < TimeMod
<1>1. \A a, b \in Nat : a * b \in Nat
  OBVIOUS
<1>2. Len(Files) \in Nat
  BY FilesAssumption, LenProperties
<1>3. SpinMs * MaxSteps \in Nat
      /\ SpinMs * (MaxSteps + 1) = SpinMs * MaxSteps + SpinMs
  BY <1>1, TimeAssumption
<1>4. QED BY <1>2, <1>3, FilesAssumption, TimeAssumption DEF Indices

LEMMA ModOnce ==
  ASSUME NEW m \in Nat \ {0}, NEW x \in 0..(m - 1)
  PROVE  x % m = x /\ (x + m) % m = x
OBVIOUS

LEMMA ModRange ==
  ASSUME NEW m \in Nat \ {0}, NEW x \in Nat PROVE x % m \in 0..(m - 1)
OBVIOUS

\* The unsigned difference of spin is the time that passed, also when the clock
\* wrapped around, unless somebody set it.
LEMMA SinceElapsed ==
  ASSUME IInv, Spinning, ~stepped PROVE Since = elapsed
<1>1. /\ clock \in 0..(TimeMod - 1) /\ start \in 0..(TimeMod - 1)
      /\ elapsed \in 0..(TimeMod - 1) /\ TimeMod \in Nat \ {0}
  BY Constants DEF IInv, ServiceTypeOK, Time
<1>2. clock = start + elapsed \/ clock + TimeMod = start + elapsed
  BY DEF IInv, ClockOK
<1>3. CASE clock = start + elapsed
  <2>1. clock + TimeMod - start = elapsed + TimeMod
    BY <1>1, <1>3
  <2>2. QED BY <1>1, <2>1, ModOnce DEF Since
<1>4. CASE clock + TimeMod = start + elapsed
  <2>1. clock + TimeMod - start = elapsed
    BY <1>1, <1>4
  <2>2. QED BY <1>1, <2>1, ModOnce DEF Since
<1>5. QED BY <1>2, <1>3, <1>4

-----------------------------------------------------------------------------
(* service_init and handle_signals.                                        *)

LEMMA PopFileOK ==
  ASSUME IInv, PopFile PROVE IInv'
<1> USE DEF PopFile, loopVars, timeVars
<1>1. ServiceTypeOK'
  BY Constants DEF IInv, ServiceTypeOK, IndexOK, Indices, Targets, NoTarget, NoFile
<1>2. IndexOK'
  BY Constants DEF IInv, ServiceTypeOK, IndexOK, Indices
<1>3. SlotsAgree'
  BY Constants DEF IInv, ServiceTypeOK, IndexOK, SlotsAgree, Indices, Targets,
                   NoTarget
<1>4. FreedOnce'
  BY Constants DEF IInv, ServiceTypeOK, IndexOK, FreedOnce, Indices
<1>5. ClockOK' /\ LateOK'
  BY DEF IInv, ServiceTypeOK, ClockOK, LateOK, Spinning
<1>6. QED BY <1>1, <1>2, <1>3, <1>4, <1>5 DEF IInv

LEMMA NoMoreFilesOK ==
  ASSUME IInv, NoMoreFiles PROVE IInv'
<1> USE DEF NoMoreFiles, loopVars, timeVars
<1>1. ServiceTypeOK'
  <2>1. paths' \in [Indices -> {Files[n] : n \in Targets} \cup {NoFile}]
    BY DEF IInv, ServiceTypeOK
  <2>2. QED BY <2>1, Constants DEF IInv, ServiceTypeOK
<1>2. IndexOK'
  BY Constants DEF IInv, ServiceTypeOK, IndexOK, Indices
<1>3. SlotsAgree'
  BY Constants DEF IInv, ServiceTypeOK, IndexOK, SlotsAgree, Indices, Targets,
                   NoTarget
<1>4. FreedOnce'
  BY Constants DEF IInv, ServiceTypeOK, IndexOK, FreedOnce, Indices
<1>5. ClockOK' /\ LateOK'
  BY DEF IInv, ServiceTypeOK, ClockOK, LateOK, Spinning
<1>6. QED BY <1>1, <1>2, <1>3, <1>4, <1>5 DEF IInv

LEMMA CreatedOK ==
  ASSUME IInv, Created PROVE IInv'
<1> USE DEF Created, loopVars, timeVars
<1>1. ServiceTypeOK'
  BY Constants DEF IInv, ServiceTypeOK, IndexOK, Indices, Targets, NoTarget, NoFile
<1>2. IndexOK'
  BY Constants DEF IInv, ServiceTypeOK, IndexOK, Indices
<1>3. SlotsAgree'
  BY Constants DEF IInv, ServiceTypeOK, IndexOK, SlotsAgree, Indices, Targets,
                   NoTarget
<1>4. FreedOnce'
  BY Constants DEF IInv, ServiceTypeOK, IndexOK, FreedOnce, Indices
<1>5. ClockOK' /\ LateOK'
  BY DEF IInv, ServiceTypeOK, ClockOK, LateOK, Spinning
<1>6. QED BY <1>1, <1>2, <1>3, <1>4, <1>5 DEF IInv

LEMMA SkippedOK ==
  ASSUME IInv, Skipped PROVE IInv'
<1> USE DEF Skipped, loopVars, timeVars
<1>1. ServiceTypeOK'
  BY Constants DEF IInv, ServiceTypeOK, IndexOK, Indices, Targets, NoTarget, NoFile
<1>2. IndexOK'
  BY Constants DEF IInv, ServiceTypeOK, IndexOK, Indices
<1>3. SlotsAgree'
  <2>1. fpIndex \in Indices /\ fpIndex >= fpIndex
    BY DEF IInv, ServiceTypeOK, Indices
  <2>2. fp[fpIndex] = NoTarget
    BY <2>1 DEF IInv, SlotsAgree
  <2>3. fp' = fp
    BY <2>2 DEF IInv, ServiceTypeOK
  <2>4. QED BY <2>3 DEF IInv, SlotsAgree
<1>4. FreedOnce'
  BY Constants DEF IInv, ServiceTypeOK, IndexOK, FreedOnce, Indices
<1>5. ClockOK' /\ LateOK'
  BY DEF IInv, ServiceTypeOK, ClockOK, LateOK, Spinning
<1>6. QED BY <1>1, <1>2, <1>3, <1>4, <1>5 DEF IInv

LEMMA HandleSigintOK ==
  ASSUME IInv, HandleSigint PROVE IInv'
<1> USE DEF HandleSigint, Handle, loopVars, timeVars
<1>1. ServiceTypeOK'
  BY Constants DEF IInv, ServiceTypeOK, IndexOK, Indices, Signals
<1>2. IndexOK' /\ SlotsAgree' /\ FreedOnce'
  BY DEF IInv, ServiceTypeOK, IndexOK, SlotsAgree, FreedOnce
<1>3. ClockOK' /\ LateOK'
  BY DEF IInv, ServiceTypeOK, ClockOK, LateOK, Spinning
<1>4. QED BY <1>1, <1>2, <1>3 DEF IInv

LEMMA HandleSigtermOK ==
  ASSUME IInv, HandleSigterm PROVE IInv'
<1> USE DEF HandleSigterm, Handle, loopVars, timeVars
<1>1. ServiceTypeOK'
  BY Constants DEF IInv, ServiceTypeOK, IndexOK, Indices, Signals
<1>2. IndexOK' /\ SlotsAgree' /\ FreedOnce'
  BY DEF IInv, ServiceTypeOK, IndexOK, SlotsAgree, FreedOnce
<1>3. ClockOK' /\ LateOK'
  BY DEF IInv, ServiceTypeOK, ClockOK, LateOK, Spinning
<1>4. QED BY <1>1, <1>2, <1>3 DEF IInv

LEMMA SignalOK ==
  ASSUME IInv, Signal PROVE IInv'
<1> USE DEF Signal, loopVars, timeVars
<1>1. ServiceTypeOK'
  BY Constants DEF IInv, ServiceTypeOK, IndexOK, Indices, Signals
<1>2. IndexOK' /\ SlotsAgree' /\ FreedOnce'
  BY DEF IInv, ServiceTypeOK, IndexOK, SlotsAgree, FreedOnce
<1>3. ClockOK' /\ LateOK'
  BY DEF IInv, ServiceTypeOK, ClockOK, LateOK, Spinning
<1>4. QED BY <1>1, <1>2, <1>3 DEF IInv

-----------------------------------------------------------------------------
(* The wait and the rounds.                                                *)

LEMMA SpinBeginsOK ==
  ASSUME IInv, SpinBegins PROVE IInv'
<1> USE DEF SpinBegins, loopVars, timeVars
<1>1. ServiceTypeOK'
  <2>1. 0 \in 0..MaxElapsed /\ 0 \in 0..MaxLag
    BY Constants
  <2>2. QED BY <2>1, Constants DEF IInv, ServiceTypeOK
<1>2. IndexOK'
  BY Constants DEF IInv, ServiceTypeOK, IndexOK, Indices
<1>3. SlotsAgree'
  BY Constants DEF IInv, ServiceTypeOK, IndexOK, SlotsAgree, Indices, Targets,
                   NoTarget
<1>4. FreedOnce'
  BY Constants DEF IInv, ServiceTypeOK, IndexOK, FreedOnce, Indices
<1>5. ClockOK' /\ LateOK'
  BY DEF IInv, ServiceTypeOK, ClockOK, LateOK, Spinning, Time
<1>6. QED BY <1>1, <1>2, <1>3, <1>4, <1>5 DEF IInv

LEMMA SpinGoesOnOK ==
  ASSUME IInv, SpinGoesOn PROVE IInv'
<1> USE DEF SpinGoesOn, loopVars, timeVars
<1>1. ServiceTypeOK'
  BY Constants DEF IInv, ServiceTypeOK, IndexOK, Indices
<1>2. IndexOK' /\ SlotsAgree' /\ FreedOnce'
  BY DEF IInv, ServiceTypeOK, IndexOK, SlotsAgree, FreedOnce
<1>3. ClockOK' /\ LateOK'
  BY DEF IInv, ServiceTypeOK, ClockOK, LateOK, Spinning
<1>4. QED BY <1>1, <1>2, <1>3 DEF IInv

LEMMA SpinFlagOK ==
  ASSUME IInv, SpinFlag PROVE IInv'
<1> USE DEF SpinFlag, loopVars, timeVars
<1>1. ServiceTypeOK'
  BY Constants DEF IInv, ServiceTypeOK, IndexOK, Indices
<1>2. IndexOK' /\ SlotsAgree' /\ FreedOnce'
  BY DEF IInv, ServiceTypeOK, IndexOK, SlotsAgree, FreedOnce
<1>3. ClockOK' /\ LateOK'
  BY DEF IInv, ServiceTypeOK, ClockOK, LateOK, Spinning
<1>4. QED BY <1>1, <1>2, <1>3 DEF IInv

LEMMA SpinWakesOK ==
  ASSUME IInv, SpinWakes PROVE IInv'
<1> USE DEF SpinWakes, loopVars, timeVars
<1>1. ServiceTypeOK'
  BY Constants DEF IInv, ServiceTypeOK, IndexOK, Indices
<1>2. IndexOK' /\ SlotsAgree' /\ FreedOnce'
  BY DEF IInv, ServiceTypeOK, IndexOK, SlotsAgree, FreedOnce
<1>3. ClockOK' /\ LateOK'
  BY DEF IInv, ServiceTypeOK, ClockOK, LateOK, Spinning
<1>4. QED BY <1>1, <1>2, <1>3 DEF IInv

LEMMA RoundEndsOK ==
  ASSUME IInv, RoundEnds PROVE IInv'
<1> USE DEF RoundEnds, loopVars, timeVars
<1>1. ServiceTypeOK'
  BY Constants DEF IInv, ServiceTypeOK, IndexOK, Indices
<1>2. IndexOK' /\ SlotsAgree' /\ FreedOnce'
  BY DEF IInv, ServiceTypeOK, IndexOK, SlotsAgree, FreedOnce
<1>3. ClockOK' /\ LateOK'
  BY DEF IInv, ServiceTypeOK, ClockOK, LateOK, Spinning
<1>4. QED BY <1>1, <1>2, <1>3 DEF IInv

LEMMA SpinEndsOK ==
  ASSUME IInv, SpinEnds PROVE IInv'
<1> USE DEF SpinEnds, loopVars, timeVars
<1>1. ServiceTypeOK'
  BY Constants DEF IInv, ServiceTypeOK, CountLate
<1>2. IndexOK' /\ SlotsAgree' /\ FreedOnce'
  BY DEF IInv, ServiceTypeOK, IndexOK, SlotsAgree, FreedOnce
<1>3. ClockOK'
  BY DEF IInv, ClockOK, Spinning
<1>4. LateOK'
  <2>1. Spinning /\ late \in Nat /\ steps \in Nat /\ lag \in 0..MaxLag
    BY Constants DEF IInv, ServiceTypeOK, Spinning
  <2>2. late' = late \/ (late' = late + 1 /\ terminate)
    BY DEF CountLate
  <2>3. ~stepped /\ late > 0 => ~(MaxLag < SpinMs)
    <3> SUFFICES ASSUME ~stepped, late > 0 PROVE lag >= SpinMs
      BY <2>1, Constants
    <3>1. Since = elapsed
      BY <2>1, SinceElapsed
    <3>2. QED BY <2>1, <3>1 DEF IInv, LateOK
  <2>4. QED BY <2>1, <2>2, <2>3 DEF IInv, LateOK, Spinning
<1>5. QED BY <1>1, <1>2, <1>3, <1>4 DEF IInv

LEMMA ObserveTargetOK ==
  ASSUME IInv, ObserveTarget PROVE IInv'
<1> USE DEF ObserveTarget, loopVars, timeVars
<1>1. ServiceTypeOK'
  BY Constants DEF IInv, ServiceTypeOK, IndexOK, Indices
<1>2. IndexOK'
  BY Constants DEF IInv, ServiceTypeOK, IndexOK, Indices
<1>3. SlotsAgree'
  BY Constants DEF IInv, ServiceTypeOK, IndexOK, SlotsAgree, Indices, Targets,
                   NoTarget
<1>4. FreedOnce'
  BY Constants DEF IInv, ServiceTypeOK, IndexOK, FreedOnce, Indices
<1>5. ClockOK' /\ LateOK'
  BY DEF IInv, ServiceTypeOK, ClockOK, LateOK, Spinning
<1>6. QED BY <1>1, <1>2, <1>3, <1>4, <1>5 DEF IInv

-----------------------------------------------------------------------------
(* service_deinit.                                                         *)

LEMMA DeinitTargetOK ==
  ASSUME IInv, DeinitTarget PROVE IInv'
<1> USE DEF DeinitTarget, loopVars, timeVars
<1>1. i \in Nat /\ i < fpIndex /\ i \in Indices /\ i + 1 \in Indices
      /\ fpIndex \in Nat
  BY Constants DEF IInv, ServiceTypeOK, Indices
<1>2. fp[i] \in Targets /\ fp[i] # NoTarget
  BY <1>1, Constants DEF IInv, ServiceTypeOK, SlotsAgree, Targets, NoTarget
<1>3. /\ freed' = Append(freed, fp[i]) /\ freed \in Seq(Targets)
      /\ Len(freed) = i
  BY <1>2 DEF IInv, ServiceTypeOK, FreedOnce
<1>4. /\ freed' \in Seq(Targets) /\ Len(freed') = i + 1
      /\ DOMAIN freed' = 1..(i + 1) /\ DOMAIN freed = 1..i
      /\ freed'[i + 1] = fp[i] /\ \A n \in 1..i : freed'[n] = freed[n]
  <2>1. /\ freed' \in Seq(Targets) /\ Len(freed') = i + 1
        /\ freed'[i + 1] = fp[i] /\ \A n \in 1..i : freed'[n] = freed[n]
    BY <1>2, <1>3, AppendProperties
  <2>2. QED BY <1>3, <2>1, LenProperties
<1>5. ServiceTypeOK'
  BY <1>1, <1>2, <1>4 DEF IInv, ServiceTypeOK, Printing
<1>6. IndexOK' /\ SlotsAgree'
  BY <1>1 DEF IInv, IndexOK, SlotsAgree
<1>7. FreedOnce'
  <2>1. \A n \in 1..(i + 1) : freed'[n] = fp[n - 1]
    <3>1. \A n \in 1..i : freed[n] = fp[n - 1]
      BY <1>4 DEF IInv, FreedOnce
    <3>2. QED BY <1>1, <1>4, <3>1
  <2>2. QED BY <1>1, <1>4, <2>1 DEF FreedOnce
<1>8. ClockOK' /\ LateOK'
  BY DEF IInv, ClockOK, LateOK, Spinning
<1>9. QED BY <1>5, <1>6, <1>7, <1>8 DEF IInv

LEMMA ExitOK ==
  ASSUME IInv, Exit PROVE IInv'
<1> USE DEF Exit, loopVars, timeVars
<1>1. ServiceTypeOK'
  BY Constants DEF IInv, ServiceTypeOK, IndexOK, Indices
<1>2. IndexOK' /\ SlotsAgree' /\ FreedOnce'
  BY DEF IInv, ServiceTypeOK, IndexOK, SlotsAgree, FreedOnce,
         Indices
<1>3. ClockOK' /\ LateOK'
  BY DEF IInv, ServiceTypeOK, ClockOK, LateOK, Spinning
<1>4. QED BY <1>1, <1>2, <1>3 DEF IInv

-----------------------------------------------------------------------------
(* The clock.                                                              *)

LEMMA TickOK ==
  ASSUME IInv, Tick PROVE IInv'
<1>1. /\ UNCHANGED <<pc, popped, paths, fp, fpIndex, i, freed, failed, handled,
                     terminate, start, steps, stepped, late>>
      /\ clock' = (clock + 1) % TimeMod
      /\ IF Spinning
         THEN /\ elapsed < MaxElapsed /\ (pc # "sleep" => lag < MaxLag)
              /\ elapsed' = elapsed + 1
              /\ lag' = IF pc = "sleep" THEN lag ELSE lag + 1
         ELSE UNCHANGED <<elapsed, lag>>
  BY DEF Tick, loopVars
<1>2. /\ clock \in 0..(TimeMod - 1) /\ start \in 0..(TimeMod - 1)
      /\ elapsed \in 0..MaxElapsed /\ MaxElapsed \in 0..(TimeMod - 1)
      /\ TimeMod \in Nat \ {0}
  BY Constants DEF IInv, ServiceTypeOK, Time
<1>3. clock' = IF clock = TimeMod - 1 THEN 0 ELSE clock + 1
  <2>1. CASE clock = TimeMod - 1
    <3>1. clock + 1 = 0 + TimeMod /\ 0 \in 0..(TimeMod - 1)
      BY <1>2, <2>1
    <3>2. (0 + TimeMod) % TimeMod = 0
      BY <1>2, <3>1, ModOnce
    <3>3. QED BY <1>1, <2>1, <3>1, <3>2
  <2>2. CASE clock # TimeMod - 1
    <3>1. clock + 1 \in 0..(TimeMod - 1)
      BY <1>2, <2>2
    <3>2. QED BY <1>1, <1>2, <2>2, <3>1, ModOnce
  <2>3. QED BY <2>1, <2>2
<1>4. ServiceTypeOK'
  <2>1. clock' \in Time
    BY <1>2, <1>3 DEF Time
  <2>2. elapsed' \in 0..MaxElapsed /\ lag' \in 0..MaxLag
    BY SMTT(30), <1>1, Constants DEF IInv, ServiceTypeOK
  <2>3. QED BY <1>1, <2>1, <2>2 DEF IInv, ServiceTypeOK
<1>5. IndexOK' /\ SlotsAgree' /\ FreedOnce'
  BY <1>1 DEF IInv, IndexOK, SlotsAgree, FreedOnce
<1>6. ClockOK'
  <2> SUFFICES ASSUME Spinning, ~stepped
               PROVE  \/ clock' = start + elapsed'
                      \/ clock' + TimeMod = start + elapsed'
    BY <1>1 DEF ClockOK, Spinning
  <2>1. clock = start + elapsed \/ clock + TimeMod = start + elapsed
    BY DEF IInv, ClockOK
  <2>2. elapsed' = elapsed + 1 /\ elapsed + 1 <= MaxElapsed
    BY <1>1, <1>2
  <2>3. QED BY <1>2, <1>3, <2>1, <2>2
<1>7. LateOK'
  BY <1>1 DEF IInv, LateOK, Spinning
<1>8. QED BY <1>4, <1>5, <1>6, <1>7 DEF IInv

LEMMA SetClockOK ==
  ASSUME IInv, SetClock PROVE IInv'
<1>1. /\ UNCHANGED <<pc, popped, paths, fp, fpIndex, i, freed, failed, handled,
                     terminate, start, elapsed, lag, late>>
      /\ steps < MaxSteps /\ steps' = steps + 1
      /\ stepped' = (stepped \/ Spinning)
  BY DEF SetClock, loopVars
<1>2. clock' \in Time
  <2>1. PICK ms \in 1..SpinMs : \/ clock' = (clock + ms) % TimeMod
                              \/ clock' = (clock + TimeMod - ms) % TimeMod
    BY DEF SetClock
  <2>2. clock \in Nat /\ TimeMod \in Nat \ {0} /\ ms \in Nat /\ ms <= TimeMod
    BY Constants DEF IInv, ServiceTypeOK, Time
  <2>3. clock + ms \in Nat /\ clock + TimeMod - ms \in Nat
    BY <2>2
  <2>4. QED BY <2>1, <2>2, <2>3, ModRange DEF Time
<1>3. ServiceTypeOK'
  BY <1>1, <1>2, Constants DEF IInv, ServiceTypeOK, Spinning
<1>4. IndexOK' /\ SlotsAgree' /\ FreedOnce'
  BY <1>1 DEF IInv, IndexOK, SlotsAgree, FreedOnce
<1>5. ClockOK'
  BY <1>1 DEF ClockOK, Spinning
<1>6. LateOK'
  BY <1>1 DEF IInv, ServiceTypeOK, LateOK, Spinning
<1>7. QED BY <1>3, <1>4, <1>5, <1>6 DEF IInv

-----------------------------------------------------------------------------
(* The theorems.                                                           *)

LEMMA InitOK == Init => IInv
<1> SUFFICES ASSUME Init PROVE IInv
  OBVIOUS
<1>1. ServiceTypeOK
  <2>1. /\ paths \in [Indices -> {Files[n] : n \in Targets} \cup {NoFile}]
        /\ fp \in [Indices -> Targets \cup {NoTarget}]
    BY DEF Init
  <2>2. freed \in Seq(Targets) /\ start \in Time /\ 0 \in 0..MaxSteps
        /\ 0 \in 0..MaxElapsed /\ 0 \in 0..MaxLag /\ 0 \in 0..(MaxSteps + 2)
        /\ 0 \in 0..Len(Files)
    BY Constants, EmptySeq DEF Init, Time
  <2>3. QED BY <2>1, <2>2, Constants DEF Init, ServiceTypeOK
<1>2. IndexOK /\ ClockOK /\ LateOK
  BY Constants DEF Init, IndexOK, ClockOK, LateOK, Spinning
<1>3. SlotsAgree /\ FreedOnce
  BY EmptySeq DEF Init, SlotsAgree, FreedOnce, Indices, NoTarget
<1>4. QED BY <1>1, <1>2, <1>3 DEF IInv

LEMMA NextOK == IInv /\ [Next]_vars => IInv'
<1> SUFFICES ASSUME IInv, [Next]_vars PROVE IInv'
  OBVIOUS
<1>1. CASE Thread
  BY <1>1, PopFileOK, NoMoreFilesOK, CreatedOK, SkippedOK, HandleSigintOK,
     HandleSigtermOK, SpinBeginsOK, SpinEndsOK, SpinGoesOnOK, SpinFlagOK,
     SpinWakesOK, ObserveTargetOK, RoundEndsOK, DeinitTargetOK, ExitOK
     DEF Thread
<1>2. CASE Signal \/ Tick \/ SetClock
  BY <1>2, SignalOK, TickOK, SetClockOK
<1>3. CASE UNCHANGED vars
  BY <1>3 DEF vars, loopVars, timeVars, IInv, ServiceTypeOK, IndexOK,
              SlotsAgree, FreedOnce, ClockOK, LateOK, Spinning
<1>4. QED BY <1>1, <1>2, <1>3 DEF Next

LEMMA Invariance == Spec => []IInv
BY InitOK, NextOK, PTL DEF Spec

\* Every variable of the service loop keeps its type; fp_index and the indices
\* of the three loops stay within the 64 slots (loop.c:26).
THEOREM ServiceTypeCorrect == Spec => []ServiceTypeOK
<1>1. IInv => ServiceTypeOK
  BY DEF IInv
<1>2. QED BY <1>1, Invariance, PTL

\* fp and paths stay in step when service_init skips files and uses their slots
\* again (loop.c:32).
THEOREM SlotsAgreeHolds == Spec => []SlotsAgree
<1>1. IInv => SlotsAgree
  BY DEF IInv
<1>2. QED BY <1>1, Invariance, PTL

\* service_deinit gives each target to fs_target_delete once, and all of them
\* before the exit (loop.c:56).
THEOREM FreedOnceHolds == Spec => []FreedOnce
<1>1. IInv => FreedOnce
  BY DEF IInv
<1>2. QED BY <1>1, Invariance, PTL

\* The difference in spin (loop.c:69) is right across the wrap-around of the
\* clock: no round begins before the wait is over, unless the clock was set.
THEOREM RoundSpacingHolds == Spec => RoundSpacing
<1>1. IInv /\ [Next]_vars => [SpinEnds => elapsed >= SpinMs \/ stepped]_vars
  <2> SUFFICES ASSUME IInv, SpinEnds, ~stepped PROVE elapsed >= SpinMs
    OBVIOUS
  <2>1. Spinning
    BY DEF SpinEnds, Spinning
  <2>2. Since = elapsed
    BY <2>1, SinceElapsed
  <2>3. QED BY <2>2 DEF SpinEnds
<1>2. QED BY <1>1, Invariance, PTL DEF Spec, RoundSpacing

\* After a signal at most one more round begins, and one for each time the
\* clock is set: spin looks at the flag before it sleeps (loop.c:70).
THEOREM PromptStopHolds == Spec => []PromptStop
<1>1. IInv => PromptStop
  BY DEF IInv, LateOK, PromptStop
<1>2. QED BY <1>1, Invariance, PTL
=============================================================================
