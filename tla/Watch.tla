------------------------------- MODULE Watch --------------------------------
(***************************************************************************)
(* What the daemon promises of the files it watches, without targets, call *)
(* stack or path buffer: for each path a log that starts with the file's   *)
(* stat record and grows by one event whenever a look at the file finds it *)
(* different from the last event.  A file can change any number of times   *)
(* between two looks; looks at different files are in no particular order. *)
(***************************************************************************)
EXTENDS FileSystem

CONSTANT MaxEvents   \* the events a log can hold

VARIABLE log         \* log[p]: the events recorded for the file at p

NotWatched == <<>>

Same(st1, st2) == [st1 EXCEPT !.atime = 0] = [st2 EXCEPT !.atime = 0]

\* The event a look at p finds, given the last one; none if nothing differs.
Finds(p, last) ==
  LET r == Lstat(p)
      event(m) == {[mask |-> m, st |-> r.st]}
  IN  IF r.err = "EACCES" THEN event("FAIL")
      ELSE IF r.err # "OK" THEN event("DELETE")
      ELSE IF r.st = last.st THEN {}
      ELSE IF Same(r.st, last.st) THEN event("OPEN")
      ELSE event("MODIFY")

\* The snapshot starts the log of a file that exists.
Acknowledge(p) ==
  /\ log[p] = NotWatched
  /\ Lstat(p).err = "OK"
  /\ log' = [log EXCEPT ![p] = <<[mask |-> "ACK", st |-> fs[p]]>>]
  /\ UNCHANGED fsVars

\* A round looks at a file of the snapshot.
Look(p) ==
  /\ log[p] # NotWatched
  /\ Len(log[p]) < MaxEvents
  /\ \E e \in Finds(p, log[p][Len(log[p])]) :
       log' = [log EXCEPT ![p] = Append(@, e)]
  /\ UNCHANGED fsVars

WatchInit == FsInit /\ log = [p \in Paths |-> NotWatched]

WatchNext == \/ FsChange /\ UNCHANGED log
             \/ \E p \in Paths : Acknowledge(p) \/ Look(p)

WatchSpec == WatchInit /\ [][WatchNext]_<<fsVars, log>>
=============================================================================
