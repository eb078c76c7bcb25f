------------------------------ MODULE MCBackd -------------------------------
(***************************************************************************)
(* An instance of Backd: a directory with one entry, named twice on the    *)
(* command line, and a file between.                                       *)
(***************************************************************************)
EXTENDS Backd

MCPaths == {<<"d">>, <<"d", "a">>, <<"f">>}
MCRoot  == <<"d">>
MCFiles == <<"d", "f", "d">>
MCVolatile == {<<"d">>, <<"d", "a">>}

MCRecord(type, r, x) ==
  [dev |-> 1, ino |-> 1, mode |-> [type |-> type, r |-> r, x |-> x],
   mtime |-> 1, size |-> 1, atime |-> 1]

\* A file, and a directory that can or cannot be read or searched.
MCStats == {MCRecord("normal", TRUE, FALSE), MCRecord("directory", TRUE, TRUE),
            MCRecord("directory", FALSE, TRUE), MCRecord("directory", TRUE, FALSE)}

\* f begins as a plain file, or is missing.
MCInit == BackdInit /\ fs[<<"f">>] \in {ZeroStat, MCRecord("normal", TRUE, FALSE)}
MCSpec == MCInit /\ [][BackdNext]_backdVars /\ Fairness
=============================================================================
