----------------------------- MODULE MCRoutine ------------------------------
(***************************************************************************)
(* Small instances of Routine: a directory with two entries, and a file    *)
(* named on the command line by a path of two names.                       *)
(***************************************************************************)
EXTENDS Routine

MCPaths == {<<"d">>, <<"d", "a">>, <<"d", "b">>}
MCRoot  == <<"d">>

MCNestedPaths == {<<"x">>, <<"x", "d">>}
MCNestedRoot  == <<"x", "d">>

MCFiles == {<<"d", "a">>, <<"d", "b">>}
MCNone  == {}

MCRecord(type, r, x, mtime, atime) ==
  [dev |-> 1, ino |-> 1, mode |-> [type |-> type, r |-> r, x |-> x],
   mtime |-> mtime, size |-> 1, atime |-> atime]

\* A file that is written (mtime) or read (atime); a directory.
MCStats == {MCRecord("normal", TRUE, FALSE, 1, 1),
            MCRecord("normal", TRUE, FALSE, 2, 1),
            MCRecord("normal", TRUE, FALSE, 1, 2),
            MCRecord("directory", TRUE, TRUE, 1, 1)}
=============================================================================
