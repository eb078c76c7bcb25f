----------------------------- MODULE MCFsTarget -----------------------------
(***************************************************************************)
(* A small instance of FsTarget: a directory with a file and a             *)
(* subdirectory that holds a file; directories that can be read, searched, *)
(* or not.                                                                 *)
(***************************************************************************)
EXTENDS FsTarget

MCPaths == {<<"d">>, <<"d", "a">>, <<"d", "s">>, <<"d", "s", "b">>}
MCRoot  == <<"d">>
MCSome  == {<<"d">>, <<"d", "a">>, <<"d", "s">>}
MCNone  == {}

MCRecord(type, r, x, ino, mtime) ==
  [dev |-> 1, ino |-> ino, mode |-> [type |-> type, r |-> r, x |-> x],
   mtime |-> mtime, size |-> 1, atime |-> 1]

\* Two states of a file; a directory that is open to all, not readable, not
\* searchable.
MCStats == {MCRecord("normal", TRUE, FALSE, 1, 1),
            MCRecord("normal", TRUE, FALSE, 1, 2),
            MCRecord("directory", TRUE, TRUE, 2, 1),
            MCRecord("directory", FALSE, TRUE, 2, 1),
            MCRecord("directory", TRUE, FALSE, 2, 1)}
=============================================================================
