----------------------------- MODULE FileSystem -----------------------------
(***************************************************************************)
(* The part of the kernel the daemon sees: a tree of files, lstat(2) and   *)
(* opendir(3)/readdir(3) on it, and the other processes that change it     *)
(* between two system calls of the daemon.  Nothing here is code of the    *)
(* repository: it is modelled from how fs_target.c, fs_target_event.c and  *)
(* fs_target_event_track.c use it.                                         *)
(*                                                                         *)
(* A path is a sequence of names, relative to the working directory of the *)
(* daemon; the stat record of a file keeps the six attributes that         *)
(* cmp_stat compares.  st_mtime and st_atime count whole seconds, so a     *)
(* change of a file may leave its record as it was.                        *)
(***************************************************************************)
EXTENDS Naturals, Sequences, FiniteSets

CONSTANTS
  Paths,      \* the paths at which a file can exist
  Stats,      \* the stat records a file can have
  Volatile,   \* the paths other processes create, change and remove
  MaxChanges  \* bound: how many times other processes change the tree

VARIABLES
  fs,         \* fs[p]: the stat record of the file at p, or ZeroStat
  changes     \* number of changes made by other processes

fsVars == <<fs, changes>>

FileTypes == {"unknown", "fifo", "chardev", "directory", "blockdev",
              "normal", "symbolic_link", "sock"}

\* st_mode: the file type and the permissions that decide what the daemon,
\* which runs without privileges, may do: search (x) and read (r).
Mode == [type : FileTypes, r : BOOLEAN, x : BOOLEAN]

Stat == [dev : Nat, ino : Nat, mode : Mode, mtime : Nat, size : Nat,
         atime : Nat]

\* What  struct stat st = { 0 }  holds when no call filled it; here also the
\* mark of a path where no file is.
ZeroStat == [dev |-> 0, ino |-> 0,
             mode |-> [type |-> "unknown", r |-> FALSE, x |-> FALSE],
             mtime |-> 0, size |-> 0, atime |-> 0]

ASSUME PathsAssumption ==
  /\ Paths \subseteq Seq(STRING) \ {<<>>}
  /\ Volatile \subseteq Paths

ASSUME StatsAssumption ==
  /\ Stats \subseteq Stat
  /\ \A st \in Stats : st.mode.type # "unknown"

ASSUME MaxChangesAssumption == MaxChanges \in Nat

-----------------------------------------------------------------------------
(* The tree.                                                               *)

Parent(p) == SubSeq(p, 1, Len(p) - 1)
Exists(p) == p \in Paths /\ fs[p] # ZeroStat
IsDir(p)  == Exists(p) /\ fs[p].mode.type = "directory"

Entries(p) == {q \in Paths : Len(q) = Len(p) + 1 /\ Parent(q) = p /\ Exists(q)}

\* Every file is in a directory; the roots are in the working directory.
WellFormed(f) ==
  \A p \in Paths : (Len(p) > 1 /\ f[p] # ZeroStat)
                     => /\ Parent(p) \in Paths
                        /\ f[Parent(p)].mode.type = "directory"

-----------------------------------------------------------------------------
(* The system calls.  A failing lstat does not write the caller's buffer,  *)
(* which the daemon zeroes before each call.                               *)

LstatResult == [err : {"OK", "EACCES", "ENOENT", "ENOTDIR"},
                st : Stats \cup {ZeroStat}]

\* Path resolution fails at the first prefix that cannot be walked through.
Blocks(a) == ~IsDir(a) \/ ~fs[a].mode.x

Lstat(p) ==
  LET blocked == {i \in 1..(Len(p) - 1) : Blocks(SubSeq(p, 1, i))}
      first   == CHOOSE i \in blocked : \A j \in blocked : i <= j
      at      == SubSeq(p, 1, first)
      fail(e) == [err |-> e, st |-> ZeroStat]
  IN  IF blocked # {}
      THEN fail(IF ~Exists(at) THEN "ENOENT"
                ELSE IF IsDir(at) THEN "EACCES" ELSE "ENOTDIR")
      ELSE IF Exists(p) THEN [err |-> "OK", st |-> fs[p]]
                        ELSE fail("ENOENT")

\* opendir succeeds on a directory that can be reached and read.
CanOpenDir(p) == Lstat(p).err = "OK" /\ IsDir(p) /\ fs[p].mode.r

-----------------------------------------------------------------------------
(* The other processes.  Adding or removing an entry may also move the     *)
(* times and the size of the directory it is in.                           *)

SameFile(st, new) == new.ino = st.ino /\ new.dev = st.dev
                       /\ new.mode.type = st.mode.type

\* f with the file at p set to st, its directory possibly touched.
WithEntry(p, st) ==
  {[fs EXCEPT ![p] = st]} \cup
  IF Parent(p) \in Paths
  THEN {[fs EXCEPT ![p] = st, ![Parent(p)] = d] :
          d \in {d \in Stats : SameFile(fs[Parent(p)], d)
                                 /\ d.mode = fs[Parent(p)].mode}}
  ELSE {}

CreateFile(p) ==
  /\ ~Exists(p)
  /\ Len(p) > 1 => IsDir(Parent(p))
  /\ \E st \in Stats : fs' \in WithEntry(p, st)

RemoveFile(p) ==
  /\ Exists(p)
  /\ Entries(p) = {}
  /\ fs' \in WithEntry(p, ZeroStat)

\* A write, a read, a chmod.
ModifyFile(p) ==
  /\ Exists(p)
  /\ \E st \in Stats : /\ st # fs[p]
                       /\ SameFile(fs[p], st)
                       /\ fs' = [fs EXCEPT ![p] = st]

FsChange ==
  /\ changes < MaxChanges
  /\ changes' = changes + 1
  /\ \E p \in Volatile : CreateFile(p) \/ RemoveFile(p) \/ ModifyFile(p)

FsInit ==
  /\ fs \in [Paths -> Stats \cup {ZeroStat}]
  /\ WellFormed(fs)
  /\ changes = 0

FsTypeOK ==
  /\ fs \in [Paths -> Stats \cup {ZeroStat}]
  /\ changes \in 0..MaxChanges
=============================================================================
