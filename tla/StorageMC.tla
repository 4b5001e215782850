----------------------------- MODULE StorageMC -----------------------------
(***************************************************************************)
(* The file system: inodes, directories and path names (FileSys) and the   *)
(* log under them (Log).  They share no variable, so that their product    *)
(* would only multiply their states: a behaviour explores one of them      *)
(* while the other rests.                                                  *)
(***************************************************************************)
EXTENDS LogMC

CONSTANTS FsProc, NINODES, NBLOCKS, NDIRECT, NINDIRECT, NOFILE, Calls, MaxCalls, Files, NULL

VARIABLES dinode, used, data, itable, cwd, ofile, loc, calls, fsPanic,
          part  \* the one that is explored

fsVars == <<dinode, used, data, itable, cwd, ofile, loc, calls, fsPanic>>

F == INSTANCE FileSys WITH Proc <- FsProc, panic <- fsPanic

\* Calls on d, which becomes a directory or a device; on the file x of mkfs; and
\* on x in the current directory, which is / or d.
Call(op, path) == [op |-> op, path |-> path, new |-> <<>>, mode |-> "trunc"]
LinkCall(old, new) == [op |-> "link", path |-> old, new |-> new, mode |-> "trunc"]
D == <<"/", "d">>
FileCalls == {Call("mkdir", D), Call("mknod", D), Call("unlink", D), Call("chdir", D), Call("open", D),
              Call("creat", <<"x">>), Call("unlink", <<"x">>),
              LinkCall(<<"/", "x">>, <<"/", "d", "x">>), LinkCall(D, <<"/">>)}
OneFile == <<[name |-> "x", size |-> 1]>>

StorageInit == part \in {"files", "log"} /\ F!FsInit /\ Init

StorageNext ==
    \/ part = "files" /\ F!FsNext /\ UNCHANGED <<vars, part>>
    \/ part = "log" /\ Next /\ UNCHANGED <<fsVars, part>>

StorageSpec == StorageInit /\ [][StorageNext]_<<fsVars, vars, part>>

StorageSymmetry == Symmetry \cup Permutations(FsProc)

-----------------------------------------------------------------------------
(* The properties of FileSys, which need not be evaluated while it rests.  *)

\* ip->ref counts the pointers to each entry of itable, through every success
\* and failure path of the calls, and no inode has two entries.
RefsExact == part = "files" => F!RefsExact

\* An unlocked valid entry is a copy of the inode on the disk, also when the
\* inode was freed and allocated again while the entry was in the table.
CopyFaithful == part = "files" => F!CopyFaithful

\* The bitmap marks exactly the blocks of the inodes, and no block belongs to
\* two of them or twice to one, even when the disk is full.
BlocksExact == part = "files" => F!BlocksExact

\* Whatever calls run at the same time, every name a path can reach leads to an
\* allocated inode with enough links to stay allocated, no directory has two
\* entries of one name, and neither unlink() nor iput() panics.
TreeSound == part = "files" => F!TreeSound

\* No group of processes waits for inode locks that only the group holds.
NoLockCycle == part = "files" => F!NoLockCycle
=============================================================================
