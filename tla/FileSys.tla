------------------------------ MODULE FileSys ------------------------------
(***************************************************************************)
(* The inode layer, directories and path names (kernel/fs.c) and the       *)
(* system calls on them (kernel/sysfile.c).                                *)
(*                                                                         *)
(* A step of a call runs from the lock it waits for to the next one: the   *)
(* sleep lock of an inode, or itable.lock in iput().  In between the call  *)
(* owns the inodes it has locked.  Every call is one transaction of the    *)
(* log (module Log), so the disk here is what a reader sees through the    *)
(* buffer cache.                                                           *)
(*                                                                         *)
(* The unit of a file is a block; a directory fits in one block.  A block  *)
(* of a directory holds a set of <<name, inum>> pairs.                     *)
(***************************************************************************)
EXTENDS Integers, Sequences, FiniteSets, SequencesExt

CONSTANTS
    Proc,       \* processes; each starts with / as current directory
    NINODES,    \* inodes on the disk are 1..NINODES, sb.ninodes - 1
    NBLOCKS,    \* data blocks on the disk
    NDIRECT,    \* block numbers in the inode
    NINDIRECT,  \* block numbers in the indirect block
    NOFILE,     \* descriptors of a process
    Calls,      \* the calls processes make: [op, path, new, mode]
    MaxCalls,   \* calls all processes make together
    Files,      \* what mkfs puts into /: a sequence of [name, size]
    NULL

VARIABLES
    dinode,  \* inodes on the disk
    used,    \* the bitmap: blocks in use
    data,    \* contents of directory blocks
    itable,  \* the table of in-memory inodes
    cwd,     \* current directory of each process: a slot of itable
    ofile,   \* open files of each process: fd -> [ip, writable]
    loc,     \* where each process is in its call, and its local variables
    calls,   \* calls made so far
    panic    \* the kernel has called panic()

diskVars == <<dinode, used, data>>
fsVars == <<dinode, used, data, itable, cwd, ofile, loc, calls, panic>>

ROOTINO == 1
Inum == 1..NINODES
DataBlock == 1..NBLOCKS
Slot == 1..NINODES     \* enough for iget() never to run out of entries
MAXFILE == NDIRECT + NINDIRECT

\* An inode: addrs lists its data blocks, ind is the indirect block or 0.
FreeInode == [type |-> "none", nlink |-> 0, addrs |-> <<>>, ind |-> 0]

\* An entry of itable that nothing refers to.
NoInode == [inum |-> 0, ref |-> 0, valid |-> FALSE, lock |-> NULL, di |-> FreeInode]

\* A process between calls.
NoCall == [pc |-> "idle", call |-> NULL, path |-> <<>>, dp |-> NULL, ip |-> NULL,
         puts |-> <<>>, put |-> "check"]

-----------------------------------------------------------------------------
(* Blocks *)

\* balloc(): the first free block, or 0.  Its callers below zero the block.
Balloc(u) == IF u = DataBlock THEN 0 ELSE Min(DataBlock \ u)

\* The blocks of an inode.
BlocksOf(di) == Range(di.addrs) \cup ({di.ind} \ {0})

\* MUTANT: bmap() forgets the indirect block when no data block is left.
BmapLosesIndirect(di, u, bn) ==
    LET needInd == bn >= NDIRECT /\ di.ind = 0
        i == Balloc(u)
        u1 == IF needInd /\ i # 0 THEN u \cup {i} ELSE u
        di1 == IF needInd THEN [di EXCEPT !.ind = i] ELSE di
        b == Balloc(u1)
    IN  CASE bn < Len(di.addrs) -> [di |-> di, used |-> u, addr |-> di.addrs[bn + 1]]
          [] bn >= Len(di.addrs) /\ (b = 0 \/ (needInd /\ i = 0)) ->
                [di |-> di, used |-> u1, addr |-> 0]
          [] OTHER -> [di |-> [di1 EXCEPT !.addrs = Append(@, b)],
                       used |-> u1 \cup {b}, addr |-> b]

\* bmap(): block bn of di, allocated if there is none.  bn is at most the size
\* of the file.  When the disk fills up between the indirect block and the data
\* block, the indirect block stays in the inode.
Bmap(di, u, bn) ==
    LET needInd == bn >= NDIRECT /\ di.ind = 0
        i == Balloc(u)
        u1 == IF needInd /\ i # 0 THEN u \cup {i} ELSE u
        di1 == IF needInd THEN [di EXCEPT !.ind = i] ELSE di
        b == Balloc(u1)
    IN  CASE bn < Len(di.addrs) -> [di |-> di, used |-> u, addr |-> di.addrs[bn + 1]]
          [] bn >= Len(di.addrs) /\ (b = 0 \/ (needInd /\ i = 0)) ->
                [di |-> di1, used |-> u1, addr |-> 0]
          [] OTHER -> [di |-> [di1 EXCEPT !.addrs = Append(@, b)],
                       used |-> u1 \cup {b}, addr |-> b]

\* itrunc(): the inode without its blocks.
Itrunc(di) == [di EXCEPT !.addrs = <<>>, !.ind = 0]

-----------------------------------------------------------------------------
(* The inode table *)

\* iget(): the entry of inode i, or the first free entry.
SlotFor(t, i) ==
    LET hit == {s \in Slot : t[s].ref > 0 /\ t[s].inum = i}
    IN  IF hit # {} THEN Min(hit) ELSE Min({s \in Slot : t[s].ref = 0})

Iget(t, i) ==
    [t EXCEPT ![SlotFor(t, i)] = IF @.ref > 0 THEN [@ EXCEPT !.ref = @ + 1]
                                 ELSE [NoInode EXCEPT !.inum = i, !.ref = 1]]

Idup(t, s) == [t EXCEPT ![s].ref = @ + 1]

\* What ilock() finds in the entry: the copy in memory, or the one on the disk.
Loaded(s) == IF itable[s].valid THEN itable[s].di ELSE dinode[itable[s].inum]

\* The table once p has locked s, and once it has unlocked it again having
\* changed the inode to di; iupdate() writes di to the disk at the same time.
Lock(t, s, p) == [t EXCEPT ![s].lock = p, ![s].valid = TRUE, ![s].di = Loaded(s)]
Unlock(t, s, di) == [t EXCEPT ![s].lock = NULL, ![s].valid = TRUE, ![s].di = di]
Iupdate(d, s, di) == [d EXCEPT ![itable[s].inum] = di]

\* iput() frees the inode when this is the last reference to an inode without
\* links.
LastPut(s) == itable[s].ref = 1 /\ itable[s].valid /\ itable[s].di.nlink = 0

DropRef(t, s) == [t EXCEPT ![s] = IF @.ref = 1 THEN NoInode ELSE [@ EXCEPT !.ref = @ - 1]]

-----------------------------------------------------------------------------
(* Directories *)

\* All entries of a directory, and the inodes with a given name.
Entries(di) == UNION {data[b] : b \in Range(di.addrs)}
Dirlookup(di, name) == {e[2] : e \in {x \in Entries(di) : x[1] = name}}

Dots == {".", ".."}
Isdirempty(di) == \A e \in Entries(di) : e[1] \in Dots

-----------------------------------------------------------------------------
(* Calls *)

\* p is at a label, or at a stage of the first iput() before it.
Inside(p, label) == ~panic /\ loc[p].pc = label /\ loc[p].puts = <<>>
Putting(p, stage) == ~panic /\ loc[p].puts # <<>> /\ loc[p].put = stage

\* The inode that p locks in its next step.
Wants(p) ==
    CASE loc[p].puts # <<>> -> NULL
      [] loc[p].pc = "namex" /\ loc[p].path = <<>> -> NULL
      [] loc[p].pc \in {"namex", "open", "chdir", "link", "link_add", "create", "unlink"} ->
            loc[p].dp
      [] loc[p].pc \in {"create_exists", "create_ip", "unlink_ip", "link_bad"} -> loc[p].ip
      [] OTHER -> NULL

\* ilock() returns: the lock was free and the inode has a type (IlockFindsType
\* below is about the panic when it has none).
Ilock(s) == itable[s].lock = NULL /\ Loaded(s).type # "none"

\* iput() of everything the call has to put, then on to label.
Goto(p, label, puts) == loc' = [loc EXCEPT ![p] = [@ EXCEPT !.pc = label, !.puts = puts]]
Return(p, puts) == loc' = [loc EXCEPT ![p] = [NoCall EXCEPT !.puts = puts]]

-----------------------------------------------------------------------------
(* iput(): the references in puts are dropped in turn *)

Iput(p) ==
    LET s == loc[p].puts[1] IN
    /\ Putting(p, "check")
    /\ \/ /\ ~LastPut(s)
          /\ itable' = DropRef(itable, s)
          /\ loc' = [loc EXCEPT ![p].puts = Tail(@)]
          /\ UNCHANGED panic
       \/ /\ LastPut(s)
          \* acquiresleep() may not sleep here: itable.lock is held
          /\ panic' = (itable[s].lock # NULL)
          /\ itable' = [itable EXCEPT ![s].lock = p]
          /\ loc' = [loc EXCEPT ![p].put = "trunc"]
    /\ UNCHANGED <<diskVars, cwd, ofile, calls>>

IputTrunc(p) ==
    LET s == loc[p].puts[1]
        di == Itrunc(itable[s].di) IN
    /\ Putting(p, "trunc")
    /\ panic' = ~(BlocksOf(itable[s].di) \subseteq used)
    /\ used' = used \ BlocksOf(itable[s].di)
    /\ itable' = [itable EXCEPT ![s].di = di]
    /\ dinode' = Iupdate(dinode, s, di)
    /\ loc' = [loc EXCEPT ![p].put = "free"]
    /\ UNCHANGED <<data, cwd, ofile, calls>>

\* MUTANT: iput() leaves the entry valid.
ForgetKeepsValid(t, s) == [t EXCEPT ![s].lock = NULL, ![s].di = FreeInode]

\* type = 0 on the disk, and the entry no longer valid.
Forget(t, s) == [t EXCEPT ![s].valid = FALSE, ![s].lock = NULL, ![s].di = FreeInode]

IputFree(p) ==
    LET s == loc[p].puts[1] IN
    /\ Putting(p, "free")
    /\ dinode' = Iupdate(dinode, s, FreeInode)
    /\ itable' = Forget(itable, s)
    /\ loc' = [loc EXCEPT ![p].put = "drop"]
    /\ UNCHANGED <<used, data, cwd, ofile, calls, panic>>

IputDrop(p) ==
    /\ Putting(p, "drop")
    /\ itable' = DropRef(itable, loc[p].puts[1])
    /\ loc' = [loc EXCEPT ![p] = [@ EXCEPT !.put = "check", !.puts = Tail(@)]]
    /\ UNCHANGED <<diskVars, cwd, ofile, calls, panic>>

-----------------------------------------------------------------------------
(* namex() *)

\* Calls that look for the parent directory of their path.
WantsParent(p) == \/ loc[p].call.op \in {"creat", "mkdir", "mknod", "unlink"}
                  \/ loc[p].call.op = "link" /\ loc[p].ip # NULL

\* Where a call goes on after namex(), and after namex() has returned 0.
Found(p) ==
    CASE loc[p].call.op \in {"creat", "mkdir", "mknod"} -> "create"
      [] loc[p].call.op = "link" /\ loc[p].ip # NULL -> "link_add"
      [] OTHER -> loc[p].call.op

NotFound(p, puts) ==
    IF loc[p].ip # NULL
    THEN loc' = [loc EXCEPT ![p] = [@ EXCEPT !.pc = "link_bad", !.dp = NULL, !.puts = puts]]
    ELSE Return(p, puts)

\* The start of namex(): "/" as first element means the root directory.
Absolute(pth) == pth # <<>> /\ pth[1] = "/"
StartTable(t, p, pth) == IF Absolute(pth) THEN Iget(t, ROOTINO) ELSE Idup(t, cwd[p])
StartSlot(p, pth) == IF Absolute(pth) THEN SlotFor(itable, ROOTINO) ELSE cwd[p]
Elements(pth) == IF Absolute(pth) THEN Tail(pth) ELSE pth

\* A process makes a call.
Enter(p) == /\ Inside(p, "idle") /\ calls < MaxCalls
            /\ calls' = calls + 1

\* A call with a path: begin_op(), and the start of namex().
Syscall(p, c) ==
    /\ Enter(p)
    /\ itable' = StartTable(itable, p, c.path)
    /\ loc' = [loc EXCEPT ![p] = [NoCall EXCEPT
                !.call = c, !.dp = StartSlot(p, c.path), !.path = Elements(c.path),
                !.pc = "namex"]]
    /\ UNCHANGED <<diskVars, cwd, ofile, panic>>

\* The loop has no element left: the inode is found, or has no parent.
NamexEnd(p) ==
    /\ Inside(p, "namex") /\ loc[p].path = <<>>
    /\ IF WantsParent(p) THEN NotFound(p, <<loc[p].dp>>) ELSE Goto(p, Found(p), <<>>)
    /\ UNCHANGED <<diskVars, itable, cwd, ofile, calls, panic>>

\* One turn of the loop.
Namex(p) ==
    LET s == loc[p].dp
        di == Loaded(s)
        next == Dirlookup(di, Head(loc[p].path))
        t == Unlock(itable, s, di) IN
    /\ Inside(p, "namex") /\ loc[p].path # <<>> /\ Ilock(s)
    /\ \/ /\ di.type = "dir" /\ WantsParent(p) /\ Len(loc[p].path) = 1
          /\ itable' = t
          /\ Goto(p, Found(p), <<>>)
       \/ /\ di.type # "dir" \/ (next = {} /\ ~(WantsParent(p) /\ Len(loc[p].path) = 1))
          /\ itable' = t
          /\ NotFound(p, <<s>>)
       \/ /\ di.type = "dir" /\ ~(WantsParent(p) /\ Len(loc[p].path) = 1)
          /\ \E i \in next :
                /\ itable' = Iget(t, i)
                /\ loc' = [loc EXCEPT ![p] = [@ EXCEPT
                            !.dp = SlotFor(t, i), !.path = Tail(@), !.puts = <<s>>]]
    /\ UNCHANGED <<diskVars, cwd, ofile, calls, panic>>

-----------------------------------------------------------------------------
(* open(), chdir() and the calls on open files *)

Fd == 1..NOFILE
FreeFds(p) == {fd \in Fd : ofile[p][fd] = NULL}

\* The rest of sys_open(), with inode s locked in table t: no descriptor, or a
\* device number out of range; else the file, truncated for O_TRUNC.
OpenLocked(p, s, di) ==
    \/ /\ FreeFds(p) = {} \/ di.type = "dev"
       /\ itable' = Unlock(itable, s, di)
       /\ Return(p, <<s>>)
       /\ UNCHANGED <<diskVars, ofile>>
    \/ LET new == IF loc[p].call.mode = "trunc" /\ di.type = "file" THEN Itrunc(di) ELSE di IN
       /\ FreeFds(p) # {}
       /\ ofile' = [ofile EXCEPT ![p][Min(FreeFds(p))] =
                        [ip |-> s, writable |-> loc[p].call.mode # "read"]]
       /\ itable' = Unlock(itable, s, new)
       /\ used' = used \ (BlocksOf(di) \ BlocksOf(new))
       /\ dinode' = Iupdate(dinode, s, new)
       /\ Return(p, <<>>)
       /\ UNCHANGED data

Open(p) ==
    LET s == loc[p].dp IN
    /\ Inside(p, "open") /\ Ilock(s)
    /\ \/ /\ Loaded(s).type = "dir" /\ loc[p].call.mode # "read"
          /\ itable' = Unlock(itable, s, Loaded(s))
          /\ Return(p, <<s>>)
          /\ UNCHANGED <<diskVars, ofile>>
       \/ /\ Loaded(s).type # "dir" \/ loc[p].call.mode = "read"
          /\ OpenLocked(p, s, Loaded(s))
    /\ UNCHANGED <<cwd, calls, panic>>

\* MUTANT: chdir() forgets iput() of the old directory.
ChdirKeepsOld(p) ==
    LET s == loc[p].dp
        isdir == Loaded(s).type = "dir" IN
    /\ Inside(p, "chdir") /\ Ilock(s)
    /\ itable' = Unlock(itable, s, Loaded(s))
    /\ cwd' = IF isdir THEN [cwd EXCEPT ![p] = s] ELSE cwd
    /\ Return(p, IF isdir THEN <<>> ELSE <<s>>)
    /\ UNCHANGED <<diskVars, ofile, calls, panic>>

Chdir(p) ==
    LET s == loc[p].dp
        isdir == Loaded(s).type = "dir" IN
    /\ Inside(p, "chdir") /\ Ilock(s)
    /\ itable' = Unlock(itable, s, Loaded(s))
    /\ cwd' = IF isdir THEN [cwd EXCEPT ![p] = s] ELSE cwd
    /\ Return(p, IF isdir THEN <<cwd[p]>> ELSE <<s>>)
    /\ UNCHANGED <<diskVars, ofile, calls, panic>>

\* One block of write(): writei() at any offset the descriptor may have.
SysWrite(p, fd, off) ==
    LET s == ofile[p][fd].ip
        di == Loaded(s)
        r == Bmap(di, used, off) IN
    /\ Enter(p) /\ ofile[p][fd] # NULL
    /\ ofile[p][fd].writable /\ Ilock(s)
    /\ di.type = "file" /\ off <= Len(di.addrs) /\ off < MAXFILE
    /\ itable' = Unlock(itable, s, r.di)
    /\ dinode' = Iupdate(dinode, s, r.di)
    /\ used' = r.used
    /\ data' = [b \in DataBlock |-> IF b \in r.used \ used THEN {} ELSE data[b]]
    /\ UNCHANGED <<cwd, ofile, loc, panic>>

Close(p, fd) ==
    /\ Enter(p) /\ ofile[p][fd] # NULL
    /\ ofile' = [ofile EXCEPT ![p][fd] = NULL]
    /\ Return(p, <<ofile[p][fd].ip>>)
    /\ UNCHANGED <<diskVars, itable, cwd, panic>>

-----------------------------------------------------------------------------
(* create(): for open(O_CREATE), mkdir() and mknod() *)

NewType(p) == CASE loc[p].call.op = "creat" -> "file"
                [] loc[p].call.op = "mkdir" -> "dir"
                [] OTHER -> "dev"

FreeInodes == {i \in Inum : dinode[i].type = "none"}

\* In the parent directory: the name exists, or there is no free inode, or
\* ialloc() takes the first one and the parent stays locked.
Create(p) ==
    LET s == loc[p].dp
        di == Loaded(s)
        old == Dirlookup(di, loc[p].path[1])
        new == Min(FreeInodes)
        t == Lock(itable, s, p) IN
    /\ Inside(p, "create") /\ Ilock(s)
    /\ \/ \E i \in old :
            /\ itable' = Iget(Unlock(itable, s, di), i)
            /\ loc' = [loc EXCEPT ![p] = [@ EXCEPT !.pc = "create_exists",
                        !.ip = SlotFor(itable, i), !.dp = NULL, !.puts = <<s>>]]
            /\ UNCHANGED dinode
       \/ /\ old = {} /\ FreeInodes = {}
          /\ itable' = Unlock(itable, s, di)
          /\ Return(p, <<s>>)
          /\ UNCHANGED dinode
       \/ /\ old = {} /\ FreeInodes # {}
          /\ dinode' = [dinode EXCEPT ![new] = [FreeInode EXCEPT !.type = NewType(p)]]
          /\ itable' = Iget(t, new)
          /\ loc' = [loc EXCEPT ![p] = [@ EXCEPT !.pc = "create_ip", !.ip = SlotFor(t, new)]]
    /\ UNCHANGED <<used, data, cwd, ofile, calls, panic>>

CreateExists(p) ==
    LET s == loc[p].ip IN
    /\ Inside(p, "create_exists") /\ Ilock(s)
    /\ \/ /\ loc[p].call.op = "creat" /\ Loaded(s).type \in {"file", "dev"}
          /\ OpenLocked(p, s, Loaded(s))
       \/ /\ loc[p].call.op # "creat" \/ Loaded(s).type = "dir"
          /\ itable' = Unlock(itable, s, Loaded(s))
          /\ Return(p, <<s>>)
          /\ UNCHANGED <<diskVars, ofile>>
    /\ UNCHANGED <<cwd, calls, panic>>

\* The new inode: one link, for a directory the entries . and .., then the
\* entry in the parent.  Without a block for . and .. the inode is given back.
CreateIp(p) ==
    LET s == loc[p].ip
        d == loc[p].dp
        inum == itable[s].inum
        isdir == NewType(p) = "dir"
        di == [Loaded(s) EXCEPT !.nlink = 1]
        r == IF isdir THEN Bmap(di, used, 0) ELSE [di |-> di, used |-> used, addr |-> 0]
        failed == [r.di EXCEPT !.nlink = 0]
        parent == IF isdir THEN [itable[d].di EXCEPT !.nlink = @ + 1] ELSE itable[d].di
        dots == {<<".", inum>>, <<"..", itable[d].inum>>}
        b == itable[d].di.addrs[1] IN
    /\ Inside(p, "create_ip") /\ Ilock(s)
    /\ \/ /\ isdir /\ r.addr = 0
          /\ dinode' = Iupdate(dinode, s, failed)
          /\ itable' = Unlock(itable, s, failed)
          /\ loc' = [loc EXCEPT ![p] = [@ EXCEPT !.pc = "create_fail", !.ip = NULL, !.puts = <<s>>]]
          /\ UNCHANGED <<used, data>>
       \/ /\ isdir => r.addr # 0
          /\ dinode' = Iupdate(Iupdate(dinode, s, r.di), d, parent)
          /\ itable' = Unlock([Lock(itable, s, p) EXCEPT ![s].di = r.di], d, parent)
          /\ used' = r.used
          /\ data' = [x \in DataBlock |->
                CASE x = b -> data[b] \cup {<<loc[p].path[1], inum>>}
                  [] isdir /\ x = r.addr -> dots
                  [] OTHER -> data[x]]
          /\ loc' = [loc EXCEPT ![p] = [@ EXCEPT !.pc = "create_done", !.dp = NULL, !.puts = <<d>>]]
    /\ UNCHANGED <<cwd, ofile, calls, panic>>

CreateFail(p) ==
    LET d == loc[p].dp IN
    /\ Inside(p, "create_fail")
    /\ itable' = Unlock(itable, d, itable[d].di)
    /\ Return(p, <<d>>)
    /\ UNCHANGED <<diskVars, cwd, ofile, calls, panic>>

\* create() has returned the new inode, locked.
CreateDone(p) ==
    LET s == loc[p].ip IN
    /\ Inside(p, "create_done")
    /\ \/ /\ loc[p].call.op = "creat"
          /\ OpenLocked(p, s, itable[s].di)
       \/ /\ loc[p].call.op # "creat"
          /\ itable' = Unlock(itable, s, itable[s].di)
          /\ Return(p, <<s>>)
          /\ UNCHANGED <<diskVars, ofile>>
    /\ UNCHANGED <<cwd, calls, panic>>

-----------------------------------------------------------------------------
(* link() *)

\* MUTANT: link() keeps the inode locked while it looks for the new parent.
LinkKeepsLock(p) ==
    LET s == loc[p].dp
        di == [Loaded(s) EXCEPT !.nlink = @ + 1]
        new == loc[p].call.new IN
    /\ Inside(p, "link") /\ Ilock(s)
    /\ \/ /\ Loaded(s).type = "dir"
          /\ itable' = Unlock(itable, s, Loaded(s))
          /\ Return(p, <<s>>)
          /\ UNCHANGED dinode
       \/ /\ Loaded(s).type # "dir"
          /\ dinode' = Iupdate(dinode, s, di)
          /\ itable' = StartTable([Unlock(itable, s, di) EXCEPT ![s].lock = p], p, new)
          /\ loc' = [loc EXCEPT ![p] = [@ EXCEPT
                !.pc = "namex", !.ip = s, !.dp = StartSlot(p, new), !.path = Elements(new)]]
    /\ UNCHANGED <<used, data, cwd, ofile, calls, panic>>

\* The old path is a file: one more link, before the new entry is made.
Link(p) ==
    LET s == loc[p].dp
        di == [Loaded(s) EXCEPT !.nlink = @ + 1]
        new == loc[p].call.new IN
    /\ Inside(p, "link") /\ Ilock(s)
    /\ \/ /\ Loaded(s).type = "dir"
          /\ itable' = Unlock(itable, s, Loaded(s))
          /\ Return(p, <<s>>)
          /\ UNCHANGED dinode
       \/ /\ Loaded(s).type # "dir"
          /\ dinode' = Iupdate(dinode, s, di)
          /\ itable' = StartTable(Unlock(itable, s, di), p, new)
          /\ loc' = [loc EXCEPT ![p] = [@ EXCEPT
                !.pc = "namex", !.ip = s, !.dp = StartSlot(p, new), !.path = Elements(new)]]
    /\ UNCHANGED <<used, data, cwd, ofile, calls, panic>>

\* dirlink() in the new parent: the name is taken, or the entry is made.
LinkAdd(p) ==
    LET d == loc[p].dp
        di == Loaded(d)
        name == loc[p].path[1]
        t == Lock(itable, d, p) IN
    /\ Inside(p, "link_add") /\ Ilock(d)
    /\ \/ \E i \in Dirlookup(di, name) :
            /\ itable' = Iget(t, i)
            /\ Goto(p, "link_exists", <<SlotFor(t, i)>>)
            /\ UNCHANGED data
       \/ /\ Dirlookup(di, name) = {}
          /\ data' = [data EXCEPT ![di.addrs[1]] = @ \cup {<<name, itable[loc[p].ip].inum>>}]
          /\ itable' = Unlock(itable, d, di)
          /\ Return(p, <<d, loc[p].ip>>)
    /\ UNCHANGED <<dinode, used, cwd, ofile, calls, panic>>

LinkExists(p) ==
    LET d == loc[p].dp IN
    /\ Inside(p, "link_exists")
    /\ itable' = Unlock(itable, d, itable[d].di)
    /\ NotFound(p, <<d>>)
    /\ UNCHANGED <<diskVars, cwd, ofile, calls, panic>>

\* bad: take the link back.
LinkBad(p) ==
    LET s == loc[p].ip
        di == [Loaded(s) EXCEPT !.nlink = @ - 1] IN
    /\ Inside(p, "link_bad") /\ Ilock(s)
    /\ dinode' = Iupdate(dinode, s, di)
    /\ itable' = Unlock(itable, s, di)
    /\ Return(p, <<s>>)
    /\ UNCHANGED <<used, data, cwd, ofile, calls, panic>>

-----------------------------------------------------------------------------
(* unlink() *)

\* MUTANT: unlink() unlocks the parent before it locks the inode.
UnlinkLetsGo(p) ==
    LET d == loc[p].dp
        name == loc[p].path[1]
        found == IF name \in Dots THEN {} ELSE Dirlookup(Loaded(d), name)
        t == Unlock(itable, d, Loaded(d)) IN
    /\ Inside(p, "unlink") /\ Ilock(d)
    /\ \/ /\ found = {}
          /\ itable' = Unlock(itable, d, Loaded(d))
          /\ Return(p, <<d>>)
       \/ \E i \in found :
            /\ itable' = Iget(t, i)
            /\ loc' = [loc EXCEPT ![p] = [@ EXCEPT !.pc = "unlink_ip", !.ip = SlotFor(t, i)]]
    /\ UNCHANGED <<diskVars, cwd, ofile, calls, panic>>

\* The parent is locked and stays so while the inode is locked.
Unlink(p) ==
    LET d == loc[p].dp
        name == loc[p].path[1]
        found == IF name \in Dots THEN {} ELSE Dirlookup(Loaded(d), name)
        t == Lock(itable, d, p) IN
    /\ Inside(p, "unlink") /\ Ilock(d)
    /\ \/ /\ found = {}
          /\ itable' = Unlock(itable, d, Loaded(d))
          /\ Return(p, <<d>>)
       \/ \E i \in found :
            /\ itable' = Iget(t, i)
            /\ loc' = [loc EXCEPT ![p] = [@ EXCEPT !.pc = "unlink_ip", !.ip = SlotFor(t, i)]]
    /\ UNCHANGED <<diskVars, cwd, ofile, calls, panic>>

\* A directory must be empty.  Then the entry goes, with it the link that ..
\* of a directory is, and the parent is unlocked.
UnlinkIp(p) ==
    LET s == loc[p].ip
        d == loc[p].dp
        di == Loaded(s)
        dd == itable[d].di
        parent == IF di.type = "dir" THEN [dd EXCEPT !.nlink = @ - 1] ELSE dd
        entry == <<loc[p].path[1], itable[s].inum>> IN
    /\ Inside(p, "unlink_ip") /\ Ilock(s)
    /\ panic' = (di.nlink < 1)
    /\ \/ /\ di.type = "dir" /\ ~Isdirempty(di)
          /\ itable' = Unlock(itable, s, di)
          /\ loc' = [loc EXCEPT ![p] = [@ EXCEPT !.pc = "unlink_bad", !.ip = NULL, !.puts = <<s>>]]
          /\ UNCHANGED diskVars
       \/ /\ di.type = "dir" => Isdirempty(di)
          /\ data' = [data EXCEPT ![dd.addrs[1]] = @ \ {entry}]
          /\ dinode' = Iupdate(dinode, d, parent)
          /\ itable' = Unlock(Lock(itable, s, p), d, parent)
          /\ loc' = [loc EXCEPT ![p] = [@ EXCEPT !.pc = "unlink_dec", !.dp = NULL, !.puts = <<d>>]]
          /\ UNCHANGED used
    /\ UNCHANGED <<cwd, ofile, calls>>

UnlinkBad(p) ==
    LET d == loc[p].dp IN
    /\ Inside(p, "unlink_bad")
    /\ itable' = Unlock(itable, d, itable[d].di)
    /\ Return(p, <<d>>)
    /\ UNCHANGED <<diskVars, cwd, ofile, calls, panic>>

\* The inode, still locked, loses its link.
UnlinkDec(p) ==
    LET s == loc[p].ip
        di == [itable[s].di EXCEPT !.nlink = @ - 1] IN
    /\ Inside(p, "unlink_dec")
    /\ dinode' = Iupdate(dinode, s, di)
    /\ itable' = Unlock(itable, s, di)
    /\ Return(p, <<s>>)
    /\ UNCHANGED <<used, data, cwd, ofile, calls, panic>>

-----------------------------------------------------------------------------
(* The image mkfs makes: inodes and blocks are taken in turn *)

\* iappend() of a block to inode inum.
MkfsAppend(img, inum) ==
    LET di == img.dinode[inum]
        needInd == Len(di.addrs) >= NDIRECT /\ di.ind = 0
        b == IF needInd THEN img.freeblock + 1 ELSE img.freeblock
    IN  [img EXCEPT !.dinode[inum].addrs = Append(@, b),
                    !.dinode[inum].ind = IF needInd THEN img.freeblock ELSE @,
                    !.freeblock = b + 1]

MkfsIalloc(img, type) ==
    [img EXCEPT !.dinode[img.freeinode] = [FreeInode EXCEPT !.type = type, !.nlink = 1],
                !.freeinode = @ + 1]

\* A file with its entry in /.
MkfsFile(img, f) ==
    LET made == MkfsIalloc([img EXCEPT !.root = @ \cup {<<f.name, img.freeinode>>}], "file")
    IN  FoldLeft(LAMBDA m, k : MkfsAppend(m, img.freeinode), made, [k \in 1..f.size |-> k])

Mkfs ==
    LET blank == [dinode |-> [i \in Inum |-> FreeInode], freeinode |-> ROOTINO, freeblock |-> 1,
                  root |-> {<<".", ROOTINO>>, <<"..", ROOTINO>>}]
    IN  FoldLeft(MkfsFile, MkfsAppend(MkfsIalloc(blank, "dir"), ROOTINO), Files)

FsInit ==
    /\ dinode = Mkfs.dinode
    /\ used = 1..(Mkfs.freeblock - 1)
    /\ data = [b \in DataBlock |-> IF b = 1 THEN Mkfs.root ELSE {}]
    /\ itable = [s \in Slot |-> IF s = 1 THEN [NoInode EXCEPT !.inum = ROOTINO,
                                                              !.ref = Cardinality(Proc)]
                                ELSE NoInode]
    /\ cwd = [p \in Proc |-> 1]
    /\ ofile = [p \in Proc |-> [fd \in Fd |-> NULL]]
    /\ loc = [p \in Proc |-> NoCall]
    /\ calls = 0
    /\ panic = FALSE

\* All calls have been made.
Done == /\ calls = MaxCalls /\ \A p \in Proc : Inside(p, "idle")
        /\ UNCHANGED fsVars

FsNext ==
    \/ \E p \in Proc :
          \/ Iput(p) \/ IputTrunc(p) \/ IputFree(p) \/ IputDrop(p)
          \/ Namex(p) \/ NamexEnd(p) \/ Open(p) \/ Chdir(p)
          \/ Create(p) \/ CreateExists(p) \/ CreateIp(p) \/ CreateFail(p) \/ CreateDone(p)
          \/ Link(p) \/ LinkAdd(p) \/ LinkExists(p) \/ LinkBad(p)
          \/ Unlink(p) \/ UnlinkIp(p) \/ UnlinkBad(p) \/ UnlinkDec(p)
          \/ \E c \in Calls : Syscall(p, c)
          \/ \E fd \in Fd : Close(p, fd) \/ \E off \in 0..MAXFILE : SysWrite(p, fd, off)
    \/ Done

FsSpec == FsInit /\ [][FsNext]_fsVars

-----------------------------------------------------------------------------
(* Properties *)

\* The types of the state.
TypeOK ==
    LET Inode == [type : {"none", "file", "dir", "dev"}, nlink : Nat, addrs : Seq(DataBlock), ind : DataBlock \cup {0}]
    IN  /\ dinode \in [Inum -> Inode]
        /\ used \subseteq DataBlock
        /\ data \in [DataBlock -> SUBSET (STRING \X Inum)]
        /\ \A s \in Slot : /\ itable[s].di \in Inode /\ itable[s].ref \in Nat
                           /\ itable[s].inum \in Inum \cup {0}
                           /\ itable[s].lock \in Proc \cup {NULL}
        /\ cwd \in [Proc -> Slot]
        /\ ofile \in [Proc -> [Fd -> [ip : Slot, writable : BOOLEAN] \cup {NULL}]]

Count(S, P(_)) == Cardinality({x \in S : P(x)})

\* The pointers of process p to entry s: its current directory, open files, and
\* the local variables of the call it is in.
Pointers(p, s) ==
    Count({"cwd", "dp", "ip"}, LAMBDA v : CASE v = "cwd" -> cwd[p] = s
                                            [] v = "dp" -> loc[p].dp = s
                                            [] OTHER -> loc[p].ip = s)
    + Count(Fd, LAMBDA fd : ofile[p][fd] # NULL /\ ofile[p][fd].ip = s)
    + Count(DOMAIN loc[p].puts, LAMBDA k : loc[p].puts[k] = s)

\* ip->ref "tracks the number of in-memory pointers to the entry" through every
\* success and failure path of the calls: an entry is recycled when nobody
\* points to it, and not before; and no inode has two entries.  (With the
\* types.)
RefsExact ==
    /\ TypeOK
    /\ \A s \in Slot : itable[s].ref = MapThenSumSet(LAMBDA p : Pointers(p, s), Proc)
    /\ \A s, t \in Slot : itable[s].ref > 0 /\ itable[s].inum = itable[t].inum => s = t

\* ilock() never finds a free inode behind a reference, so that it never
\* panics with "ilock: no type".
IlockFindsType ==
    \A p \in Proc : Wants(p) # NULL /\ itable[Wants(p)].lock = NULL => Loaded(Wants(p)).type # "none"

\* An unlocked valid entry is a copy of the inode on the disk, also when the
\* inode was freed and allocated again while the entry was in the table.
CopyFaithful ==
    \A s \in Slot : itable[s].valid /\ itable[s].lock = NULL /\ itable[s].ref > 0
                        => itable[s].di = dinode[itable[s].inum]

\* The bitmap marks exactly the blocks of the inodes on the disk, and no block
\* belongs to two of them or twice to one, even when the disk is full.
BlocksExact ==
    /\ used = UNION {BlocksOf(dinode[i]) : i \in Inum}
    /\ \A i, j \in Inum : i # j => BlocksOf(dinode[i]) \cap BlocksOf(dinode[j]) = {}
    /\ \A i \in Inum : Cardinality(BlocksOf(dinode[i]))
                        = Len(dinode[i].addrs) + (IF dinode[i].ind = 0 THEN 0 ELSE 1)

\* The directories that a path from / can reach.
Subdirs(S) == {i \in Inum : dinode[i].type = "dir" /\ \E d \in S : \E e \in Entries(dinode[d]) :
                                                        e[2] = i /\ e[1] \notin Dots}
Reachable == FoldLeft(LAMBDA S, k : S \cup Subdirs(S), {ROOTINO}, [k \in Inum |-> k])

\* Whatever calls run at the same time, every name a path can reach leads to an
\* allocated inode with enough links to stay allocated, and no directory has
\* two entries of one name.  nlink counts the names but . and .. of / , and
\* mkfs gives / one link more.  So unlink() never panics for want of a link,
\* nor iput() when it frees an inode.
TreeSound ==
    LET R == Reachable
        names == UNION {{<<d, e[1], e[2]>> : e \in Entries(dinode[d])} : d \in R}
        links == {n \in names : n[2] # "." /\ ~(n[1] = ROOTINO /\ n[2] = "..")}
    IN  /\ ~panic
        /\ \A i \in {n[3] : n \in links} :
              /\ dinode[i].type # "none"
              /\ dinode[i].nlink >= Cardinality({n \in links : n[3] = i}) + (IF i = ROOTINO THEN 1 ELSE 0)
        /\ \A n, m \in names : n[1] = m[1] /\ n[2] = m[2] => n = m

\* No group of processes waits for inode locks that only the group holds:
\* unlink() and create() lock a parent before its child, and namex() never
\* holds one lock while it waits for another.
NoLockCycle ==
    LET Blocked(p, q) == Wants(p) # NULL /\ itable[Wants(p)].lock = q
    IN  \A G \in (SUBSET Proc) \ {{}} : \E p \in G : \A q \in G : ~Blocked(p, q)
=============================================================================
