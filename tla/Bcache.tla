------------------------------- MODULE Bcache -------------------------------
(***************************************************************************)
(* The buffer cache (kernel/bio.c) with the sleep lock of each buffer      *)
(* (kernel/sleeplock.c).  A region under bcache.lock or under the spin     *)
(* lock of a sleep lock is one step.  The disk takes a step to start and   *)
(* one to finish.                                                          *)
(*                                                                         *)
(* The callers are those of the kernel: a process has one buffer at a      *)
(* time, and a buffer that it changed is written, or pinned until somebody *)
(* writes it (log_write() and install_trans()), before it lets go of it.   *)
(***************************************************************************)
EXTENDS Integers, Sequences, FiniteSets, SequencesExt

CONSTANTS
    BProc, DiskBlock,
    NBUF,
    MAXPIN,      \* buffers the log has pinned at most
    Changed,     \* the blocks that processes change; all are alike
    MaxVersion,  \* changes of a block
    NOBLOCK

ASSUME BcacheSizes ==
    /\ NBUF \in Nat /\ NBUF >= MAXPIN + Cardinality(BProc) /\ MaxVersion \in Nat
    /\ NOBLOCK \notin DiskBlock /\ Changed \subseteq DiskBlock

VARIABLES
    lru,     \* the list of buffers, most recently used first
    bufs,    \* blockno, valid, refcnt, holder of lock, data, and whether it is pinned
    stored,  \* what the disk has
    bp,      \* what each process does, and with which buffer
    latest   \* the last contents that was given to each block

bcacheVars == <<lru, bufs, stored, bp, latest>>

NoOne == 0
Buf == 1..NBUF
Idle == [pc |-> "idle", b |-> 0]

\* binit()
BcacheInit ==
    /\ lru = [i \in Buf |-> NBUF + 1 - i]
    /\ bufs = [i \in Buf |-> [blockno |-> NOBLOCK, valid |-> FALSE, refcnt |-> 0,
                              holder |-> NoOne, data |-> 0, pins |-> 0]]
    /\ stored = [k \in DiskBlock |-> 0] /\ latest = [k \in DiskBlock |-> 0]
    /\ bp = [p \in BProc |-> Idle]

Go(p, pc) == bp' = [bp EXCEPT ![p].pc = pc]
Doing(p, pc) == bp[p].pc = pc
My(p) == bufs[bp[p].b]

-----------------------------------------------------------------------------
Cached(k) == {i \in Buf : bufs[i].blockno = k}

\* The position in the list of the buffer bget() recycles.
Recycled == LET unused == {i \in Buf : bufs[lru[i]].refcnt = 0}
            IN  CHOOSE i \in unused : \A j \in unused : j <= i

\* bget() up to acquiresleep(): a hit takes a reference, a miss recycles.
Bget(p, k) ==
    /\ Doing(p, "idle")
    /\ \/ \E i \in Cached(k) :
             /\ bufs' = [bufs EXCEPT ![i].refcnt = @ + 1]
             /\ bp' = [bp EXCEPT ![p] = [pc |-> "lock", b |-> i]]
       \/ /\ Cached(k) = {}
          /\ LET i == lru[Recycled] IN
             /\ bufs' = [bufs EXCEPT ![i].blockno = k, ![i].valid = FALSE, ![i].refcnt = 1, ![i].data = 0]
             /\ bp' = [bp EXCEPT ![p] = [pc |-> "lock", b |-> i]]
    /\ UNCHANGED <<lru, stored, latest>>

\* MUTANT: a waiter is let in without looking at the lock again.
AcquiresleepIf(p) ==
    /\ Doing(p, "lock")
    /\ bufs' = [bufs EXCEPT ![bp[p].b].holder = p]
    /\ Go(p, IF My(p).valid THEN "have" ELSE "read")
    /\ UNCHANGED <<lru, stored, latest>>

\* acquiresleep(): the end of its loop; bread() then looks at valid.
Acquiresleep(p) ==
    /\ Doing(p, "lock") /\ My(p).holder = NoOne
    /\ bufs' = [bufs EXCEPT ![bp[p].b].holder = p]
    /\ Go(p, IF My(p).valid THEN "have" ELSE "read")
    /\ UNCHANGED <<lru, stored, latest>>

\* bread(): virtio_disk_rw(b, 0), then valid is set.
BreadDone(p) ==
    /\ Doing(p, "read")
    /\ bufs' = [bufs EXCEPT ![bp[p].b].data = stored[My(p).blockno], ![bp[p].b].valid = TRUE]
    /\ Go(p, "have")
    /\ UNCHANGED <<lru, stored, latest>>

\* The caller changes the contents.
Change(p) ==
    /\ Doing(p, "have") /\ My(p).blockno \in Changed /\ latest[My(p).blockno] < MaxVersion
    /\ bufs' = [bufs EXCEPT ![bp[p].b].data = latest[My(p).blockno] + 1]
    /\ latest' = [latest EXCEPT ![My(p).blockno] = @ + 1]
    /\ Go(p, "dirty")
    /\ UNCHANGED <<lru, stored>>

\* log_write() pins a changed buffer unless it is in the log already.
Bpin(p) ==
    /\ Doing(p, "dirty")
    /\ My(p).pins > 0 \/ Cardinality({i \in Buf : bufs[i].pins > 0}) < MAXPIN
    /\ bufs' = IF My(p).pins > 0 THEN bufs
               ELSE [bufs EXCEPT ![bp[p].b].refcnt = @ + 1, ![bp[p].b].pins = @ + 1]
    /\ Go(p, "have")
    /\ UNCHANGED <<lru, stored, latest>>

\* bwrite(), started and finished; install_trans() unpins afterwards.
Bwrite(p) == /\ bp[p].pc \in {"have", "dirty"} /\ My(p).holder = p
             /\ Go(p, "write")
             /\ UNCHANGED <<lru, bufs, stored, latest>>

BwriteDone(p) ==
    /\ Doing(p, "write")
    /\ stored' = [stored EXCEPT ![My(p).blockno] = My(p).data]
    /\ Go(p, IF My(p).pins > 0 THEN "unpin" ELSE "have")
    /\ UNCHANGED <<lru, bufs, latest>>

Bunpin(p) ==
    /\ Doing(p, "unpin")
    /\ bufs' = [bufs EXCEPT ![bp[p].b].refcnt = @ - 1, ![bp[p].b].pins = @ - 1]
    /\ Go(p, "have")
    /\ UNCHANGED <<lru, stored, latest>>

\* brelse(): releasesleep(), and then the reference under bcache.lock.
Releasesleep(p) ==
    /\ Doing(p, "have") /\ My(p).holder = p
    /\ bufs' = [bufs EXCEPT ![bp[p].b].holder = NoOne]
    /\ Go(p, "release")
    /\ UNCHANGED <<lru, stored, latest>>

ToFront(b) == <<b>> \o SelectSeq(lru, LAMBDA x : x # b)

Brelse(p) ==
    LET b == bp[p].b IN
    /\ Doing(p, "release")
    /\ bufs' = [bufs EXCEPT ![b].refcnt = @ - 1]
    /\ lru' = IF bufs[b].refcnt = 1 THEN ToFront(b) ELSE lru
    /\ bp' = [bp EXCEPT ![p] = Idle]
    /\ UNCHANGED <<stored, latest>>

BcacheNext ==
    \E p \in BProc :
        \/ \E k \in DiskBlock : Bget(p, k)
        \/ Acquiresleep(p) \/ BreadDone(p) \/ Change(p) \/ Bpin(p)
        \/ Bwrite(p) \/ BwriteDone(p) \/ Bunpin(p) \/ Releasesleep(p) \/ Brelse(p)

-----------------------------------------------------------------------------
(* Properties *)

\* A block is in one buffer at most, a buffer counts every process that has it
\* or waits for it and every pin, and one is always left to be recycled.
BuffersExact ==
    /\ \A k \in DiskBlock : Cardinality(Cached(k)) <= 1
    /\ \A i \in Buf : bufs[i].refcnt = bufs[i].pins + Cardinality({p \in BProc : bp[p].b = i})
    /\ ToSet(lru) = Buf
    /\ \A p \in BProc : Doing(p, "idle") => \E i \in Buf : bufs[i].refcnt = 0

\* Whoever has a buffer has it alone and sees the last contents that anybody
\* gave to its block, though the block may have left the cache and come back
\* since; for the cache holds each block once and counts its users exactly.
NoStaleRead ==
    /\ BuffersExact
    /\ \A p \in BProc : bp[p].pc \in {"have", "dirty", "write", "unpin"} =>
          My(p).holder = p /\ My(p).data = latest[My(p).blockno]
=============================================================================
