-------------------------------- MODULE Log --------------------------------
(***************************************************************************)
(* The redo log of kernel/log.c, on top of the part of the buffer cache    *)
(* (kernel/bio.c) it depends on: a cached block that is not pinned may be  *)
(* recycled at any moment and read again from the disk.                    *)
(*                                                                         *)
(* One action is one critical section of log.lock, or one bwrite(): a      *)
(* crash may fall between any two block writes, and may tear the one in    *)
(* flight.  The header fits in one sector (sizeof(struct logheader) < 512) *)
(* and is written atomically.                                              *)
(***************************************************************************)
EXTENDS Integers, Sequences, FiniteSets

CONSTANTS Proc,         \* processes that make file-system calls
          Block,        \* home blocks, those outside the log area
          Value,        \* contents of a block
          MkfsImage,    \* contents of the home blocks that mkfs wrote
          LOGSIZE,      \* param.h: size of the header's block[] array
          MAXOPBLOCKS,  \* param.h: most blocks one call logs
          NLOG,         \* sb->nlog: blocks of the log area, header included
          NotCached,    \* no buffer holds the block
          Torn,         \* contents of a block whose write was cut by a crash
          NoProc,
          MaxOps,       \* bound: calls a process makes between two boots
          MaxCrash      \* bound: crashes of a behaviour

ASSUME LogConstants ==
    /\ MkfsImage \in [Block -> Value]
    /\ LOGSIZE \in Nat /\ MAXOPBLOCKS \in Nat /\ NLOG \in Nat
    /\ MAXOPBLOCKS <= LOGSIZE
    /\ MaxOps \in Nat /\ MaxCrash \in Nat
    /\ IsFiniteSet(Proc)
    /\ NotCached \notin Value \cup {Torn}
    /\ Torn \notin Value
    /\ NoProc \notin Proc

VARIABLES disk,         \* home blocks on the disk
          diskLog,      \* log blocks on the disk (log.start+1 ...)
          diskHead,     \* block numbers in the header on the disk
          cache,        \* buffer contents, or NotCached
          pin,          \* references bpin() holds on a buffer
          lh,           \* log.lh: block[0 .. n-1]
          outstanding,  \* log.outstanding
          committing,   \* log.committing
          pc,           \* where each process is in its call
          wrote,        \* home blocks the current call of a process has logged
          ops,          \* calls begun since boot
          phase, tail,  \* position in commit() or recover_from_log()
          committer,    \* the process that runs commit()
          recovering,   \* argument of install_trans()
          panic,        \* TRUE once log.c has called panic()
          crashes

diskVars == <<disk, diskLog, diskHead>>
opVars == <<pc, wrote, ops>>
commitVars == <<phase, tail, committer, recovering>>
vars == <<disk, diskLog, diskHead, cache, pin, lh, outstanding, committing,
          pc, wrote, ops, phase, tail, committer, recovering, panic, crashes>>

\* What bread() returns for a home block.
Read(b) == IF cache[b] = NotCached THEN disk[b] ELSE cache[b]

Logged == {lh[i] : i \in DOMAIN lh}

-----------------------------------------------------------------------------
\* mkfs: an empty log; the first boot runs initlog() like any other.
Init == /\ disk = MkfsImage
        /\ diskLog \in [1..LOGSIZE -> {Torn}]
        /\ diskHead = <<>>
        /\ cache = [b \in Block |-> NotCached]
        /\ pin = [b \in Block |-> 0]
        /\ lh = <<>>
        /\ outstanding = 0
        /\ committing = FALSE
        /\ pc = [p \in Proc |-> "idle"]
        /\ wrote = [p \in Proc |-> {}]
        /\ ops = [p \in Proc |-> 0]
        /\ phase = "read_head"
        /\ tail = 0
        /\ committer = NoProc
        /\ recovering = TRUE
        /\ panic = FALSE
        /\ crashes = 0

\* log.lock can be taken: initlog() is over and no panic() holds the lock.
Up == ~recovering /\ ~panic

\* MUTANT: the wakeup is forgotten.
WakeupNobody(s) == s

\* wakeup(&log): every process asleep in begin_op() looks again.
Wakeup(s) == [q \in Proc |-> IF s[q] = "asleep" THEN "woken" ELSE s[q]]

\* MUTANT: the space of the call that asks is not counted.
MustWaitOffByOne == committing \/ Len(lh) + outstanding * MAXOPBLOCKS > LOGSIZE

\* The two conditions under which begin_op() sleeps.
MustWait == \/ committing
            \/ Len(lh) + (outstanding + 1) * MAXOPBLOCKS > LOGSIZE

\* One pass through the loop of begin_op().
BeginOp(p) ==
    /\ Up
    /\ \/ pc[p] = "idle" /\ ops[p] < MaxOps
       \/ pc[p] = "woken"
    /\ ops' = [ops EXCEPT ![p] = IF pc[p] = "idle" THEN @ + 1 ELSE @]
    /\ IF MustWait
       THEN /\ pc' = [pc EXCEPT ![p] = "asleep"]
            /\ UNCHANGED <<outstanding, wrote>>
       ELSE /\ outstanding' = outstanding + 1
            /\ pc' = [pc EXCEPT ![p] = "inop"]
            /\ wrote' = [wrote EXCEPT ![p] = {}]
    /\ UNCHANGED <<diskVars, cache, pin, lh, committing, commitVars, panic, crashes>>

TooBig == Len(lh) >= LOGSIZE \/ Len(lh) >= NLOG - 1

\* MUTANT: the buffer is logged but not pinned.
RecordWithoutPin(b) == /\ lh' = IF b \in Logged THEN lh ELSE Append(lh, b)
                       /\ UNCHANGED pin
\* MUTANT: no absorption, a block takes a slot for every write.
RecordNoAbsorption(b) == lh' = Append(lh, b) /\ pin' = [pin EXCEPT ![b] = @ + 1]

\* log_write()'s update of the header: absorb the write or add the block.
Record(b) == IF b \in Logged
             THEN UNCHANGED <<lh, pin>>
             ELSE lh' = Append(lh, b) /\ pin' = [pin EXCEPT ![b] = @ + 1]

\* bread(); modify; log_write(); brelse().  The sleep-lock of the buffer makes
\* the four one step for every other process.  After a panic the buffer stays
\* locked, so its contents are never seen again.
LogWrite(p, b, v) ==
    /\ Up
    /\ pc[p] = "inop"
    /\ Cardinality(wrote[p] \cup {b}) <= MAXOPBLOCKS
    /\ IF TooBig \/ outstanding < 1
       THEN panic' = TRUE /\ UNCHANGED <<cache, lh, pin, wrote>>
       ELSE /\ cache' = [cache EXCEPT ![b] = v]
            /\ Record(b)
            /\ wrote' = [wrote EXCEPT ![p] = @ \cup {b}]
            /\ UNCHANGED panic
    /\ UNCHANGED <<diskVars, outstanding, committing, pc, ops, commitVars, crashes>>

\* end_op() up to the call of commit(), with commit()'s test of log.lh.n.
EndOp(p) ==
    /\ Up
    /\ pc[p] = "inop"
    /\ outstanding' = outstanding - 1
    /\ wrote' = [wrote EXCEPT ![p] = {}]
    /\ \/ /\ committing
          /\ panic' = TRUE
          /\ UNCHANGED <<pc, committing, committer, phase>>
       \/ /\ ~committing /\ outstanding = 1
          /\ committing' = TRUE
          /\ committer' = p
          /\ pc' = [pc EXCEPT ![p] = "commit"]
          /\ phase' = IF lh = <<>> THEN "done" ELSE "write_log"
          /\ UNCHANGED panic
       \/ /\ ~committing /\ outstanding # 1
          /\ pc' = Wakeup([pc EXCEPT ![p] = "idle"])
          /\ UNCHANGED <<committing, committer, phase, panic>>
    /\ UNCHANGED <<diskVars, cache, pin, lh, ops, tail, recovering, crashes>>

-----------------------------------------------------------------------------
(* commit(), run by `committer' without log.lock.                          *)

\* MUTANT: the loops of write_log() and install_trans() stop one block early.
LoopDoneEarly == tail + 1 >= Len(lh)

\* The loops over the transaction's blocks end here.
LoopDone == tail = Len(lh)

\* One iteration of write_log().
WriteLog ==
    /\ phase = "write_log"
    /\ tail < Len(lh)
    /\ diskLog' = [diskLog EXCEPT ![tail + 1] = Read(lh[tail + 1])]
    /\ cache' = [cache EXCEPT ![lh[tail + 1]] = Read(lh[tail + 1])]
    /\ tail' = tail + 1
    /\ UNCHANGED <<disk, diskHead, pin, lh, outstanding, committing, opVars,
                   phase, committer, recovering, panic, crashes>>

\* The first write_head() of commit(): the commit point.
WriteHead ==
    /\ phase = "write_log"
    /\ LoopDone
    /\ diskHead' = lh
    /\ phase' = "install"
    /\ tail' = 0
    /\ UNCHANGED <<disk, diskLog, cache, pin, lh, outstanding, committing,
                   opVars, committer, recovering, panic, crashes>>

\* bunpin(), which install_trans() skips at boot: nothing is pinned yet.
Unpin(b) == IF recovering THEN pin ELSE [pin EXCEPT ![b] = @ - 1]

\* One iteration of install_trans(recovering).
Install ==
    /\ phase = "install"
    /\ tail < Len(lh)
    /\ disk' = [disk EXCEPT ![lh[tail + 1]] = diskLog[tail + 1]]
    /\ cache' = [cache EXCEPT ![lh[tail + 1]] = diskLog[tail + 1]]
    /\ pin' = Unpin(lh[tail + 1])
    /\ tail' = tail + 1
    /\ UNCHANGED <<diskLog, diskHead, lh, outstanding, committing, opVars,
                   phase, committer, recovering, panic, crashes>>

\* log.lh.n = 0; write_head(): the end of commit() and of recover_from_log().
ClearHead ==
    /\ phase = "install"
    /\ LoopDone
    /\ lh' = <<>>
    /\ diskHead' = <<>>
    /\ tail' = 0
    /\ phase' = IF recovering THEN "none" ELSE "done"
    /\ recovering' = FALSE
    /\ UNCHANGED <<disk, diskLog, cache, pin, outstanding, committing, opVars,
                   committer, panic, crashes>>

\* The end of end_op(), after commit() has returned.
CommitDone ==
    /\ phase = "done"
    /\ committing' = FALSE
    /\ pc' = Wakeup([pc EXCEPT ![committer] = "idle"])
    /\ phase' = "none"
    /\ committer' = NoProc
    /\ UNCHANGED <<diskVars, cache, pin, lh, outstanding, wrote, ops, tail,
                   recovering, panic, crashes>>

-----------------------------------------------------------------------------
(* The buffer cache.                                                       *)

\* bread() by anyone, at any time: reads are not part of a transaction.
Bread(b) ==
    /\ ~recovering
    /\ cache[b] = NotCached
    /\ cache' = [cache EXCEPT ![b] = disk[b]]
    /\ UNCHANGED <<diskVars, pin, lh, outstanding, committing, opVars,
                   commitVars, panic, crashes>>

\* bget() recycles an unreferenced buffer for another block.
Evict(b) ==
    /\ cache[b] # NotCached
    /\ pin[b] = 0
    /\ cache' = [cache EXCEPT ![b] = NotCached]
    /\ UNCHANGED <<diskVars, pin, lh, outstanding, committing, opVars,
                   commitVars, panic, crashes>>

-----------------------------------------------------------------------------
(* Crash and recovery.                                                     *)

\* The block write a crash may cut short: none, a log block or a home block.
TornLog == IF phase = "write_log" /\ tail < Len(lh)
           THEN {diskLog, [diskLog EXCEPT ![tail + 1] = Torn]}
           ELSE {diskLog}
TornDisk == IF phase = "install" /\ tail < Len(lh)
            THEN {disk, [disk EXCEPT ![lh[tail + 1]] = Torn]}
            ELSE {disk}

\* Power loss at any moment, and the reboot up to initlog().
Crash ==
    /\ crashes < MaxCrash
    /\ crashes' = crashes + 1
    /\ diskLog' \in TornLog
    /\ disk' \in TornDisk
    /\ cache' = [b \in Block |-> NotCached]
    /\ pin' = [b \in Block |-> 0]
    /\ lh' = <<>>
    /\ outstanding' = 0
    /\ committing' = FALSE
    /\ pc' = [p \in Proc |-> "idle"]
    /\ wrote' = [p \in Proc |-> {}]
    /\ ops' = [p \in Proc |-> 0]
    /\ phase' = "read_head"
    /\ tail' = 0
    /\ committer' = NoProc
    /\ recovering' = TRUE
    /\ panic' = FALSE
    /\ UNCHANGED diskHead

\* read_head(), the first step of recover_from_log().
ReadHead ==
    /\ phase = "read_head"
    /\ lh' = diskHead
    /\ phase' = "install"
    /\ UNCHANGED <<diskVars, cache, pin, outstanding, committing, opVars, tail,
                   committer, recovering, panic, crashes>>

-----------------------------------------------------------------------------
CommitStep == WriteLog \/ WriteHead \/ Install \/ ClearHead \/ CommitDone

Next == \/ \E p \in Proc : BeginOp(p) \/ EndOp(p)
        \/ \E p \in Proc, b \in Block, v \in Value : LogWrite(p, b, v)
        \/ CommitStep
        \/ \E b \in Block : Bread(b) \/ Evict(b)
        \/ Crash
        \/ ReadHead

Spec == Init /\ [][Next]_vars

\* A process that is runnable is eventually scheduled, and a call that has
\* begun ends: no file-system call waits for anything but locks and the disk.
\* Nobody has to make a call.
Fairness == /\ WF_vars(CommitStep)
            /\ WF_vars(ReadHead)
            /\ \A p \in Proc : /\ WF_vars(pc[p] = "woken" /\ BeginOp(p))
                               /\ WF_vars(EndOp(p))

FairSpec == Spec /\ Fairness

-----------------------------------------------------------------------------
(* Properties.                                                             *)

Phases == {"none", "write_log", "install", "done", "read_head"}

TypeOK == /\ disk \in [Block -> Value \cup {Torn}]
          /\ diskLog \in [1..LOGSIZE -> Value \cup {Torn}]
          /\ diskHead \in Seq(Block) /\ Len(diskHead) <= LOGSIZE
          /\ cache \in [Block -> Value \cup {Torn, NotCached}]
          /\ pin \in [Block -> Nat]
          /\ lh \in Seq(Block) /\ Len(lh) <= LOGSIZE
          /\ outstanding \in Nat
          /\ committing \in BOOLEAN
          /\ pc \in [Proc -> {"idle", "asleep", "woken", "inop", "commit"}]
          /\ wrote \in [Proc -> SUBSET Block]
          /\ ops \in [Proc -> Nat]
          /\ phase \in Phases
          /\ tail \in 0..Len(lh)
          /\ committer \in Proc \cup {NoProc}
          /\ recovering \in BOOLEAN
          /\ panic \in BOOLEAN
          /\ crashes \in Nat

\* Calls between begin_op() and end_op().
Active == {p \in Proc : pc[p] = "inop"}

\* What recover_from_log() would leave on the disk if power failed now.
RecoveredDisk ==
    [b \in Block |-> IF \E i \in DOMAIN diskHead : diskHead[i] = b
                     THEN diskLog[CHOOSE i \in DOMAIN diskHead : diskHead[i] = b]
                     ELSE disk[b]]

\* What a reader sees, or will see once recovery is over.
CurrentDisk == IF recovering THEN RecoveredDisk ELSE [b \in Block |-> Read(b)]

AD == INSTANCE AtomicDisk WITH durable <- RecoveredDisk,
                               current <- CurrentDisk,
                               active <- Active

\* Crash atomicity of log.c: under every interleaving of calls, commit steps,
\* cache evictions and crashes (during recovery too), the log implements a disk
\* on which all finished calls become durable in one step, while no call is
\* open, and on which nothing else ever changes what a reader sees.
AtomicSpec == AD!Spec

\* "The logging system only commits when there are no FS system calls active"
\* (log.c:13): begin_op() and end_op() keep commit() and open calls apart.
NoCommitWhileActive == committing => Active = {} /\ outstanding = 0

\* A block that a crash tore is never seen by a reader after recovery, and never
\* reaches the state the next boot would recover to.
NeverTorn == /\ Torn \notin {RecoveredDisk[b] : b \in Block}
             /\ Torn \notin {CurrentDisk[b] : b \in Block}

\* bpin() in log_write() and bunpin() in install_trans() balance: a buffer holds
\* one reference from its first log_write() until its block is at home on the
\* disk, and none at any other time, so that pins never fill the cache.
PinsExact ==
    \A b \in Block :
        pin[b] = IF ~recovering /\ \E i \in DOMAIN lh :
                                      lh[i] = b /\ (phase = "install" => i > tail)
                 THEN 1 ELSE 0

\* begin_op() never sleeps with nobody left to wake it: while a process sleeps
\* on &log there is an open call, or a commit, whose end wakes it.
NoLostWakeup == \A p \in Proc : pc[p] = "asleep" => committing \/ outstanding > 0

\* When the end_op() that ran commit() returns, every block its transaction
\* wrote is at home on the disk ("commits if this was the last outstanding
\* operation", log.c:145): disk, cache and recoverable state agree.
CommittedOnReturn ==
    phase = "done" => \A b \in Block : Read(b) = disk[b] /\ RecoveredDisk[b] = disk[b]

-----------------------------------------------------------------------------
(* The inductive invariant behind the properties above.                    *)

Distinct(s) == \A i, j \in DOMAIN s : s[i] = s[j] => i = j

\* Which flags and headers go with each phase of commit() and recovery.
PhaseInv ==
    /\ recovering => phase \in {"read_head", "install"} /\ ~committing
    /\ ~recovering => (committing <=> phase \in {"write_log", "install", "done"})
    /\ ~recovering => phase # "read_head"
    /\ committing => committer \in Proc /\ pc[committer] = "commit"
    /\ phase \in {"none", "write_log", "done"} => diskHead = <<>>
    /\ phase = "install" => diskHead = lh
    /\ phase \in {"read_head", "done"} => lh = <<>>
    /\ phase = "none" /\ outstanding = 0 => lh = <<>>
    /\ phase \notin {"write_log", "install"} => tail = 0

\* Open calls are counted exactly, and only while nothing commits.
CallInv == /\ outstanding = Cardinality(Active)
           /\ committing \/ recovering => Active = {}
           /\ recovering => \A p \in Proc : pc[p] = "idle"

\* A cached block differs from the disk only while it is pinned.
CacheInv == \A b \in Block :
    /\ pin[b] > 0 => cache[b] # NotCached
    /\ pin[b] = 0 => Read(b) = disk[b]

\* How far the copies have come: log blocks hold what readers see, and the
\* installed home blocks hold what the log blocks hold.
CopyInv ==
    /\ phase = "write_log" => \A i \in 1..tail : diskLog[i] = Read(lh[i])
    /\ phase = "install" /\ ~recovering
          => \A i \in DOMAIN lh : diskLog[i] = Read(lh[i])
    /\ phase = "install" => \A i \in 1..tail : disk[lh[i]] = diskLog[i]

\* Torn blocks are confined to blocks that will be written again.
TornInv ==
    /\ \A i \in DOMAIN diskHead : diskLog[i] \in Value
    /\ \A b \in Block : disk[b] \in Value \/ \E i \in DOMAIN diskHead : diskHead[i] = b
    /\ \A b \in Block : cache[b] # Torn

\* The safety argument of log.c in one formula: every step of a call, of
\* commit(), of recovery or of a crash preserves it.
LogInv == /\ TypeOK
          /\ Distinct(lh) /\ Distinct(diskHead)
          /\ PhaseInv /\ CallInv /\ PinsExact /\ CacheInv /\ CopyInv /\ TornInv
          /\ NoLostWakeup
=============================================================================
