-------------------------------- MODULE Pipe --------------------------------
(***************************************************************************)
(* One pipe of kernel/pipe.c, from pipealloc() to the kfree() in           *)
(* pipeclose(), with the processes that hold its ends, the kills that      *)
(* interrupt them, and the sleep() and wakeup() on &pi->nread and          *)
(* &pi->nwrite.  Both counters are unsigned and wrap around at WRAP.       *)
(***************************************************************************)
EXTENDS Naturals, Sequences, FiniteSets

CONSTANTS Proc,
          Byte,
          PIPESIZE,
          WRAP,       \* 2^32, the range of uint
          MaxCount,   \* bound on the n of read() and write()
          NULL

ASSUME PipeConstants ==
    /\ PIPESIZE \in Nat \ {0} /\ WRAP \in Nat /\ MaxCount \in Nat
    /\ WRAP % PIPESIZE = 0 /\ WRAP >= 2 * PIPESIZE
    /\ Proc # {} /\ NULL \notin Proc /\ Byte # {}

VARIABLES data, nread, nwrite, readopen, writeopen,  \* struct pipe
          lock,      \* the process that holds pi->lock, or NULL
          freed,     \* the page of the pipe went back to the allocator
          readers,   \* processes with a descriptor of the read end
          writers,   \* processes with a descriptor of the write end
          pc,        \* where a process stands in piperead() or pipewrite()
          left,      \* n - i of its call
          killed,    \* p->killed
          last       \* the byte that piperead() took out last

pi == <<data, nread, nwrite, readopen, writeopen>>
vars == <<pi, lock, freed, readers, writers, pc, left, killed, last>>

\* What a fresh page holds does not matter: it is never read.
Junk == CHOOSE b \in Byte : TRUE

\* pipealloc(); after a few forks every process holds both descriptors.
Init == /\ data = [i \in 0..(PIPESIZE - 1) |-> Junk]
        /\ nread = 0 /\ nwrite = 0
        /\ readopen = TRUE /\ writeopen = TRUE
        /\ lock = NULL /\ freed = FALSE
        /\ readers = Proc /\ writers = Proc
        /\ pc = [p \in Proc |-> "idle"]
        /\ left = [p \in Proc |-> 0]
        /\ killed = [p \in Proc |-> FALSE]
        /\ last = Junk

Empty == nread = nwrite

Full == nwrite = (nread + PIPESIZE) % WRAP

\* MUTANT: the index is advanced before the byte is taken.
OldestNext == data[(nread + 1) % PIPESIZE]

\* The byte that is read next.
Oldest == data[nread % PIPESIZE]

\* MUTANT: nobody is woken.
WakeupNoReader(p, l) == [pc EXCEPT ![p] = l]

\* The labels of all processes after wakeup() on a channel, where p moves to l.
WakeupReaders(p, l) ==
    [q \in Proc |-> IF q = p THEN l ELSE IF pc[q] = "read_sleep" THEN "read_lock" ELSE pc[q]]

\* MUTANT: a reader wakes other readers instead of the writers.
WakeupWritersWrong(p, l) == WakeupReaders(p, l)

WakeupWriters(p, l) ==
    [q \in Proc |-> IF q = p THEN l ELSE IF pc[q] = "write_sleep" THEN "write_lock" ELSE pc[q]]

\* sys_read() and sys_write() of n bytes.
Call(p, n, l) ==
    /\ pc[p] = "idle" /\ ~killed[p]
    /\ IF l = "read_lock" THEN p \in readers ELSE p \in writers
    /\ pc' = [pc EXCEPT ![p] = l]
    /\ left' = [left EXCEPT ![p] = n]
    /\ UNCHANGED <<pi, lock, freed, readers, writers, killed, last>>

\* acquire(&pi->lock), when the call begins and when sleep() returns.
Lock(p) ==
    /\ lock = NULL
    /\ lock' = p
    /\ \/ pc[p] = "read_lock" /\ pc' = [pc EXCEPT ![p] = "read_wait"]
       \/ pc[p] = "write_lock" /\ pc' = [pc EXCEPT ![p] = "write_loop"]
    /\ UNCHANGED <<pi, freed, readers, writers, left, killed, last>>

-----------------------------------------------------------------------------
(* pipewrite().                                                            *)

Writing(p, l) == pc[p] = l /\ lock = p

\* return -1, without a wakeup.
WriteFail(p) ==
    /\ Writing(p, "write_loop") /\ left[p] > 0
    /\ ~readopen \/ killed[p]
    /\ pc' = [pc EXCEPT ![p] = "idle"]
    /\ lock' = NULL
    /\ UNCHANGED <<pi, freed, readers, writers, left, killed, last>>

\* A kill that comes after this check is not seen until the next round.
WriteCheck(p) ==
    /\ Writing(p, "write_loop") /\ left[p] > 0
    /\ readopen /\ ~killed[p]
    /\ pc' = [pc EXCEPT ![p] = "write_go"]
    /\ UNCHANGED <<pi, lock, freed, readers, writers, left, killed, last>>

\* The loop ends: all is written, or copyin() fails.
WriteDone(p) ==
    /\ \/ Writing(p, "write_loop") /\ left[p] = 0
       \/ Writing(p, "write_go") /\ ~Full
    /\ pc' = WakeupReaders(p, "idle")
    /\ lock' = NULL
    /\ UNCHANGED <<pi, freed, readers, writers, left, killed, last>>

\* The pipe is full: wakeup(&pi->nread), sleep(&pi->nwrite).
WriteSleep(p) ==
    /\ Writing(p, "write_go")
    /\ Full
    /\ pc' = WakeupReaders(p, "write_sleep")
    /\ lock' = NULL
    /\ UNCHANGED <<pi, freed, readers, writers, left, killed, last>>

WriteByte(p) ==
    /\ Writing(p, "write_go")
    /\ ~Full
    /\ \E b \in Byte : data' = [data EXCEPT ![nwrite % PIPESIZE] = b]
    /\ nwrite' = (nwrite + 1) % WRAP
    /\ left' = [left EXCEPT ![p] = @ - 1]
    /\ pc' = [pc EXCEPT ![p] = "write_loop"]
    /\ UNCHANGED <<nread, readopen, writeopen, lock, freed, readers, writers, killed, last>>

-----------------------------------------------------------------------------
(* piperead().                                                             *)

Reading(p, l) == pc[p] = l /\ lock = p

MustWait == Empty /\ writeopen

ReadFail(p) ==
    /\ Reading(p, "read_wait") /\ MustWait /\ killed[p]
    /\ pc' = [pc EXCEPT ![p] = "idle"]
    /\ lock' = NULL
    /\ UNCHANGED <<pi, freed, readers, writers, left, killed, last>>

ReadCheck(p) ==
    /\ Reading(p, "read_wait")
    /\ \/ MustWait /\ ~killed[p] /\ pc' = [pc EXCEPT ![p] = "read_empty"]
       \/ ~MustWait /\ pc' = [pc EXCEPT ![p] = "read_copy"]
    /\ UNCHANGED <<pi, lock, freed, readers, writers, left, killed, last>>

\* sleep(&pi->nread).
ReadSleep(p) ==
    /\ Reading(p, "read_empty")
    /\ pc' = [pc EXCEPT ![p] = "read_sleep"]
    /\ lock' = NULL
    /\ UNCHANGED <<pi, freed, readers, writers, left, killed, last>>

\* One byte is taken; when copyout() fails it is lost and the loop ends.
ReadByte(p) ==
    /\ Reading(p, "read_copy") /\ left[p] > 0 /\ ~Empty
    /\ last' = Oldest
    /\ nread' = (nread + 1) % WRAP
    /\ \E copied \in BOOLEAN : left' = [left EXCEPT ![p] = IF copied THEN @ - 1 ELSE 0]
    /\ UNCHANGED <<data, nwrite, readopen, writeopen, lock, freed, readers, writers, pc, killed>>

ReadDone(p) ==
    /\ Reading(p, "read_copy") /\ (left[p] = 0 \/ Empty)
    /\ pc' = WakeupWriters(p, "idle")
    /\ lock' = NULL
    /\ UNCHANGED <<pi, freed, readers, writers, left, killed, last>>

-----------------------------------------------------------------------------
(* pipeclose(), from the fileclose() of the last descriptor of an end.     *)

\* MUTANT: the pipe is freed as soon as one end is closed.
BothClosedEither(r, w) == ~r \/ ~w

BothClosed(r, w) == ~r /\ ~w

CloseWrite(p) ==
    /\ pc[p] = "idle" /\ p \in writers /\ lock = NULL
    /\ writers' = writers \ {p}
    /\ IF writers = {p}
       THEN /\ writeopen' = FALSE
            /\ pc' = WakeupReaders(p, "idle")
            /\ freed' = BothClosed(readopen, FALSE)
       ELSE UNCHANGED <<writeopen, pc, freed>>
    /\ UNCHANGED <<data, nread, nwrite, readopen, lock, readers, left, killed, last>>

CloseRead(p) ==
    /\ pc[p] = "idle" /\ p \in readers /\ lock = NULL
    /\ readers' = readers \ {p}
    /\ IF readers = {p}
       THEN /\ readopen' = FALSE
            /\ pc' = WakeupWriters(p, "idle")
            /\ freed' = BothClosed(FALSE, writeopen)
       ELSE UNCHANGED <<readopen, pc, freed>>
    /\ UNCHANGED <<data, nread, nwrite, writeopen, lock, writers, left, killed, last>>

\* kill(): a sleeping process is made runnable.
Kill(p) ==
    /\ ~killed[p]
    /\ killed' = [killed EXCEPT ![p] = TRUE]
    /\ pc' = [pc EXCEPT ![p] = CASE @ = "read_sleep" -> "read_lock"
                                 [] @ = "write_sleep" -> "write_lock"
                                 [] OTHER -> @]
    /\ UNCHANGED <<pi, lock, freed, readers, writers, left, last>>

-----------------------------------------------------------------------------
\* Kernel code that runs to its end once the lock is taken.
Step(p) == \/ WriteFail(p) \/ WriteCheck(p) \/ WriteDone(p) \/ WriteSleep(p) \/ WriteByte(p)
           \/ ReadFail(p) \/ ReadCheck(p) \/ ReadSleep(p) \/ ReadByte(p) \/ ReadDone(p)

Next == \E p \in Proc :
    \/ \E n \in 1..MaxCount : Call(p, n, "read_lock") \/ Call(p, n, "write_lock")
    \/ Lock(p)
    \/ Step(p)
    \/ CloseRead(p) \/ CloseWrite(p)
    \/ Kill(p)

Spec == Init /\ [][Next]_vars

\* The holder of a spinlock runs on, with interrupts off, and a process that
\* waits for one is not starved.  Nobody has to call read, write or close.
Fairness == \A p \in Proc : WF_vars(Step(p)) /\ SF_vars(Lock(p))

FairSpec == Spec /\ Fairness

-----------------------------------------------------------------------------
Count == (nwrite + WRAP - nread) % WRAP

Reads == {"read_lock", "read_wait", "read_empty", "read_sleep", "read_copy"}
Writes == {"write_lock", "write_loop", "write_go", "write_sleep"}
Labels == {"idle"} \cup Reads \cup Writes

\* The types of struct pipe; the ring never holds more than PIPESIZE bytes.
TypeOK ==
    /\ data \in [0..(PIPESIZE - 1) -> Byte]
    /\ nread \in 0..(WRAP - 1) /\ nwrite \in 0..(WRAP - 1) /\ Count <= PIPESIZE
    /\ readopen \in BOOLEAN /\ writeopen \in BOOLEAN /\ freed \in BOOLEAN
    /\ lock \in Proc \cup {NULL}
    /\ readers \subseteq Proc /\ writers \subseteq Proc
    /\ pc \in [Proc -> Labels]
    /\ left \in [Proc -> 0..MaxCount]
    /\ killed \in [Proc -> BOOLEAN]
    /\ last \in Byte

\* The bytes in the ring, oldest first.
Contents == [i \in 1..Count |-> data[(nread + i - 1) % PIPESIZE]]

FifoImpl == INSTANCE Fifo WITH queue <- Contents, Size <- PIPESIZE

\* The ring buffer of piperead() and pipewrite() is a bounded first-in
\* first-out queue, also when its counters wrap around.
FifoSpec == FifoImpl!Spec

\* Nobody is in a read or write of a pipe that pipeclose() has freed.
\* (With the types.)
NoUseAfterFree == TypeOK /\ (freed => \A p \in Proc : pc[p] = "idle")

\* Between critical sections a writer sleeps only while the pipe is full and
\* has a reader, and a reader only while it is empty and has a writer.  The one
\* exception is a writer that was killed: it returns from the loop without the
\* wakeup for the bytes it has put in.
SleepersHaveReason ==
    lock = NULL => \A p \in Proc :
        /\ pc[p] = "write_sleep" => Full /\ readopen
        /\ pc[p] = "read_sleep" => \/ Empty /\ writeopen
                                   \/ \E q \in Proc : killed[q]

\* The inductive invariant behind both.  An end is open as long as somebody has
\* a descriptor of it, and whoever is in a call has one; so the pipe is freed
\* when nobody can be in a call.
EndsInv ==
    /\ readopen <=> readers # {}
    /\ writeopen <=> writers # {}
    /\ freed <=> ~readopen /\ ~writeopen
    /\ \A p \in Proc : /\ pc[p] \in Reads => p \in readers
                       /\ pc[p] \in Writes => p \in writers

\* pi->lock is held exactly inside the loops; a reader that goes to sleep has
\* not released it since it found the pipe empty, nor a writer since it found a
\* reader left.
LockInv ==
    \A p \in Proc : /\ lock = p <=> pc[p] \in {"read_wait", "read_empty", "read_copy", "write_loop", "write_go"}
                    /\ pc[p] = "read_empty" => Empty /\ writeopen
                    /\ pc[p] = "write_go" => readopen /\ left[p] > 0

\* While the lock is held the reason of a sleeper may be gone, but then the
\* holder is a reader or a writer that still has to wake it.
SleepInv ==
    \A p \in Proc :
        /\ pc[p] = "write_sleep" =>
              readopen /\ (Full \/ (lock # NULL /\ pc[lock] = "read_copy"))
        /\ pc[p] = "read_sleep" =>
              \/ \E q \in Proc : killed[q]
              \/ writeopen /\ (Empty \/ (lock # NULL /\ pc[lock] \in {"write_loop", "write_go"}))

PipeInv == TypeOK /\ EndsInv /\ LockInv /\ SleepInv

\* Once the last writer has closed its end, every read returns.
EndOfFile == \A p \in Proc :
    (~writeopen /\ pc[p] \in {"read_lock", "read_sleep"}) ~> (pc[p] = "idle")

\* Once the last reader has closed its end, every write returns.
BrokenPipe == \A p \in Proc :
    (~readopen /\ pc[p] \in {"write_lock", "write_sleep"}) ~> (pc[p] = "idle")

\* The two ends hang up on each other: closing the last descriptor of one end
\* lets every call on the other return, those asleep included.
HangUp == EndOfFile /\ BrokenPipe
=============================================================================
