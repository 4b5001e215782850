----------------------------- MODULE PipeProofs -----------------------------
(***************************************************************************)
(* The pipe, for any number of processes, any ring and any counters that   *)
(* wrap around at a multiple of its size: PipeInv is inductive, and the    *)
(* pipe is the bounded queue of module Fifo.                               *)
(***************************************************************************)
EXTENDS Pipe, NumberFacts, SequenceTheorems

\* What the invariants need of the constants.
LEMMA PipeSizes ==
    /\ PIPESIZE \in Nat \ {0} /\ WRAP \in Nat \ {0} /\ PIPESIZE < WRAP /\ MaxCount \in Nat
    /\ Proc # {} /\ NULL \notin Proc /\ Junk \in Byte
  BY PipeConstants DEF Junk

USE PipeSizes

\* How many bytes are in the ring, without remainders.
LEMMA CountIs ==
    ASSUME nread \in 0..(WRAP - 1), nwrite \in 0..(WRAP - 1)
    PROVE  Count = IF nread <= nwrite THEN nwrite - nread ELSE nwrite + WRAP - nread
  BY IndexDistance DEF Count

\* The test for a full pipe, without remainders.
LEMMA FullIs ==
    ASSUME nread \in 0..(WRAP - 1), nwrite \in 0..(WRAP - 1)
    PROVE  Full <=> Count = PIPESIZE
  <1>1. (nread + PIPESIZE) % WRAP = IF nread + PIPESIZE < WRAP THEN nread + PIPESIZE
                                    ELSE nread + PIPESIZE - WRAP
    OBVIOUS
  <1> QED
    BY <1>1, CountIs DEF Full

\* A byte more.
LEMMA CountGrows ==
    ASSUME TypeOK, ~Full, nread' = nread, nwrite' = (nwrite + 1) % WRAP
    PROVE  /\ nwrite' \in 0..(WRAP - 1)
           /\ Count \in Nat /\ Count < PIPESIZE /\ Count' = Count + 1
  <1>1. nread \in 0..(WRAP - 1) /\ nwrite \in 0..(WRAP - 1) /\ Count <= PIPESIZE
    BY DEF TypeOK
  <1>2. Count \in Nat /\ Count < PIPESIZE
    BY <1>1, CountIs, FullIs
  <1>3. (nwrite + WRAP - nread) % WRAP # WRAP - 1
    BY <1>2 DEF Count
  <1>4. Count' = Count + 1
    BY <1>1, <1>3, WriterStep, Zenon DEF Count
  <1> QED
    BY <1>1, <1>2, <1>4, IndexStep

\* A byte less.
LEMMA CountShrinks ==
    ASSUME TypeOK, ~Empty, nwrite' = nwrite, nread' = (nread + 1) % WRAP
    PROVE  /\ nread' \in 0..(WRAP - 1)
           /\ Count \in Nat /\ Count > 0 /\ Count' = Count - 1
  <1>1. nread \in 0..(WRAP - 1) /\ nwrite \in 0..(WRAP - 1) /\ nread # nwrite
    BY DEF TypeOK, Empty
  <1>2. Count \in Nat /\ Count > 0
    BY <1>1, CountIs
  <1>3. Count' = Count - 1
    BY <1>1, ReaderStep, Zenon DEF Count
  <1> QED
    BY <1>1, <1>2, <1>3, IndexStep

\* The ring after pipealloc().
LEMMA PipeInit == Init => PipeInv
  <1> SUFFICES ASSUME Init PROVE PipeInv
    OBVIOUS
  <1>1. Count = 0
    BY CountIs DEF Init
  <1>2. TypeOK
    <2>1. data \in [0..(PIPESIZE - 1) -> Byte] /\ last \in Byte
      BY DEF Init
    <2>2. pc \in [Proc -> Labels] /\ left \in [Proc -> 0..MaxCount] /\ killed \in [Proc -> BOOLEAN]
      BY DEF Init, Labels
    <2>3. readopen \in BOOLEAN /\ writeopen \in BOOLEAN /\ freed \in BOOLEAN
      BY Zenon DEF Init
    <2>4. /\ nread \in 0..(WRAP - 1) /\ nwrite \in 0..(WRAP - 1)
          /\ lock \in Proc \cup {NULL} /\ readers \subseteq Proc /\ writers \subseteq Proc
      BY DEF Init
    <2> QED
      BY <1>1, <2>1, <2>2, <2>3, <2>4 DEF TypeOK
  <1>3. EndsInv
    BY DEF Init, EndsInv, Reads, Writes
  <1>4. LockInv /\ SleepInv
    BY DEF Init, LockInv, SleepInv
  <1> QED
    BY <1>2, <1>3, <1>4 DEF PipeInv

\* A call starts only with a descriptor of its end.
LEMMA CallKeeps ==
    ASSUME NEW p \in Proc, NEW n \in 1..MaxCount, NEW l \in {"read_lock", "write_lock"}, PipeInv, Call(p, n, l)
    PROVE  PipeInv'
  <1> USE DEF PipeInv, TypeOK, pi, Call
  <1>1. TypeOK'
    BY DEF Labels, Reads, Writes, Count
  <1>2. EndsInv'
    BY DEF EndsInv, Reads, Writes
  <1>3. LockInv'
    BY DEF LockInv, Empty
  <1>4. SleepInv'
    BY DEF SleepInv, Empty, Full, LockInv
  <1> QED
    BY <1>1, <1>2, <1>3, <1>4

\* The lock is free before it is taken.
LEMMA LockKeeps ==
    ASSUME NEW p \in Proc, PipeInv, Lock(p)
    PROVE  PipeInv'
  <1> USE DEF PipeInv, TypeOK, pi, Lock
  <1>1. TypeOK'
    BY Zenon DEF Labels, Reads, Writes, Count
  <1>2. EndsInv'
    BY DEF EndsInv, Reads, Writes
  <1>3. LockInv'
    BY DEF LockInv
  <1>4. SleepInv'
    BY DEF SleepInv, Empty, Full, LockInv
  <1> QED
    BY <1>1, <1>2, <1>3, <1>4

\* A writer that fails was killed, or no reader is left; in both cases no
\* reader sleeps on for want of a wakeup that it owes.
LEMMA WriteFailKeeps ==
    ASSUME NEW p \in Proc, PipeInv, WriteFail(p)
    PROVE  PipeInv'
  <1> USE DEF PipeInv, TypeOK, pi, WriteFail, Writing
  <1>1. TypeOK'
    BY DEF Labels, Reads, Writes, Count
  <1>2. EndsInv'
    BY DEF EndsInv, Reads, Writes
  <1>3. LockInv'
    BY DEF LockInv
  <1>4. SleepInv'
    BY DEF SleepInv, Empty, Full, LockInv, EndsInv, Reads, Writes
  <1> QED
    BY <1>1, <1>2, <1>3, <1>4

\* A test under the lock.
LEMMA WriteCheckKeeps ==
    ASSUME NEW p \in Proc, PipeInv, WriteCheck(p)
    PROVE  PipeInv'
  <1> USE DEF PipeInv, TypeOK, pi, WriteCheck, Writing
  <1>1. TypeOK'
    BY DEF Labels, Reads, Writes, Count
  <1>2. EndsInv'
    BY DEF EndsInv, Reads, Writes
  <1>3. LockInv'
    BY DEF LockInv
  <1>4. SleepInv'
    BY DEF SleepInv, Empty, Full, LockInv
  <1> QED
    BY <1>1, <1>2, <1>3, <1>4

\* All readers are woken.
LEMMA WriteDoneKeeps ==
    ASSUME NEW p \in Proc, PipeInv, WriteDone(p)
    PROVE  PipeInv'
  <1> USE DEF PipeInv, TypeOK, pi, WriteDone, Writing, WakeupReaders
  <1>1. TypeOK'
    BY DEF Labels, Reads, Writes, Count
  <1>2. EndsInv'
    BY DEF EndsInv, Reads, Writes
  <1>3. LockInv'
    BY DEF LockInv
  <1>4. SleepInv'
    BY DEF SleepInv, Empty, Full, LockInv
  <1> QED
    BY <1>1, <1>2, <1>3, <1>4

\* The writer sleeps on a full pipe, and all readers are woken.
LEMMA WriteSleepKeeps ==
    ASSUME NEW p \in Proc, PipeInv, WriteSleep(p)
    PROVE  PipeInv'
  <1> USE DEF PipeInv, TypeOK, pi, WriteSleep, Writing, WakeupReaders
  <1>1. TypeOK'
    BY DEF Labels, Reads, Writes, Count
  <1>2. EndsInv'
    BY DEF EndsInv, Reads, Writes
  <1>3. LockInv'
    BY DEF LockInv
  <1>4. SleepInv'
    BY DEF SleepInv, Empty, Full, LockInv, EndsInv, Reads, Writes
  <1> QED
    BY <1>1, <1>2, <1>3, <1>4

\* A byte more; the writer still has to wake the readers.
LEMMA WriteByteKeeps ==
    ASSUME NEW p \in Proc, PipeInv, WriteByte(p)
    PROVE  PipeInv'
  <1> USE DEF PipeInv, TypeOK, pi, WriteByte, Writing
  <1>1. TypeOK'
    <2>1. /\ nwrite' \in 0..(WRAP - 1)
          /\ Count \in Nat /\ Count < PIPESIZE /\ Count' = Count + 1
      BY CountGrows
    <2>2. left' \in [Proc -> 0..MaxCount]
      BY DEF LockInv
    <2>3. data' \in [0..(PIPESIZE - 1) -> Byte]
      OBVIOUS
    <2> QED
      BY <2>1, <2>2, <2>3 DEF Labels, Reads, Writes
  <1>2. EndsInv'
    BY DEF EndsInv, Reads, Writes
  <1>3. LockInv'
    BY DEF LockInv
  <1>4. SleepInv'
    BY DEF SleepInv
  <1> QED
    BY <1>1, <1>2, <1>3, <1>4

\* A killed reader returns.
LEMMA ReadFailKeeps ==
    ASSUME NEW p \in Proc, PipeInv, ReadFail(p)
    PROVE  PipeInv'
  <1> USE DEF PipeInv, TypeOK, pi, ReadFail, Reading
  <1>1. TypeOK'
    BY DEF Labels, Reads, Writes, Count
  <1>2. EndsInv'
    BY DEF EndsInv, Reads, Writes
  <1>3. LockInv'
    BY DEF LockInv
  <1>4. SleepInv'
    BY DEF SleepInv, Empty, Full, LockInv
  <1> QED
    BY <1>1, <1>2, <1>3, <1>4

\* A test under the lock.
LEMMA ReadCheckKeeps ==
    ASSUME NEW p \in Proc, PipeInv, ReadCheck(p)
    PROVE  PipeInv'
  <1> USE DEF PipeInv, TypeOK, pi, ReadCheck, Reading, MustWait
  <1>1. TypeOK'
    BY Zenon DEF Labels, Reads, Writes, Count
  <1>2. EndsInv'
    BY DEF EndsInv, Reads, Writes
  <1>3. LockInv'
    BY DEF LockInv, Empty
  <1>4. SleepInv'
    BY DEF SleepInv, Empty, Full, LockInv
  <1> QED
    BY <1>1, <1>2, <1>3, <1>4

\* The reader sleeps on a pipe that is still empty.
LEMMA ReadSleepKeeps ==
    ASSUME NEW p \in Proc, PipeInv, ReadSleep(p)
    PROVE  PipeInv'
  <1> USE DEF PipeInv, TypeOK, pi, ReadSleep, Reading
  <1>1. TypeOK'
    BY DEF Labels, Reads, Writes, Count
  <1>2. EndsInv'
    BY DEF EndsInv, Reads, Writes
  <1>3. LockInv'
    BY DEF LockInv
  <1>4. SleepInv'
    BY DEF SleepInv, Empty, Full, LockInv
  <1> QED
    BY <1>1, <1>2, <1>3, <1>4

\* A byte less; the reader still has to wake the writers.
LEMMA ReadByteKeeps ==
    ASSUME NEW p \in Proc, PipeInv, ReadByte(p)
    PROVE  PipeInv'
  <1> USE DEF PipeInv, TypeOK, pi, ReadByte, Reading
  <1>1. TypeOK'
    <2>1. /\ nread' \in 0..(WRAP - 1)
          /\ Count \in Nat /\ Count > 0 /\ Count' = Count - 1
      BY CountShrinks
    <2>2. last' \in Byte
      BY DEF Oldest
    <2>3. left' \in [Proc -> 0..MaxCount]
      OBVIOUS
    <2> QED
      BY <2>1, <2>2, <2>3
  <1>2. EndsInv'
    BY DEF EndsInv, Reads, Writes
  <1>3. LockInv'
    BY DEF LockInv
  <1>4. SleepInv'
    BY DEF SleepInv
  <1> QED
    BY <1>1, <1>2, <1>3, <1>4

\* All writers are woken.
LEMMA ReadDoneKeeps ==
    ASSUME NEW p \in Proc, PipeInv, ReadDone(p)
    PROVE  PipeInv'
  <1> USE DEF PipeInv, TypeOK, pi, ReadDone, Reading, WakeupWriters
  <1>1. TypeOK'
    BY DEF Labels, Reads, Writes, Count
  <1>2. EndsInv'
    BY DEF EndsInv, Reads, Writes
  <1>3. LockInv'
    BY DEF LockInv
  <1>4. SleepInv'
    BY DEF SleepInv, Empty, Full, LockInv
  <1> QED
    BY <1>1, <1>2, <1>3, <1>4

\* The last writer wakes the readers; the pipe is freed when no reader is left.
LEMMA CloseWriteKeeps ==
    ASSUME NEW p \in Proc, PipeInv, CloseWrite(p)
    PROVE  PipeInv'
  <1> USE DEF PipeInv, TypeOK, pi, CloseWrite, WakeupReaders, BothClosed
  <1>1. TypeOK'
    BY Zenon DEF Labels, Reads, Writes, Count
  <1>2. EndsInv'
    BY DEF EndsInv, Reads, Writes
  <1>3. LockInv'
    BY DEF LockInv
  <1>4. SleepInv'
    BY DEF SleepInv, Empty, Full, LockInv
  <1> QED
    BY <1>1, <1>2, <1>3, <1>4

\* The last reader wakes the writers; the pipe is freed when no writer is left.
LEMMA CloseReadKeeps ==
    ASSUME NEW p \in Proc, PipeInv, CloseRead(p)
    PROVE  PipeInv'
  <1> USE DEF PipeInv, TypeOK, pi, CloseRead, WakeupWriters, BothClosed
  <1>1. TypeOK'
    BY Zenon DEF Labels, Reads, Writes, Count
  <1>2. EndsInv'
    BY DEF EndsInv, Reads, Writes
  <1>3. LockInv'
    BY DEF LockInv
  <1>4. SleepInv'
    BY DEF SleepInv, Empty, Full, LockInv
  <1> QED
    BY <1>1, <1>2, <1>3, <1>4

\* A killed sleeper runs on.
LEMMA KillKeeps ==
    ASSUME NEW p \in Proc, PipeInv, Kill(p)
    PROVE  PipeInv'
  <1> USE DEF PipeInv, TypeOK, pi, Kill
  <1>1. TypeOK'
    BY Zenon DEF Labels, Reads, Writes, Count
  <1>2. EndsInv'
    BY Zenon DEF EndsInv, Reads, Writes
  <1>3. LockInv'
    BY DEF LockInv, Empty
  <1>4. SleepInv'
    BY DEF SleepInv, Empty, Full, LockInv
  <1> QED
    BY <1>1, <1>2, <1>3, <1>4

\* Every step keeps the invariant.
LEMMA PipeStep == PipeInv /\ [Next]_vars => PipeInv'
  <1> SUFFICES ASSUME PipeInv, [Next]_vars PROVE PipeInv'
    OBVIOUS
  <1>1. CASE UNCHANGED vars
    <2> USE <1>1 DEF vars, pi, PipeInv
    <2>1. TypeOK'
      BY DEF TypeOK, Count
    <2>2. EndsInv' /\ LockInv'
      BY DEF EndsInv, LockInv, Empty
    <2>3. SleepInv'
      BY DEF SleepInv, Empty, Full
    <2> QED
      BY <2>1, <2>2, <2>3
  <1>2. ASSUME NEW p \in Proc, Step(p) PROVE PipeInv'
    BY <1>2, WriteFailKeeps, WriteCheckKeeps, WriteDoneKeeps, WriteSleepKeeps, WriteByteKeeps,
       ReadFailKeeps, ReadCheckKeeps, ReadSleepKeeps, ReadByteKeeps, ReadDoneKeeps DEF Step
  <1>3. ASSUME NEW p \in Proc, Lock(p) \/ CloseRead(p) \/ CloseWrite(p) \/ Kill(p)
        PROVE  PipeInv'
    BY <1>3, LockKeeps, CloseReadKeeps, CloseWriteKeeps, KillKeeps
  <1>4. ASSUME NEW p \in Proc, NEW n \in 1..MaxCount,
               Call(p, n, "read_lock") \/ Call(p, n, "write_lock")
        PROVE  PipeInv'
    BY <1>4, CallKeeps
  <1> QED
    BY <1>1, <1>2, <1>3, <1>4 DEF Next

\* The inductive invariant holds in every reachable state of the pipe.
THEOREM PipeSafety == Spec => []PipeInv
  BY PipeInit, PipeStep, PTL DEF Spec

\* pipeclose() frees the page only when nobody can be in piperead() or
\* pipewrite().
THEOREM NobodyUsesFreedPipe == Spec => []NoUseAfterFree
  <1>1. PipeInv => NoUseAfterFree
    BY Zenon DEF PipeInv, NoUseAfterFree, EndsInv, TypeOK, Labels
  <1> QED
    BY <1>1, PipeSafety, PTL

\* No wakeup between readers and writers is lost.
THEOREM PipeSleepersHaveReason == Spec => []SleepersHaveReason
  <1>1. PipeInv => SleepersHaveReason
    BY DEF PipeInv, SleepersHaveReason, SleepInv
  <1> QED
    BY <1>1, PipeSafety, PTL

-----------------------------------------------------------------------------
(* The pipe implements Fifo: pipewrite() puts one byte per round of its    *)
(* loop, piperead() gets one, and the last pipeclose() frees the queue.    *)

\* What is in the ring is a sequence of bytes.
LEMMA ContentsAreBytes == TypeOK => Count \in 0..PIPESIZE /\ Contents \in Seq(Byte) /\ Len(Contents) = Count
  <1> SUFFICES ASSUME TypeOK PROVE Count \in 0..PIPESIZE /\ Contents \in Seq(Byte) /\ Len(Contents) = Count
    OBVIOUS
  <1>1. Count \in 0..PIPESIZE
    BY CountIs DEF TypeOK
  <1>2. \A i \in 1..Count : (nread + i - 1) % PIPESIZE \in 0..(PIPESIZE - 1)
    BY <1>1 DEF TypeOK
  <1>3. Contents \in [1..Count -> Byte]
    BY <1>2, Zenon DEF Contents, TypeOK
  <1> QED
    BY <1>1, <1>3

\* nwrite is the slot behind the newest byte.
LEMMA WriteSlot == TypeOK => nwrite % PIPESIZE = (nread + Count) % PIPESIZE
  <1> SUFFICES ASSUME TypeOK PROVE nwrite % PIPESIZE = (nread + Count) % PIPESIZE
    OBVIOUS
  <1>1. nwrite \in Int /\ WRAP \in Int /\ PIPESIZE \in Nat \ {0} /\ WRAP % PIPESIZE = 0
    BY PipeConstants DEF TypeOK
  <1>2. nread + Count = nwrite \/ nread + Count = nwrite + WRAP
    BY CountIs DEF TypeOK
  <1>3. (nwrite + WRAP) % PIPESIZE = nwrite % PIPESIZE
    BY ONLY <1>1, ModMultiple, Zenon
  <1> QED
    BY <1>2, <1>3

\* One round of the loop of pipewrite() puts one byte behind the others.
LEMMA WriteByteIsPut ==
    ASSUME NEW p \in Proc, PipeInv, WriteByte(p)
    PROVE  FifoImpl!Put
  <1>1. PICK b \in Byte : data' = [data EXCEPT ![nwrite % PIPESIZE] = b]
    BY Zenon DEF WriteByte
  <1>2. TypeOK /\ ~freed
    BY DEF PipeInv, EndsInv, TypeOK, LockInv, WriteByte, Writing
  <1>3. Count \in Nat /\ Count < PIPESIZE /\ Count' = Count + 1
    BY <1>2, CountGrows DEF WriteByte
  <1>4. Contents \in Seq(Byte) /\ Len(Contents) = Count
    BY <1>2, ContentsAreBytes
  <1>5. \A i \in 1..Count : Contents'[i] = Contents[i]
    <2> SUFFICES ASSUME NEW i \in 1..Count PROVE Contents'[i] = Contents[i]
      OBVIOUS
    <2>1. (nread + i - 1) % PIPESIZE # (nread + Count) % PIPESIZE
      <3>1. /\ nread + i - 1 \in Int /\ nread + Count \in Int
            /\ nread + i - 1 < nread + Count /\ nread + Count < nread + i - 1 + PIPESIZE
        BY <1>2, <1>3 DEF TypeOK
      <3> QED
        BY ONLY <3>1, SlotsDiffer, PipeSizes
    <2>2. data'[(nread + i - 1) % PIPESIZE] = data[(nread + i - 1) % PIPESIZE]
      BY <1>1, <1>2, <1>3, <2>1, WriteSlot DEF TypeOK
    <2> QED
      BY <1>3, <2>2 DEF Contents, WriteByte
  <1>6. Contents'[Count + 1] = b
    <2>1. Contents'[Count + 1] = data'[(nread + Count) % PIPESIZE]
      BY <1>2, <1>3 DEF Contents, WriteByte, TypeOK
    <2> QED
      BY <1>1, <1>2, <2>1, WriteSlot DEF TypeOK
  <1>7. Contents' = Append(Contents, b)
    <2>1. TypeOK'
      BY WriteByteKeeps DEF PipeInv
    <2>2. Contents' \in Seq(Byte) /\ Len(Contents') = Count + 1
      <3>1. (TypeOK => Count \in 0..PIPESIZE /\ Contents \in Seq(Byte) /\ Len(Contents) = Count)'
        BY ContentsAreBytes, PTL
      <3> QED
        BY <1>3, <2>1, <3>1
    <2>3. /\ Append(Contents, b) \in Seq(Byte) /\ Len(Append(Contents, b)) = Count + 1
          /\ \A i \in 1..(Count + 1) : Append(Contents, b)[i] = IF i = Count + 1 THEN b ELSE Contents[i]
      BY <1>3, <1>4
    <2>4. \A i \in 1..(Count + 1) : Contents'[i] = Append(Contents, b)[i]
      BY <1>3, <1>5, <1>6, <2>3
    <2> QED
      BY <2>2, <2>3, <2>4, SeqEqual
  <1> QED
    BY <1>2, <1>3, <1>4, <1>7 DEF FifoImpl!Put, WriteByte

\* One round of the loop of piperead() takes the oldest byte.
LEMMA ReadByteIsGet ==
    ASSUME NEW p \in Proc, PipeInv, ReadByte(p)
    PROVE  FifoImpl!Get
  <1>1. TypeOK /\ ~freed
    BY DEF PipeInv, EndsInv, TypeOK, LockInv, ReadByte, Reading, Reads
  <1>2. Count \in Nat /\ Count > 0 /\ Count' = Count - 1
    BY <1>1, CountShrinks DEF ReadByte
  <1>3. Contents \in Seq(Byte) /\ Len(Contents) = Count
    BY <1>1, ContentsAreBytes
  <1>4. last' = Head(Contents)
    <2>1. nread + 1 - 1 = nread
      BY <1>1 DEF TypeOK
    <2>2. Contents[1] = data[nread % PIPESIZE]
      BY <1>2, <2>1 DEF Contents
    <2> QED
      BY <1>2, <1>3, <2>2 DEF ReadByte, Oldest
  <1>5. \A i \in 1..(Count - 1) : Contents'[i] = Contents[i + 1]
    <2> SUFFICES ASSUME NEW i \in 1..(Count - 1) PROVE Contents'[i] = Contents[i + 1]
      OBVIOUS
    <2>1. \A k \in Int : (((nread + 1) % WRAP) + k) % PIPESIZE = (nread + 1 + k) % PIPESIZE
      <3>1. PIPESIZE \in Nat \ {0} /\ WRAP \in Nat \ {0} /\ WRAP % PIPESIZE = 0 /\ nread \in 0..(WRAP - 1)
        BY <1>1, PipeConstants DEF TypeOK
      <3> QED
        BY ONLY <3>1, SlotStep, ZenonT(30)
    <2>2. (nread + 1) % WRAP \in Int /\ nread \in Int
      BY <1>1 DEF TypeOK
    <2>3. (nread' + i - 1) % PIPESIZE = (nread + (i + 1) - 1) % PIPESIZE
      <3>1. (nread' + (i - 1)) % PIPESIZE = (nread + 1 + (i - 1)) % PIPESIZE
        BY <1>2, <2>1 DEF ReadByte
      <3> QED
        BY <1>2, <2>2, <3>1 DEF ReadByte
    <2> QED
      BY <1>2, <2>3 DEF Contents, ReadByte
  <1>6. Contents # <<>>
    BY <1>2, <1>3
  <1>7. Contents' = Tail(Contents)
    <2>1. TypeOK'
      BY ReadByteKeeps DEF PipeInv
    <2>2. Contents' \in Seq(Byte) /\ Len(Contents') = Count - 1
      <3>1. (TypeOK => Count \in 0..PIPESIZE /\ Contents \in Seq(Byte) /\ Len(Contents) = Count)'
        BY ContentsAreBytes, PTL
      <3> QED
        BY <1>2, <2>1, <3>1
    <2>3. /\ Tail(Contents) \in Seq(Byte) /\ Len(Tail(Contents)) = Count - 1
          /\ \A i \in 1..(Count - 1) : Tail(Contents)[i] = Contents[i + 1]
      BY <1>3, <1>6, HeadTailProperties
    <2>4. \A i \in 1..(Count - 1) : Contents'[i] = Tail(Contents)[i]
      BY <1>5, <2>3
    <2> QED
      BY <2>2, <2>3, <2>4, SeqEqual
  <1> QED
    BY <1>1, <1>4, <1>6, <1>7 DEF FifoImpl!Get, ReadByte

\* Every step of the pipe is a step of the queue, or leaves it alone.
LEMMA PipeStepIsFifoStep ==
    PipeInv /\ [Next]_vars => [FifoImpl!Next]_<<Contents, last, freed>>
  <1> SUFFICES ASSUME PipeInv, [Next]_vars PROVE FifoImpl!Next \/ UNCHANGED <<Contents, last, freed>>
    BY DEF FifoImpl!Next
  <1>1. CASE UNCHANGED <<data, nread, nwrite, last, freed>>
    BY <1>1 DEF Contents, Count
  <1>2. ASSUME NEW p \in Proc, WriteByte(p) PROVE FifoImpl!Next
    BY <1>2, WriteByteIsPut DEF FifoImpl!Next
  <1>3. ASSUME NEW p \in Proc, ReadByte(p) PROVE FifoImpl!Next
    BY <1>3, ReadByteIsGet DEF FifoImpl!Next
  <1>4. ASSUME NEW p \in Proc, CloseWrite(p) \/ CloseRead(p)
        PROVE  FifoImpl!Next \/ UNCHANGED <<Contents, last, freed>>
    <2>1. UNCHANGED <<data, nread, nwrite, last>>
      BY <1>4, Zenon DEF CloseWrite, CloseRead
    <2>2. UNCHANGED Contents
      BY <2>1 DEF Contents, Count
    <2>3. ~freed /\ freed' \in BOOLEAN
      BY <1>4 DEF CloseWrite, CloseRead, BothClosed, PipeInv, EndsInv, TypeOK
    <2> QED
      BY <2>1, <2>2, <2>3 DEF FifoImpl!Next, FifoImpl!Free, PipeInv, TypeOK
  <1>5. ASSUME NEW p \in Proc,
               \/ WriteFail(p) \/ WriteCheck(p) \/ WriteDone(p) \/ WriteSleep(p)
               \/ ReadFail(p) \/ ReadCheck(p) \/ ReadSleep(p) \/ ReadDone(p) \/ Lock(p) \/ Kill(p)
        PROVE  UNCHANGED <<data, nread, nwrite, last, freed>>
    BY <1>5 DEF WriteFail, WriteCheck, WriteDone, WriteSleep, ReadFail, ReadCheck, ReadSleep, ReadDone,
                Lock, Kill, pi
  <1>6. ASSUME NEW p \in Proc, NEW n \in 1..MaxCount, NEW l, Call(p, n, l)
        PROVE  UNCHANGED <<data, nread, nwrite, last, freed>>
    BY <1>6 DEF Call, pi
  <1>7. CASE UNCHANGED vars
    BY <1>1, <1>7 DEF vars, pi
  <1> QED
    BY <1>1, <1>2, <1>3, <1>4, <1>5, <1>6, <1>7 DEF Next, Step

\* The ring buffer of piperead() and pipewrite() is a bounded first-in
\* first-out queue of any size, however often its counters wrap around, and
\* nothing is taken out of it or put into it once pipeclose() has freed it.
THEOREM PipeIsFifo == Spec => FifoSpec
  <1>1. Init => FifoImpl!Init
    <2> SUFFICES ASSUME Init PROVE FifoImpl!Init
      OBVIOUS
    <2>1. Contents \in Seq(Byte) /\ Len(Contents) = 0
      BY PipeInit, ContentsAreBytes, CountIs DEF Init, PipeInv
    <2>2. Contents = <<>>
      BY <2>1
    <2> QED
      BY <2>2 DEF FifoImpl!Init, Init
  <1> QED
    BY <1>1, PipeStepIsFifoStep, PipeSafety, PTL DEF Spec, FifoSpec, FifoImpl!Spec
=============================================================================
