----------------------------- MODULE LogProofs ------------------------------
(***************************************************************************)
(* Theorems about Log, for any number of processes, blocks, values, log    *)
(* sizes and crashes: its invariant, with one lemma for each action, its   *)
(* safety properties, and that it implements AtomicDisk.                   *)
(***************************************************************************)
EXTENDS Log, FiniteSetTheorems, SequenceTheorems, TLAPS

USE DEF Phases

-----------------------------------------------------------------------------
(* begin_op(), log_write() and end_op().                                   *)

\* Opening a call adds one to the number of open calls.
LEMMA ActiveAdd ==
    ASSUME NEW p \in Proc, p \notin Active, Active' = Active \cup {p}
    PROVE  Cardinality(Active)' = Cardinality(Active) + 1
  <1>1. IsFiniteSet(Active)
    BY FS_Subset, LogConstants DEF Active
  <1> QED
    BY <1>1, FS_AddElement, Zenon

\* Closing a call takes one away.
LEMMA ActiveRemove ==
    ASSUME NEW p \in Proc, p \in Active, Active' = Active \ {p}
    PROVE  Cardinality(Active)' = Cardinality(Active) - 1
  <1>1. IsFiniteSet(Active)
    BY FS_Subset, LogConstants DEF Active
  <1> QED
    BY <1>1, FS_RemoveElement

\* What Append does to the header, index by index.
LEMMA AppendBlock ==
    ASSUME NEW s \in Seq(Block), NEW b \in Block
    PROVE  /\ Append(s, b) \in Seq(Block)
           /\ Len(s) \in Nat /\ Len(Append(s, b)) = Len(s) + 1
           /\ DOMAIN Append(s, b) = DOMAIN s \cup {Len(s) + 1}
           /\ DOMAIN s = 1..Len(s)
           /\ \A i \in DOMAIN s : Append(s, b)[i] = s[i]
           /\ Append(s, b)[Len(s) + 1] = b
  <1>1. Append(s, b) \in Seq(Block) /\ Len(s) \in Nat /\ DOMAIN s = 1..Len(s)
    BY AppendProperties, LenProperties
  <1>2. Len(Append(s, b)) = Len(s) + 1 /\ Append(s, b)[Len(s) + 1] = b
        /\ \A i \in 1..Len(s) : Append(s, b)[i] = s[i]
    BY AppendProperties
  <1>3. DOMAIN Append(s, b) = 1..(Len(s) + 1)
    BY <1>1, <1>2, LenProperties
  <1> QED
    BY <1>1, <1>2, <1>3

\* The initial state, before the first boot, satisfies the invariant.
LEMMA InitInv == Init => LogInv
  <1> SUFFICES ASSUME Init PROVE LogInv
    OBVIOUS
  <1>1. Active = {}
    BY DEF Init, Active
  <1>2. CallInv
    BY <1>1, FS_EmptySet DEF Init, CallInv
  <1>3. TypeOK
    <2>1. disk \in [Block -> Value \cup {Torn}] /\ diskLog \in [1..LOGSIZE -> Value \cup {Torn}]
      BY LogConstants DEF Init
    <2>2. Len(lh) = 0 /\ lh \in Seq(Block) /\ Len(diskHead) = 0 /\ diskHead \in Seq(Block)
      BY DEF Init
    <2>3. cache \in [Block -> Value \cup {Torn, NotCached}] /\ pin \in [Block -> Nat]
      BY DEF Init
    <2>4. /\ pc \in [Proc -> {"idle", "asleep", "woken", "inop", "commit"}]
          /\ wrote \in [Proc -> SUBSET Block]
          /\ ops \in [Proc -> Nat]
      BY DEF Init
    <2>5. outstanding \in Nat /\ crashes \in Nat /\ tail \in 0..Len(lh)
      BY <2>2 DEF Init
    <2>6. committing \in BOOLEAN /\ recovering \in BOOLEAN /\ panic \in BOOLEAN
      BY Zenon DEF Init
    <2>7. phase \in Phases /\ committer \in Proc \cup {NoProc}
      BY DEF Init
    <2> QED
      BY <2>1, <2>2, <2>3, <2>4, <2>5, <2>6, <2>7, LogConstants DEF TypeOK
  <1>4. TornInv
    BY LogConstants DEF Init, TornInv
  <1> QED
    BY <1>2, <1>3, <1>4, LogConstants
    DEF Init, LogInv, Distinct, PhaseInv, PinsExact, CacheInv, CopyInv, NoLostWakeup, Read

\* begin_op(), whether it sleeps or opens a call.
LEMMA BeginOpInv == ASSUME LogInv, NEW p \in Proc, BeginOp(p) PROVE LogInv'
  <1> USE DEF LogInv, BeginOp, Up, diskVars, commitVars
  <1>1. TypeOK'
    <2>1. pc' \in [Proc -> {"idle", "asleep", "woken", "inop", "commit"}]
      BY Zenon DEF TypeOK
    <2>2. wrote' \in [Proc -> SUBSET Block]
      BY Zenon DEF TypeOK
    <2>3. ops' \in [Proc -> Nat] /\ outstanding' \in Nat
      BY DEF TypeOK
    <2> QED
      BY <2>1, <2>2, <2>3 DEF TypeOK
  <1>2. PhaseInv'
    BY DEF PhaseInv, TypeOK, MustWait
  <1>3. CallInv'
    <2>1. CASE MustWait
      BY <2>1, Zenon DEF CallInv, Active, TypeOK
    <2>2. CASE ~MustWait
      <3>1. p \notin Active /\ Active' = Active \cup {p}
        BY <2>2 DEF Active, TypeOK
      <3> QED
        BY <2>2, <3>1, ActiveAdd, Zenon DEF CallInv, MustWait
    <2> QED
      BY <2>1, <2>2
  <1>4. PinsExact' /\ CacheInv' /\ CopyInv' /\ TornInv' /\ Distinct(lh)' /\ Distinct(diskHead)'
    BY DEF PinsExact, CacheInv, CopyInv, TornInv, Distinct, Read
  <1>5. NoLostWakeup'
    BY LogConstants DEF NoLostWakeup, MustWait, TypeOK, PhaseInv
  <1> QED
    BY <1>1, <1>2, <1>3, <1>4, <1>5

\* log_write(): the block is cached, pinned and in the header afterwards.
LEMMA LogWriteInv ==
    ASSUME LogInv, NEW p \in Proc, NEW b \in Block, NEW v \in Value, LogWrite(p, b, v)
    PROVE  LogInv'
  <1> USE DEF LogInv, Up, diskVars, commitVars
  <1>1. CASE panic'
    <2>1. UNCHANGED <<disk, diskLog, diskHead, cache, pin, lh, outstanding, committing,
                      pc, wrote, ops, phase, tail, committer, recovering, crashes>>
      BY <1>1, Zenon DEF LogWrite
    <2>2. TypeOK'
      BY <1>1, <2>1 DEF TypeOK
    <2> QED
      BY <2>1, <2>2 DEF Distinct, PhaseInv, CallInv, Active, PinsExact, CacheInv, CopyInv,
                        TornInv, NoLostWakeup, Read
  <1>2. CASE ~panic'
    <2>1. /\ pc[p] = "inop" /\ ~recovering /\ Len(lh) < LOGSIZE
          /\ cache' = [cache EXCEPT ![b] = v]
          /\ Record(b)
          /\ wrote' = [wrote EXCEPT ![p] = @ \cup {b}]
          /\ UNCHANGED <<disk, diskLog, diskHead, outstanding, committing, pc, ops,
                         phase, tail, committer, recovering, panic, crashes>>
      BY <1>2, LogConstants DEF LogWrite, TooBig, TypeOK
    <2>2. phase = "none" /\ tail = 0 /\ ~committing /\ outstanding > 0
      <3>1. p \in Active
        BY <2>1 DEF Active
      <3>2. Active # {} /\ ~committing
        BY <3>1 DEF CallInv
      <3>3. Cardinality(Active) # 0
        BY <3>2, FS_EmptySet, FS_Subset, LogConstants DEF Active
      <3> QED
        BY <2>1, <3>2, <3>3 DEF PhaseInv, CallInv, TypeOK
    <2>3. lh \in Seq(Block) /\ Len(lh) \in Nat /\ pin \in [Block -> Nat]
      BY AppendBlock DEF TypeOK
    <2>4. /\ lh' \in Seq(Block) /\ Len(lh') <= LOGSIZE /\ Len(lh') \in Nat
          /\ Distinct(lh') /\ PinsExact' /\ pin'[b] = 1
          /\ pin' \in [Block -> Nat] /\ \A c \in Block \ {b} : pin'[c] = pin[c]
      <3>1. CASE b \in Logged
        <4>1. lh' = lh /\ pin' = pin
          BY <2>1, <3>1 DEF Record
        <4>2. pin[b] = 1
          BY <2>1, <2>2, <3>1 DEF PinsExact, Logged
        <4>3. Distinct(lh') /\ PinsExact'
          BY <2>1, <4>1 DEF PinsExact, Distinct
        <4> QED
          BY <2>1, <2>3, <4>1, <4>2, <4>3, LogConstants
      <3>2. CASE b \notin Logged
        <4>1. lh' = Append(lh, b) /\ pin' = [pin EXCEPT ![b] = @ + 1]
          BY <2>1, <3>2 DEF Record
        <4>2. /\ lh' \in Seq(Block) /\ Len(lh') = Len(lh) + 1
              /\ DOMAIN lh' = DOMAIN lh \cup {Len(lh) + 1} /\ DOMAIN lh = 1..Len(lh)
              /\ \A i \in DOMAIN lh : lh'[i] = lh[i]
              /\ lh'[Len(lh) + 1] = b
          BY <2>3, <4>1, AppendBlock
        <4>3. pin[b] = 0
          BY <3>2 DEF PinsExact, Logged
        <4>4. /\ pin'[b] = 1 /\ pin' \in [Block -> Nat]
              /\ \A c \in Block \ {b} : pin'[c] = pin[c]
          BY <2>3, <4>1, <4>3
        <4>5. Distinct(lh')
          BY <2>3, <3>2, <4>2 DEF Distinct, Logged
        <4>6. PinsExact'
          <5>1. \A c \in Block : (\E i \in DOMAIN lh' : lh'[i] = c)
                                   <=> (c = b \/ \E i \in DOMAIN lh : lh[i] = c)
            BY <4>2
          <5> QED
            BY <2>1, <2>2, <4>4, <5>1 DEF PinsExact
        <4> QED
          BY <2>1, <2>3, <4>2, <4>4, <4>5, <4>6, LogConstants
      <3> QED
        BY <3>1, <3>2
    <2>5. TypeOK'
      <3>1. cache' \in [Block -> Value \cup {Torn, NotCached}]
        BY <2>1 DEF TypeOK
      <3>2. wrote' \in [Proc -> SUBSET Block]
        BY <2>1 DEF TypeOK
      <3>3. tail' \in 0..Len(lh')
        BY <2>1, <2>2, <2>4
      <3> QED
        BY <2>1, <2>4, <3>1, <3>2, <3>3, Zenon DEF TypeOK
    <2>6. PhaseInv'
      BY <2>1, <2>2 DEF PhaseInv
    <2>7. CallInv' /\ NoLostWakeup' /\ Distinct(diskHead')
      BY <2>1, <2>2 DEF CallInv, NoLostWakeup, Active, Distinct
    <2>8. CacheInv'
      <3>1. cache'[b] # NotCached
        BY <2>1, LogConstants DEF TypeOK
      <3>2. \A c \in Block \ {b} : cache'[c] = cache[c]
        BY <2>1, Zenon DEF TypeOK
      <3> QED
        BY <2>1, <2>4, <3>1, <3>2 DEF CacheInv, Read
    <2>9. CopyInv' /\ TornInv'
      BY <2>1, <2>2, LogConstants DEF CopyInv, TornInv, TypeOK
    <2> QED
      BY <2>4, <2>5, <2>6, <2>7, <2>8, <2>9, Zenon DEF Distinct
  <1> QED
    BY <1>1, <1>2, Zenon

\* end_op() up to the call of commit().
LEMMA EndOpInv == ASSUME LogInv, NEW p \in Proc, EndOp(p) PROVE LogInv'
  <1> USE DEF LogInv, diskVars
  <1>1. p \in Active /\ ~committing /\ ~recovering /\ phase = "none" /\ tail = 0
    BY DEF EndOp, Up, Active, CallInv, PhaseInv, TypeOK
  <1>2. Active' = Active \ {p}
    BY <1>1 DEF EndOp, Active, Wakeup, TypeOK
  <1>3. outstanding \in Nat /\ outstanding' = outstanding - 1
    BY DEF EndOp, TypeOK
  <1>4. outstanding' = Cardinality(Active)' /\ outstanding' \in Nat
    <2>1. IsFiniteSet(Active')
      BY <1>2, FS_Subset, LogConstants DEF Active
    <2> QED
      BY <1>1, <1>2, <1>3, <2>1, ActiveRemove, FS_CardinalityType, Zenon DEF CallInv
  <1>5. UNCHANGED <<disk, diskLog, diskHead, cache, pin, lh, ops, tail, recovering, panic, crashes>>
    BY <1>1 DEF EndOp
  <1>6. wrote' \in [Proc -> SUBSET Block]
    BY DEF EndOp, TypeOK
  <1>7. CASE outstanding = 1
    <2>1. /\ committing' = TRUE /\ committer' = p /\ pc' = [pc EXCEPT ![p] = "commit"]
          /\ phase' = IF lh = <<>> THEN "done" ELSE "write_log"
      BY <1>1, <1>7 DEF EndOp
    <2>2. TypeOK'
      <3>1. pc' \in [Proc -> {"idle", "asleep", "woken", "inop", "commit"}]
        BY <2>1 DEF TypeOK
      <3>2. committing' \in BOOLEAN /\ phase' \in Phases /\ committer' \in Proc \cup {NoProc}
        BY <2>1
      <3> QED
        BY <1>4, <1>5, <1>6, <3>1, <3>2, Zenon DEF TypeOK
    <2>3. Active' = {}
      BY <1>3, <1>4, <1>7, FS_EmptySet, FS_Subset, LogConstants DEF Active
    <2>4. PhaseInv' /\ CallInv' /\ NoLostWakeup'
      BY <1>1, <1>4, <1>5, <2>1, <2>3 DEF PhaseInv, CallInv, NoLostWakeup, TypeOK
    <2>5. PinsExact' /\ CacheInv' /\ CopyInv' /\ TornInv' /\ Distinct(lh)' /\ Distinct(diskHead)'
      BY <1>1, <1>5, <2>1 DEF PinsExact, CacheInv, CopyInv, TornInv, Distinct, Read
    <2> QED
      BY <2>2, <2>4, <2>5
  <1>8. CASE outstanding # 1
    <2>1. /\ UNCHANGED <<committing, committer, phase>>
          /\ pc' = Wakeup([pc EXCEPT ![p] = "idle"])
      BY <1>1, <1>8 DEF EndOp
    <2>2. pc' \in [Proc -> {"idle", "asleep", "woken", "inop", "commit"}]
      BY <2>1 DEF TypeOK, Wakeup
    <2>3. TypeOK'
      BY <1>4, <1>5, <1>6, <2>1, <2>2, Zenon DEF TypeOK
    <2>4. \A q \in Proc : pc'[q] # "asleep"
      BY <2>1 DEF Wakeup, TypeOK
    <2>5. outstanding' # 0
      BY <1>3, <1>8, <1>4
    <2>6. PhaseInv' /\ CallInv' /\ NoLostWakeup'
      BY <1>1, <1>4, <1>5, <2>1, <2>4, <2>5, Zenon DEF PhaseInv, CallInv, NoLostWakeup, TypeOK
    <2>7. PinsExact' /\ CacheInv' /\ CopyInv' /\ TornInv' /\ Distinct(lh)' /\ Distinct(diskHead)'
      BY <1>1, <1>5, <2>1 DEF PinsExact, CacheInv, CopyInv, TornInv, Distinct, Read
    <2> QED
      BY <2>3, <2>6, <2>7
  <1> QED
    BY <1>7, <1>8

-----------------------------------------------------------------------------
(* commit(), and recovery, which shares its steps.                         *)

\* Facts about the transaction while commit() or recovery walks through it.
LEMMA LoopFacts ==
    ASSUME LogInv, tail < Len(lh)
    PROVE  /\ Len(lh) \in Nat /\ Len(lh) <= LOGSIZE /\ DOMAIN lh = 1..Len(lh)
           /\ tail \in Nat /\ tail + 1 \in 1..Len(lh) /\ tail + 1 \in 1..LOGSIZE
           /\ lh[tail + 1] \in Block
           /\ \A i \in DOMAIN lh : i # tail + 1 => lh[i] # lh[tail + 1]
           /\ \A i \in DOMAIN lh : lh[i] \in Block
  <1>1. lh \in Seq(Block) /\ Len(lh) <= LOGSIZE /\ tail \in 0..Len(lh)
    BY DEF LogInv, TypeOK
  <1>2. Len(lh) \in Nat /\ DOMAIN lh = 1..Len(lh) /\ \A i \in 1..Len(lh) : lh[i] \in Block
    BY <1>1, LenProperties, ElementOfSeq
  <1>3. tail \in Nat /\ tail + 1 \in 1..Len(lh) /\ tail + 1 \in 1..LOGSIZE
    BY <1>1, <1>2, LogConstants
  <1> QED
    BY <1>1, <1>2, <1>3 DEF LogInv, Distinct

\* One block of write_log(): the log block becomes what readers see.
LEMMA WriteLogInv == ASSUME LogInv, WriteLog PROVE LogInv'
  <1> DEFINE b == lh[tail + 1]
  <1>1. /\ phase = "write_log" /\ tail < Len(lh) /\ ~recovering /\ diskHead = <<>>
        /\ diskLog' = [diskLog EXCEPT ![tail + 1] = Read(b)]
        /\ cache' = [cache EXCEPT ![b] = Read(b)]
        /\ tail' = tail + 1
        /\ UNCHANGED <<disk, diskHead, pin, lh, outstanding, committing, pc, wrote, ops,
                       phase, committer, recovering, panic, crashes>>
    BY DEF WriteLog, LogInv, PhaseInv, opVars, TypeOK
  <1>2. /\ b \in Block /\ tail + 1 \in 1..Len(lh) /\ tail + 1 \in 1..LOGSIZE /\ DOMAIN lh = 1..Len(lh)
        /\ tail \in Nat /\ Len(lh) \in Nat /\ \A i \in DOMAIN lh : lh[i] \in Block
    BY <1>1, LoopFacts, Zenon
  <1>3. pin[b] = 1 /\ cache[b] # NotCached /\ Read(b) = cache[b]
    BY <1>1, <1>2 DEF LogInv, PinsExact, CacheInv, Read
  <1>4. cache' = cache /\ \A c \in Block : Read(c)' = Read(c)
    BY <1>1, <1>3 DEF LogInv, TypeOK, Read
  <1>5. cache[b] \in Value
    BY <1>2, <1>3 DEF LogInv, TypeOK, TornInv
  <1>6. TypeOK'
    <2>1. diskLog' \in [1..LOGSIZE -> Value \cup {Torn}]
      BY <1>1, <1>2, <1>3, <1>5, Zenon DEF LogInv, TypeOK
    <2>2. tail' \in 0..Len(lh')
      BY <1>1, <1>2
    <2> QED
      BY <1>1, <1>4, <2>1, <2>2, Zenon DEF LogInv, TypeOK
  <1>7. PhaseInv' /\ CallInv' /\ NoLostWakeup'
    BY <1>1, Zenon DEF LogInv, PhaseInv, CallInv, NoLostWakeup, Active
  <1>8. PinsExact' /\ CacheInv' /\ TornInv' /\ Distinct(lh)' /\ Distinct(diskHead)'
    BY <1>1, <1>4 DEF LogInv, PinsExact, CacheInv, TornInv, Distinct
  <1>9. CopyInv'
    <2>1. \A i \in 1..tail : diskLog[i] = Read(lh[i])
      BY <1>1 DEF LogInv, CopyInv
    <2>2. ASSUME NEW i \in 1..tail' PROVE diskLog'[i] = Read(lh[i])
      <3>1. CASE i = tail + 1
        BY <1>1, <1>2, <3>1 DEF LogInv, TypeOK
      <3>2. CASE i # tail + 1
        <4>1. i \in 1..tail /\ diskLog'[i] = diskLog[i]
          BY <1>1, <1>2, <3>2 DEF LogInv, TypeOK
        <4> QED
          BY <4>1, <2>1, Zenon
      <3> QED
        BY <3>1, <3>2, Zenon
    <2>3. \A i \in 1..tail' : i \in DOMAIN lh
      BY <1>1, <1>2
    <2> QED
      BY <1>1, <1>2, <1>4, <2>2, <2>3, Zenon DEF CopyInv
  <1> QED
    BY <1>6, <1>7, <1>8, <1>9, Zenon DEF LogInv

\* The commit point: from here on recovery redoes the transaction.
LEMMA WriteHeadInv == ASSUME LogInv, WriteHead PROVE LogInv'
  <1>1. /\ phase = "write_log" /\ tail = Len(lh) /\ ~recovering /\ committing
        /\ diskHead' = lh /\ phase' = "install" /\ tail' = 0
        /\ UNCHANGED <<disk, diskLog, cache, pin, lh, outstanding, committing, pc, wrote, ops,
                       committer, recovering, panic, crashes>>
    BY DEF WriteHead, LoopDone, LogInv, PhaseInv, opVars, TypeOK
  <1>2. lh \in Seq(Block) /\ Len(lh) \in Nat /\ DOMAIN lh = 1..Len(lh) /\ Len(lh) <= LOGSIZE
        /\ \A i \in DOMAIN lh : lh[i] \in Block
    BY LenProperties, ElementOfSeq, Zenon DEF LogInv, TypeOK
  <1>3. \A i \in DOMAIN lh : diskLog[i] = Read(lh[i])
    BY <1>1, <1>2, Zenon DEF LogInv, CopyInv
  <1>4. \A i \in DOMAIN lh : Read(lh[i]) \in Value
    <2>1. ASSUME NEW i \in DOMAIN lh PROVE Read(lh[i]) \in Value
      <3>1. pin[lh[i]] = 1
        BY <1>1, <1>2, Zenon DEF LogInv, PinsExact
      <3> QED
        BY <1>2, <3>1 DEF LogInv, CacheInv, Read, TornInv, TypeOK
    <2> QED
      BY <2>1, Zenon
  <1>5. TypeOK'
    BY <1>1, <1>2 DEF LogInv, TypeOK
  <1>6. PhaseInv' /\ CallInv' /\ NoLostWakeup'
    BY <1>1 DEF LogInv, PhaseInv, CallInv, NoLostWakeup, Active
  <1>7. PinsExact'
    BY <1>1, <1>2 DEF LogInv, PinsExact
  <1>8. CacheInv' /\ Distinct(lh)' /\ Distinct(diskHead)'
    BY <1>1, Zenon DEF LogInv, CacheInv, Distinct, Read
  <1>9. CopyInv'
    BY <1>1, <1>2, <1>3 DEF CopyInv, Read
  <1>10. TornInv'
    BY <1>1, <1>2, <1>3, <1>4 DEF LogInv, TornInv, PhaseInv
  <1> QED
    BY <1>5, <1>6, <1>7, <1>8, <1>9, <1>10, Zenon DEF LogInv

\* One block of install_trans(), in commit() and at boot.
LEMMA InstallInv == ASSUME LogInv, Install PROVE LogInv'
  <1> DEFINE b == lh[tail + 1]
             w == diskLog[tail + 1]
  <1>1. /\ phase = "install" /\ tail < Len(lh) /\ diskHead = lh
        /\ disk' = [disk EXCEPT ![b] = w] /\ cache' = [cache EXCEPT ![b] = w]
        /\ pin' = IF recovering THEN pin ELSE [pin EXCEPT ![b] = @ - 1]
        /\ tail' = tail + 1
        /\ UNCHANGED <<diskLog, diskHead, lh, outstanding, committing, pc, wrote, ops,
                       phase, committer, recovering, panic, crashes>>
    BY DEF Install, Unpin, LogInv, PhaseInv, opVars
  <1>2. /\ b \in Block /\ tail + 1 \in 1..Len(lh) /\ tail + 1 \in 1..LOGSIZE /\ DOMAIN lh = 1..Len(lh)
        /\ tail \in Nat /\ Len(lh) \in Nat /\ \A i \in DOMAIN lh : lh[i] \in Block
        /\ \A i \in DOMAIN lh : i # tail + 1 => lh[i] # b
    BY <1>1, LoopFacts, Zenon
  <1>3. w \in Value /\ w # NotCached /\ w # Torn
    BY <1>1, <1>2, LogConstants DEF LogInv, TornInv
  <1>4. \A c \in Block : /\ disk'[c] = IF c = b THEN w ELSE disk[c]
                         /\ cache'[c] = IF c = b THEN w ELSE cache[c]
                         /\ Read(c)' = IF c = b THEN w ELSE Read(c)
    BY <1>1, <1>2, <1>3, Zenon DEF LogInv, TypeOK, Read
  <1>5. pin[b] = IF recovering THEN 0 ELSE 1
    BY <1>1, <1>2 DEF LogInv, PinsExact
  <1>6. pin'[b] = 0 /\ \A c \in Block \ {b} : pin'[c] = pin[c]
    BY <1>1, <1>2, <1>5 DEF LogInv, TypeOK
  <1>7. TypeOK'
    <2>1. disk' \in [Block -> Value \cup {Torn}]
      BY <1>1, <1>2, <1>3, Zenon DEF LogInv, TypeOK
    <2>2. cache' \in [Block -> Value \cup {Torn, NotCached}]
      BY <1>1, <1>2, <1>3 DEF LogInv, TypeOK
    <2>3. pin' \in [Block -> Nat]
      <3>1. CASE recovering
        BY <1>1, <3>1, Zenon DEF LogInv, TypeOK
      <3>2. CASE ~recovering
        BY <1>1, <1>2, <1>5, <3>2 DEF LogInv, TypeOK
      <3> QED
        BY <3>1, <3>2, Zenon
    <2>4. tail' \in 0..Len(lh')
      BY <1>1, <1>2
    <2> QED
      BY <1>1, <2>1, <2>2, <2>3, <2>4, Zenon DEF LogInv, TypeOK
  <1>8. PhaseInv' /\ CallInv' /\ NoLostWakeup'
    BY <1>1, Zenon DEF LogInv, PhaseInv, CallInv, NoLostWakeup, Active
  <1>9. PinsExact'
    <2>1. ASSUME NEW c \in Block, c # b
          PROVE  (\E i \in DOMAIN lh : lh[i] = c /\ i > tail)
                   <=> (\E i \in DOMAIN lh : lh[i] = c /\ i > tail + 1)
      BY <1>2, <2>1
    <2>2. ~\E i \in DOMAIN lh : lh[i] = b /\ i > tail + 1
      BY <1>2
    <2> QED
      BY <1>1, <1>6, <2>1, <2>2 DEF LogInv, PinsExact
  <1>10. CacheInv'
    BY <1>2, <1>3, <1>4, <1>6, Zenon DEF LogInv, CacheInv
  <1>11. Distinct(lh)' /\ Distinct(diskHead)'
    BY <1>1, Zenon DEF LogInv, Distinct
  <1>12. CopyInv'
    <2>1. ASSUME ~recovering, NEW i \in DOMAIN lh PROVE diskLog[i] = Read(lh[i])'
      <3>1. diskLog[i] = Read(lh[i]) /\ lh[i] \in Block
        BY <1>1, <1>2, <2>1 DEF LogInv, CopyInv
      <3>2. PICK c \in Block : c = lh[i]
        BY <3>1, Zenon
      <3>3. Read(c)' = IF c = b THEN w ELSE Read(c)
        BY <1>4
      <3>4. lh' = lh /\ (c = b => i = tail + 1)
        BY <1>1, <1>2, <3>2
      <3>5. diskLog[i] = Read(c)'
        BY <3>1, <3>2, <3>3, <3>4
      <3>6. Read(lh[i])' = Read(c)'
        BY <3>2, <3>4, Zenon DEF Read
      <3> QED
        BY <3>5, <3>6, Zenon
    <2>2. ASSUME NEW i \in 1..tail' PROVE disk'[lh[i]] = diskLog[i]
      <3>1. i \in DOMAIN lh /\ (i = tail + 1 \/ i \in 1..tail)
        BY <1>1, <1>2
      <3> QED
        BY <1>1, <1>2, <1>4, <3>1, Zenon DEF LogInv, CopyInv
    <2> QED
      BY <1>1, <2>1, <2>2 DEF CopyInv
  <1>13. TornInv'
    BY <1>1, <1>3, <1>4 DEF LogInv, TornInv
  <1> QED
    BY <1>7, <1>8, <1>9, <1>10, <1>11, <1>12, <1>13, Zenon DEF LogInv

\* The header is cleared: nothing is pinned and every block is at home.
LEMMA ClearHeadInv == ASSUME LogInv, ClearHead PROVE LogInv'
  <1>1. /\ phase = "install" /\ tail = Len(lh) /\ diskHead = lh
        /\ lh' = <<>> /\ diskHead' = <<>> /\ tail' = 0
        /\ phase' = IF recovering THEN "none" ELSE "done"
        /\ recovering' = FALSE
        /\ UNCHANGED <<disk, diskLog, cache, pin, outstanding, committing, pc, wrote, ops,
                       committer, panic, crashes>>
    BY DEF ClearHead, LoopDone, LogInv, PhaseInv, opVars
  <1>2. lh \in Seq(Block) /\ Len(lh) \in Nat /\ DOMAIN lh = 1..Len(lh) /\ Len(lh) <= LOGSIZE
        /\ \A i \in DOMAIN lh : lh[i] \in Block
    BY LenProperties, ElementOfSeq DEF LogInv, TypeOK
  <1>3. lh' \in Seq(Block) /\ Len(lh') = 0 /\ diskHead' \in Seq(Block) /\ Len(diskHead') = 0
        /\ DOMAIN lh' = {} /\ DOMAIN diskHead' = {}
    BY <1>1
  <1>4. \A c \in Block : pin[c] = 0
    BY <1>1, <1>2 DEF LogInv, PinsExact
  <1>5. \A i \in DOMAIN lh : disk[lh[i]] \in Value
    BY <1>1, <1>2, Zenon DEF LogInv, CopyInv, TornInv
  <1>6. TypeOK'
    <2>1. tail' \in 0..Len(lh') /\ Len(lh') <= LOGSIZE /\ Len(diskHead') <= LOGSIZE
      BY <1>1, <1>3, LogConstants
    <2>2. recovering' \in BOOLEAN /\ phase' \in Phases
      BY <1>1, Zenon
    <2> QED
      BY <1>1, <1>3, <2>1, <2>2, Zenon DEF LogInv, TypeOK
  <1>7. PhaseInv' /\ CallInv' /\ NoLostWakeup'
    BY <1>1, Zenon DEF LogInv, PhaseInv, CallInv, NoLostWakeup, Active, TypeOK
  <1>8. PinsExact' /\ CacheInv'
    BY <1>1, <1>3, <1>4, Zenon DEF LogInv, PinsExact, CacheInv, Read
  <1>9. Distinct(lh)' /\ Distinct(diskHead)' /\ CopyInv'
    BY <1>1, <1>3, Zenon DEF Distinct, CopyInv
  <1>10. TornInv'
    BY <1>1, <1>3, <1>5 DEF LogInv, TornInv
  <1> QED
    BY <1>6, <1>7, <1>8, <1>9, <1>10, Zenon DEF LogInv

\* The end of end_op(): every sleeper in begin_op() is woken.
LEMMA CommitDoneInv == ASSUME LogInv, CommitDone PROVE LogInv'
  <1>1. /\ phase = "done" /\ ~recovering /\ committing /\ lh = <<>> /\ diskHead = <<>> /\ tail = 0
        /\ committer \in Proc
        /\ committing' = FALSE /\ phase' = "none" /\ committer' = NoProc
        /\ pc' = Wakeup([pc EXCEPT ![committer] = "idle"])
        /\ UNCHANGED <<disk, diskLog, diskHead, cache, pin, lh, outstanding, wrote, ops, tail,
                       recovering, panic, crashes>>
    BY Zenon DEF CommitDone, LogInv, PhaseInv, diskVars, TypeOK
  <1>2. pc' \in [Proc -> {"idle", "asleep", "woken", "inop", "commit"}]
    BY <1>1, Zenon DEF LogInv, TypeOK, Wakeup
  <1>3. \A q \in Proc : pc'[q] # "asleep" /\ (pc'[q] = "inop" => pc[q] = "inop")
    BY <1>1 DEF LogInv, TypeOK, Wakeup
  <1>4. Active = {} /\ Active' = {}
    BY <1>1, <1>3, Zenon DEF LogInv, CallInv, Active
  <1>5. TypeOK'
    <2>1. committing' \in BOOLEAN /\ phase' \in Phases /\ committer' \in Proc \cup {NoProc}
      BY <1>1, Zenon
    <2> QED
      BY <1>1, <1>2, <2>1, Zenon DEF LogInv, TypeOK
  <1>6. PhaseInv' /\ CallInv' /\ NoLostWakeup'
    BY <1>1, <1>3, <1>4, Zenon DEF LogInv, PhaseInv, CallInv, NoLostWakeup
  <1>7. PinsExact' /\ CacheInv' /\ CopyInv' /\ TornInv' /\ Distinct(lh)' /\ Distinct(diskHead)'
    BY <1>1 DEF LogInv, PinsExact, CacheInv, CopyInv, TornInv, Distinct, Read
  <1> QED
    BY <1>5, <1>6, <1>7, Zenon DEF LogInv

-----------------------------------------------------------------------------
(* The buffer cache, crashes and the start of recovery.                    *)

\* Filling or recycling an unpinned buffer does not change what readers see.
LEMMA BufferInv ==
    ASSUME LogInv, NEW b \in Block, Bread(b) \/ Evict(b)
    PROVE  LogInv' /\ \A c \in Block : Read(c)' = Read(c)
  <1>1. UNCHANGED <<disk, diskLog, diskHead, pin, lh, outstanding, committing, pc, wrote, ops,
                    phase, tail, committer, recovering, panic, crashes>>
    BY Zenon DEF Bread, Evict, diskVars, opVars, commitVars
  <1>2. pin[b] = 0 /\ Read(b) = disk[b]
    BY DEF Bread, Evict, LogInv, CacheInv, TypeOK
  <1>3. \/ cache' = [cache EXCEPT ![b] = NotCached]
        \/ cache' = [cache EXCEPT ![b] = disk[b]] /\ ~recovering
    BY DEF Bread, Evict
  <1>4. cache' \in [Block -> Value \cup {Torn, NotCached}]
    BY <1>3, Zenon DEF LogInv, TypeOK
  <1>5. \A c \in Block : Read(c)' = Read(c)
    BY <1>1, <1>2, <1>3, Zenon DEF LogInv, TypeOK, Read
  <1>6. \A c \in Block : pin[c] > 0 => cache'[c] = cache[c]
    BY <1>2, <1>3 DEF LogInv, TypeOK
  <1>7. TypeOK'
    BY <1>1, <1>4 DEF LogInv, TypeOK
  <1>8. PhaseInv' /\ CallInv' /\ NoLostWakeup' /\ PinsExact' /\ Distinct(lh)' /\ Distinct(diskHead)'
    <2>1. PhaseInv'
      BY <1>1 DEF LogInv, PhaseInv
    <2>2. CallInv' /\ NoLostWakeup'
      BY <1>1, Zenon DEF LogInv, CallInv, NoLostWakeup, Active
    <2>3. PinsExact' /\ Distinct(lh)' /\ Distinct(diskHead)'
      BY <1>1, Zenon DEF LogInv, PinsExact, Distinct
    <2> QED
      BY <2>1, <2>2, <2>3, Zenon
  <1>9. CacheInv'
    <2> SUFFICES ASSUME NEW c \in Block
                 PROVE  /\ pin'[c] > 0 => cache'[c] # NotCached
                        /\ pin'[c] = 0 => Read(c)' = disk'[c]
      BY DEF CacheInv
    <2>1. pin'[c] = pin[c] /\ disk'[c] = disk[c]
      BY <1>1, Zenon
    <2>2. /\ pin[c] > 0 => cache[c] # NotCached
          /\ pin[c] = 0 => Read(c) = disk[c]
      BY Zenon DEF LogInv, CacheInv
    <2>3. Read(c)' = Read(c) /\ (pin[c] > 0 => cache'[c] = cache[c])
      BY <1>5, <1>6, Zenon
    <2> QED
      BY <2>1, <2>2, <2>3, Zenon
  <1>10. CopyInv'
    <2>1. \A i \in DOMAIN lh : lh[i] \in Block
      BY LenProperties, ElementOfSeq, Zenon DEF LogInv, TypeOK
    <2>2. \A i \in DOMAIN lh : Read(lh[i])' = Read(lh[i])
      BY <1>1, <1>5, <2>1, Zenon DEF Read
    <2>3. 1..tail \subseteq DOMAIN lh
      BY LenProperties DEF LogInv, TypeOK
    <2> QED
      BY <1>1, <2>2, <2>3, Zenon DEF LogInv, CopyInv
  <1>11. TornInv'
    <2>1. ~recovering => disk[b] \in Value
      <3>1. ASSUME ~recovering, disk[b] \notin Value PROVE FALSE
        <4>1. PICK i \in DOMAIN diskHead : diskHead[i] = b
          BY <3>1, Zenon DEF LogInv, TornInv
        <4>2. phase = "install" /\ diskHead = lh
          BY <3>1, <4>1 DEF LogInv, PhaseInv, TypeOK
        <4>3. i \in 1..Len(lh) /\ Len(lh) \in Nat
          BY <4>1, <4>2, LenProperties DEF LogInv, TypeOK
        <4>4. i \in 1..tail
          <5>1. ~(i > tail)
            BY <1>2, <3>1, <4>1, <4>2 DEF LogInv, PinsExact
          <5>2. tail \in 0..Len(lh)
            BY Zenon DEF LogInv, TypeOK
          <5> QED
            BY <4>3, <5>1, <5>2
        <4> QED
          BY <3>1, <4>1, <4>2, <4>4, Zenon DEF LogInv, CopyInv, TornInv
      <3> QED
        BY <3>1, Zenon
    <2>2. \A c \in Block : cache'[c] # Torn
      BY <1>3, <2>1, LogConstants DEF LogInv, TornInv, TypeOK
    <2> QED
      BY <1>1, <2>2, Zenon DEF LogInv, TornInv
  <1> QED
    BY <1>5, <1>7, <1>8, <1>9, <1>10, <1>11, Zenon DEF LogInv

\* A crash tears only log blocks outside a committed transaction, and only
\* home blocks inside one.
LEMMA CrashDisk ==
    ASSUME LogInv, Crash
    PROVE  /\ diskHead' = diskHead
           /\ diskLog' \in [1..LOGSIZE -> Value \cup {Torn}]
           /\ \A i \in DOMAIN diskHead : diskLog'[i] = diskLog[i]
           /\ disk' \in [Block -> Value \cup {Torn}]
           /\ \A b \in Block : disk'[b] = disk[b] \/ \E i \in DOMAIN diskHead : diskHead[i] = b
  <1>1. diskHead' = diskHead
    BY DEF Crash
  <1>2. /\ diskLog' \in [1..LOGSIZE -> Value \cup {Torn}]
        /\ \A i \in DOMAIN diskHead : diskLog'[i] = diskLog[i]
    <2>1. CASE phase = "write_log" /\ tail < Len(lh)
      <3>1. diskHead = <<>> /\ DOMAIN diskHead = {}
        BY <2>1 DEF LogInv, PhaseInv
      <3>2. diskLog' \in {diskLog, [diskLog EXCEPT ![tail + 1] = Torn]}
        BY <2>1 DEF Crash, TornLog
      <3> QED
        BY <3>1, <3>2 DEF LogInv, TypeOK
    <2>2. CASE ~(phase = "write_log" /\ tail < Len(lh))
      BY <2>2, Zenon DEF Crash, TornLog, LogInv, TypeOK
    <2> QED
      BY <2>1, <2>2, Zenon
  <1>3. /\ disk' \in [Block -> Value \cup {Torn}]
        /\ \A b \in Block : disk'[b] = disk[b] \/ \E i \in DOMAIN diskHead : diskHead[i] = b
    <2>1. CASE phase = "install" /\ tail < Len(lh)
      <3>1. diskHead = lh /\ lh[tail + 1] \in Block /\ tail + 1 \in DOMAIN lh
        BY <2>1, LoopFacts, Zenon DEF LogInv, PhaseInv
      <3>2. disk' \in {disk, [disk EXCEPT ![lh[tail + 1]] = Torn]}
        BY <2>1, Zenon DEF Crash, TornDisk
      <3> QED
        BY <3>1, <3>2, Zenon DEF LogInv, TypeOK
    <2>2. CASE ~(phase = "install" /\ tail < Len(lh))
      BY <2>2 DEF Crash, TornDisk, LogInv, TypeOK
    <2> QED
      BY <2>1, <2>2
  <1> QED
    BY <1>1, <1>2, <1>3

\* Power loss at any point, tearing at most the block being written.
LEMMA CrashInv == ASSUME LogInv, Crash PROVE LogInv'
  <1>1. /\ cache' = [b \in Block |-> NotCached] /\ pin' = [b \in Block |-> 0]
        /\ lh' = <<>> /\ outstanding' = 0 /\ committing' = FALSE
        /\ pc' = [p \in Proc |-> "idle"] /\ wrote' = [p \in Proc |-> {}]
        /\ ops' = [p \in Proc |-> 0]
        /\ phase' = "read_head" /\ tail' = 0 /\ committer' = NoProc
        /\ recovering' = TRUE /\ panic' = FALSE
        /\ diskHead' = diskHead /\ crashes' = crashes + 1
    BY DEF Crash
  <1>2. /\ diskLog' \in [1..LOGSIZE -> Value \cup {Torn}]
        /\ \A i \in DOMAIN diskHead : diskLog'[i] = diskLog[i]
    BY CrashDisk
  <1>3. /\ disk' \in [Block -> Value \cup {Torn}]
        /\ \A b \in Block : disk'[b] = disk[b] \/ \E i \in DOMAIN diskHead : diskHead[i] = b
    BY CrashDisk
  <1>4. Active' = {} /\ Cardinality(Active') = 0
    BY <1>1, FS_EmptySet, Zenon DEF Active
  <1>5. TypeOK'
    <2>1. lh' \in Seq(Block) /\ Len(lh') = 0
      BY <1>1
    <2>2. cache' \in [Block -> Value \cup {Torn, NotCached}] /\ pin' \in [Block -> Nat]
      BY <1>1
    <2>3. /\ pc' \in [Proc -> {"idle", "asleep", "woken", "inop", "commit"}]
          /\ wrote' \in [Proc -> SUBSET Block]
          /\ ops' \in [Proc -> Nat]
      BY <1>1, Zenon
    <2>4. /\ outstanding' \in Nat /\ crashes' \in Nat /\ tail' \in 0..Len(lh') /\ Len(lh') <= LOGSIZE
      BY <1>1, <2>1, LogConstants DEF LogInv, TypeOK
    <2>5. committing' \in BOOLEAN /\ recovering' \in BOOLEAN /\ panic' \in BOOLEAN
      BY <1>1, Zenon
    <2>6. phase' \in Phases /\ committer' \in Proc \cup {NoProc}
      BY <1>1, Zenon
    <2>7. diskHead' \in Seq(Block) /\ Len(diskHead') <= LOGSIZE
      BY <1>1, Zenon DEF LogInv, TypeOK
    <2> QED
      BY <1>2, <1>3, <2>1, <2>2, <2>3, <2>4, <2>5, <2>6, <2>7, Zenon DEF TypeOK
  <1>6. PhaseInv' /\ CallInv' /\ NoLostWakeup'
    BY <1>1, <1>4 DEF PhaseInv, CallInv, NoLostWakeup
  <1>7. PinsExact' /\ CacheInv'
    BY <1>1 DEF PinsExact, CacheInv, Read
  <1>8. CopyInv' /\ Distinct(lh)' /\ Distinct(diskHead)'
    <2>1. CopyInv'
      BY <1>1, Zenon DEF CopyInv
    <2>2. Distinct(lh)'
      BY <1>1 DEF Distinct
    <2>3. Distinct(diskHead)'
      BY <1>1, Zenon DEF LogInv, Distinct
    <2> QED
      BY <2>1, <2>2, <2>3, Zenon
  <1>9. TornInv'
    <2>1. \A i \in DOMAIN diskHead' : diskLog'[i] \in Value
      BY <1>1, <1>2, Zenon DEF LogInv, TornInv
    <2>2. \A b \in Block : cache'[b] # Torn
      BY <1>1, LogConstants, Zenon
    <2>3. ASSUME NEW b \in Block
          PROVE  disk'[b] \in Value \/ \E i \in DOMAIN diskHead' : diskHead'[i] = b
      <3>1. disk[b] \in Value \/ \E i \in DOMAIN diskHead : diskHead[i] = b
        BY Zenon DEF LogInv, TornInv
      <3>2. disk'[b] = disk[b] \/ \E i \in DOMAIN diskHead : diskHead[i] = b
        BY <1>3, Zenon
      <3> QED
        BY <1>1, <3>1, <3>2, Zenon
    <2> QED
      BY <2>1, <2>2, <2>3, Zenon DEF TornInv
  <1> QED
    BY <1>5, <1>6, <1>7, <1>8, <1>9, Zenon DEF LogInv

\* read_head() at boot.
LEMMA ReadHeadInv == ASSUME LogInv, ReadHead PROVE LogInv'
  <1>1. /\ phase = "read_head" /\ recovering /\ tail = 0
        /\ lh' = diskHead /\ phase' = "install"
        /\ UNCHANGED <<disk, diskLog, diskHead, cache, pin, outstanding, committing, pc, wrote, ops,
                       tail, committer, recovering, panic, crashes>>
    BY Zenon DEF ReadHead, LogInv, PhaseInv, TypeOK, diskVars, opVars
  <1>2. TypeOK'
    <2>1. Len(diskHead) \in Nat
      BY LenProperties DEF LogInv, TypeOK
    <2>2. tail' \in 0..Len(lh') /\ phase' \in Phases
      BY <1>1, <2>1
    <2> QED
      BY <1>1, <2>2, Zenon DEF LogInv, TypeOK
  <1>3. PhaseInv' /\ CallInv' /\ NoLostWakeup'
    BY <1>1, Zenon DEF LogInv, PhaseInv, CallInv, NoLostWakeup, Active
  <1>4. PinsExact'
    BY <1>1, Zenon DEF LogInv, PinsExact
  <1>5. CacheInv'
    BY <1>1, Zenon DEF LogInv, CacheInv, Read
  <1>6. CopyInv'
    BY <1>1 DEF CopyInv
  <1>7. TornInv'
    BY <1>1, Zenon DEF LogInv, TornInv
  <1>8. Distinct(lh)' /\ Distinct(diskHead)'
    BY <1>1 DEF LogInv, Distinct
  <1> QED
    BY <1>2, <1>3, <1>4, <1>5, <1>6, <1>7, <1>8, Zenon DEF LogInv

\* Every step of the specification preserves the invariant.
LEMMA NextInv == LogInv /\ [Next]_vars => LogInv'
  <1> SUFFICES ASSUME LogInv, [Next]_vars PROVE LogInv'
    OBVIOUS
  <1>1. CASE UNCHANGED vars
    <2> USE <1>1 DEF vars, LogInv
    <2>1. TypeOK' /\ Distinct(lh)' /\ Distinct(diskHead)'
      BY Zenon DEF TypeOK, Distinct
    <2>2. PhaseInv' /\ CallInv' /\ NoLostWakeup'
      BY Zenon DEF PhaseInv, CallInv, Active, NoLostWakeup
    <2>3. PinsExact' /\ CacheInv'
      BY Zenon DEF PinsExact, CacheInv, Read
    <2>4. CopyInv' /\ TornInv'
      BY Zenon DEF CopyInv, TornInv, Read
    <2> QED
      BY <2>1, <2>2, <2>3, <2>4, Zenon
  <1>2. CASE Next
    BY <1>2, BeginOpInv, EndOpInv, LogWriteInv, WriteLogInv, WriteHeadInv, InstallInv,
       ClearHeadInv, CommitDoneInv, BufferInv, CrashInv, ReadHeadInv
    DEF Next, CommitStep
  <1> QED
    BY <1>1, <1>2

-----------------------------------------------------------------------------
(* The theorems.                                                           *)

\* The invariant of log.c holds in every reachable state.
THEOREM LogSafety == Spec => []LogInv
  BY InitInv, NextInv, PTL DEF Spec

-----------------------------------------------------------------------------
(* What the invariant implies.                                             *)

\* The recoverable contents of a block, in and out of the header on the disk.
LEMMA Recovered ==
    ASSUME LogInv
    PROVE  /\ \A i \in DOMAIN diskHead : diskHead[i] \in Block
                                         /\ RecoveredDisk[diskHead[i]] = diskLog[i]
           /\ \A b \in Block : (~\E i \in DOMAIN diskHead : diskHead[i] = b)
                                  => RecoveredDisk[b] = disk[b]
  <1>1. \A i \in DOMAIN diskHead : diskHead[i] \in Block
    BY LenProperties, ElementOfSeq, Zenon DEF LogInv, TypeOK
  <1>2. ASSUME NEW i \in DOMAIN diskHead PROVE RecoveredDisk[diskHead[i]] = diskLog[i]
    <2>1. (CHOOSE j \in DOMAIN diskHead : diskHead[j] = diskHead[i]) = i
      BY DEF LogInv, Distinct
    <2> QED
      BY <1>1, <2>1, Zenon DEF RecoveredDisk
  <1> QED
    BY <1>1, <1>2, Zenon DEF RecoveredDisk

\* Outside recovery a block that is not pinned is the same on the disk, in the
\* cache and after a crash.
LEMMA Unpinned ==
    ASSUME LogInv, NEW b \in Block, pin[b] = 0, recovering => phase = "install" /\ tail = Len(lh)
    PROVE  RecoveredDisk[b] = disk[b] /\ Read(b) = disk[b]
  <1>1. Read(b) = disk[b]
    BY Zenon DEF LogInv, CacheInv
  <1>2. CASE \E i \in DOMAIN diskHead : diskHead[i] = b
    <2>1. PICK i \in DOMAIN diskHead : diskHead[i] = b
      BY <1>2, Zenon
    <2>2. phase = "install" /\ diskHead = lh
      BY <2>1 DEF LogInv, PhaseInv, TypeOK
    <2>3. i \in 1..Len(lh) /\ Len(lh) \in Nat /\ lh[i] = b
      BY <2>1, <2>2, LenProperties, Zenon DEF LogInv, TypeOK
    <2>4. tail \in 0..Len(lh)
      BY DEF LogInv, TypeOK
    <2>5. i <= tail
      <3>1. CASE recovering
        <4>1. tail = Len(lh)
          BY <3>1
        <4>2. i \in 1..Len(lh)
          BY <2>3
        <4> QED
          BY <4>1, <4>2
      <3>2. CASE ~recovering
        <4>1. ~\E j \in DOMAIN lh : lh[j] = b /\ j > tail
          BY <2>2, <3>2 DEF LogInv, PinsExact
        <4>2. ~(i > tail)
          BY <2>1, <2>2, <4>1, Zenon
        <4> QED
          BY <2>3, <2>4, <4>2
      <3> QED
        BY <3>1, <3>2, Zenon
    <2>6. i \in 1..tail
      BY <2>3, <2>4, <2>5
    <2>7. disk[lh[i]] = diskLog[i]
      BY <2>2, <2>6, Zenon DEF LogInv, CopyInv
    <2> QED
      BY <1>1, <2>1, <2>2, <2>7, Recovered, Zenon
  <1>3. CASE ~\E i \in DOMAIN diskHead : diskHead[i] = b
    BY <1>1, <1>3, Recovered, Zenon
  <1> QED
    BY <1>2, <1>3

\* Every safety property of the module follows from the invariant.
LEMMA InvImplies ==
    LogInv => NoCommitWhileActive /\ NeverTorn /\ CommittedOnReturn
  <1> SUFFICES ASSUME LogInv PROVE NoCommitWhileActive /\ NeverTorn /\ CommittedOnReturn
    OBVIOUS
  <1>1. NoCommitWhileActive
    BY FS_EmptySet, Zenon DEF LogInv, CallInv, NoCommitWhileActive
  <1>2. ASSUME NEW b \in Block PROVE RecoveredDisk[b] # Torn
    BY Recovered, LogConstants DEF LogInv, TornInv
  <1>3. ASSUME NEW b \in Block PROVE CurrentDisk[b] # Torn
    <2>1. CASE recovering
      BY <1>2, <2>1, Zenon DEF CurrentDisk
    <2>2. CASE ~recovering
      <3>1. CurrentDisk[b] = Read(b)
        BY <2>2, Zenon DEF CurrentDisk
      <3>2. CASE cache[b] = NotCached
        <4>1. pin[b] = 0
          BY <3>2 DEF LogInv, CacheInv, TypeOK
        <4> QED
          BY <1>2, <2>2, <3>1, <4>1, Unpinned, Zenon
      <3>3. CASE cache[b] # NotCached
        BY <3>1, <3>3, Zenon DEF LogInv, TornInv, Read
      <3> QED
        BY <3>2, <3>3
    <2> QED
      BY <2>1, <2>2
  <1>4. CommittedOnReturn
    <2> SUFFICES ASSUME phase = "done", NEW b \in Block
                 PROVE  Read(b) = disk[b] /\ RecoveredDisk[b] = disk[b]
      BY Zenon DEF CommittedOnReturn
    <2>1. ~recovering /\ lh = <<>>
      BY DEF LogInv, PhaseInv, TypeOK
    <2>2. pin[b] = 0
      BY <2>1 DEF LogInv, PinsExact
    <2> QED
      BY <2>1, <2>2, Unpinned, Zenon
  <1> QED
    BY <1>1, <1>2, <1>3, <1>4 DEF NeverTorn

\* log.c is type correct: in particular the transaction never outgrows the
\* header, and the loops of commit() and recovery stay inside it.
THEOREM LogTypeCorrect == Spec => []TypeOK
  <1>1. LogInv => TypeOK
    BY DEF LogInv
  <1> QED
    BY <1>1, LogSafety, PTL

\* commit() never runs while a call is open.
THEOREM CommitExclusion == Spec => []NoCommitWhileActive
  BY InvImplies, LogSafety, PTL

\* A block torn by a crash is never read and never recovered to.
THEOREM TornConfined == Spec => []NeverTorn
  BY InvImplies, LogSafety, PTL

\* bpin() and bunpin() balance.
THEOREM PinsBalance == Spec => []PinsExact
  <1>1. LogInv => PinsExact
    BY DEF LogInv
  <1> QED
    BY <1>1, LogSafety, PTL

\* A process asleep in begin_op() always has a waker.
THEOREM SleepersHaveWaker == Spec => []NoLostWakeup
  <1>1. LogInv => NoLostWakeup
    BY DEF LogInv
  <1> QED
    BY <1>1, LogSafety, PTL

\* When end_op() returns from commit(), everything is at home on the disk.
THEOREM CommitIsDurable == Spec => []CommittedOnReturn
  BY InvImplies, LogSafety, PTL

-----------------------------------------------------------------------------
(* Initial states map to initial states, and every step to one or none.    *)

\* Two disks with the same contents block by block are the same disk.
LEMMA SameDisk ==
    ASSUME NEW f, NEW g, f = [b \in Block |-> f[b]], g = [b \in Block |-> g[b]],
           \A b \in Block : f[b] = g[b]
    PROVE  f = g
  OBVIOUS

\* Both views of the disk are functions on Block.
LEMMA Views ==
    /\ RecoveredDisk = [b \in Block |-> RecoveredDisk[b]]
    /\ CurrentDisk = [b \in Block |-> CurrentDisk[b]]
    /\ RecoveredDisk' = [b \in Block |-> RecoveredDisk'[b]]
    /\ CurrentDisk' = [b \in Block |-> CurrentDisk'[b]]
  <1>1. RecoveredDisk = [b \in Block |-> RecoveredDisk[b]]
    BY Zenon DEF RecoveredDisk
  <1>2. CurrentDisk = [b \in Block |-> CurrentDisk[b]]
    BY <1>1, Zenon DEF CurrentDisk
  <1>3. RecoveredDisk' = [b \in Block |-> RecoveredDisk'[b]]
    BY Zenon DEF RecoveredDisk
  <1>4. CurrentDisk' = [b \in Block |-> CurrentDisk'[b]]
    BY <1>3, Zenon DEF CurrentDisk
  <1> QED
    BY <1>1, <1>2, <1>3, <1>4, Zenon

\* The empty disk image of mkfs is the abstract initial state.
LEMMA InitRefines == Init => AD!Init
  <1> SUFFICES ASSUME Init PROVE AD!Init
    OBVIOUS
  <1>1. RecoveredDisk = MkfsImage
    <2>1. DOMAIN diskHead = {}
      BY DEF Init
    <2> QED
      BY <2>1, LogConstants DEF Init, RecoveredDisk
  <1>2. CurrentDisk = MkfsImage /\ Active = {}
    BY <1>1 DEF Init, CurrentDisk, Active
  <1> QED
    BY <1>1, <1>2 DEF AD!Init

\* Steps that write nothing to the disk leave the recoverable state alone.
LEMMA SameRecovered ==
    ASSUME UNCHANGED <<disk, diskLog, diskHead>> PROVE RecoveredDisk' = RecoveredDisk
  BY Zenon DEF RecoveredDisk

\* Steps that change neither disk nor cache leave both views alone.
LEMMA SameViews ==
    ASSUME UNCHANGED <<disk, diskLog, diskHead, cache, recovering>>
    PROVE  RecoveredDisk' = RecoveredDisk /\ CurrentDisk' = CurrentDisk
  BY SameRecovered DEF CurrentDisk, Read

\* begin_op() opens a call or sleeps.
LEMMA BeginOpRefines ==
    ASSUME LogInv, NEW p \in Proc, BeginOp(p) PROVE AD!Begin(p) \/ UNCHANGED AD!vars
  <1>1. RecoveredDisk' = RecoveredDisk /\ CurrentDisk' = CurrentDisk
    BY SameViews DEF BeginOp, diskVars, commitVars
  <1>2. CASE MustWait
    <2>1. Active' = Active
      BY <1>2 DEF BeginOp, Active, LogInv, TypeOK
    <2> QED
      BY <1>1, <2>1, Zenon DEF AD!vars
  <1>3. CASE ~MustWait
    <2>1. /\ pc[p] # "inop" /\ pc' = [pc EXCEPT ![p] = "inop"]
          /\ pc \in [Proc -> {"idle", "asleep", "woken", "inop", "commit"}]
      BY <1>3, Zenon DEF BeginOp, LogInv, TypeOK
    <2>2. p \notin Active /\ Active' = Active \cup {p}
      BY <2>1 DEF Active
    <2> QED
      BY <1>1, <2>2, Zenon DEF AD!Begin
  <1> QED
    BY <1>2, <1>3, Zenon

\* log_write() is an abstract write.
LEMMA LogWriteRefines ==
    ASSUME LogInv, NEW p \in Proc, NEW b \in Block, NEW v \in Value, LogWrite(p, b, v)
    PROVE  AD!Write(p, b, v) \/ UNCHANGED AD!vars
  <1>1. Active' = Active /\ RecoveredDisk' = RecoveredDisk /\ p \in Active /\ ~recovering /\ ~recovering'
    BY SameRecovered, Zenon DEF LogWrite, Up, Active, diskVars, commitVars
  <1>2. CASE cache' = cache
    BY <1>1, <1>2, SameViews, Zenon DEF LogWrite, diskVars, commitVars, AD!vars
  <1>3. CASE cache' = [cache EXCEPT ![b] = v]
    <2>1. disk' = disk /\ cache \in [Block -> Value \cup {Torn, NotCached}] /\ v # NotCached
      BY LogConstants, Zenon DEF LogWrite, diskVars, LogInv, TypeOK
    <2>2. \A c \in Block : CurrentDisk'[c] = IF c = b THEN v ELSE CurrentDisk[c]
      BY <1>1, <1>3, <2>1, Zenon DEF CurrentDisk, Read
    <2>3. CurrentDisk' = [CurrentDisk EXCEPT ![b] = v]
      BY <2>2, Views
    <2> QED
      BY <1>1, <2>3, Zenon DEF AD!Write
  <1> QED
    BY <1>2, <1>3, Zenon DEF LogWrite

\* end_op() closes the call, whether or not it goes on to commit.
LEMMA EndOpRefines == ASSUME LogInv, NEW p \in Proc, EndOp(p) PROVE AD!End(p)
  <1>1. p \in Active /\ ~committing
    BY Zenon DEF EndOp, Up, Active, LogInv, CallInv
  <1>2. Active' = Active \ {p}
    BY <1>1, Zenon DEF EndOp, Active, Wakeup, LogInv, TypeOK
  <1>3. RecoveredDisk' = RecoveredDisk /\ CurrentDisk' = CurrentDisk
    BY SameViews DEF EndOp, diskVars
  <1> QED
    BY <1>1, <1>2, <1>3, Zenon DEF AD!End

\* Copying blocks into the log area changes neither view: the header is empty.
LEMMA WriteLogRefines == ASSUME LogInv, WriteLog PROVE UNCHANGED AD!vars
  <1>1. /\ ~recovering /\ diskHead = <<>> /\ tail < Len(lh) /\ Active' = Active
        /\ UNCHANGED <<disk, diskHead, recovering>>
        /\ cache' = [cache EXCEPT ![lh[tail + 1]] = Read(lh[tail + 1])]
    BY DEF WriteLog, LogInv, PhaseInv, TypeOK, Active, opVars
  <1>2. DOMAIN diskHead = {} /\ DOMAIN diskHead' = {}
    BY <1>1
  <1>3. RecoveredDisk' = RecoveredDisk
    BY <1>1, <1>2, Zenon DEF RecoveredDisk
  <1>4. \A c \in Block : Read(c)' = Read(c)
    BY <1>1, LoopFacts, Zenon DEF LogInv, TypeOK, Read
  <1>5. CurrentDisk' = CurrentDisk
    BY <1>1, <1>4 DEF CurrentDisk
  <1> QED
    BY <1>1, <1>3, <1>5, Zenon DEF AD!vars

\* Writing the header makes everything that readers see durable, at once.
LEMMA WriteHeadRefines == ASSUME LogInv, WriteHead PROVE AD!Commit
  <1>1. /\ phase = "write_log" /\ tail = Len(lh) /\ ~recovering /\ committing /\ diskHead' = lh
        /\ phase' = "install" /\ Active' = Active
        /\ UNCHANGED <<disk, diskLog, cache, pin, lh, recovering>>
    BY DEF WriteHead, LoopDone, LogInv, PhaseInv, TypeOK, Active, opVars
  <1>2. LogInv'
    BY WriteHeadInv
  <1>3. Active = {}
    BY <1>1, Zenon DEF LogInv, CallInv
  <1>4. CurrentDisk' = CurrentDisk
    BY <1>1, Zenon DEF CurrentDisk, Read
  <1>5. ASSUME NEW b \in Block PROVE RecoveredDisk'[b] = CurrentDisk[b]
    <2>1. CurrentDisk[b] = Read(b) /\ Read(b)' = Read(b)
      BY <1>1, Zenon DEF CurrentDisk, Read
    <2>2. CASE \E i \in DOMAIN lh : lh[i] = b
      <3>1. PICK i \in DOMAIN lh : lh[i] = b
        BY <2>2
      <3>2. (CHOOSE j \in DOMAIN lh : lh[j] = b) = i
        BY <3>1 DEF LogInv, Distinct
      <3>3. RecoveredDisk'[b] = diskLog[i]
        BY <1>1, <3>1, <3>2, Zenon DEF RecoveredDisk
      <3>4. i \in 1..tail
        BY <1>1, <3>1, LenProperties, Zenon DEF LogInv, TypeOK
      <3>5. diskLog[i] = Read(lh[i])
        BY <1>1, <3>4, Zenon DEF LogInv, CopyInv
      <3> QED
        BY <2>1, <3>1, <3>3, <3>5
    <2>3. CASE ~\E i \in DOMAIN lh : lh[i] = b
      <3>1. RecoveredDisk'[b] = disk[b]
        BY <1>1, <2>3, Zenon DEF RecoveredDisk
      <3>2. pin[b] = 0
        BY <2>3 DEF LogInv, PinsExact
      <3> QED
        BY <2>1, <3>1, <3>2, Zenon DEF LogInv, CacheInv
    <2> QED
      BY <2>2, <2>3, Zenon
  <1>6. RecoveredDisk' = CurrentDisk
    BY <1>5, Views, SameDisk
  <1> QED
    BY <1>1, <1>3, <1>4, <1>6, Zenon DEF AD!Commit

\* Installing a block repeats what the log already says.
LEMMA InstallRefines == ASSUME LogInv, Install PROVE UNCHANGED AD!vars
  <1> DEFINE b == lh[tail + 1]
             w == diskLog[tail + 1]
  <1>1. /\ phase = "install" /\ tail < Len(lh) /\ diskHead = lh /\ Active' = Active
        /\ disk' = [disk EXCEPT ![b] = w] /\ cache' = [cache EXCEPT ![b] = w]
        /\ UNCHANGED <<diskLog, diskHead, recovering>>
    BY Zenon DEF Install, LogInv, PhaseInv, Active, opVars
  <1>2. b \in Block /\ tail + 1 \in DOMAIN lh /\ \E i \in DOMAIN diskHead : diskHead[i] = b
    BY <1>1, LoopFacts, Zenon
  <1>3. ASSUME NEW c \in Block PROVE RecoveredDisk'[c] = RecoveredDisk[c]
    <2>1. c # b => disk'[c] = disk[c]
      BY <1>1, Zenon DEF LogInv, TypeOK
    <2> QED
      BY <1>1, <1>2, <2>1, Zenon DEF RecoveredDisk
  <1>4. RecoveredDisk' = RecoveredDisk
    BY <1>3, Views, SameDisk, Zenon
  <1>5. CASE recovering
    BY <1>1, <1>4, <1>5, Zenon DEF CurrentDisk, AD!vars
  <1>6. CASE ~recovering
    <2>1. w = Read(b) /\ w \in Value
      BY <1>1, <1>2, <1>6, Zenon DEF LogInv, CopyInv, TornInv
    <2>2. \A c \in Block : Read(c)' = Read(c)
      BY <1>1, <1>2, <2>1, LogConstants, Zenon DEF LogInv, TypeOK, Read
    <2>3. CurrentDisk' = CurrentDisk
      BY <1>1, <1>6, <2>2 DEF CurrentDisk
    <2> QED
      BY <1>1, <1>4, <2>3, Zenon DEF AD!vars
  <1> QED
    BY <1>5, <1>6, Zenon

\* Clearing the header drops only what is already at home.
LEMMA ClearHeadRefines == ASSUME LogInv, ClearHead PROVE UNCHANGED AD!vars
  <1>1. /\ phase = "install" /\ tail = Len(lh) /\ diskHead' = <<>> /\ ~recovering'
        /\ Active' = Active /\ UNCHANGED <<disk, diskLog, cache>>
    BY DEF ClearHead, LoopDone, Active, opVars
  <1>2. ASSUME NEW b \in Block
        PROVE  RecoveredDisk[b] = disk[b] /\ Read(b) = disk[b]
    <2>1. DOMAIN lh = 1..Len(lh) /\ Len(lh) \in Nat
      BY LenProperties DEF LogInv, TypeOK
    <2>2. \A i \in DOMAIN lh : ~(i > tail)
      BY <1>1, <2>1
    <2>3. pin[b] = 0
      BY <1>1, <2>2, Zenon DEF LogInv, PinsExact
    <2> QED
      BY <1>1, <2>3, Unpinned, Zenon
  <1>3. \A b \in Block : RecoveredDisk'[b] = disk[b]
    <2>1. DOMAIN diskHead' = {}
      BY <1>1
    <2> QED
      BY <1>1, <2>1 DEF RecoveredDisk
  <1>4. RecoveredDisk' = RecoveredDisk
    BY <1>2, <1>3, Views, SameDisk
  <1>5. \A b \in Block : CurrentDisk'[b] = disk[b] /\ CurrentDisk[b] = disk[b]
    BY <1>1, <1>2, Zenon DEF CurrentDisk, Read
  <1>6. CurrentDisk' = CurrentDisk
    BY <1>5, Views, SameDisk
  <1> QED
    BY <1>1, <1>4, <1>6, Zenon DEF AD!vars

\* The end of end_op(), buffer traffic and read_head() are invisible.
LEMMA CommitDoneRefines == ASSUME LogInv, CommitDone PROVE UNCHANGED AD!vars
  <1>1. committer \in Proc /\ committing /\ Active = {}
    BY Zenon DEF CommitDone, LogInv, PhaseInv, CallInv, TypeOK
  <1>2. Active' = {}
    BY <1>1 DEF CommitDone, Active, Wakeup, LogInv, TypeOK
  <1> QED
    BY <1>1, <1>2, SameViews, Zenon DEF CommitDone, diskVars, AD!vars

LEMMA BufferRefines ==
    ASSUME LogInv, NEW b \in Block, Bread(b) \/ Evict(b) PROVE UNCHANGED AD!vars
  <1>1. Active' = Active /\ UNCHANGED <<disk, diskLog, diskHead, recovering>>
    BY DEF Bread, Evict, diskVars, opVars, commitVars, Active
  <1>2. RecoveredDisk' = RecoveredDisk
    BY <1>1, SameRecovered, Zenon
  <1>3. CurrentDisk' = CurrentDisk
    BY <1>1, <1>2, BufferInv, Zenon DEF CurrentDisk
  <1> QED
    BY <1>1, <1>2, <1>3, Zenon DEF AD!vars

LEMMA ReadHeadRefines == ASSUME LogInv, ReadHead PROVE UNCHANGED AD!vars
  BY SameViews DEF ReadHead, diskVars, opVars, Active, AD!vars

\* A crash loses exactly the writes that were not durable.
LEMMA CrashRefines == ASSUME LogInv, Crash PROVE AD!Crash
  <1>1. recovering' /\ Active' = {} /\ diskHead' = diskHead
    BY Zenon DEF Crash, Active
  <1>2. ASSUME NEW b \in Block PROVE RecoveredDisk'[b] = RecoveredDisk[b]
    <2>1. CASE \E i \in DOMAIN diskHead : diskHead[i] = b
      <3>1. (CHOOSE i \in DOMAIN diskHead : diskHead[i] = b) \in DOMAIN diskHead
        BY <2>1, Zenon
      <3> QED
        BY <1>1, <2>1, <3>1, CrashDisk DEF RecoveredDisk
    <2>2. CASE ~\E i \in DOMAIN diskHead : diskHead[i] = b
      BY <1>1, <2>2, CrashDisk, Zenon DEF RecoveredDisk
    <2> QED
      BY <2>1, <2>2, Zenon
  <1>3. RecoveredDisk' = RecoveredDisk
    BY <1>2, Views, SameDisk
  <1>4. CurrentDisk' = RecoveredDisk
    BY <1>1, <1>3, Zenon DEF CurrentDisk
  <1> QED
    BY <1>1, <1>3, <1>4, Zenon DEF AD!Crash

\* Every step of the log is a step of the abstract disk or changes nothing there.
LEMMA NextRefines == LogInv /\ [Next]_vars => [AD!Next]_AD!vars
  <1> SUFFICES ASSUME LogInv, [Next]_vars PROVE AD!Next \/ UNCHANGED AD!vars
    OBVIOUS
  <1>1. CASE UNCHANGED vars
    BY <1>1, SameViews, Zenon DEF vars, AD!vars, Active
  <1>2. CASE \E p \in Proc : BeginOp(p)
    BY <1>2, BeginOpRefines DEF AD!Next
  <1>3. CASE \E p \in Proc : EndOp(p)
    BY <1>3, EndOpRefines, Zenon DEF AD!Next
  <1>4. CASE \E p \in Proc, b \in Block, v \in Value : LogWrite(p, b, v)
    BY <1>4, LogWriteRefines, Zenon DEF AD!Next
  <1>5. CASE CommitStep
    BY <1>5, WriteLogRefines, WriteHeadRefines, InstallRefines, ClearHeadRefines,
       CommitDoneRefines DEF CommitStep, AD!Next
  <1>6. CASE \E b \in Block : Bread(b) \/ Evict(b)
    BY <1>6, BufferRefines
  <1>7. CASE Crash
    BY <1>7, CrashRefines DEF AD!Next
  <1>8. CASE ReadHead
    BY <1>8, ReadHeadRefines
  <1> QED
    BY <1>1, <1>2, <1>3, <1>4, <1>5, <1>6, <1>7, <1>8, Zenon DEF Next

\* Crash atomicity: the redo log, with the cache and recovery it works with,
\* implements AtomicDisk.
THEOREM LogImplementsAtomicDisk == Spec => AtomicSpec
  BY InitRefines, NextRefines, LogSafety, PTL DEF Spec, AtomicSpec, AD!Spec
=============================================================================
