---------------------------- MODULE VirtioLemmas ----------------------------
(***************************************************************************)
(* The disk driver: what the rings hold, how much room they have, and that *)
(* the steps of virtio_disk_rw() up to the entry in the avail ring keep    *)
(* VirtioInv.                                                              *)
(***************************************************************************)
EXTENDS Virtio, NumberFacts, FiniteSetTheorems

\* What the proofs need of the constants.
LEMMA VirtioSizes ==
    /\ NUM \in Nat \ {0} /\ NUM >= 3
    /\ WRAP \in Nat \ {0} /\ WRAP >= NUM
    /\ NULL \notin Buf /\ "intr" \notin Buf
  BY VirtioConstants

\* The indices wrap around where the slots do.
LEMMA WrapMultiple == WRAP % NUM = 0
  BY VirtioConstants

USE VirtioSizes

-----------------------------------------------------------------------------
(* The rings.                                                              *)

\* A slot of the rings.
LEMMA SlotType ==
    ASSUME NEW i \in Int
    PROVE  i % NUM \in Desc
  BY DEF Desc

\* How far one index is ahead of another, without remainders.
LEMMA AheadIs ==
    ASSUME NEW i \in 0..(WRAP - 1), NEW j \in 0..(WRAP - 1)
    PROVE  /\ Ahead(i, j) = IF i <= j THEN j - i ELSE j + WRAP - i
           /\ Ahead(i, j) \in 0..(WRAP - 1)
           /\ Ahead(i, j) = 0 <=> i = j
  <1>1. Ahead(i, j) = IF i <= j THEN j - i ELSE j + WRAP - i
    BY IndexDistance DEF Ahead
  <1> QED
    BY <1>1

\* The slot of an index, counted from an index behind it.
LEMMA AheadSlot ==
    ASSUME NEW i \in 0..(WRAP - 1), NEW j \in 0..(WRAP - 1), NEW k \in Int
    PROVE  (j + k) % NUM = (i + Ahead(i, j) + k) % NUM
  <1>1. CASE i <= j
    <2>1. i + Ahead(i, j) + k = j + k
      BY <1>1, AheadIs
    <2> QED
      BY <2>1
  <1>2. CASE ~(i <= j)
    <2>1. i + Ahead(i, j) + k = (j + k) + WRAP
      BY <1>2, AheadIs
    <2>2. j + k \in Int /\ WRAP \in Int
      OBVIOUS
    <2>3. ((j + k) + WRAP) % NUM = (j + k) % NUM
      BY <2>2, ModMultiple, WrapMultiple, Zenon
    <2> QED
      BY <2>1, <2>3
  <1> QED
    BY <1>1, <1>2

\* The index that is ahead is advanced.
LEMMA AheadGrows ==
    ASSUME NEW i \in 0..(WRAP - 1), NEW j \in 0..(WRAP - 1), Ahead(i, j) < WRAP - 1
    PROVE  Inc(j) \in 0..(WRAP - 1) /\ Ahead(i, Inc(j)) = Ahead(i, j) + 1
  <1>1. (j + WRAP - i) % WRAP # WRAP - 1
    BY AheadIs DEF Ahead
  <1>2. (((j + 1) % WRAP) + WRAP - i) % WRAP = ((j + WRAP - i) % WRAP) + 1
    BY <1>1, WriterStep, Zenon
  <1>3. (j + 1) % WRAP \in 0..(WRAP - 1)
    BY IndexStep
  <1> QED
    BY <1>2, <1>3 DEF Ahead, Inc

\* The index that is behind is advanced.
LEMMA AheadShrinks ==
    ASSUME NEW i \in 0..(WRAP - 1), NEW j \in 0..(WRAP - 1), i # j
    PROVE  Inc(i) \in 0..(WRAP - 1) /\ Ahead(Inc(i), j) = Ahead(i, j) - 1
  <1>1. (j + WRAP - ((i + 1) % WRAP)) % WRAP = ((j + WRAP - i) % WRAP) - 1
    BY ReaderStep, Zenon
  <1>2. (i + 1) % WRAP \in 0..(WRAP - 1)
    BY IndexStep
  <1> QED
    BY <1>1, <1>2 DEF Ahead, Inc

\* The slot of an index that was advanced.
LEMMA IncSlot ==
    ASSUME NEW i \in 0..(WRAP - 1)
    PROVE  \A k \in Int : (Inc(i) + k) % NUM = (i + 1 + k) % NUM
  <1>1. /\ NUM \in Nat \ {0} /\ WRAP \in Nat \ {0} /\ WRAP % NUM = 0
        /\ i \in 0..(WRAP - 1)
    BY WrapMultiple
  <1>2. \A k \in Int : (((i + 1) % WRAP) + k) % NUM = (i + 1 + k) % NUM
    BY ONLY <1>1, SlotStep, ZenonT(30)
  <1> QED
    BY <1>2 DEF Inc

\* Whoever writes outside the entries does not change them.
LEMMA EntriesSame ==
    ASSUME NEW r, NEW s, NEW i \in Int, NEW n \in Nat,
           \A k \in 0..(n - 1) : s[(i + k) % NUM] = r[(i + k) % NUM]
    PROVE  /\ Entries(s, i, n) = Entries(r, i, n)
           /\ EntriesDiffer(r, i, n) => EntriesDiffer(s, i, n)
  BY Zenon DEF Entries, EntriesDiffer

\* Less than NUM entries leave the slot after them free.
LEMMA EntriesUntouched ==
    ASSUME NEW r, NEW s, NEW i \in Int, NEW n \in Nat, n < NUM,
           \A j \in Desc : j # (i + n) % NUM => s[j] = r[j]
    PROVE  /\ Entries(s, i, n) = Entries(r, i, n)
           /\ EntriesDiffer(r, i, n) => EntriesDiffer(s, i, n)
  <1>1. ASSUME NEW k \in 0..(n - 1)
        PROVE  (i + k) % NUM \in Desc /\ (i + k) % NUM # (i + n) % NUM
    <2>1. i + k \in Int /\ i + n \in Int /\ i + k < i + n /\ i + n < (i + k) + NUM
      OBVIOUS
    <2> QED
      BY <2>1, SlotType, SlotsDiffer, Zenon
  <1>2. \A k \in 0..(n - 1) : s[(i + k) % NUM] = r[(i + k) % NUM]
    BY <1>1
  <1> QED
    BY <1>2, EntriesSame, Zenon

\* What is in the slot after the entries becomes one of them.
LEMMA EntriesAdd ==
    ASSUME NEW r, NEW i \in Int, NEW n \in Nat, EntriesDiffer(r, i, n),
           r[(i + n) % NUM] \notin Entries(r, i, n)
    PROVE  /\ Entries(r, i, n + 1) = Entries(r, i, n) \cup {r[(i + n) % NUM]}
           /\ EntriesDiffer(r, i, n + 1)
  <1>1. 0..((n + 1) - 1) = (0..(n - 1)) \cup {n}
    OBVIOUS
  <1>2. \A k \in 0..(n - 1) : r[(i + k) % NUM] # r[(i + n) % NUM]
    BY Zenon DEF Entries
  <1>3. Entries(r, i, n + 1) = Entries(r, i, n) \cup {r[(i + n) % NUM]}
    BY <1>1 DEF Entries
  <1>4. EntriesDiffer(r, i, n + 1)
    BY <1>1, <1>2 DEF EntriesDiffer
  <1> QED
    BY <1>3, <1>4

\* The entries that are left when the first one is taken.
LEMMA EntriesDrop ==
    ASSUME NEW r, NEW i \in 0..(WRAP - 1), NEW n \in Nat \ {0}, EntriesDiffer(r, i, n)
    PROVE  /\ r[i % NUM] \in Entries(r, i, n)
           /\ Entries(r, Inc(i), n - 1) = Entries(r, i, n) \ {r[i % NUM]}
           /\ EntriesDiffer(r, Inc(i), n - 1)
  <1> DEFINE e(k) == r[(i + k) % NUM]
             f(k) == r[(Inc(i) + k) % NUM]
  <1>1. e(0) = r[i % NUM]
    OBVIOUS
  <1>2. ASSUME NEW k \in 0..((n - 1) - 1) PROVE f(k) = e(k + 1)
    <2>1. k \in Int
      OBVIOUS
    <2>2. (Inc(i) + k) % NUM = (i + 1 + k) % NUM
      BY <2>1, IncSlot
    <2>3. i + 1 + k = i + (k + 1)
      OBVIOUS
    <2> QED
      BY <2>2, <2>3
  <1>3. \A k, l \in 0..(n - 1) : e(k) = e(l) => k = l
    BY DEF EntriesDiffer
  <1>4. /\ Entries(r, i, n) = {e(k) : k \in 0..(n - 1)}
        /\ Entries(r, Inc(i), n - 1) = {f(k) : k \in 0..((n - 1) - 1)}
    BY DEF Entries
  <1>5. SUFFICES /\ e(0) \in {e(k) : k \in 0..(n - 1)}
                 /\ {f(k) : k \in 0..((n - 1) - 1)} = {e(k) : k \in 0..(n - 1)} \ {e(0)}
                 /\ \A k, l \in 0..((n - 1) - 1) : f(k) = f(l) => k = l
    BY <1>1, <1>4, Zenon DEF EntriesDiffer
  <1> HIDE DEF e, f
  <1>6. 0 \in 0..(n - 1)
    OBVIOUS
  <1>7. \A k \in 0..((n - 1) - 1) : k + 1 \in 0..(n - 1) /\ k + 1 # 0
    OBVIOUS
  <1>8. \A k \in 0..(n - 1) : k = 0 \/ (k - 1 \in 0..((n - 1) - 1) /\ (k - 1) + 1 = k)
    OBVIOUS
  <1>9. \A k, l \in 0..((n - 1) - 1) : k + 1 = l + 1 => k = l
    OBVIOUS
  <1>10. ASSUME NEW x \in {f(k) : k \in 0..((n - 1) - 1)}
         PROVE  x \in {e(k) : k \in 0..(n - 1)} \ {e(0)}
    <2>1. PICK k \in 0..((n - 1) - 1) : x = f(k)
      OBVIOUS
    <2>2. x = e(k + 1) /\ k + 1 \in 0..(n - 1) /\ k + 1 # 0
      BY <1>2, <1>7, <2>1
    <2> QED
      BY <1>3, <1>6, <2>2
  <1>11. ASSUME NEW x \in {e(k) : k \in 0..(n - 1)} \ {e(0)}
         PROVE  x \in {f(k) : k \in 0..((n - 1) - 1)}
    <2>1. PICK k \in 0..(n - 1) : x = e(k)
      OBVIOUS
    <2>2. k # 0
      BY <2>1
    <2>3. k - 1 \in 0..((n - 1) - 1) /\ f(k - 1) = e(k)
      BY <1>2, <1>8, <2>2
    <2> QED
      BY <2>1, <2>3
  <1>12. ASSUME NEW k \in 0..((n - 1) - 1), NEW l \in 0..((n - 1) - 1), f(k) = f(l)
         PROVE  k = l
    <2>1. e(k + 1) = e(l + 1)
      BY <1>2, <1>12
    <2> QED
      BY <1>3, <1>7, <1>9, <2>1
  <1> QED
    BY <1>6, <1>10, <1>11, <1>12

\* Different entries are as many as their slots.
LEMMA EntriesCount ==
    ASSUME NEW r, NEW i \in Int, NEW n \in Nat, EntriesDiffer(r, i, n)
    PROVE  IsFiniteSet(Entries(r, i, n)) /\ Cardinality(Entries(r, i, n)) = n
  <1> DEFINE S == 0..(n - 1)
             T == Entries(r, i, n)
             f == [k \in S |-> r[(i + k) % NUM]]
  <1>1. f \in [S -> T] /\ \A t \in T : \E k \in S : f[k] = t
    BY Zenon DEF Entries
  <1>2. \A k, l \in S : f[k] = f[l] => k = l
    BY DEF EntriesDiffer
  <1>3. IsFiniteSet(S) /\ Cardinality(S) = n
    <2>1. 0 \in Int /\ n - 1 \in Int
      OBVIOUS
    <2>2. /\ IsFiniteSet(0..(n - 1))
          /\ Cardinality(0..(n - 1)) = IF 0 > n - 1 THEN 0 ELSE (n - 1) - 0 + 1
      BY <2>1, FS_Interval, Zenon
    <2> QED
      BY <2>2
  <1> HIDE DEF S, T, f
  <1>4. f \in Bijection(S, T)
    BY <1>1, <1>2 DEF Bijection, Injection, Surjection, IsInjective
  <1>5. ExistsBijection(S, T)
    BY <1>4 DEF ExistsBijection
  <1>6. IsFiniteSet(T) /\ Cardinality(T) = n
    BY <1>3, <1>5, FS_Bijection
  <1> QED
    BY <1>6 DEF T

-----------------------------------------------------------------------------
(* What the invariant says of a call, and how much room the rings have.    *)

\* TypeOK, with one fact for each variable.
LEMMA Types ==
    ASSUME TypeOK
    PROVE  /\ availIdx \in 0..(WRAP - 1) /\ usedIdx \in 0..(WRAP - 1)
           /\ used_idx \in 0..(WRAP - 1) /\ seen \in 0..(WRAP - 1)
           /\ panic \in BOOLEAN /\ owed \in BOOLEAN /\ irq \in BOOLEAN
           /\ \A b \in Buf : /\ idx[b][1] \in Desc /\ idx[b][2] \in Desc /\ idx[b][3] \in Desc
                             /\ DescsOf(b) \subseteq Desc
  <1>1. {availIdx, usedIdx, used_idx, seen} \subseteq 0..(WRAP - 1)
    BY DEF TypeOK
  <1>2. {panic, owed, irq} \subseteq BOOLEAN
    BY DEF TypeOK
  <1>3. \A b \in Buf : idx[b] \in Desc \X Desc \X Desc
    BY DEF TypeOK
  <1>4. \A b \in Buf : idx[b][1] \in Desc /\ idx[b][2] \in Desc /\ idx[b][3] \in Desc
    BY <1>3
  <1> QED
    BY <1>1, <1>2, <1>4, Zenon DEF DescsOf

\* The descriptors are finitely many.
LEMMA DescFinite == IsFiniteSet(Desc) /\ Cardinality(Desc) = NUM /\ Desc \subseteq Nat
  <1>1. 0 \in Int /\ NUM - 1 \in Int
    OBVIOUS
  <1>2. /\ IsFiniteSet(0..(NUM - 1))
        /\ Cardinality(0..(NUM - 1)) = IF 0 > NUM - 1 THEN 0 ELSE (NUM - 1) - 0 + 1
    BY <1>1, FS_Interval, Zenon
  <1> QED
    BY <1>2 DEF Desc

\* A call's descriptors are three, not free, and the chain of the first.
LEMMA OwnerFacts ==
    ASSUME TypeOK, OwnInv, ChainInv, NEW b \in Owners
    PROVE  /\ b \in Buf /\ DescsOf(b) \subseteq Desc /\ DescsOf(b) \cap free = {}
           /\ idx[b][1] \in Desc /\ idx[b][2] \in Desc /\ idx[b][3] \in Desc
           /\ idx[b][1] # idx[b][2] /\ idx[b][1] # idx[b][3] /\ idx[b][2] # idx[b][3]
           /\ Chain(idx[b][1]) = DescsOf(b)
           /\ \A c \in Owners : idx[c][1] = idx[b][1] => c = b
           /\ \A c \in Owners : idx[c][1] # idx[b][2] /\ idx[c][1] # idx[b][3]
  <1>1. b \in Buf
    BY DEF Owners
  <1>2. /\ idx[b][1] \in Desc /\ idx[b][2] \in Desc /\ idx[b][3] \in Desc
        /\ DescsOf(b) \subseteq Desc
    BY <1>1, Types
  <1>3. DescsOf(b) \cap free = {}
    BY Zenon DEF OwnInv
  <1>4. /\ idx[b][1] # idx[b][2] /\ idx[b][1] # idx[b][3] /\ idx[b][2] # idx[b][3]
        /\ desc[idx[b][1]].next = idx[b][2] /\ desc[idx[b][2]].next = idx[b][3]
    BY DEF ChainInv
  <1>5. Chain(idx[b][1]) = DescsOf(b)
    BY <1>4 DEF Chain, DescsOf
  <1>6. \A c \in Owners : c # b => DescsOf(c) \cap DescsOf(b) = {}
    BY DEF OwnInv
  <1>7. \A c \in Owners : idx[c][1] = idx[b][1] => c = b
    BY <1>6, Zenon DEF DescsOf
  <1>8. \A c \in Owners : idx[c][1] # idx[b][2] /\ idx[c][1] # idx[b][3]
    BY <1>4, <1>6, Zenon DEF DescsOf
  <1> QED
    BY <1>1, <1>2, <1>3, <1>4, <1>5, <1>7, <1>8, Zenon

\* Published requests are those of calls that own descriptors.
LEMMA PublishedOwn ==
    ASSUME CallInv
    PROVE  Published \subseteq Owners
  BY DEF CallInv, Published

\* The numbers of entries, and that all heads are descriptors.
LEMMA HeadsCounted ==
    ASSUME TypeOK, RingInv
    PROVE  /\ IsFiniteSet(Waiting) /\ Cardinality(Waiting) = Ahead(seen, availIdx)
           /\ IsFiniteSet(Done) /\ Cardinality(Done) = Ahead(used_idx, usedIdx)
           /\ IsFiniteSet(inflight) /\ Cardinality(inflight) = Ahead(usedIdx, seen)
           /\ Waiting \subseteq Desc /\ Done \subseteq Desc /\ inflight \subseteq Desc
           /\ Ahead(seen, availIdx) \in Nat /\ Ahead(used_idx, usedIdx) \in Nat
           /\ Ahead(usedIdx, seen) \in Nat
  <1>1. /\ Ahead(seen, availIdx) \in Nat /\ Ahead(used_idx, usedIdx) \in Nat
        /\ Ahead(usedIdx, seen) \in Nat
        /\ seen \in Int /\ used_idx \in Int
    BY Types, AheadIs
  <1>2. IsFiniteSet(Waiting) /\ Cardinality(Waiting) = Ahead(seen, availIdx)
    BY <1>1, EntriesCount DEF RingInv, Waiting
  <1>3. IsFiniteSet(Done) /\ Cardinality(Done) = Ahead(used_idx, usedIdx)
    BY <1>1, EntriesCount DEF RingInv, Done
  <1>4. inflight \in SUBSET Desc
    BY DEF TypeOK
  <1>5. IsFiniteSet(inflight)
    BY <1>4, DescFinite, FS_Subset, Zenon
  <1>6. Waiting \subseteq Desc /\ Done \subseteq Desc
    <2>1. \A b \in Published : idx[b][1] \in Desc
      BY Types DEF Published
    <2>2. {idx[b][1] : b \in Published} \subseteq Desc
      BY <2>1, Zenon
    <2> QED
      BY <2>2 DEF RingInv
  <1> QED
    BY <1>1, <1>2, <1>3, <1>4, <1>5, <1>6 DEF RingInv

\* As long as two descriptors are not heads, no ring is full.
LEMMA Room ==
    ASSUME TypeOK, RingInv, NEW x \in Desc, NEW y \in Desc, x # y,
           x \notin {idx[b][1] : b \in Published}, y \notin {idx[b][1] : b \in Published}
    PROVE  Ahead(seen, availIdx) + Ahead(usedIdx, seen) + Ahead(used_idx, usedIdx) <= NUM - 2
  <1> DEFINE H == Waiting \cup inflight
             K == H \cup Done
  <1>1. /\ Waiting \cap inflight = {} /\ Done \cap H = {}
        /\ x \notin K /\ y \notin K
    BY DEF RingInv
  <1>2. IsFiniteSet(H) /\ Cardinality(H) = Ahead(seen, availIdx) + Ahead(usedIdx, seen)
    <2>1. Cardinality(Waiting \cap inflight) = 0
      BY <1>1, FS_EmptySet, Zenon
    <2>2. /\ IsFiniteSet(Waiting \cup inflight)
          /\ Cardinality(Waiting \cup inflight)
                = Cardinality(Waiting) + Cardinality(inflight) - Cardinality(Waiting \cap inflight)
      BY HeadsCounted, FS_Union
    <2> QED
      BY <2>1, <2>2, HeadsCounted
  <1>3. H \subseteq Desc /\ Done \subseteq Desc
    BY HeadsCounted
  <1> HIDE DEF H
  <1>4. IsFiniteSet(K) /\ Cardinality(K) = Cardinality(H) + Ahead(used_idx, usedIdx)
    <2>1. Cardinality(H \cap Done) = 0
      <3>1. H \cap Done = {}
        BY <1>1
      <3> QED
        BY <3>1, FS_EmptySet
    <2>2. /\ IsFiniteSet(H \cup Done)
          /\ Cardinality(H \cup Done) = Cardinality(H) + Cardinality(Done) - Cardinality(H \cap Done)
      BY <1>2, HeadsCounted, FS_Union, Zenon
    <2>3. Cardinality(H) \in Nat /\ Cardinality(Done) \in Nat
      BY <1>2, HeadsCounted, FS_CardinalityType
    <2> QED
      BY <2>1, <2>2, <2>3, HeadsCounted
  <1>5. K \cup {x} \cup {y} \in SUBSET Desc
    BY <1>3
  <1> HIDE DEF K
  <1>6. /\ IsFiniteSet(K \cup {x}) /\ Cardinality(K \cup {x}) = Cardinality(K) + 1
    BY <1>1, <1>4, FS_AddElement
  <1>7. y \notin K \cup {x}
    BY <1>1
  <1>8. Cardinality(K \cup {x} \cup {y}) = Cardinality(K \cup {x}) + 1
    BY <1>6, <1>7, FS_AddElement
  <1>9. Cardinality(K \cup {x} \cup {y}) <= NUM
    BY <1>5, DescFinite, FS_Subset
  <1>10. Cardinality(K) \in Nat /\ Cardinality(H) \in Nat
    BY <1>2, <1>4, FS_CardinalityType
  <1> QED
    BY <1>2, <1>4, <1>6, <1>8, <1>9, <1>10, HeadsCounted

\* A call that owns descriptors leaves room: only one of its three is a head.
LEMMA OwnerLeavesRoom ==
    ASSUME VirtioInv, NEW b \in Owners
    PROVE  Ahead(seen, availIdx) + Ahead(usedIdx, seen) + Ahead(used_idx, usedIdx) <= NUM - 2
  <1>1. TypeOK /\ OwnInv /\ ChainInv /\ CallInv /\ RingInv
    BY DEF VirtioInv
  <1>2. /\ idx[b][2] \in Desc /\ idx[b][3] \in Desc /\ idx[b][2] # idx[b][3]
        /\ \A c \in Owners : idx[c][1] # idx[b][2] /\ idx[c][1] # idx[b][3]
    BY <1>1, OwnerFacts
  <1>3. Published \subseteq Owners
    BY <1>1, PublishedOwn
  <1>4. /\ idx[b][2] \notin {idx[c][1] : c \in Published}
        /\ idx[b][3] \notin {idx[c][1] : c \in Published}
    BY <1>2, <1>3, Zenon
  <1> QED
    BY <1>1, <1>2, <1>4, Room

\* The rings say the same when neither they nor the heads have changed.
LEMMA RingFrame ==
    ASSUME RingInv, UNCHANGED <<avail, availIdx, used, usedIdx, used_idx, seen, inflight>>,
           Published' = Published, \A b \in Published : idx'[b] = idx[b]
    PROVE  RingInv' /\ Done' = Done
  <1>1. {idx'[b][1] : b \in Published} = {idx[b][1] : b \in Published}
    OBVIOUS
  <1>2. Waiting' = Waiting /\ Done' = Done
    BY DEF Waiting, Done, Entries, Ahead
  <1> QED
    BY <1>1, <1>2 DEF RingInv, EntriesDiffer, Ahead

\* The descriptors stay with their owners, and nobody falls asleep without need.
LEMMA OwnFrame ==
    ASSUME OwnInv, UNCHANGED <<free, idx>>, Owners' = Owners,
           \A b \in Buf : pc'[b] = "alloc_sleep" => pc[b] = "alloc_sleep" \/ Cardinality(free) < 3
    PROVE  OwnInv'
  <1>1. \A b : DescsOf(b)' = DescsOf(b)
    BY DEF DescsOf
  <1> QED
    BY <1>1 DEF OwnInv

-----------------------------------------------------------------------------
(* Each step keeps the invariant.                                          *)

\* virtio_disk_init() leaves empty rings and no calls.
LEMMA VirtioInit == Init => VirtioInv
  <1> SUFFICES ASSUME Init PROVE VirtioInv
    OBVIOUS
  <1>1. 0 \in Desc /\ 0 \in 0..(WRAP - 1)
    BY DEF Desc
  <1>2. Owners = {} /\ Published = {}
    BY DEF Init, Owners, Published
  <1>3. TypeOK /\ ~panic
    <2>1. <<0, 0, 0>> \in Desc \X Desc \X Desc
      BY <1>1
    <2>2. idx \in [Buf -> Desc \X Desc \X Desc]
      BY <2>1 DEF Init
    <2>3. desc \in [Desc -> [addr : Buf \cup Desc \cup {NULL}, next : Desc \cup {NULL}]]
      BY DEF Init, NoDesc
    <2>4. info \in [Desc -> [b : Buf \cup {NULL}, status : {0, 255}]]
      BY DEF Init
    <2>5. /\ pc \in [Buf -> {"idle", "alloc", "alloc_sleep", "publish", "sleep", "woken"}]
          /\ busy \in [Buf -> BOOLEAN] /\ same \in [Buf -> BOOLEAN]
      BY Zenon DEF Init
    <2>6. /\ avail \in [Desc -> Desc \cup {NULL}] /\ used \in [Desc -> Desc \cup {NULL}]
          /\ ops \in [Desc -> Buf \cup {NULL}]
      BY Zenon DEF Init
    <2>7. /\ free \subseteq Desc /\ inflight \subseteq Desc /\ lock \in Buf \cup {NULL, "intr"}
          /\ {availIdx, usedIdx, used_idx, seen} \subseteq 0..(WRAP - 1)
          /\ {panic, owed, irq} \subseteq BOOLEAN /\ ~panic
      BY <1>1, Zenon DEF Init
    <2> QED
      BY ONLY <2>2, <2>3, <2>4, <2>5, <2>6, <2>7, Zenon DEF TypeOK
  <1>4. OwnInv
    BY <1>2, Zenon DEF Init, OwnInv
  <1>5. ChainInv /\ DoneInv
    BY <1>2, Zenon DEF ChainInv, DoneInv
  <1>6. CallInv
    BY DEF Init, CallInv
  <1>7. RingInv
    <2>1. Ahead(0, 0) = 0
      BY <1>1, AheadIs
    <2>2. Waiting = {} /\ Done = {}
      <3>1. 0..(0 - 1) = {}
        OBVIOUS
      <3> QED
        BY <2>1, <3>1, Zenon DEF Init, Waiting, Done, Entries
    <2>3. \A r : EntriesDiffer(r, 0, 0)
      BY DEF EntriesDiffer
    <2>4. Cardinality({}) = 0
      BY FS_EmptySet
    <2> QED
      BY <1>2, <2>1, <2>2, <2>3, <2>4, Zenon DEF Init, RingInv
  <1> QED
    BY <1>3, <1>4, <1>5, <1>6, <1>7, Zenon DEF VirtioInv

\* A new call owns nothing yet.
LEMMA CallKeeps ==
    ASSUME NEW b \in Buf, VirtioInv, Call(b)
    PROVE  VirtioInv'
  <1> USE DEF VirtioInv, Call
  <1>1. TypeOK' /\ ~panic'
    BY DEF TypeOK, callVars, descVars, deviceVars
  <1>2. Owners' = Owners /\ Published' = Published /\ b \notin Owners
    BY DEF TypeOK, Owners, Published
  <1>3. OwnInv'
    <2>1. UNCHANGED <<free, idx>> /\ OwnInv
      BY DEF descVars
    <2>2. \A c \in Buf : pc'[c] = "alloc_sleep" => pc[c] = "alloc_sleep"
      BY DEF TypeOK
    <2> QED
      BY ONLY <1>2, <2>1, <2>2, OwnFrame, Zenon
  <1>4. ChainInv'
    BY <1>2 DEF ChainInv, descVars
  <1>5. CallInv'
    BY <1>2 DEF CallInv, TypeOK
  <1>6. RingInv' /\ Done' = Done
    BY <1>2, RingFrame, Zenon DEF deviceVars
  <1>7. DoneInv'
    BY <1>2, <1>6 DEF DoneInv, TypeOK, Owners
  <1> QED
    BY <1>1, <1>3, <1>4, <1>5, <1>6, <1>7, Zenon

\* A call that has to wait for descriptors gives back what it took.
LEMMA AllocSleepKeeps ==
    ASSUME NEW b \in Buf, VirtioInv, AllocSleep(b)
    PROVE  VirtioInv'
  <1> USE DEF VirtioInv, AllocSleep
  <1>1. /\ \A c \in Buf : pc'[c] \in {"publish", "sleep", "woken"} \/ pc[c] \in {"publish", "sleep", "woken"}
                            => pc'[c] = pc[c]
        /\ pc' \in [Buf -> {"idle", "alloc", "alloc_sleep", "publish", "sleep", "woken"}]
    BY DEF TypeOK, WakeAlloc
  <1>2. Owners' = Owners /\ Published' = Published
    BY <1>1 DEF Owners, Published
  <1>3. TypeOK' /\ ~panic'
    BY <1>1, Zenon DEF TypeOK, callVars, descVars, deviceVars
  <1>4. OwnInv'
    BY <1>2, Zenon DEF OwnInv, DescsOf, descVars
  <1>5. ChainInv'
    BY <1>2, Zenon DEF ChainInv, descVars
  <1>6. CallInv'
    BY <1>1, <1>2 DEF CallInv
  <1>7. RingInv' /\ Done' = Done
    BY <1>2, RingFrame, Zenon DEF deviceVars
  <1>8. DoneInv'
    BY <1>2, <1>7 DEF DoneInv
  <1> QED
    BY <1>3, <1>4, <1>5, <1>6, <1>7, <1>8, Zenon

\* A kill wakes a sleeper, which then looks again.
LEMMA KillKeeps ==
    ASSUME NEW b \in Buf, VirtioInv, Kill(b)
    PROVE  VirtioInv'
  <1> USE DEF VirtioInv, Kill
  <1>1. TypeOK' /\ ~panic'
    BY DEF TypeOK, descVars, deviceVars
  <1>2. Owners' = Owners /\ Published' = Published
    BY DEF TypeOK, Owners, Published
  <1>3. OwnInv'
    <2>1. UNCHANGED <<free, idx>> /\ OwnInv
      BY DEF descVars
    <2>2. \A c \in Buf : pc'[c] = "alloc_sleep" => pc[c] = "alloc_sleep"
      BY DEF TypeOK
    <2> QED
      BY ONLY <1>2, <2>1, <2>2, OwnFrame
  <1>4. ChainInv'
    BY <1>2, Zenon DEF ChainInv, descVars
  <1>5. CallInv'
    BY <1>2 DEF CallInv, TypeOK
  <1>6. RingInv' /\ Done' = Done
    BY <1>2, RingFrame, Zenon DEF deviceVars
  <1>7. DoneInv'
    BY <1>2, <1>6 DEF DoneInv
  <1> QED
    BY <1>1, <1>3, <1>4, <1>5, <1>6, <1>7, Zenon

\* The handler takes and releases the lock, and the device raises interrupts.
LEMMA QuietKeeps ==
    ASSUME VirtioInv, IntrAck \/ IntrDone \/ DeviceInterrupt
    PROVE  VirtioInv'
  <1> USE DEF VirtioInv, IntrAck, IntrDone, DeviceInterrupt
  <1>1. /\ UNCHANGED <<same, busy, callVars, descVars, info, avail, availIdx, used, usedIdx,
                       used_idx, panic, seen, inflight>>
        /\ lock' \in Buf \cup {NULL, "intr"} /\ (lock \in Buf => lock' = lock)
        /\ owed' \in BOOLEAN /\ irq' \in BOOLEAN
    <2>1. panic \in BOOLEAN /\ owed \in BOOLEAN /\ irq \in BOOLEAN
      BY Types, Zenon
    <2>2. lock \in Buf \cup {NULL, "intr"}
      BY Zenon DEF TypeOK
    <2> QED
      BY <2>1, <2>2, Zenon DEF deviceVars
  <1> HIDE DEF IntrAck, IntrDone, DeviceInterrupt
  <1>2. TypeOK' /\ ~panic'
    BY <1>1 DEF TypeOK, callVars, descVars
  <1>3. Owners' = Owners /\ Published' = Published
    BY <1>1, Zenon DEF Owners, Published, callVars
  <1>4. OwnInv'
    BY <1>1, <1>3, Zenon DEF OwnInv, DescsOf, callVars, descVars
  <1>5. ChainInv'
    BY <1>1, <1>3, Zenon DEF ChainInv, callVars, descVars
  <1>6. CallInv'
    BY <1>1, <1>3 DEF CallInv, callVars
  <1>7. RingInv' /\ Done' = Done
    BY <1>1, <1>3, RingFrame, Zenon DEF callVars
  <1>8. DoneInv'
    BY <1>1, <1>3, <1>7 DEF DoneInv, callVars
  <1> QED
    BY <1>2, <1>4, <1>5, <1>6, <1>7, <1>8, Zenon

\* alloc3_desc() finds three descriptors when three are free.
LEMMA LowestIs ==
    ASSUME free \subseteq Desc, Cardinality(free) >= 3
    PROVE  /\ Lowest \in free \X free \X free
           /\ Lowest[1] < Lowest[2] /\ Lowest[2] < Lowest[3]
  <1>1. /\ IsFiniteSet(free) /\ Cardinality(free) \in Nat
        /\ \A i \in free : i \in Nat
    BY DescFinite, FS_Subset, FS_CardinalityType, Zenon
  <1>2. free \in SUBSET Nat /\ free # {}
    BY <1>1, FS_EmptySet
  <1>3. PICK i \in free : \A k \in free : i <= k
    BY <1>2, LeastNumber
  <1>4. IsFiniteSet(free \ {i}) /\ Cardinality(free \ {i}) = Cardinality(free) - 1
    BY <1>1, FS_RemoveElement
  <1>5. free \ {i} \in SUBSET Nat /\ free \ {i} # {}
    BY <1>1, <1>4, FS_EmptySet
  <1>6. PICK j \in free \ {i} : \A k \in free \ {i} : j <= k
    BY <1>5, LeastNumber, Zenon
  <1>7. /\ IsFiniteSet((free \ {i}) \ {j})
        /\ Cardinality((free \ {i}) \ {j}) = Cardinality(free \ {i}) - 1
    BY <1>4, FS_RemoveElement, Zenon
  <1>8. (free \ {i}) \ {j} \in SUBSET Nat /\ (free \ {i}) \ {j} # {}
    BY <1>1, <1>4, <1>7, FS_EmptySet
  <1>9. PICK k \in (free \ {i}) \ {j} : \A l \in (free \ {i}) \ {j} : k <= l
    BY <1>8, LeastNumber, Zenon
  <1> DEFINE c == <<i, j, k>>
  <1>10. c \in free \X free \X free /\ c[1] = i /\ c[2] = j /\ c[3] = k
    OBVIOUS
  <1>11. i < j /\ j < k
    BY <1>1, <1>3, <1>6, <1>9
  <1>12. \A l \in free : l <= k => l \in {i, j, k}
    BY <1>1, <1>9
  <1>13. /\ c[1] < c[2] /\ c[2] < c[3]
         /\ \A l \in free : l <= c[3] => l \in {c[1], c[2], c[3]}
    BY <1>10, <1>11, <1>12, Zenon
  <1> HIDE DEF c
  <1>14. \E d \in free \X free \X free :
            /\ d[1] < d[2] /\ d[2] < d[3]
            /\ \A l \in free : l <= d[3] => l \in {d[1], d[2], d[3]}
    BY <1>10, <1>13
  <1> QED
    BY <1>14 DEF Lowest

\* A new chain is made of free descriptors, and its entry takes a free slot.
LEMMA FormatKeeps ==
    ASSUME NEW b \in Buf, VirtioInv, Format(b)
    PROVE  VirtioInv'
  <1> DEFINE c == Lowest
             C == {c[1], c[2], c[3]}
  <1>1. /\ TypeOK /\ OwnInv /\ ChainInv /\ CallInv /\ RingInv /\ DoneInv
        /\ free \subseteq Desc /\ ~panic
    BY DEF VirtioInv, TypeOK
  <1>2. /\ c \in free \X free \X free /\ c[1] \in free /\ c[2] \in free /\ c[3] \in free
        /\ c[1] \in Desc /\ c[2] \in Desc /\ c[3] \in Desc
        /\ c[1] # c[2] /\ c[1] # c[3] /\ c[2] # c[3]
    <2>1. /\ c \in free \X free \X free /\ c[1] < c[2] /\ c[2] < c[3]
      BY <1>1, LowestIs DEF Format
    <2>2. c[1] \in free /\ c[2] \in free /\ c[3] \in free
      BY <2>1
    <2>3. c[1] \in Nat /\ c[2] \in Nat /\ c[3] \in Nat
      BY <1>1, <2>2, DescFinite, Zenon
    <2> HIDE DEF c
    <2> QED
      BY <1>1, <2>1, <2>2, <2>3
  <1>3. /\ pc[b] = "alloc" /\ lock = NULL
        /\ free' = free \ C
        /\ ops' = [ops EXCEPT ![c[1]] = b]
        /\ desc' = [desc EXCEPT ![c[1]] = [addr |-> c[1], next |-> c[2]],
                                ![c[2]] = [addr |-> b, next |-> c[3]],
                                ![c[3]] = [addr |-> c[1], next |-> NULL]]
        /\ info' = [info EXCEPT ![c[1]] = [b |-> b, status |-> 255]]
        /\ busy' = [busy EXCEPT ![b] = TRUE]
        /\ avail' = [avail EXCEPT ![availIdx % NUM] = c[1]]
        /\ idx' = [idx EXCEPT ![b] = c]
        /\ pc' = [pc EXCEPT ![b] = "publish"]
        /\ lock' = b
        /\ UNCHANGED <<same, availIdx, used, usedIdx, used_idx, panic, seen, inflight, owed, irq>>
    BY DEF Format, Alloc, deviceVars
  <1> HIDE DEF c
  <1>4. c \in Desc \X Desc \X Desc
    BY <1>1, <1>2, Zenon
  <1>5. /\ \A d \in Buf : d # b => pc'[d] = pc[d] /\ idx'[d] = idx[d] /\ busy'[d] = busy[d]
        /\ pc'[b] = "publish" /\ idx'[b] = c /\ busy'[b] = TRUE
    BY <1>1, <1>3 DEF TypeOK
  <1>6. /\ desc'[c[1]] = [addr |-> c[1], next |-> c[2]]
        /\ desc'[c[2]] = [addr |-> b, next |-> c[3]]
        /\ desc'[c[3]] = [addr |-> c[1], next |-> NULL]
        /\ \A i \in Desc \ C : desc'[i] = desc[i]
    BY <1>1, <1>2, <1>3 DEF TypeOK
  <1>7. /\ ops'[c[1]] = b /\ info'[c[1]] = [b |-> b, status |-> 255]
        /\ \A i \in Desc \ C : ops'[i] = ops[i] /\ info'[i] = info[i]
    BY <1>1, <1>2, <1>3 DEF TypeOK
  <1>8. b \notin Owners /\ ~busy[b] /\ Owners' = Owners \cup {b} /\ Published' = Published
    BY <1>1, <1>3, <1>5 DEF CallInv, Owners, Published
  <1>9. \A d \in Owners : d \in Buf /\ d # b
    BY <1>8, Zenon DEF Owners
  <1>10. \A d \in Owners : idx'[d] = idx[d] /\ DescsOf(d)' = DescsOf(d) /\ DescsOf(d) \cap C = {}
    BY <1>1, <1>2, <1>5, <1>9, OwnerFacts DEF DescsOf
  <1>11. DescsOf(b)' = C /\ \A d \in Published : idx[d][1] \notin C
    BY <1>1, <1>5, <1>10, PublishedOwn, Zenon DEF DescsOf
  <1>12. TypeOK' /\ ~panic'
    <2>1. availIdx % NUM \in Desc
      BY <1>1, Types, SlotType
    <2>2. /\ pc' \in [Buf -> {"idle", "alloc", "alloc_sleep", "publish", "sleep", "woken"}]
          /\ busy' \in [Buf -> BOOLEAN] /\ idx' \in [Buf -> Desc \X Desc \X Desc]
      BY <1>1, <1>3, <1>4, Zenon DEF TypeOK
    <2>3. desc' \in [Desc -> [addr : Buf \cup Desc \cup {NULL}, next : Desc \cup {NULL}]]
      BY <1>1, <1>2, <1>3, Zenon DEF TypeOK
    <2>4. info' \in [Desc -> [b : Buf \cup {NULL}, status : {0, 255}]]
      BY <1>1, <1>2, <1>3, Zenon DEF TypeOK
    <2>5. ops' \in [Desc -> Buf \cup {NULL}] /\ avail' \in [Desc -> Desc \cup {NULL}]
      BY <1>1, <1>2, <1>3, <2>1, Zenon DEF TypeOK
    <2> QED
      BY <1>1, <1>3, <2>2, <2>3, <2>4, <2>5, Zenon DEF TypeOK
  <1>13. OwnInv'
    <2>1. free' = {i \in Desc : \A d \in Owners' : i \notin DescsOf(d)'}
      BY <1>1, <1>3, <1>8, <1>10, <1>11 DEF OwnInv
    <2>2. \A d, e \in Owners' : d # e => DescsOf(d)' \cap DescsOf(e)' = {}
      BY <1>1, <1>8, <1>10, <1>11 DEF OwnInv
    <2>3. \A d \in Buf : pc'[d] = "alloc_sleep" => Cardinality(free') < 3
      <3>1. IsFiniteSet(free) /\ free' \in SUBSET free
        BY <1>1, <1>3, DescFinite, FS_Subset, Zenon
      <3>2. /\ Cardinality(free') <= Cardinality(free)
            /\ Cardinality(free') \in Nat /\ Cardinality(free) \in Nat
        BY <3>1, FS_Subset, FS_CardinalityType, Zenon
      <3>3. \A d \in Buf : pc'[d] = "alloc_sleep" => Cardinality(free) < 3
        BY <1>1, <1>5, Zenon DEF OwnInv
      <3> QED
        BY <3>2, <3>3
    <2> QED
      BY <2>1, <2>2, <2>3, Zenon DEF OwnInv
  <1>14. ChainInv'
    <2>1. ASSUME NEW d \in Owners
          PROVE  \A i \in DescsOf(d) : desc'[i] = desc[i] /\ ops'[i] = ops[i] /\ info'[i] = info[i]
      <3>1. DescsOf(d) \subseteq Desc
        BY <1>1, OwnerFacts
      <3> QED
        BY <1>6, <1>7, <1>10, <3>1
    <2>2. \A d \in Owners : {idx[d][1], idx[d][2], idx[d][3]} \subseteq DescsOf(d)
      BY DEF DescsOf
    <2>3. ASSUME NEW d \in Owners
          PROVE  /\ idx'[d][1] # idx'[d][2] /\ idx'[d][1] # idx'[d][3] /\ idx'[d][2] # idx'[d][3]
                 /\ desc'[idx'[d][1]].next = idx'[d][2]
                 /\ desc'[idx'[d][2]].next = idx'[d][3] /\ desc'[idx'[d][2]].addr = d
                 /\ desc'[idx'[d][3]].addr = idx'[d][1]
                 /\ ops'[idx'[d][1]] = d /\ info'[idx'[d][1]].b = d
      BY <1>1, <1>10, <2>1, <2>2 DEF ChainInv
    <2>4. /\ idx'[b][1] # idx'[b][2] /\ idx'[b][1] # idx'[b][3] /\ idx'[b][2] # idx'[b][3]
          /\ desc'[idx'[b][1]].next = idx'[b][2]
          /\ desc'[idx'[b][2]].next = idx'[b][3] /\ desc'[idx'[b][2]].addr = b
          /\ desc'[idx'[b][3]].addr = idx'[b][1]
          /\ ops'[idx'[b][1]] = b /\ info'[idx'[b][1]].b = b
      BY <1>2, <1>5, <1>6, <1>7
    <2> QED
      BY <1>8, <2>3, <2>4, Zenon DEF ChainInv
  <1>15. CallInv'
    <2>1. availIdx % NUM \in Desc
      BY <1>1, Types, SlotType
    <2>2. avail'[availIdx' % NUM] = c[1]
      BY <1>1, <1>3, <2>1 DEF TypeOK
    <2>3. \A d \in Buf : d # b => pc[d] # "publish"
      BY <1>1, <1>3 DEF CallInv
    <2> QED
      BY <1>1, <1>3, <1>5, <1>8, <2>2, <2>3 DEF CallInv
  <1>16. RingInv' /\ Done' = Done
    <2>1. /\ availIdx % NUM = (seen + Ahead(seen, availIdx)) % NUM
          /\ Ahead(seen, availIdx) \in Nat /\ Ahead(seen, availIdx) < NUM /\ seen \in Int
      <3>1. /\ seen \in 0..(WRAP - 1) /\ availIdx \in 0..(WRAP - 1)
            /\ usedIdx \in 0..(WRAP - 1) /\ used_idx \in 0..(WRAP - 1)
        BY <1>1, Types
      <3>2. (availIdx + 0) % NUM = (seen + Ahead(seen, availIdx) + 0) % NUM
        BY <3>1, AheadSlot
      <3>3. /\ Ahead(seen, availIdx) \in 0..(WRAP - 1) /\ Ahead(usedIdx, seen) \in 0..(WRAP - 1)
            /\ Ahead(used_idx, usedIdx) \in 0..(WRAP - 1)
        BY <3>1, AheadIs, Zenon
      <3>4. /\ c[2] \notin {idx[d][1] : d \in Published}
            /\ c[3] \notin {idx[d][1] : d \in Published}
        BY <1>11, Zenon
      <3>5. Ahead(seen, availIdx) + Ahead(usedIdx, seen) + Ahead(used_idx, usedIdx) <= NUM - 2
        BY <1>1, <1>2, <3>4, Room, Zenon
      <3> QED
        BY <3>1, <3>2, <3>3, <3>5
    <2>2. avail' = [avail EXCEPT ![(seen + Ahead(seen, availIdx)) % NUM] = c[1]]
      BY <1>3, <2>1, Zenon
    <2>3. avail \in [Desc -> Desc \cup {NULL}]
      BY <1>1 DEF TypeOK
    <2>4. /\ Entries(avail', seen, Ahead(seen, availIdx)) = Waiting
          /\ EntriesDiffer(avail', seen, Ahead(seen, availIdx))
      <3> DEFINE n == Ahead(seen, availIdx)
      <3>1. EntriesDiffer(avail, seen, n) /\ n \in Nat /\ n < NUM
        BY <1>1, <2>1, Zenon DEF RingInv
      <3>2. \A j \in Desc : j # (seen + n) % NUM => avail'[j] = avail[j]
        BY <2>2, <2>3, Zenon
      <3> HIDE DEF n
      <3>3. Entries(avail', seen, n) = Entries(avail, seen, n) /\ EntriesDiffer(avail', seen, n)
        BY <2>1, <3>1, <3>2, EntriesUntouched
      <3> QED
        BY <3>3, Zenon DEF n, Waiting
    <2>5. Waiting' = Waiting /\ EntriesDiffer(avail', seen', Ahead(seen', availIdx'))
      BY <1>3, <2>4, Zenon DEF Waiting
    <2>6. {idx'[d][1] : d \in Published'} = {idx[d][1] : d \in Published}
      BY <1>1, <1>8, <1>10, PublishedOwn
    <2>7. Done' = Done
      BY <1>3, Zenon DEF Done
    <2> QED
      BY <1>1, <1>3, <2>5, <2>6, <2>7, Zenon DEF RingInv
  <1>17. DoneInv'
    <2>1. c[1] \notin Done
      BY <1>1, <1>11 DEF RingInv
    <2>2. \A d \in Owners : info'[idx[d][1]] = info[idx[d][1]]
      <3>1. \A d \in Owners : idx[d][1] \in DescsOf(d)
        BY Zenon DEF DescsOf
      <3>2. \A d \in Owners : DescsOf(d) \subseteq Desc /\ DescsOf(d) \cap C = {}
        BY <1>1, <1>10, OwnerFacts, Zenon
      <3>3. \A i \in Desc \ C : info'[i] = info[i]
        BY <1>7, Zenon
      <3> HIDE DEF C
      <3> QED
        BY ONLY <3>1, <3>2, <3>3, Zenon
    <2> QED
      BY <1>1, <1>3, <1>5, <1>8, <1>9, <1>10, <1>16, <2>1, <2>2 DEF DoneInv
  <1> QED
    BY <1>12, <1>13, <1>14, <1>15, <1>16, <1>17, Zenon DEF VirtioInv
=============================================================================
