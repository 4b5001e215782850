---------------------------- MODULE NumberFacts ----------------------------
(***************************************************************************)
(* Facts about numbers that the proofs of several components share.        *)
(***************************************************************************)
EXTENDS Integers, WellFoundedInduction, TLAPS

-----------------------------------------------------------------------------
(* Least numbers and induction, over sets of numbers.                      *)

\* A set of natural numbers has a least element.
LEMMA LeastNumber ==
    ASSUME NEW T \in SUBSET Nat, T # {}
    PROVE  \E m \in T : \A k \in T : m <= k
  <1> DEFINE R == OpToRel(<, Nat)
  <1>1. \A x, y \in Nat : <<x, y>> \in R <=> x < y
    BY DEF OpToRel
  <1>2. IsWellFoundedOn(R, Nat)
    BY NatLessThanWellFounded, Zenon
  <1> HIDE DEF R
  <1>3. PICK m \in T : \A y \in T : ~(<<y, m>> \in R)
    BY <1>2, WFMin, Zenon
  <1>4. ASSUME NEW k \in T PROVE m <= k
    <2>1. k \in Nat /\ m \in Nat
      OBVIOUS
    <2>2. ~(k < m)
      BY <1>1, <1>3, <2>1, Zenon
    <2> QED
      BY <2>1, <2>2
  <1> QED
    BY <1>4

\* Induction: a set with 0 and the successors of its numbers has them all.
LEMMA SetInduction ==
    ASSUME NEW S, 0 \in S, \A n \in Nat : n \in S => n + 1 \in S
    PROVE  Nat \subseteq S
  <1> SUFFICES ASSUME Nat \ S # {} PROVE FALSE
    OBVIOUS
  <1>1. PICK m \in Nat \ S : \A k \in Nat \ S : m <= k
    BY LeastNumber, Zenon
  <1>2. m # 0 /\ m - 1 \in Nat
    BY <1>1
  <1>3. m - 1 \in S
    BY <1>1, <1>2
  <1> QED
    BY <1>1, <1>2, <1>3

-----------------------------------------------------------------------------
(* Ring buffers whose unsigned indices wrap around: the pipe, the console, *)
(* the serial port and the disk driver.                                    *)

\* Division by n leaves one remainder.
LEMMA ModUnique ==
    ASSUME NEW n \in Nat \ {0}, NEW q \in Int, NEW r \in 0..(n - 1)
    PROVE  (n * q + r) % n = r
  OBVIOUS

\* A multiple of n does not change the slot.
LEMMA ModMultiple ==
    ASSUME NEW n \in Nat \ {0}, NEW a \in Int, NEW m \in Int, m % n = 0
    PROVE  (a + m) % n = a % n
  <1> DEFINE q == (a \div n) + (m \div n)
             r == a % n
  <1>1. a = n * (a \div n) + r /\ m = n * (m \div n)
    OBVIOUS
  <1>2. q \in Int /\ r \in 0..(n - 1)
    OBVIOUS
  <1>3. a + m = n * q + r
    BY <1>1
  <1> HIDE DEF q, r
  <1>4. (n * q + r) % n = r
    BY <1>2, ModUnique
  <1> QED
    BY <1>3, <1>4 DEF r

\* An index that is advanced: it wraps around at w.
LEMMA IndexStep ==
    ASSUME NEW w \in Nat \ {0}, NEW i \in 0..(w - 1)
    PROVE  /\ (i + 1) % w \in 0..(w - 1)
           /\ (i + 1) % w = IF i + 1 = w THEN 0 ELSE i + 1
  OBVIOUS

\* How far index j is ahead of index i.
LEMMA IndexDistance ==
    ASSUME NEW w \in Nat \ {0}, NEW i \in 0..(w - 1), NEW j \in 0..(w - 1)
    PROVE  /\ (j + w - i) % w = IF i <= j THEN j - i ELSE j + w - i
           /\ (j - i) % w = IF i <= j THEN j - i ELSE j + w - i
  OBVIOUS

\* One more is in the ring when the index of the writer moves on.
LEMMA WriterStep ==
    ASSUME NEW w \in Nat \ {0}, NEW i \in 0..(w - 1), NEW j \in 0..(w - 1), (j + w - i) % w # w - 1
    PROVE  (((j + 1) % w) + w - i) % w = ((j + w - i) % w) + 1
  <1> DEFINE k == (j + 1) % w
  <1>1. k \in 0..(w - 1) /\ k = IF j + 1 = w THEN 0 ELSE j + 1
    BY IndexStep
  <1> HIDE DEF k
  <1>2. (k + w - i) % w = IF i <= k THEN k - i ELSE k + w - i
    BY <1>1, IndexDistance
  <1>3. (j + w - i) % w = IF i <= j THEN j - i ELSE j + w - i
    BY IndexDistance
  <1>4. (k + w - i) % w = ((j + w - i) % w) + 1
    BY <1>1, <1>2, <1>3
  <1> QED
    BY <1>4 DEF k

\* One less is in the ring when the index of the reader moves on.
LEMMA ReaderStep ==
    ASSUME NEW w \in Nat \ {0}, NEW i \in 0..(w - 1), NEW j \in 0..(w - 1), i # j
    PROVE  (j + w - ((i + 1) % w)) % w = ((j + w - i) % w) - 1
  <1> DEFINE k == (i + 1) % w
  <1>1. k \in 0..(w - 1) /\ k = IF i + 1 = w THEN 0 ELSE i + 1
    BY IndexStep
  <1> HIDE DEF k
  <1>2. (j + w - k) % w = IF k <= j THEN j - k ELSE j + w - k
    BY <1>1, IndexDistance
  <1>3. (j + w - i) % w = IF i <= j THEN j - i ELSE j + w - i
    BY IndexDistance
  <1>4. (j + w - k) % w = ((j + w - i) % w) - 1
    BY <1>1, <1>2, <1>3
  <1> QED
    BY <1>4 DEF k

\* The slot of an index does not notice that the index has wrapped around.
LEMMA SlotStep ==
    ASSUME NEW n \in Nat \ {0}, NEW w \in Nat \ {0}, w % n = 0, NEW i \in 0..(w - 1)
    PROVE  \A k \in Int : (((i + 1) % w) + k) % n = (i + 1 + k) % n
  <1> TAKE k \in Int
  <1>1. CASE i + 1 = w
    <2>1. (i + 1) % w = 0
      BY <1>1, IndexStep
    <2>2. w \in Int
      OBVIOUS
    <2>3. (k + w) % n = k % n
      BY <2>2, ModMultiple, Zenon
    <2> QED
      BY <1>1, <2>1, <2>3
  <1>2. CASE i + 1 # w
    BY <1>2, IndexStep, Zenon
  <1> QED
    BY <1>1, <1>2

\* Indices less than n apart have different slots.
LEMMA SlotsDiffer ==
    ASSUME NEW n \in Nat \ {0}, NEW i \in Int, NEW j \in Int, i < j, j < i + n
    PROVE  i % n # j % n
  <1> DEFINE q == i \div n
             r == j \div n
  <1>1. i = n * q + (i % n) /\ j = n * r + (j % n) /\ q \in Int /\ r \in Int
    OBVIOUS
  <1> HIDE DEF q, r
  <1> SUFFICES ASSUME i % n = j % n PROVE FALSE
    OBVIOUS
  <1>2. j - i = n * (r - q)
    BY <1>1
  <1>3. r - q >= 1
    BY <1>1, <1>2
  <1>4. n * (r - q) >= n
    BY <1>1, <1>3
  <1> QED
    BY <1>2, <1>4
=============================================================================
