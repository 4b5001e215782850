----------------------------- MODULE MmapLemmas -----------------------------
(***************************************************************************)
(* What the proofs about mapped memory rest on: what the loops of          *)
(* write_back() and proc_free_vmareas() compute, for ranges and tables of  *)
(* any length, and how each call changes the number of references to a     *)
(* file; and the calls that open and close files and store into pages.     *)
(***************************************************************************)
EXTENDS Mmap, NumberFacts, FiniteSetTheorems

\* What the proofs need of the sizes.
LEMMA MmapSizes ==
    /\ NVMA \in Nat /\ MAXVA \in Nat /\ TOP \in Nat \ {0} /\ FSIZE \in Nat /\ MAXVA <= TOP
    /\ InitProc \in Proc /\ NULL \notin File
  BY MmapConstants

-----------------------------------------------------------------------------
(* The loops of write_back() and proc_free_vmareas().                      *)

\* What the loops carry from one round to the next.
Contents == [0..(FSIZE - 1) -> Data]
PageTables == [Page -> PTE \cup {NULL}]
Memory == [pt : PageTables, content : Contents]

\* A page that write_back() writes.
DirtyIn(pt, pg) == pt[pg] # NULL /\ pt[pg].dirty

\* The states of the loop of write_back().
SyncRun(m, addr, offset, n) ==
    CHOOSE g : g = [i \in 0..n |-> IF i = 0 THEN [off |-> offset, content |-> m.content]
                                   ELSE SyncPage(g[i - 1], WalkAddr(m.pt, addr + i - 1))]

\* It starts at the offset of the range, and handles one page per round.
LEMMA SyncRunIs ==
    ASSUME NEW m, NEW addr, NEW offset, NEW n \in Nat
    PROVE  /\ SyncRun(m, addr, offset, n)[0] = [off |-> offset, content |-> m.content]
           /\ \A i \in 1..n : SyncRun(m, addr, offset, n)[i] =
                 SyncPage(SyncRun(m, addr, offset, n)[i - 1], WalkAddr(m.pt, addr + i - 1))
  <1> DEFINE F(x, i) == SyncPage(x, WalkAddr(m.pt, addr + i - 1))
             b == [off |-> offset, content |-> m.content]
             G(g, k) == [i \in 0..k |-> IF i = 0 THEN b ELSE F(g[i - 1], i)]
             S == {k \in Nat : \E g : g = G(g, k)}
             r == SyncRun(m, addr, offset, n)
  <1> HIDE DEF F, b
  <1>1. 0 \in S
    <2> DEFINE g == [i \in 0..0 |-> b]
    <2>1. g = G(g, 0)
      OBVIOUS
    <2> HIDE DEF g, G
    <2> QED
      BY <2>1
  <1>2. ASSUME NEW k \in Nat, k \in S PROVE k + 1 \in S
    <2>1. PICK g : g = G(g, k)
      BY <1>2
    <2> DEFINE h == [i \in 0..(k + 1) |-> IF i = k + 1 THEN F(g[k], i) ELSE g[i]]
    <2>2. ASSUME NEW i \in 0..(k + 1) PROVE h[i] = IF i = 0 THEN b ELSE F(h[i - 1], i)
      <3>1. CASE i = k + 1
        BY <3>1
      <3>2. CASE i # k + 1
        <4>1. g[i] = IF i = 0 THEN b ELSE F(g[i - 1], i)
          BY <2>1, <3>2
        <4>2. h[i] = g[i] /\ (i # 0 => h[i - 1] = g[i - 1])
          BY <3>2
        <4> QED
          BY <4>1, <4>2
      <3> QED
        BY <3>1, <3>2
    <2>3. h = [i \in 0..(k + 1) |-> h[i]]
      OBVIOUS
    <2> HIDE DEF h
    <2>4. h = G(h, k + 1)
      BY <2>2, <2>3, Zenon
    <2> HIDE DEF G
    <2>5. k + 1 \in Nat
      OBVIOUS
    <2> QED
      BY <2>4, <2>5
  <1> HIDE DEF S, G
  <1>3. Nat \subseteq S
    BY <1>1, <1>2, SetInduction
  <1>4. \E g : g = G(g, n)
    BY <1>3 DEF S
  <1>5. r = CHOOSE g : g = G(g, n)
    BY DEF SyncRun, G, F, b
  <1> HIDE DEF r
  <1>6. r = G(r, n)
    BY <1>4, <1>5
  <1>7. r[0] = b /\ \A i \in 1..n : r[i] = F(r[i - 1], i)
    BY <1>6 DEF G
  <1> QED
    BY <1>7 DEF r, F, b

\* write_back() is that loop.
LEMMA WriteBackIs ==
    ASSUME NEW m, NEW addr \in Nat, NEW len \in Nat, NEW offset
    PROVE  LET n == LoopEnd(addr, len) - addr
           IN  WriteBack(m, addr, len, offset) =
                  [pt |-> Unmap(m.pt, addr, LoopEnd(addr, len)),
                   content |-> IF n > 0 THEN SyncRun(m, addr, offset, n)[n].content ELSE m.content]
  BY DEF WriteBack, SyncRun
\* What is written back are contents of a file, and the file changes only when
\* a dirty page was met.
LEMMA SyncRunKeeps ==
    ASSUME NEW m \in Memory, NEW addr \in Nat, NEW offset \in Nat, NEW n \in Nat
    PROVE  LET r == SyncRun(m, addr, offset, n)
           IN  /\ r[n].content \in Contents
               /\ r[n].content # m.content =>
                     \E pg \in Page : pg \in addr..(addr + n - 1) /\ DirtyIn(m.pt, pg)
  <1> DEFINE r == SyncRun(m, addr, offset, n)
             P(i) == /\ r[i] \in [off : Nat, content : Contents]
                     /\ r[i].content # m.content =>
                           \E pg \in Page : pg \in addr..(addr + i - 1) /\ DirtyIn(m.pt, pg)
             S == {i \in Nat : i <= n => P(i)}
  <1>1. /\ r[0] = [off |-> offset, content |-> m.content]
        /\ \A i \in 1..n : r[i] = SyncPage(r[i - 1], WalkAddr(m.pt, addr + i - 1))
    BY SyncRunIs
  <1> HIDE DEF r
  <1>2. m.content \in Contents /\ m.pt \in PageTables
    BY DEF Memory
  <1>3. 0 \in S
    BY <1>1, <1>2
  <1>4. ASSUME NEW i \in Nat, i \in S PROVE i + 1 \in S
    <2> SUFFICES ASSUME i + 1 <= n PROVE P(i + 1)
      OBVIOUS
    <2> DEFINE pg == addr + i
               pte == WalkAddr(m.pt, pg)
    <2>1. r[i + 1] = SyncPage(r[i], pte) /\ P(i)
      <3>1. i + 1 \in 1..n /\ (i + 1) - 1 = i /\ addr + (i + 1) - 1 = pg
        OBVIOUS
      <3> QED
        BY <1>1, <1>4, <3>1
    <2>2. pg \in Nat /\ pg \in addr..(addr + (i + 1) - 1)
      OBVIOUS
    <2>3. pte # NULL => pg \in Page /\ pte = m.pt[pg] /\ pte \in PTE
      BY <1>2 DEF WalkAddr, PageTables
    <2>4. pte # NULL /\ pte.dirty => DirtyIn(m.pt, pg)
      BY <2>3 DEF DirtyIn
    <2> HIDE DEF pg, pte
    <2>5. r[i].off \in Nat /\ r[i].content \in Contents
      BY <2>1
    <2>6. pte # NULL => WriteToEnd(r[i].content, r[i].off, pte.data) \in Contents
      BY <2>3, <2>5, Zenon DEF WriteToEnd, Contents, PTE, Data
    <2>7. r[i + 1] \in [off : Nat, content : Contents]
      BY <2>1, <2>5, <2>6 DEF SyncPage
    <2>8. ASSUME r[i + 1].content # m.content
          PROVE  \E q \in Page : q \in addr..(addr + (i + 1) - 1) /\ DirtyIn(m.pt, q)
      <3>1. CASE r[i].content # m.content
        BY <2>1, <3>1
      <3>2. CASE r[i].content = m.content
        <4>1. pte # NULL /\ pte.dirty
          BY <2>1, <2>8, <3>2 DEF SyncPage
        <4> QED
          BY <2>2, <2>3, <2>4, <4>1
      <3> QED
        BY <3>1, <3>2
    <2> QED
      BY <2>7, <2>8
  <1> HIDE DEF S
  <1>5. n \in S
    BY <1>3, <1>4, SetInduction
  <1>6. P(n)
    BY <1>5 DEF S
  <1>7. r[n].content \in Contents
    BY <1>6
  <1> QED
    BY <1>6, <1>7 DEF r

\* munmap of a range: its pages are unmapped, and the file is written only
\* when the area is shared and a page of the range is dirty.
LEMMA RemoveIs ==
    ASSUME NEW m \in Memory, NEW a \in Area, NEW addr \in Nat, NEW len \in Nat
    PROVE  LET new == Remove(m, a, addr, len)
               end == LoopEnd(addr, len)
           IN  /\ new \in Memory
               /\ new.pt = Unmap(m.pt, addr, end)
               /\ new.content # m.content =>
                     a.shared /\ \E pg \in Page : pg \in addr..(end - 1) /\ DirtyIn(m.pt, pg)
  <1> USE MmapSizes
  <1> DEFINE end == LoopEnd(addr, len)
             n == end - addr
             offset == (addr - a.start) % TOP
  <1>1. m.content \in Contents /\ m.pt \in PageTables /\ Unmap(m.pt, addr, end) \in PageTables
    BY DEF Memory, PageTables, Unmap
  <1>2. end \in Nat /\ offset \in Nat
    BY DEF LoopEnd, Area
  <1> HIDE DEF end, offset
  <1>3. CASE a.shared
    <2>1. Remove(m, a, addr, len) = WriteBack(m, addr, len, offset)
      BY <1>3 DEF Remove, offset
    <2>2. WriteBack(m, addr, len, offset) =
             [pt |-> Unmap(m.pt, addr, end),
              content |-> IF n > 0 THEN SyncRun(m, addr, offset, n)[n].content ELSE m.content]
      BY WriteBackIs DEF end
    <2>3. CASE n > 0
      <3>1. n \in Nat /\ addr + n - 1 = end - 1
        BY <1>2, <2>3
      <3>2. /\ SyncRun(m, addr, offset, n)[n].content \in Contents
            /\ SyncRun(m, addr, offset, n)[n].content # m.content =>
                  \E pg \in Page : pg \in addr..(addr + n - 1) /\ DirtyIn(m.pt, pg)
        BY <1>2, <3>1, SyncRunKeeps, Zenon
      <3> QED
        BY <1>1, <1>3, <2>1, <2>2, <2>3, <3>1, <3>2 DEF Memory, end
    <2>4. CASE ~(n > 0)
      BY <1>1, <1>3, <2>1, <2>2, <2>4 DEF Memory, end
    <2> QED
      BY <2>3, <2>4
  <1>4. CASE ~a.shared
    BY <1>1, <1>4 DEF Remove, PutBack, Memory, end
  <1> QED
    BY <1>3, <1>4

-----------------------------------------------------------------------------
\* Page pg belongs to one of the first n areas.
CoveredBy(areas, n, pg) == \E s \in 1..n : areas[s] # NULL /\ pg \in Valid(areas[s])

InRange(areas) == \A s \in Slots : areas[s] # NULL =>
    areas[s].valid_start < areas[s].valid_end /\ areas[s].valid_end < TOP

\* The states of the loop over the slots.
ClearRun(m, areas) ==
    CHOOSE g : g = [s \in 0..NVMA |-> IF s = 0 THEN m ELSE ClearArea(g[s - 1], areas[s])]

\* It clears one slot per round.
LEMMA ClearRunIs ==
    ASSUME NEW m, NEW areas
    PROVE  /\ ClearRun(m, areas)[0] = m
           /\ \A s \in Slots :
                 ClearRun(m, areas)[s] = ClearArea(ClearRun(m, areas)[s - 1], areas[s])
           /\ ClearAll(m, areas) = ClearRun(m, areas)[NVMA]
  <1> USE MmapSizes
  <1> DEFINE F(x, i) == ClearArea(x, areas[i])
             b == m
             G(g, k) == [i \in 0..k |-> IF i = 0 THEN b ELSE F(g[i - 1], i)]
             S == {k \in Nat : \E g : g = G(g, k)}
             r == ClearRun(m, areas)
  <1> HIDE DEF F, b
  <1>1. 0 \in S
    <2> DEFINE g == [i \in 0..0 |-> b]
    <2>1. g = G(g, 0)
      OBVIOUS
    <2> HIDE DEF g, G
    <2> QED
      BY <2>1
  <1>2. ASSUME NEW k \in Nat, k \in S PROVE k + 1 \in S
    <2>1. PICK g : g = G(g, k)
      BY <1>2
    <2> DEFINE h == [i \in 0..(k + 1) |-> IF i = k + 1 THEN F(g[k], i) ELSE g[i]]
    <2>2. ASSUME NEW i \in 0..(k + 1) PROVE h[i] = IF i = 0 THEN b ELSE F(h[i - 1], i)
      <3>1. CASE i = k + 1
        BY <3>1
      <3>2. CASE i # k + 1
        <4>1. g[i] = IF i = 0 THEN b ELSE F(g[i - 1], i)
          BY <2>1, <3>2
        <4>2. h[i] = g[i] /\ (i # 0 => h[i - 1] = g[i - 1])
          BY <3>2
        <4> QED
          BY <4>1, <4>2
      <3> QED
        BY <3>1, <3>2
    <2>3. h = [i \in 0..(k + 1) |-> h[i]]
      OBVIOUS
    <2> HIDE DEF h
    <2>4. h = G(h, k + 1)
      BY <2>2, <2>3, Zenon
    <2> HIDE DEF G
    <2>5. k + 1 \in Nat
      OBVIOUS
    <2> QED
      BY <2>4, <2>5
  <1> HIDE DEF S, G
  <1>3. Nat \subseteq S
    BY <1>1, <1>2, SetInduction
  <1>4. \E g : g = G(g, NVMA)
    BY <1>3 DEF S
  <1>5. r = CHOOSE g : g = G(g, NVMA)
    BY DEF ClearRun, G, F, b
  <1>6. ClearAll(m, areas) = r[NVMA]
    BY DEF ClearAll, ClearRun
  <1> HIDE DEF r
  <1>7. r = G(r, NVMA)
    BY <1>4, <1>5
  <1>8. r[0] = b /\ \A s \in Slots : r[s] = F(r[s - 1], s)
    BY <1>7 DEF G, Slots
  <1> QED
    BY <1>6, <1>8 DEF r, F, b

\* One round.
LEMMA ClearAreaIs ==
    ASSUME NEW m \in Memory, NEW a \in Area \cup {NULL},
           a # NULL => a.valid_start < a.valid_end /\ a.valid_end < TOP
    PROVE  LET new == ClearArea(m, a)
           IN  /\ new \in Memory
               /\ new.pt = [pg \in Page |-> IF a # NULL /\ pg \in Valid(a) THEN NULL ELSE m.pt[pg]]
               /\ new.content # m.content =>
                     /\ a # NULL /\ a.shared
                     /\ \E pg \in Page : pg \in Valid(a) /\ DirtyIn(m.pt, pg)
  <1> USE MmapSizes
  <1>1. CASE a = NULL
    BY <1>1 DEF ClearArea, Memory, PageTables
  <1>2. CASE a # NULL
    <2> DEFINE addr == a.valid_start
               len == a.valid_end - a.valid_start
    <2>1. a \in Area /\ addr \in Nat /\ len \in Nat /\ ClearArea(m, a) = Remove(m, a, addr, len)
      BY <1>2 DEF ClearArea, Area
    <2>2. LoopEnd(addr, len) = a.valid_end
      <3>1. a.valid_end \in 0..(TOP - 1) /\ addr + len = a.valid_end
        BY <1>2, <2>1 DEF Area
      <3> QED
        BY <3>1 DEF LoopEnd
    <2> HIDE DEF addr, len
    <2>3. /\ Remove(m, a, addr, len) \in Memory
          /\ Remove(m, a, addr, len).pt = Unmap(m.pt, addr, a.valid_end)
          /\ Remove(m, a, addr, len).content # m.content =>
                a.shared /\ \E pg \in Page : pg \in addr..(a.valid_end - 1) /\ DirtyIn(m.pt, pg)
      <3>1. /\ Remove(m, a, addr, len) \in Memory
            /\ Remove(m, a, addr, len).pt = Unmap(m.pt, addr, LoopEnd(addr, len))
            /\ Remove(m, a, addr, len).content # m.content =>
                  a.shared /\
                              \E pg \in Page : pg \in addr..(LoopEnd(addr, len) - 1) /\ DirtyIn(m.pt, pg)
        BY <2>1, RemoveIs, Zenon
      <3> QED
        BY <2>2, <3>1
    <2> QED
      BY <1>2, <2>1, <2>3 DEF addr, Valid, Unmap
  <1> QED
    BY <1>1, <1>2

\* exec() and exit() unmap exactly the pages of the mappings, and write the
\* file only when a page of a shared mapping is dirty.
LEMMA ClearAllIs ==
    ASSUME NEW m \in Memory, NEW areas \in [Slots -> Area \cup {NULL}], InRange(areas)
    PROVE  LET new == ClearAll(m, areas)
           IN  /\ new \in Memory
               /\ \A pg \in Page : new.pt[pg] =
                     IF CoveredBy(areas, NVMA, pg) THEN NULL ELSE m.pt[pg]
               /\ new.content # m.content =>
                     \E s \in Slots, pg \in Page : /\ areas[s] # NULL /\ areas[s].shared
                                                   /\ pg \in Valid(areas[s]) /\ DirtyIn(m.pt, pg)
  <1> USE MmapSizes
  <1> DEFINE r == ClearRun(m, areas)
             Written == \E s \in Slots, pg \in Page : /\ areas[s] # NULL /\ areas[s].shared
                                                         /\ pg \in Valid(areas[s]) /\ DirtyIn(m.pt, pg)
             P(n) == /\ r[n] \in Memory
                     /\ \A pg \in Page : r[n].pt[pg] =
                           IF CoveredBy(areas, n, pg) THEN NULL ELSE m.pt[pg]
                     /\ r[n].content # m.content => Written
             S == {n \in Nat : n <= NVMA => P(n)}
  <1>1. /\ r[0] = m
        /\ \A s \in Slots : r[s] = ClearArea(r[s - 1], areas[s])
        /\ ClearAll(m, areas) = r[NVMA]
    BY ClearRunIs
  <1> HIDE DEF r
  <1>2. 0 \in S
    BY <1>1 DEF CoveredBy
  <1>3. ASSUME NEW n \in Nat, n \in S PROVE n + 1 \in S
    <2> SUFFICES ASSUME n + 1 <= NVMA PROVE P(n + 1)
      OBVIOUS
    <2> DEFINE a == areas[n + 1]
    <2>1. n + 1 \in Slots /\ r[n + 1] = ClearArea(r[n], a) /\ P(n)
      <3>1. n + 1 \in Slots /\ (n + 1) - 1 = n
        BY DEF Slots
      <3> QED
        BY <1>1, <1>3, <3>1
    <2>2. /\ a \in Area \cup {NULL}
          /\ a # NULL => a.valid_start < a.valid_end /\ a.valid_end < TOP
      BY <2>1 DEF InRange
    <2>3. /\ r[n + 1] \in Memory
          /\ r[n + 1].pt = [pg \in Page
                              |-> IF a # NULL /\ pg \in Valid(a) THEN NULL ELSE r[n].pt[pg]]
          /\ r[n + 1].content # r[n].content =>
                /\ a # NULL /\ a.shared
                /\ \E pg \in Page : pg \in Valid(a) /\ DirtyIn(r[n].pt, pg)
      BY <2>1, <2>2, ClearAreaIs
    <2>4. ASSUME NEW pg \in Page
          PROVE  r[n + 1].pt[pg] = IF CoveredBy(areas, n + 1, pg) THEN NULL ELSE m.pt[pg]
      <3>1. CoveredBy(areas, n + 1, pg) <=> CoveredBy(areas, n, pg) \/ (a # NULL /\ pg \in Valid(a))
        BY DEF CoveredBy
      <3> QED
        BY <2>1, <2>3, <3>1
    <2>5. ASSUME r[n + 1].content # m.content PROVE Written
      <3>1. CASE r[n].content # m.content
        BY <2>1, <3>1
      <3>2. CASE r[n].content = m.content
        <4>1. PICK pg \in Page : /\ a # NULL /\ a.shared
                                 /\ pg \in Valid(a) /\ DirtyIn(r[n].pt, pg)
          BY <2>3, <2>5, <3>2, Zenon
        <4>2. DirtyIn(m.pt, pg)
          BY <2>1, <4>1 DEF DirtyIn
        <4> QED
          BY <2>1, <4>1, <4>2
      <3> QED
        BY <3>1, <3>2
    <2> QED
      BY <2>3, <2>4, <2>5
  <1> HIDE DEF S
  <1>4. NVMA \in S
    BY <1>2, <1>3, SetInduction
  <1>5. P(NVMA)
    BY <1>4 DEF S
  <1> QED
    BY <1>1, <1>5
-----------------------------------------------------------------------------
(* Counting references.                                                    *)

\* RefCountExact without the types.
Counts == \A f \in File : ref[f] = Cardinality(Holders(f)) + Cardinality(Mappers(f))

\* There are finitely many references.
LEMMA FinitelyMany ==
    /\ IsFiniteSet(FD) /\ IsFiniteSet(Slots)
    /\ \A H \in SUBSET (Proc \X FD) : IsFiniteSet(H) /\ Cardinality(H) \in Nat
    /\ \A H \in SUBSET (Proc \X Slots) : IsFiniteSet(H) /\ Cardinality(H) \in Nat
  <1>1. IsFiniteSet(Slots) /\ IsFiniteSet(Proc) /\ IsFiniteSet(FD)
    BY MmapConstants, FS_Interval DEF Slots
  <1>2. IsFiniteSet(Proc \X FD) /\ IsFiniteSet(Proc \X Slots)
    BY <1>1, FS_Product
  <1>3. ASSUME NEW U, IsFiniteSet(U), NEW H \in SUBSET U
        PROVE  IsFiniteSet(H) /\ Cardinality(H) \in Nat
    BY <1>3, FS_Subset, FS_CardinalityType
  <1> QED
    BY <1>1, <1>2, <1>3

\* One reference more, or one less.
LEMMA OneMore ==
    ASSUME NEW H, IsFiniteSet(H), NEW x, x \notin H
    PROVE  Cardinality(H \cup {x}) = Cardinality(H) + 1
  BY FS_AddElement

\* One reference less.
LEMMA OneLess ==
    ASSUME NEW H, IsFiniteSet(H), NEW x \in H
    PROVE  Cardinality(H \ {x}) = Cardinality(H) - 1
  BY FS_RemoveElement

\* As many references more as a process has, or less.
LEMMA RowSize ==
    ASSUME NEW p, NEW X, IsFiniteSet(X)
    PROVE  /\ IsFiniteSet({p} \X X) /\ Cardinality({p} \X X) = Cardinality(X)
           /\ Cardinality(X) \in Nat
  <1>1. IsFiniteSet({p}) /\ Cardinality({p}) = 1 /\ Cardinality(X) \in Nat
    BY FS_Singleton, FS_CardinalityType, Zenon
  <1>2. IsFiniteSet({p} \X X) /\ Cardinality({p} \X X) = Cardinality({p}) * Cardinality(X)
    BY <1>1, FS_Product
  <1> QED
    BY <1>1, <1>2

\* A process without references gets the ones of a set of slots.
LEMMA RowMore ==
    ASSUME NEW H, IsFiniteSet(H), NEW p, NEW X, IsFiniteSet(X), \A x \in H : x[1] # p
    PROVE  Cardinality(H \cup ({p} \X X)) = Cardinality(H) + Cardinality(X)
  <1>1. /\ IsFiniteSet({p} \X X) /\ Cardinality({p} \X X) = Cardinality(X)
        /\ Cardinality(X) \in Nat
    BY RowSize, Zenon
  <1>2. Cardinality(H) \in Nat /\ Cardinality({}) = 0
    BY FS_CardinalityType, FS_EmptySet
  <1>3. Cardinality(H \cup ({p} \X X)) =
           Cardinality(H) + Cardinality({p} \X X) - Cardinality(H \cap ({p} \X X))
    BY <1>1, FS_Union
  <1>4. H \cap ({p} \X X) = {}
    OBVIOUS
  <1>5. Cardinality(H \cap ({p} \X X)) = 0
    BY <1>2, <1>4, Zenon
  <1> QED
    BY <1>1, <1>2, <1>3, <1>5

\* A process gives up the references of a set of slots.
LEMMA RowLess ==
    ASSUME NEW H, IsFiniteSet(H), NEW p, NEW X, IsFiniteSet(X), {p} \X X \subseteq H
    PROVE  Cardinality(H \ ({p} \X X)) = Cardinality(H) - Cardinality(X)
  <1>1. /\ IsFiniteSet({p} \X X) /\ Cardinality({p} \X X) = Cardinality(X)
        /\ Cardinality(X) \in Nat
    BY RowSize, Zenon
  <1>2. Cardinality(H) \in Nat
    BY FS_CardinalityType
  <1>3. H \cap ({p} \X X) = {p} \X X
    OBVIOUS
  <1>4. Cardinality(H \ ({p} \X X)) = Cardinality(H) - Cardinality(H \cap ({p} \X X))
    BY FS_Difference, Zenon
  <1> QED
    BY <1>1, <1>2, <1>3, <1>4

\* The first slot of a set of slots.
LEMMA FirstSlot ==
    ASSUME NEW T \in SUBSET Slots, T # {}
    PROVE  (CHOOSE s \in T : \A t \in T : s <= t) \in T
  <1>1. T \in SUBSET Nat
    BY DEF Slots
  <1>2. \E s \in T : \A t \in T : s <= t
    BY <1>1, LeastNumber
  <1> QED
    BY <1>2

\* filealloc() and fdalloc(): the first reference.
LEMMA OpenCounts ==
    ASSUME NEW p \in Proc, NEW rw, MmapInv, Open(p, rw)
    PROVE  Counts'
  <1> USE MmapSizes DEF MmapInv, RefCountExact, TypeOK
  <1>1. PICK g \in File, fd \in FD :
           /\ ref[g] = 0 /\ ofile[p][fd] = NULL
           /\ ref' = [ref EXCEPT ![g] = 1]
           /\ ofile' = [ofile EXCEPT ![p][fd] = g]
    BY Zenon DEF Open
  <1>2. ASSUME NEW f \in File PROVE ref'[f] = Cardinality(Holders(f)') + Cardinality(Mappers(f)')
    <2>1. Mappers(f)' = Mappers(f)
      BY Zenon DEF Open, Mappers
    <2>2. Holders(f) \in SUBSET (Proc \X FD) /\ Mappers(f) \in SUBSET (Proc \X Slots)
      BY DEF Holders, Mappers
    <2>3. /\ IsFiniteSet(Holders(f))
          /\ Cardinality(Holders(f)) \in Nat /\ Cardinality(Mappers(f)) \in Nat
      BY <2>2, FinitelyMany
    <2>4. CASE f = g
      <3>1. Holders(f)' = Holders(f) \cup {<<p, fd>>} /\ <<p, fd>> \notin Holders(f)
        BY <1>1, <2>4 DEF Holders
      <3>2. Cardinality(Holders(f)') = Cardinality(Holders(f)) + 1
        BY <2>3, <3>1, OneMore, Zenon
      <3> QED
        BY <1>1, <2>1, <2>3, <2>4, <3>2
    <2>5. CASE f # g
      <3>1. Holders(f)' = Holders(f)
        BY <1>1, <2>5 DEF Holders
      <3> QED
        BY <1>1, <2>1, <2>5, <3>1, Zenon
    <2> QED
      BY <2>4, <2>5, Zenon
  <1> QED
    BY <1>2 DEF Counts
\* fileclose() of a descriptor.
LEMMA CloseCounts ==
    ASSUME NEW p \in Proc, NEW fd \in FD, MmapInv, Close(p, fd)
    PROVE  Counts'
  <1> USE MmapSizes DEF MmapInv, RefCountExact, TypeOK
  <1> DEFINE g == ofile[p][fd]
  <1>1. /\ g \in File
        /\ ref' = [ref EXCEPT ![g] = @ - 1] /\ ofile' = [ofile EXCEPT ![p][fd] = NULL]
    BY DEF Close
  <1>2. ASSUME NEW f \in File PROVE ref'[f] = Cardinality(Holders(f)') + Cardinality(Mappers(f)')
    <2>1. Mappers(f)' = Mappers(f)
      BY Zenon DEF Close, Mappers
    <2>2. Holders(f) \in SUBSET (Proc \X FD) /\ Mappers(f) \in SUBSET (Proc \X Slots)
      BY Zenon DEF Holders, Mappers
    <2>3. /\ IsFiniteSet(Holders(f))
          /\ Cardinality(Holders(f)) \in Nat /\ Cardinality(Mappers(f)) \in Nat
      BY <2>2, FinitelyMany
    <2>4. CASE f = g
      <3>1. Holders(f)' = Holders(f) \ {<<p, fd>>} /\ <<p, fd>> \in Holders(f)
        BY <1>1, <2>4 DEF Holders
      <3>2. Cardinality(Holders(f)') = Cardinality(Holders(f)) - 1
        BY <2>3, <3>1, OneLess, Zenon
      <3>3. ref'[f] = ref[f] - 1 /\ ref[f] = Cardinality(Holders(f)) + Cardinality(Mappers(f))
        BY <1>1, <2>4, Zenon
      <3> QED
        BY ONLY <2>1, <2>3, <3>2, <3>3
    <2>5. CASE f # g
      <3>1. Holders(f)' = Holders(f)
        BY <1>1, <2>5, Zenon DEF Holders
      <3> QED
        BY <1>1, <2>1, <2>5, <3>1, Zenon
    <2> QED
      BY <2>4, <2>5, Zenon
  <1> QED
    BY <1>2 DEF Counts

\* The slot that sys_mmap() fills, and what it puts there.
NewArea(p, len, prot, shared, f) ==
    [start |-> NextStart(p), length |-> len, prot |-> prot, shared |-> shared, fptr |-> f,
     valid_start |-> NextStart(p), valid_end |-> NextStart(p) + len]

\* sys_mmap() puts it into a free slot and duplicates the file, or fails.
LEMMA MmapSlot ==
    ASSUME NEW p \in Proc, NEW len \in MapLens, NEW prot \in Prots, NEW shared \in BOOLEAN,
           NEW fd \in FD,
           MmapInv, SysMmap(p, len, prot, shared, fd), ~UNCHANGED <<vm_areas, ref>>
    PROVE  \E slot \in Slots, a \in Area :
              /\ a = NewArea(p, len, prot, shared, ofile[p][fd]) /\ a # NULL
              /\ NextStart(p) \in Nat /\ NextStart(p) >= sz[p] /\ NextStart(p) + len < TOP
              /\ next_start' = [next_start EXCEPT ![p] = NextStart(p) + len]
              /\ ref' = [ref EXCEPT ![a.fptr] = @ + 1]
              /\ vm_areas[p][slot] = NULL
              /\ vm_areas' = [vm_areas EXCEPT ![p][slot] = a]
  <1> USE MmapSizes DEF MmapInv, RefCountExact, TypeOK
  <1> DEFINE free == {s \in Slots : vm_areas[p][s] = NULL}
             slot == CHOOSE s \in free : \A t \in free : s <= t
             f == ofile[p][fd]
             a == NewArea(p, len, prot, shared, f)
  <1>1. slot \in Slots /\ vm_areas[p][slot] = NULL
    <2>1. free \in SUBSET Slots /\ free # {}
      BY Zenon DEF SysMmap
    <2> HIDE DEF free
    <2>2. slot \in free
      BY <2>1, FirstSlot, Zenon
    <2> QED
      BY <2>2 DEF free
  <1>2. /\ NextStart(p) >= sz[p] /\ NextStart(p) + len < TOP
        /\ next_start' = [next_start EXCEPT ![p] = NextStart(p) + len]
        /\ ref' = [ref EXCEPT ![f] = @ + 1]
        /\ vm_areas' = [vm_areas EXCEPT ![p][slot] = a]
    BY Zenon DEF SysMmap, NewArea, MapRef
  <1>3. NextStart(p) \in Nat /\ f \in File /\ len \in Nat \ {0}
    <2>1. NextStart(p) \in Nat
      BY DEF NextStart
    <2>2. f \in File
      <3>1. f # NULL
        BY Zenon DEF SysMmap
      <3> QED
        BY <3>1
    <2>3. len \in Nat \ {0}
      BY MmapConstants
    <2> QED
      BY <2>1, <2>2, <2>3
  <1>4. a \in Area /\ a.fptr = f
    BY <1>3 DEF NewArea, Area
  <1>5. a # NULL
    BY <1>4, NoArea
  <1> HIDE DEF slot, a
  <1> QED
    BY <1>1, <1>2, <1>3, <1>4, <1>5, Zenon DEF a

\* filedup() of a mapping.
LEMMA MmapCounts ==
    ASSUME NEW p \in Proc, NEW len \in MapLens, NEW prot \in Prots, NEW shared \in BOOLEAN,
           NEW fd \in FD,
           MmapInv, SysMmap(p, len, prot, shared, fd)
    PROVE  Counts'
  <1>1. CASE UNCHANGED <<vm_areas, ref>>
    <2>1. UNCHANGED ofile
      BY Zenon DEF SysMmap
    <2>2. \A f \in File : Holders(f)' = Holders(f) /\ Mappers(f)' = Mappers(f)
      BY <1>1, <2>1, Zenon DEF Holders, Mappers
    <2> QED
      BY <1>1, <2>2 DEF Counts, MmapInv, RefCountExact
  <1>2. CASE ~UNCHANGED <<vm_areas, ref>>
    <2>1. PICK slot \in Slots, a \in Area :
             /\ a # NULL /\ vm_areas[p][slot] = NULL
             /\ ref' = [ref EXCEPT ![a.fptr] = @ + 1]
             /\ vm_areas' = [vm_areas EXCEPT ![p][slot] = a]
      BY <1>2, MmapSlot
    <2> USE MmapSizes DEF MmapInv, RefCountExact, TypeOK
    <2> DEFINE g == a.fptr
    <2>2. a \in Area /\ ref' = [ref EXCEPT ![g] = @ + 1] /\ g \in File
      BY <2>1, Zenon DEF Area
    <2>3. ASSUME NEW f \in File PROVE ref'[f] = Cardinality(Holders(f)') + Cardinality(Mappers(f)')
      <3>1. Holders(f)' = Holders(f)
        BY Zenon DEF SysMmap, Holders
      <3>2. Holders(f) \in SUBSET (Proc \X FD) /\ Mappers(f) \in SUBSET (Proc \X Slots)
        BY Zenon DEF Holders, Mappers
      <3>3. /\ IsFiniteSet(Mappers(f))
            /\ Cardinality(Holders(f)) \in Nat /\ Cardinality(Mappers(f)) \in Nat
        BY <3>2, FinitelyMany, Zenon
      <3>4. CASE f = g
        <4>1. Mappers(f)' = Mappers(f) \cup {<<p, slot>>} /\ <<p, slot>> \notin Mappers(f)
          <5>1. /\ vm_areas'[p][slot] = a /\ vm_areas[p][slot] = NULL /\ a # NULL /\ a.fptr = f
                /\ \A q \in Proc, s \in Slots :
                      <<q, s>> # <<p, slot>> => vm_areas'[q][s] = vm_areas[q][s]
            BY <2>1, <3>4, Zenon
          <5> QED
            BY ONLY <5>1, p \in Proc, slot \in Slots DEF Mappers
        <4>2. Cardinality(Mappers(f)') = Cardinality(Mappers(f)) + 1
          BY <3>3, <4>1, OneMore, Zenon
        <4>3. ref'[f] = ref[f] + 1 /\ ref[f] = Cardinality(Holders(f)) + Cardinality(Mappers(f))
          BY <2>2, <3>4, Zenon
        <4> QED
          BY ONLY <3>1, <3>3, <4>2, <4>3
      <3>5. CASE f # g
        <4>1. Mappers(f)' = Mappers(f)
          BY <2>1, <2>2, <3>5, Zenon DEF Mappers
        <4> QED
          BY <2>2, <3>1, <3>5, <4>1, Zenon
      <3> QED
        BY <3>4, <3>5
    <2> QED
      BY <2>3 DEF Counts
  <1> QED
    BY <1>1, <1>2

\* What sys_munmap() does to the mapping in a slot, of which b is left.
Munmapped(p, slot, b, addr, len) ==
    LET a == vm_areas[p][slot]
        end == LoopEnd(addr, len)
        m == Remove(Mem(p), a, addr, len)
        empty == b.valid_start >= b.valid_end
    IN  /\ a \in Area /\ a # NULL /\ b # NULL /\ b.fptr = a.fptr
        /\ a.valid_start <= addr /\ end <= a.valid_end
        /\ \/ /\ addr = a.valid_start
              /\ b.valid_start = end /\ b.valid_end = a.valid_end
           \/ /\ addr # a.valid_start /\ end = a.valid_end
              /\ b.valid_start = a.valid_start /\ b.valid_end = (a.valid_end - len) % TOP
        /\ content' = m.content
        /\ pagetable' = [pagetable EXCEPT ![p] = m.pt]
        /\ vm_areas' = [vm_areas EXCEPT ![p][slot] = IF empty THEN NULL ELSE b]
        /\ ref' = [ref EXCEPT ![a.fptr] = IF empty THEN @ - 1 ELSE @]

\* The area that sys_munmap() finds, and what is left of it.
LEMMA MunmapSlot ==
    ASSUME NEW p \in Proc, NEW addr \in 0..(TOP - 1), NEW len \in 0..(TOP - 1),
           MmapInv, SysMunmap(p, addr, len)
    PROVE  \E slot \in Slots, b \in Area : Munmapped(p, slot, b, addr, len)
  <1> USE MmapSizes DEF MmapInv, RefCountExact, TypeOK
  <1> DEFINE slots == AreaOf(p, addr, len)
             slot == CHOOSE s \in slots : \A t \in slots : s <= t
             a == vm_areas[p][slot]
             end == LoopEnd(addr, len)
             b == IF a.valid_start = addr THEN [a EXCEPT !.valid_start = end]
                                          ELSE [a EXCEPT !.valid_end = (@ - len) % TOP]
             m == Remove(Mem(p), a, addr, len)
             empty == b.valid_start >= b.valid_end
  <1>1. slot \in slots
    <2>1. slots \in SUBSET Slots /\ slots # {}
      BY Zenon DEF SysMunmap, AreaOf
    <2> HIDE DEF slots
    <2> QED
      BY <2>1, FirstSlot, Zenon
  <1>2. slot \in Slots /\ a \in Area /\ a # NULL /\ a.valid_start <= addr /\ end <= a.valid_end
    <2> HIDE DEF slot
    <2>1. slot \in Slots /\ a # NULL /\ a.valid_start <= addr /\ end <= a.valid_end
      BY <1>1, Zenon DEF AreaOf
    <2> QED
      BY <2>1
  <1>3. /\ a.valid_start = addr \/ end = a.valid_end
        /\ content' = m.content
        /\ pagetable' = [pagetable EXCEPT ![p] = m.pt]
        /\ vm_areas' = [vm_areas EXCEPT ![p][slot] = IF empty THEN NULL ELSE b]
        /\ ref' = [ref EXCEPT ![a.fptr] = IF empty THEN @ - 1 ELSE @]
    BY Zenon DEF SysMunmap
  <1>4. end \in Nat /\ (a.valid_end - len) % TOP \in Nat
    <2>1. a.valid_end \in Nat
      BY <1>2, Zenon DEF Area
    <2> HIDE DEF a
    <2> QED
      BY ONLY <2>1, addr \in 0..(TOP - 1), len \in 0..(TOP - 1), MmapSizes DEF LoopEnd
  <1> HIDE DEF slot, a, end
  <1>5. b \in Area /\ b.fptr = a.fptr
    BY <1>2, <1>4, Zenon DEF Area
  <1>6. b # NULL
    BY <1>5, NoArea, Zenon
  <1>7. \/ addr = a.valid_start /\ b.valid_start = end /\ b.valid_end = a.valid_end
        \/ /\ addr # a.valid_start /\ end = a.valid_end
           /\ b.valid_start = a.valid_start /\ b.valid_end = (a.valid_end - len) % TOP
    BY <1>2, <1>3, Zenon DEF Area
  <1> HIDE DEF b
  <1> QED
    <2>1. Munmapped(p, slot, b, addr, len)
      BY <1>2, <1>3, <1>5, <1>6, <1>7, Zenon DEF a, end, Munmapped
    <2> QED
      BY <1>2, <1>5, <2>1

\* fileclose() of a mapping that has no page left.
LEMMA MunmapCounts ==
    ASSUME NEW p \in Proc, NEW addr \in 0..(TOP - 1), NEW len \in 0..(TOP - 1),
           MmapInv, SysMunmap(p, addr, len)
    PROVE  Counts'
  <1>1. PICK slot \in Slots, b \in Area : Munmapped(p, slot, b, addr, len)
    BY MunmapSlot
  <1> USE MmapSizes DEF MmapInv, RefCountExact, TypeOK
  <1> DEFINE a == vm_areas[p][slot]
             g == a.fptr
             empty == b.valid_start >= b.valid_end
  <1>2. /\ a \in Area /\ a # NULL /\ b # NULL /\ b.fptr = g /\ g \in File
        /\ vm_areas' = [vm_areas EXCEPT ![p][slot] = IF empty THEN NULL ELSE b]
        /\ ref' = [ref EXCEPT ![g] = IF empty THEN @ - 1 ELSE @]
    BY <1>1, Zenon DEF Area, Munmapped
  <1> HIDE DEF empty
  <1>3. ASSUME NEW f \in File PROVE ref'[f] = Cardinality(Holders(f)') + Cardinality(Mappers(f)')
    <2>1. Holders(f)' = Holders(f)
      BY Zenon DEF SysMunmap, Holders
    <2>2. Holders(f) \in SUBSET (Proc \X FD) /\ Mappers(f) \in SUBSET (Proc \X Slots)
      BY Zenon DEF Holders, Mappers
    <2>3. /\ IsFiniteSet(Mappers(f))
          /\ Cardinality(Holders(f)) \in Nat /\ Cardinality(Mappers(f)) \in Nat
      BY <2>2, FinitelyMany, Zenon
    <2>4. CASE f = g /\ empty
      <3>1. Mappers(f)' = Mappers(f) \ {<<p, slot>>} /\ <<p, slot>> \in Mappers(f)
        <4>1. /\ vm_areas'[p][slot] = NULL /\ vm_areas[p][slot] # NULL
              /\ vm_areas[p][slot].fptr = f
              /\ \A q \in Proc, s \in Slots :
                    <<q, s>> # <<p, slot>> => vm_areas'[q][s] = vm_areas[q][s]
          BY <1>2, <2>4, Zenon
        <4> QED
          BY ONLY <4>1, p \in Proc, slot \in Slots DEF Mappers
      <3>2. Cardinality(Mappers(f)') = Cardinality(Mappers(f)) - 1
        BY <2>3, <3>1, OneLess, Zenon
      <3>3. ref'[f] = ref[f] - 1 /\ ref[f] = Cardinality(Holders(f)) + Cardinality(Mappers(f))
        BY <1>2, <2>4, Zenon
      <3> QED
        BY ONLY <2>1, <2>3, <3>2, <3>3
    <2>5. CASE ~(f = g /\ empty)
      <3>1. Mappers(f)' = Mappers(f)
        BY <1>2, <2>5, Zenon DEF Mappers
      <3> QED
        BY <1>2, <2>1, <2>5, <3>1, Zenon
    <2> QED
      BY <2>4, <2>5, Zenon
  <1> QED
    BY <1>3 DEF Counts

\* The references of one process.
FdsOf(p, f) == {fd \in FD : ofile[p][fd] = f}
AreasOf(p, f) == {s \in Slots : vm_areas[p][s] # NULL /\ vm_areas[p][s].fptr = f}

\* They are finitely many, and what the model counts.
LEMMA RefsOfProcess ==
    ASSUME NEW p \in Proc, NEW f \in File
    PROVE  /\ IsFiniteSet(FdsOf(p, f)) /\ FdRefs(ofile[p], f) = Cardinality(FdsOf(p, f))
           /\ IsFiniteSet(AreasOf(p, f)) /\ AreaRefs(vm_areas[p], f) = Cardinality(AreasOf(p, f))
           /\ Cardinality(FdsOf(p, f)) \in Nat /\ Cardinality(AreasOf(p, f)) \in Nat
           /\ {p} \X FdsOf(p, f) \subseteq Holders(f)
           /\ {p} \X AreasOf(p, f) \subseteq Mappers(f)
           /\ IsFiniteSet(Holders(f)) /\ IsFiniteSet(Mappers(f))
           /\ Cardinality(Holders(f)) \in Nat /\ Cardinality(Mappers(f)) \in Nat
  <1>1. FdsOf(p, f) \in SUBSET FD /\ AreasOf(p, f) \in SUBSET Slots
    BY DEF FdsOf, AreasOf
  <1>2. IsFiniteSet(FdsOf(p, f)) /\ IsFiniteSet(AreasOf(p, f))
    BY <1>1, FinitelyMany, FS_Subset
  <1>3. Cardinality(FdsOf(p, f)) \in Nat /\ Cardinality(AreasOf(p, f)) \in Nat
    BY <1>2, FS_CardinalityType, Zenon
  <1>4. /\ FdRefs(ofile[p], f) = Cardinality(FdsOf(p, f))
        /\ AreaRefs(vm_areas[p], f) = Cardinality(AreasOf(p, f))
    BY Zenon DEF FdRefs, AreaRefs, FdsOf, AreasOf
  <1>5. {p} \X FdsOf(p, f) \subseteq Holders(f) /\ {p} \X AreasOf(p, f) \subseteq Mappers(f)
    BY DEF FdsOf, AreasOf, Holders, Mappers
  <1>6. Holders(f) \in SUBSET (Proc \X FD) /\ Mappers(f) \in SUBSET (Proc \X Slots)
    BY DEF Holders, Mappers
  <1>7. /\ IsFiniteSet(Holders(f)) /\ IsFiniteSet(Mappers(f))
        /\ Cardinality(Holders(f)) \in Nat /\ Cardinality(Mappers(f)) \in Nat
    BY <1>6, FinitelyMany, Zenon
  <1> QED
    BY <1>2, <1>3, <1>4, <1>5, <1>7

\* fileclose() of all that a process has.
LEMMA ExitCounts ==
    ASSUME NEW p \in Proc, MmapInv, ExitEffect(p)
    PROVE  Counts'
  <1> USE MmapSizes DEF MmapInv, RefCountExact, TypeOK
  <1>1. ASSUME NEW f \in File PROVE ref'[f] = Cardinality(Holders(f)') + Cardinality(Mappers(f)')
    <2>1. /\ vm_areas' = [vm_areas EXCEPT ![p] = NoAreas]
          /\ ofile' = [ofile EXCEPT ![p] = NoFiles]
          /\ ref' = ExitRef(p)
      BY Zenon DEF ExitEffect
    <2>2. Holders(f)' = Holders(f) \ ({p} \X FdsOf(p, f))
      BY <2>1, Zenon DEF Holders, FdsOf, NoFiles
    <2>3. Mappers(f)' = Mappers(f) \ ({p} \X AreasOf(p, f))
      BY <2>1, Zenon DEF Mappers, AreasOf, NoAreas
    <2>4. Cardinality(Holders(f)') = Cardinality(Holders(f)) - Cardinality(FdsOf(p, f))
      <3>1. /\ IsFiniteSet(Holders(f)) /\ IsFiniteSet(FdsOf(p, f))
            /\ {p} \X FdsOf(p, f) \subseteq Holders(f)
        BY <2>2, RefsOfProcess
      <3>2. Cardinality(Holders(f) \ ({p} \X FdsOf(p, f))) =
               Cardinality(Holders(f)) - Cardinality(FdsOf(p, f))
        BY ONLY <3>1, RowLess, Zenon
      <3> QED
        BY <2>2, <3>2, Zenon
    <2>5. Cardinality(Mappers(f)') = Cardinality(Mappers(f)) - Cardinality(AreasOf(p, f))
      <3>1. /\ IsFiniteSet(Mappers(f)) /\ IsFiniteSet(AreasOf(p, f))
            /\ {p} \X AreasOf(p, f) \subseteq Mappers(f)
        BY <2>3, RefsOfProcess, Zenon
      <3>2. Cardinality(Mappers(f) \ ({p} \X AreasOf(p, f))) =
               Cardinality(Mappers(f)) - Cardinality(AreasOf(p, f))
        BY ONLY <3>1, RowLess, Zenon
      <3> QED
        BY <2>3, <3>2, Zenon
    <2>6. ref'[f] = ref[f] - Cardinality(AreasOf(p, f)) - Cardinality(FdsOf(p, f))
      BY <2>1, RefsOfProcess, Zenon DEF ExitRef
    <2>7. /\ Cardinality(FdsOf(p, f)) \in Nat /\ Cardinality(AreasOf(p, f)) \in Nat
          /\ Cardinality(Holders(f)) \in Nat /\ Cardinality(Mappers(f)) \in Nat
          /\ ref[f] = Cardinality(Holders(f)) + Cardinality(Mappers(f))
      BY RefsOfProcess, Zenon
    <2> QED
      BY ONLY <2>4, <2>5, <2>6, <2>7
  <1> QED
    BY <1>1, Zenon DEF Counts

\* fileclose() of all mappings.
LEMMA ExecCounts ==
    ASSUME NEW p \in Proc, NEW n, MmapInv, Exec(p, n)
    PROVE  Counts'
  <1> USE MmapSizes DEF MmapInv, RefCountExact, TypeOK
  <1>1. ASSUME NEW f \in File PROVE ref'[f] = Cardinality(Holders(f)') + Cardinality(Mappers(f)')
    <2>1. /\ vm_areas' = [vm_areas EXCEPT ![p] = NoAreas] /\ UNCHANGED ofile
          /\ ref' = [h \in File |-> ref[h] - AreaRefs(vm_areas[p], h)]
      BY Zenon DEF Exec
    <2>2. Holders(f)' = Holders(f)
      BY <2>1, Zenon DEF Holders
    <2>3. Mappers(f)' = Mappers(f) \ ({p} \X AreasOf(p, f))
      BY <2>1, Zenon DEF Mappers, AreasOf, NoAreas
    <2>4. Cardinality(Mappers(f)') = Cardinality(Mappers(f)) - Cardinality(AreasOf(p, f))
      <3>1. /\ IsFiniteSet(Mappers(f)) /\ IsFiniteSet(AreasOf(p, f))
            /\ {p} \X AreasOf(p, f) \subseteq Mappers(f)
        BY <2>3, RefsOfProcess, Zenon
      <3>2. Cardinality(Mappers(f) \ ({p} \X AreasOf(p, f))) =
               Cardinality(Mappers(f)) - Cardinality(AreasOf(p, f))
        BY ONLY <3>1, RowLess, Zenon
      <3> QED
        BY <2>3, <3>2, Zenon
    <2>5. ref'[f] = ref[f] - Cardinality(AreasOf(p, f))
      BY <2>1, RefsOfProcess, Zenon
    <2>6. /\ Cardinality(FdsOf(p, f)) \in Nat /\ Cardinality(AreasOf(p, f)) \in Nat
          /\ Cardinality(Holders(f)) \in Nat /\ Cardinality(Mappers(f)) \in Nat
          /\ ref[f] = Cardinality(Holders(f)) + Cardinality(Mappers(f))
      BY RefsOfProcess
    <2>7. Cardinality(Holders(f)') = Cardinality(Holders(f))
      BY ONLY <2>2, Zenon
    <2> QED
      BY ONLY <2>4, <2>5, <2>6, <2>7
  <1> QED
    BY <1>1, Zenon DEF Counts

\* filedup() of all that the parent has; the child had nothing.
LEMMA ForkCounts ==
    ASSUME NEW p \in Proc, NEW q \in Proc, MmapInv, Fork(p, q)
    PROVE  Counts'
  <1> USE MmapSizes DEF MmapInv, RefCountExact, TypeOK
  <1>1. ASSUME NEW f \in File PROVE ref'[f] = Cardinality(Holders(f)') + Cardinality(Mappers(f)')
    <2>1. /\ vm_areas' = [vm_areas EXCEPT ![q] = vm_areas[p]]
          /\ ofile' = [ofile EXCEPT ![q] = ofile[p]]
          /\ ref' = [h \in File |-> ref[h] + AreaRefs(vm_areas[p], h) + FdRefs(ofile[p], h)]
      BY Zenon DEF Fork
    <2>2. vm_areas[q] = NoAreas /\ ofile[q] = NoFiles
      BY Zenon DEF Fork, UnusedInv
    <2>3. /\ Holders(f)' = Holders(f) \cup ({q} \X FdsOf(p, f))
          /\ \A x \in Holders(f) : x[1] # q
      <3>1. /\ \A s \in FD : ofile[q][s] = NULL /\ ofile'[q][s] = ofile[p][s]
            /\ \A r \in Proc \ {q} : ofile'[r] = ofile[r]
        BY <2>1, <2>2, Zenon DEF NoFiles
      <3> QED
        BY ONLY <3>1, p \in Proc, q \in Proc, f \in File, MmapSizes DEF Holders, FdsOf
    <2>4. /\ Mappers(f)' = Mappers(f) \cup ({q} \X AreasOf(p, f))
          /\ \A x \in Mappers(f) : x[1] # q
      <3>1. /\ \A s \in Slots : vm_areas[q][s] = NULL /\ vm_areas'[q][s] = vm_areas[p][s]
            /\ \A r \in Proc \ {q} : vm_areas'[r] = vm_areas[r]
        BY <2>1, <2>2, Zenon DEF NoAreas
      <3> QED
        BY ONLY <3>1, p \in Proc, q \in Proc, f \in File, MmapSizes DEF Mappers, AreasOf
    <2>5. Cardinality(Holders(f)') = Cardinality(Holders(f)) + Cardinality(FdsOf(p, f))
      <3>1. /\ IsFiniteSet(Holders(f)) /\ IsFiniteSet(FdsOf(p, f))
            /\ \A x \in Holders(f) : x[1] # q
        BY <2>3, RefsOfProcess, Zenon
      <3>2. Cardinality(Holders(f) \cup ({q} \X FdsOf(p, f))) =
               Cardinality(Holders(f)) + Cardinality(FdsOf(p, f))
        BY ONLY <3>1, RowMore
      <3> QED
        BY <2>3, <3>2, Zenon
    <2>6. Cardinality(Mappers(f)') = Cardinality(Mappers(f)) + Cardinality(AreasOf(p, f))
      <3>1. /\ IsFiniteSet(Mappers(f)) /\ IsFiniteSet(AreasOf(p, f))
            /\ \A x \in Mappers(f) : x[1] # q
        BY <2>4, RefsOfProcess, Zenon
      <3>2. Cardinality(Mappers(f) \cup ({q} \X AreasOf(p, f))) =
               Cardinality(Mappers(f)) + Cardinality(AreasOf(p, f))
        BY ONLY <3>1, RowMore
      <3> QED
        BY <2>4, <3>2, Zenon
    <2>7. ref'[f] = ref[f] + Cardinality(AreasOf(p, f)) + Cardinality(FdsOf(p, f))
      BY <2>1, RefsOfProcess, Zenon
    <2>8. /\ Cardinality(FdsOf(p, f)) \in Nat /\ Cardinality(AreasOf(p, f)) \in Nat
          /\ Cardinality(Holders(f)) \in Nat /\ Cardinality(Mappers(f)) \in Nat
          /\ ref[f] = Cardinality(Holders(f)) + Cardinality(Mappers(f))
      BY RefsOfProcess
    <2> QED
      BY ONLY <2>5, <2>6, <2>7, <2>8
  <1> QED
    BY <1>1, Zenon DEF Counts

-----------------------------------------------------------------------------
(* Every call keeps the invariant MmapInv: one lemma for each action, and  *)
(* under it one step for each conjunct.                                    *)

\* A count of references is a natural number.
LEMMA RefTyped == Counts /\ ref = [f \in File |-> ref[f]] => ref \in [File -> Nat]
  <1> SUFFICES ASSUME Counts, ref = [f \in File |-> ref[f]] PROVE ref \in [File -> Nat]
    OBVIOUS
  <1>1. ASSUME NEW f \in File PROVE ref[f] \in Nat
    <2>1. Holders(f) \in SUBSET (Proc \X FD) /\ Mappers(f) \in SUBSET (Proc \X Slots)
      BY DEF Holders, Mappers
    <2>2. Cardinality(Holders(f)) \in Nat /\ Cardinality(Mappers(f)) \in Nat
      BY <2>1, FinitelyMany
    <2> QED
      BY <2>2 DEF Counts
  <1> QED
    BY <1>1

\* A step that changes no reference.
LEMMA SameCounts ==
    ASSUME Counts, UNCHANGED <<ref, ofile, vm_areas>>
    PROVE  Counts'
  <1>1. \A f \in File : Holders(f)' = Holders(f) /\ Mappers(f)' = Mappers(f)
    BY Zenon DEF Holders, Mappers
  <1> QED
    BY <1>1, Zenon DEF Counts

\* The memory of a process, and what exec() and exit() make of it.
LEMMA MemTyped ==
    ASSUME NEW p \in Proc, TypeOK
    PROVE  Mem(p) \in Memory /\ Mem(p).pt = pagetable[p] /\ Mem(p).content = content
  BY Zenon DEF TypeOK, Mem, Memory, PageTables, Contents

\* exec() and exit() unmap the pages of all mappings, and write the file only
\* for a dirty page of a shared one.
LEMMA ClearedMemory ==
    ASSUME NEW p \in Proc, TypeOK, RangeInv
    PROVE  LET m == ClearAll(Mem(p), vm_areas[p])
           IN  /\ m.pt \in [Page -> PTE \cup {NULL}] /\ m.content \in [0..(FSIZE - 1) -> Data]
               /\ \A pg \in Page : m.pt[pg] =
                     IF \E s \in Slots : vm_areas[p][s] # NULL /\ pg \in Valid(vm_areas[p][s])
                     THEN NULL ELSE pagetable[p][pg]
               /\ m.content # content =>
                     \E s \in Slots, pg \in Page :
                        /\ vm_areas[p][s] # NULL /\ vm_areas[p][s].shared
                        /\ pg \in Valid(vm_areas[p][s]) /\ DirtyIn(pagetable[p], pg)
  <1> DEFINE m == ClearAll(Mem(p), vm_areas[p])
  <1>1. InRange(vm_areas[p]) /\ vm_areas[p] \in [Slots -> Area \cup {NULL}]
    BY Zenon DEF RangeInv, InRange, TypeOK
  <1>2. Mem(p) \in Memory /\ Mem(p).pt = pagetable[p] /\ Mem(p).content = content
    BY MemTyped
  <1>3. /\ m \in Memory
        /\ \A pg \in Page : m.pt[pg] =
              IF CoveredBy(vm_areas[p], NVMA, pg) THEN NULL ELSE Mem(p).pt[pg]
        /\ m.content # Mem(p).content =>
              \E s \in Slots, pg \in Page :
                 /\ vm_areas[p][s] # NULL /\ vm_areas[p][s].shared
                 /\ pg \in Valid(vm_areas[p][s]) /\ DirtyIn(Mem(p).pt, pg)
    BY <1>1, <1>2, ClearAllIs, Zenon
  <1> HIDE DEF m
  <1>4. m.pt \in [Page -> PTE \cup {NULL}] /\ m.content \in [0..(FSIZE - 1) -> Data]
    BY <1>3, Zenon DEF Memory, PageTables, Contents
  <1>5. \A pg \in Page : CoveredBy(vm_areas[p], NVMA, pg) <=>
           \E s \in Slots : vm_areas[p][s] # NULL /\ pg \in Valid(vm_areas[p][s])
    BY Zenon DEF CoveredBy, Slots
  <1> QED
    BY <1>2, <1>3, <1>4, <1>5, Zenon DEF m

\* sys_open() changes no memory.
LEMMA OpenKeeps ==
    ASSUME NEW p \in Proc, NEW rw \in OpenModes, MmapInv, Open(p, rw)
    PROVE  MmapInv'
  <1>1. TypeOK /\ UnusedInv /\ RangeInv /\ NoOrphanPages /\ Counts
    BY DEF MmapInv, RefCountExact, Counts
  <1>2. Counts'
    BY OpenCounts, Zenon
  <1>3. TypeOK'
    <2>1. ref' \in [File -> Nat]
      <3>1. (Counts /\ ref = [f \in File |-> ref[f]] => ref \in [File -> Nat])'
        BY RefTyped, PTL
      <3>2. ref' = [f \in File |-> ref'[f]]
        BY <1>1, Zenon DEF Open, TypeOK
      <3> QED
        BY <1>2, <3>1, <3>2
    <2>2. writable' \in [File -> BOOLEAN] /\ ofile' \in [Proc -> [FD -> File \cup {NULL}]]
      BY <1>1, MmapConstants DEF Open, TypeOK
    <2> QED
      BY <1>1, <2>1, <2>2 DEF Open, TypeOK
  <1>4. UnusedInv'
    BY <1>1, Zenon DEF Open, User, UnusedInv, TypeOK
  <1>5. RangeInv'
    BY <1>1, Zenon DEF Open, RangeInv, TypeOK
  <1>6. NoOrphanPages'
    BY <1>1, Zenon DEF Open, NoOrphanPages, TypeOK
  <1> QED
    BY <1>2, <1>3, <1>4, <1>5, <1>6, Zenon DEF MmapInv, RefCountExact, Counts

\* sys_close() changes no memory.
LEMMA CloseKeeps ==
    ASSUME NEW p \in Proc, NEW fd \in FD, MmapInv, Close(p, fd)
    PROVE  MmapInv'
  <1>1. TypeOK /\ UnusedInv /\ RangeInv /\ NoOrphanPages /\ Counts
    BY DEF MmapInv, RefCountExact, Counts
  <1>2. Counts'
    BY CloseCounts, Zenon
  <1>3. TypeOK'
    <2>1. ref' \in [File -> Nat]
      <3>1. (Counts /\ ref = [f \in File |-> ref[f]] => ref \in [File -> Nat])'
        BY RefTyped, PTL
      <3>2. ref' = [f \in File |-> ref'[f]]
        BY <1>1, Zenon DEF Close, TypeOK
      <3> QED
        BY <1>2, <3>1, <3>2
    <2>2. ofile' \in [Proc -> [FD -> File \cup {NULL}]]
      BY <1>1, Zenon DEF Close, TypeOK
    <2> QED
      BY <1>1, <2>1, <2>2, Zenon DEF Close, TypeOK
  <1>4. UnusedInv'
    BY <1>1, Zenon DEF Close, User, UnusedInv, TypeOK
  <1>5. RangeInv'
    BY <1>1, Zenon DEF Close, RangeInv, TypeOK
  <1>6. NoOrphanPages'
    BY <1>1, Zenon DEF Close, NoOrphanPages, TypeOK
  <1> QED
    BY <1>2, <1>3, <1>4, <1>5, <1>6, Zenon DEF MmapInv, RefCountExact, Counts

\* A store changes a page that is loaded.
LEMMA StoreKeeps ==
    ASSUME NEW p \in Proc, NEW pg \in Touched, MmapInv, Store(p, pg)
    PROVE  MmapInv'
  <1>1. TypeOK /\ UnusedInv /\ RangeInv /\ NoOrphanPages /\ Counts
    BY DEF MmapInv, RefCountExact, Counts
  <1>2. Counts'
    BY <1>1, SameCounts, Zenon DEF Store
  <1>3. TypeOK'
    <2>1. pg \in Page /\ pagetable[p][pg] \in PTE
      BY <1>1 DEF Store, Hit, WalkAddr, TypeOK
    <2>2. [pagetable[p][pg] EXCEPT !.data = "stored", !.dirty = TRUE] \in PTE
      BY <2>1, Zenon DEF PTE, Data
    <2>3. pagetable' = [pagetable EXCEPT ![p][pg] =
                           [pagetable[p][pg] EXCEPT !.data = "stored", !.dirty = TRUE]]
      BY <1>1, <2>1, Zenon DEF Store, TypeOK
    <2>4. pagetable' \in [Proc -> [Page -> PTE \cup {NULL}]]
      BY <1>1, <2>1, <2>2, <2>3, Zenon DEF TypeOK
    <2> QED
      BY <1>1, <2>4, Zenon DEF Store, TypeOK
  <1>4. UnusedInv'
    BY <1>1 DEF Store, UnusedInv, TypeOK
  <1>5. RangeInv'
    BY <1>1 DEF Store, RangeInv, TypeOK
  <1>6. NoOrphanPages'
    <2>1. \A q \in Proc, g \in Page : pagetable'[q][g] # NULL => pagetable[q][g] # NULL
      BY <1>1 DEF Store, Hit, WalkAddr, TypeOK
    <2> QED
      BY <1>1, <2>1 DEF Store, NoOrphanPages
  <1> QED
    BY <1>2, <1>3, <1>4, <1>5, <1>6, Zenon DEF MmapInv, RefCountExact, Counts
=============================================================================
