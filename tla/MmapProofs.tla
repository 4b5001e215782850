----------------------------- MODULE MmapProofs -----------------------------
(***************************************************************************)
(* The safety of mapped memory, for any number of processes, files, slots  *)
(* and pages and any arguments of the system calls.                        *)
(***************************************************************************)
EXTENDS MmapLemmas

\* Growing: the pages of the heap are below p->sz.
LEMMA SbrkGrowKeeps ==
    ASSUME NEW p \in Proc, NEW n \in SbrkDeltas, MmapInv, SbrkGrow(p, n)
    PROVE  MmapInv'
  <1>1. TypeOK /\ UnusedInv /\ RangeInv /\ NoOrphanPages /\ Counts
    BY DEF MmapInv, RefCountExact, Counts
  <1>2. Counts'
    BY <1>1, SameCounts, Zenon DEF SbrkGrow
  <1>3. TypeOK'
    <2>1. n \in Int /\ HeapPage \in PTE
      BY MmapConstants DEF HeapPage, PTE, Data
    <2>2. sz \in [Proc -> Nat] /\ pagetable \in [Proc -> [Page -> PTE \cup {NULL}]]
      BY <1>1 DEF TypeOK
    <2>3. CASE UNCHANGED <<sz, pagetable>>
      BY <1>1, <2>3, Zenon DEF SbrkGrow, TypeOK
    <2>4. CASE ~UNCHANGED <<sz, pagetable>>
      <3>1. /\ sz' = [sz EXCEPT ![p] = @ + n]
            /\ pagetable' = [pagetable EXCEPT ![p] = Grow(@, sz[p], sz[p] + n)]
        BY <2>4, Zenon DEF SbrkGrow
      <3>2. sz[p] + n \in Nat
        <4>1. n > 0
          BY Zenon DEF SbrkGrow
        <4> QED
          BY ONLY <2>1, <2>2, <4>1
      <3>3. sz' \in [Proc -> Nat]
        BY ONLY <2>2, <3>1, <3>2
      <3>4. Grow(pagetable[p], sz[p], sz[p] + n) \in [Page -> PTE \cup {NULL}]
        BY <2>1, <2>2 DEF Grow
      <3>5. pagetable' \in [Proc -> [Page -> PTE \cup {NULL}]]
        BY ONLY <2>2, <3>1, <3>4
      <3> QED
        BY <1>1, <3>3, <3>5, Zenon DEF SbrkGrow, TypeOK
    <2> QED
      BY <2>3, <2>4
  <1>4. UnusedInv'
    BY <1>1, Zenon DEF SbrkGrow, UnusedInv, TypeOK
  <1>5. RangeInv'
    BY <1>1, Zenon DEF SbrkGrow, RangeInv, TypeOK
  <1>6. NoOrphanPages'
    <2>1. n \in Int /\ n > 0
      <3>1. n \in Int
        BY MmapConstants
      <3> QED
        BY <3>1, Zenon DEF SbrkGrow
    <2>2. UNCHANGED vm_areas
      BY Zenon DEF SbrkGrow
    <2>3. CASE UNCHANGED <<sz, pagetable>>
      BY <1>1, <2>2, <2>3 DEF NoOrphanPages
    <2>4. CASE /\ sz' = [sz EXCEPT ![p] = @ + n]
               /\ pagetable' = [pagetable EXCEPT ![p] = Grow(@, sz[p], sz[p] + n)]
      <3>1. ASSUME NEW q \in Proc, NEW g \in Page, pagetable'[q][g] # NULL, g >= sz'[q]
            PROVE  pagetable[q][g] # NULL /\ g >= sz[q]
        BY <1>1, <2>1, <2>4, <3>1 DEF TypeOK, Grow, Page
      <3> QED
        BY <1>1, <2>2, <3>1 DEF NoOrphanPages
    <2> QED
      BY <2>3, <2>4, Zenon DEF SbrkGrow
  <1> QED
    BY <1>2, <1>3, <1>4, <1>5, <1>6 DEF MmapInv, RefCountExact, Counts

\* Shrinking: the pages between the new p->sz and the old one are unmapped.
LEMMA SbrkShrinkKeeps ==
    ASSUME NEW p \in Proc, NEW n \in SbrkDeltas, MmapInv, SbrkShrink(p, n)
    PROVE  MmapInv'
  <1>1. TypeOK /\ UnusedInv /\ RangeInv /\ NoOrphanPages /\ Counts
    BY DEF MmapInv, RefCountExact, Counts
  <1>2. Counts'
    BY <1>1, SameCounts, Zenon DEF SbrkShrink
  <1>3. TypeOK'
    <2>1. n \in Int /\ HeapPage \in PTE
      BY MmapConstants DEF HeapPage, PTE, Data
    <2>2. sz \in [Proc -> Nat] /\ pagetable \in [Proc -> [Page -> PTE \cup {NULL}]]
      BY <1>1 DEF TypeOK
    <2>3. CASE UNCHANGED <<sz, pagetable>>
      BY <1>1, <2>3, Zenon DEF SbrkShrink, TypeOK
    <2>4. CASE ~UNCHANGED <<sz, pagetable>>
      <3>1. /\ sz' = [sz EXCEPT ![p] = @ + n]
            /\ pagetable' = [pagetable EXCEPT ![p] = Unmap(@, sz[p] + n, sz[p])]
        BY <2>4, Zenon DEF SbrkShrink
      <3>2. sz[p] + n \in Nat
        <4>1. sz[p] + n >= 0
          BY Zenon DEF SbrkShrink
        <4> QED
          BY ONLY <2>1, <2>2, <4>1
      <3>3. sz' \in [Proc -> Nat]
        BY ONLY <2>2, <3>1, <3>2
      <3>4. Unmap(pagetable[p], sz[p] + n, sz[p]) \in [Page -> PTE \cup {NULL}]
        BY <2>1, <2>2 DEF Unmap
      <3>5. pagetable' \in [Proc -> [Page -> PTE \cup {NULL}]]
        BY ONLY <2>2, <3>1, <3>4
      <3> QED
        BY <1>1, <3>3, <3>5, Zenon DEF SbrkShrink, TypeOK
    <2> QED
      BY <2>3, <2>4
  <1>4. UnusedInv'
    BY <1>1, Zenon DEF SbrkShrink, UnusedInv, TypeOK
  <1>5. RangeInv'
    BY <1>1, Zenon DEF SbrkShrink, RangeInv, TypeOK
  <1>6. NoOrphanPages'
    <2>1. n \in Int
      BY MmapConstants
    <2>2. UNCHANGED vm_areas
      BY Zenon DEF SbrkShrink
    <2>3. CASE UNCHANGED <<sz, pagetable>>
      BY <1>1, <2>2, <2>3 DEF NoOrphanPages
    <2>4. CASE /\ sz' = [sz EXCEPT ![p] = @ + n]
               /\ pagetable' = [pagetable EXCEPT ![p] = Unmap(@, sz[p] + n, sz[p])]
      <3>1. ASSUME NEW q \in Proc, NEW g \in Page, pagetable'[q][g] # NULL, g >= sz'[q]
            PROVE  pagetable[q][g] # NULL /\ g >= sz[q]
        BY <1>1, <2>1, <2>4, <3>1, MmapSizes DEF TypeOK, Unmap, Page
      <3> QED
        BY <1>1, <2>2, <3>1 DEF NoOrphanPages
    <2> QED
      BY <2>3, <2>4, Zenon DEF SbrkShrink
  <1> QED
    BY <1>2, <1>3, <1>4, <1>5, <1>6 DEF MmapInv, RefCountExact, Counts

\* freeproc() leaves an empty page table.
LEMMA ReapKeeps ==
    ASSUME NEW p \in Proc, MmapInv, Reap(p)
    PROVE  MmapInv'
  <1>1. TypeOK /\ UnusedInv /\ RangeInv /\ NoOrphanPages /\ Counts
    BY DEF MmapInv, RefCountExact, Counts
  <1>2. Counts'
    BY <1>1, SameCounts DEF Reap
  <1>3. TypeOK'
    BY <1>1 DEF Reap, TypeOK, NoPages
  <1>4. UnusedInv'
    BY <1>1, MmapSizes DEF Reap, UnusedInv, TypeOK
  <1>5. RangeInv'
    BY <1>1 DEF Reap, RangeInv, TypeOK
  <1>6. NoOrphanPages'
    BY <1>1 DEF Reap, NoOrphanPages, TypeOK, NoPages
  <1> QED
    BY <1>2, <1>3, <1>4, <1>5, <1>6 DEF MmapInv, RefCountExact, Counts
\* A new mapping has no page yet.
LEMMA SysMmapKeeps ==
    ASSUME NEW p \in Proc, NEW len \in MapLens, NEW prot \in Prots, NEW shared \in BOOLEAN,
           NEW fd \in FD, MmapInv, SysMmap(p, len, prot, shared, fd)
    PROVE  MmapInv'
  <1>1. TypeOK /\ UnusedInv /\ RangeInv /\ NoOrphanPages /\ Counts
    BY DEF MmapInv, RefCountExact, Counts
  <1>2. Counts'
    BY MmapCounts
  <1>3. TypeOK'
    <2>1. vm_areas' \in [Proc -> [Slots -> Area \cup {NULL}]] /\ ref' = [f \in File |-> ref'[f]]
      <3>1. CASE UNCHANGED <<vm_areas, ref>>
        BY <1>1, <3>1 DEF TypeOK
      <3>2. CASE ~UNCHANGED <<vm_areas, ref>>
        <4>1. PICK slot \in Slots, a \in Area :
                 /\ a = NewArea(p, len, prot, shared, ofile[p][fd]) /\ a # NULL
                 /\ NextStart(p) \in Nat /\ NextStart(p) + len < TOP
                 /\ ref' = [ref EXCEPT ![a.fptr] = @ + 1]
                 /\ vm_areas[p][slot] = NULL
                 /\ vm_areas' = [vm_areas EXCEPT ![p][slot] = a]
          BY <3>2, MmapSlot
        <4> QED
          BY <1>1, <4>1, Zenon DEF TypeOK
      <3> QED
        BY <3>1, <3>2
    <2>2. ref' \in [File -> Nat]
      <3>1. (Counts /\ ref = [f \in File |-> ref[f]] => ref \in [File -> Nat])'
        BY RefTyped, PTL
      <3> QED
        BY <1>2, <2>1, <3>1
    <2>3. next_start' \in [Proc -> Nat]
      <3>1. NextStart(p) \in Nat /\ len \in Nat
        BY <1>1, MmapConstants DEF NextStart, TypeOK
      <3>2. NextStart(p) + len \in Nat
        BY <3>1
      <3>3. \/ UNCHANGED next_start
            \/ next_start' = [next_start EXCEPT ![p] = NextStart(p)]
            \/ next_start' = [next_start EXCEPT ![p] = NextStart(p) + len]
        BY Zenon DEF SysMmap
      <3>4. next_start \in [Proc -> Nat]
        BY <1>1 DEF TypeOK
      <3> QED
        BY ONLY <3>1, <3>2, <3>3, <3>4
    <2> QED
      BY <1>1, <2>1, <2>2, <2>3, Zenon DEF SysMmap, TypeOK
  <1>4. UnusedInv'
    <2> DEFINE others == \A q \in Proc \ {p} : vm_areas'[q] = vm_areas[q]
    <2>1. others
      <3>1. CASE UNCHANGED <<vm_areas, ref>>
        BY <3>1
      <3>2. CASE ~UNCHANGED <<vm_areas, ref>>
        <4>1. PICK slot \in Slots, a \in Area :
                 /\ a = NewArea(p, len, prot, shared, ofile[p][fd]) /\ a # NULL
                 /\ NextStart(p) \in Nat /\ NextStart(p) + len < TOP
                 /\ ref' = [ref EXCEPT ![a.fptr] = @ + 1]
                 /\ vm_areas[p][slot] = NULL
                 /\ vm_areas' = [vm_areas EXCEPT ![p][slot] = a]
          BY <3>2, MmapSlot
        <4> QED
          BY <1>1, <4>1 DEF TypeOK
      <3> QED
        BY <3>1, <3>2
    <2>2. p # InitProc /\ state[p] = "live" /\ UNCHANGED <<state, ofile>>
      BY Zenon DEF SysMmap, User
    <2> QED
      BY <1>1, <2>1, <2>2, MmapSizes DEF UnusedInv
  <1>5. RangeInv'
    <2>1. CASE UNCHANGED <<vm_areas, ref>>
      BY <1>1, <2>1, Zenon DEF RangeInv
    <2>2. CASE ~UNCHANGED <<vm_areas, ref>>
      <3>1. PICK slot \in Slots, a \in Area :
               /\ a = NewArea(p, len, prot, shared, ofile[p][fd]) /\ a # NULL
               /\ NextStart(p) \in Nat /\ NextStart(p) + len < TOP
               /\ ref' = [ref EXCEPT ![a.fptr] = @ + 1]
               /\ vm_areas[p][slot] = NULL
               /\ vm_areas' = [vm_areas EXCEPT ![p][slot] = a]
        BY <2>2, MmapSlot
      <3>2. a.valid_start < a.valid_end /\ a.valid_end < TOP
        BY <3>1, MmapConstants DEF NewArea
      <3> QED
        BY <1>1, <3>1, <3>2, Zenon DEF RangeInv, TypeOK
    <2> QED
      BY <2>1, <2>2
  <1>6. NoOrphanPages'
    <2>1. CASE UNCHANGED <<vm_areas, ref>>
      BY <1>1, <2>1, Zenon DEF SysMmap, NoOrphanPages
    <2>2. CASE ~UNCHANGED <<vm_areas, ref>>
      <3>1. PICK slot \in Slots, a \in Area :
               /\ a = NewArea(p, len, prot, shared, ofile[p][fd]) /\ a # NULL
               /\ NextStart(p) \in Nat /\ NextStart(p) + len < TOP
               /\ ref' = [ref EXCEPT ![a.fptr] = @ + 1]
               /\ vm_areas[p][slot] = NULL
               /\ vm_areas' = [vm_areas EXCEPT ![p][slot] = a]
        BY <2>2, MmapSlot
      <3>2. \A q \in Proc, s \in Slots : vm_areas[q][s] # NULL => vm_areas'[q][s] = vm_areas[q][s]
        BY <1>1, <3>1 DEF TypeOK
      <3>3. UNCHANGED <<sz, pagetable>>
        BY Zenon DEF SysMmap
      <3> QED
        BY <1>1, <3>2, <3>3, Zenon DEF NoOrphanPages
    <2> QED
      BY <2>1, <2>2
  <1> QED
    BY <1>2, <1>3, <1>4, <1>5, <1>6, Zenon DEF MmapInv, RefCountExact, Counts

\* All pages of the mappings are unmapped with them.
LEMMA ExitKeeps ==
    ASSUME NEW p \in Proc, p # InitProc, MmapInv, ExitEffect(p)
    PROVE  MmapInv'
  <1>1. TypeOK /\ UnusedInv /\ RangeInv /\ NoOrphanPages /\ Counts
    BY DEF MmapInv, RefCountExact, Counts
  <1>2. Counts'
    BY ExitCounts
  <1>3. TypeOK'
    <2> DEFINE m == ClearAll(Mem(p), vm_areas[p])
    <2>1. /\ m.pt \in [Page -> PTE \cup {NULL}] /\ m.content \in [0..(FSIZE - 1) -> Data]
          /\ \A pg \in Page : m.pt[pg] =
                IF \E s \in Slots : vm_areas[p][s] # NULL /\ pg \in Valid(vm_areas[p][s])
                THEN NULL ELSE pagetable[p][pg]
      BY <1>1, ClearedMemory
    <2> HIDE DEF m
    <2>2. ref' \in [File -> Nat]
      <3>1. (Counts /\ ref = [f \in File |-> ref[f]] => ref \in [File -> Nat])'
        BY RefTyped, PTL
      <3>2. ref' = [f \in File |-> ref'[f]]
        BY DEF ExitEffect, ExitRef
      <3> QED
        BY <1>2, <3>1, <3>2
    <2>3. /\ pagetable' \in [Proc -> [Page -> PTE \cup {NULL}]]
          /\ content' \in [0..(FSIZE - 1) -> Data]
      BY <1>1, <2>1 DEF ExitEffect, TypeOK, m
    <2>4. /\ vm_areas' \in [Proc -> [Slots -> Area \cup {NULL}]]
          /\ ofile' \in [Proc -> [FD -> File \cup {NULL}]]
      BY <1>1 DEF ExitEffect, TypeOK, NoAreas, NoFiles
    <2> QED
      BY <1>1, <2>2, <2>3, <2>4, Zenon DEF ExitEffect, TypeOK
  <1>4. UnusedInv'
    BY <1>1, MmapSizes, Zenon DEF ExitEffect, UnusedInv, TypeOK
  <1>5. RangeInv'
    BY <1>1 DEF ExitEffect, RangeInv, TypeOK, NoAreas
  <1>6. NoOrphanPages'
    <2> DEFINE m == ClearAll(Mem(p), vm_areas[p])
    <2>1. /\ m.pt \in [Page -> PTE \cup {NULL}] /\ m.content \in [0..(FSIZE - 1) -> Data]
          /\ \A pg \in Page : m.pt[pg] =
                IF \E s \in Slots : vm_areas[p][s] # NULL /\ pg \in Valid(vm_areas[p][s])
                THEN NULL ELSE pagetable[p][pg]
      BY <1>1, ClearedMemory
    <2> HIDE DEF m
    <2>2. /\ pagetable' = [pagetable EXCEPT ![p] = m.pt] /\ UNCHANGED sz
          /\ vm_areas' = [vm_areas EXCEPT ![p] = NoAreas]
      BY DEF ExitEffect, m
    <2>3. ASSUME NEW pg \in Page, pg >= sz[p] PROVE m.pt[pg] = NULL
      BY <1>1, <2>1, <2>3, Zenon DEF NoOrphanPages
    <2> QED
      BY <1>1, <2>2, <2>3, Zenon DEF NoOrphanPages, TypeOK
  <1> QED
    BY <1>2, <1>3, <1>4, <1>5, <1>6 DEF MmapInv, RefCountExact, Counts

\* The new image has no mappings and no page above its size.
LEMMA ExecKeeps ==
    ASSUME NEW p \in Proc, NEW n \in ExecSizes, MmapInv, Exec(p, n)
    PROVE  MmapInv'
  <1>1. TypeOK /\ UnusedInv /\ RangeInv /\ NoOrphanPages /\ Counts
    BY DEF MmapInv, RefCountExact, Counts
  <1>2. Counts'
    BY ExecCounts
  <1>3. TypeOK'
    <2> DEFINE m == ClearAll(Mem(p), vm_areas[p])
    <2>1. /\ m.pt \in [Page -> PTE \cup {NULL}] /\ m.content \in [0..(FSIZE - 1) -> Data]
          /\ \A pg \in Page : m.pt[pg] =
                IF \E s \in Slots : vm_areas[p][s] # NULL /\ pg \in Valid(vm_areas[p][s])
                THEN NULL ELSE pagetable[p][pg]
      BY <1>1, ClearedMemory
    <2> HIDE DEF m
    <2>2. ref' \in [File -> Nat]
      <3>1. (Counts /\ ref = [f \in File |-> ref[f]] => ref \in [File -> Nat])'
        BY RefTyped, PTL
      <3>2. ref' = [f \in File |-> ref'[f]]
        BY DEF Exec
      <3> QED
        BY <1>2, <3>1, <3>2
    <2>3. content' \in [0..(FSIZE - 1) -> Data]
      BY <2>1 DEF Exec, m
    <2>4. pagetable' \in [Proc -> [Page -> PTE \cup {NULL}]]
      BY <1>1 DEF Exec, TypeOK, Grow, NoPages, HeapPage, PTE, Data
    <2>5. vm_areas' \in [Proc -> [Slots -> Area \cup {NULL}]]
      BY <1>1 DEF Exec, TypeOK, NoAreas
    <2>6. sz' \in [Proc -> Nat]
      BY <1>1, MmapConstants DEF Exec, TypeOK
    <2> QED
      BY <1>1, <2>2, <2>3, <2>4, <2>5, <2>6, Zenon DEF Exec, TypeOK
  <1>4. UnusedInv'
    BY <1>1, MmapSizes DEF Exec, User, UnusedInv, TypeOK
  <1>5. RangeInv'
    BY <1>1 DEF Exec, RangeInv, TypeOK, NoAreas
  <1>6. NoOrphanPages'
    <2>1. /\ pagetable' = [pagetable EXCEPT ![p] = Grow(NoPages, 0, n)]
          /\ sz' = [sz EXCEPT ![p] = n] /\ vm_areas' = [vm_areas EXCEPT ![p] = NoAreas]
      BY DEF Exec
    <2>2. ASSUME NEW pg \in Page, pg >= n PROVE Grow(NoPages, 0, n)[pg] = NULL
      <3>1. pg \in Int /\ n \in Int
        BY MmapConstants DEF Page
      <3> QED
        BY <2>2, <3>1 DEF Grow, NoPages
    <2> QED
      BY <1>1, <2>1, <2>2 DEF NoOrphanPages, TypeOK
  <1> QED
    BY <1>2, <1>3, <1>4, <1>5, <1>6 DEF MmapInv, RefCountExact, Counts

\* The child has the mappings and none of their pages.
LEMMA ForkKeeps ==
    ASSUME NEW p \in Proc, NEW q \in Proc, MmapInv, Fork(p, q)
    PROVE  MmapInv'
  <1>1. TypeOK /\ UnusedInv /\ RangeInv /\ NoOrphanPages /\ Counts
    BY DEF MmapInv, RefCountExact, Counts
  <1>2. Counts'
    BY ForkCounts
  <1>3. TypeOK'
    <2>1. ref' \in [File -> Nat]
      <3>1. (Counts /\ ref = [f \in File |-> ref[f]] => ref \in [File -> Nat])'
        BY RefTyped, PTL
      <3>2. ref' = [f \in File |-> ref'[f]]
        BY DEF Fork
      <3> QED
        BY <1>2, <3>1, <3>2
    <2>2. pagetable' \in [Proc -> [Page -> PTE \cup {NULL}]]
      BY <1>1 DEF Fork, TypeOK, Unmap
    <2>3. /\ vm_areas' \in [Proc -> [Slots -> Area \cup {NULL}]]
          /\ ofile' \in [Proc -> [FD -> File \cup {NULL}]]
          /\ sz' \in [Proc -> Nat] /\ next_start' \in [Proc -> Nat]
      BY <1>1, Zenon DEF Fork, TypeOK
    <2>4. state' \in [Proc -> {"unused", "live", "zombie"}]
      BY <1>1 DEF Fork, TypeOK
    <2> QED
      BY <1>1, <2>1, <2>2, <2>3, <2>4, Zenon DEF Fork, TypeOK
  <1>4. UnusedInv'
    BY <1>1, MmapSizes, Zenon DEF Fork, UnusedInv, TypeOK
  <1>5. RangeInv'
    BY <1>1 DEF Fork, RangeInv, TypeOK
  <1>6. NoOrphanPages'
    <2>1. /\ pagetable' = [pagetable EXCEPT ![q] = Unmap(pagetable[p], sz[p], MAXVA)]
          /\ sz' = [sz EXCEPT ![q] = sz[p]] /\ vm_areas' = [vm_areas EXCEPT ![q] = vm_areas[p]]
      BY DEF Fork
    <2>2. ASSUME NEW pg \in Page, pg >= sz[p] PROVE Unmap(pagetable[p], sz[p], MAXVA)[pg] = NULL
      BY <1>1, <2>2, MmapSizes DEF TypeOK, Unmap, Page
    <2> QED
      BY <1>1, <2>1, <2>2 DEF NoOrphanPages, TypeOK
  <1> QED
    BY <1>2, <1>3, <1>4, <1>5, <1>6, Zenon DEF MmapInv, RefCountExact, Counts

\* Counting back from the end of a range gives its start, also when the range
\* wraps around at 2^64.
LEMMA BackFromEnd ==
    ASSUME NEW addr \in 0..(TOP - 1), NEW len \in 0..(TOP - 1)
    PROVE  /\ LoopEnd(addr, len) \in 0..(TOP - 1)
           /\ (LoopEnd(addr, len) - len) % TOP = addr
  <1> USE MmapSizes
  <1>1. CASE addr + len < TOP
    <2>1. LoopEnd(addr, len) = addr + len
      BY <1>1, ModUnique DEF LoopEnd
    <2>2. addr % TOP = addr
      BY ModUnique
    <2> QED
      BY <1>1, <2>1, <2>2
  <1>2. CASE addr + len >= TOP
    <2>1. (addr + len) % TOP = addr + len - TOP
      BY <1>2
    <2>2. (addr - TOP) % TOP = addr
      OBVIOUS
    <2>3. LoopEnd(addr, len) = addr + len - TOP
      BY <2>1 DEF LoopEnd
    <2> QED
      BY <1>2, <2>2, <2>3
  <1> QED
    BY <1>1, <1>2

\* The pages that leave the valid range of the mapping are the ones that are
\* unmapped, also when the range wraps around.
LEMMA SysMunmapKeeps ==
    ASSUME NEW p \in Proc, NEW addr \in 0..(TOP - 1), NEW len \in 0..(TOP - 1),
           MmapInv, SysMunmap(p, addr, len)
    PROVE  MmapInv'
  <1>1. TypeOK /\ UnusedInv /\ RangeInv /\ NoOrphanPages /\ Counts
    BY DEF MmapInv, RefCountExact, Counts
  <1>2. Counts'
    BY MunmapCounts
  <1>3. TypeOK'
    <2>1. PICK slot \in Slots, b \in Area : Munmapped(p, slot, b, addr, len)
      BY MunmapSlot, Zenon
    <2> DEFINE a == vm_areas[p][slot]
               end == LoopEnd(addr, len)
               m == Remove(Mem(p), a, addr, len)
               empty == b.valid_start >= b.valid_end
    <2>2. /\ a \in Area /\ content' = m.content /\ pagetable' = [pagetable EXCEPT ![p] = m.pt]
          /\ vm_areas' = [vm_areas EXCEPT ![p][slot] = IF empty THEN NULL ELSE b]
          /\ ref' = [ref EXCEPT ![a.fptr] = IF empty THEN @ - 1 ELSE @]
      BY <2>1 DEF Munmapped
    <2>3. m.pt \in [Page -> PTE \cup {NULL}] /\ m.content \in [0..(FSIZE - 1) -> Data]
      <3>1. Mem(p) \in Memory
        BY <1>1, MemTyped
      <3>2. addr \in Nat /\ len \in Nat
        BY MmapSizes
      <3>3. m \in Memory
        BY <2>2, <3>1, <3>2, RemoveIs, Zenon
      <3> QED
        BY <3>3 DEF Memory, PageTables, Contents
    <2> HIDE DEF m, empty
    <2>4. /\ pagetable' \in [Proc -> [Page -> PTE \cup {NULL}]]
          /\ content' \in [0..(FSIZE - 1) -> Data]
      BY <1>1, <2>2, <2>3, Zenon DEF TypeOK
    <2>5. vm_areas' \in [Proc -> [Slots -> Area \cup {NULL}]]
      BY <1>1, <2>2 DEF TypeOK
    <2>6. ref' \in [File -> Nat]
      <3>1. (Counts /\ ref = [f \in File |-> ref[f]] => ref \in [File -> Nat])'
        BY RefTyped, PTL
      <3>2. ref' = [f \in File |-> ref'[f]]
        BY <1>1, <2>2, Zenon DEF TypeOK
      <3> QED
        BY <1>2, <3>1, <3>2
    <2>7. UNCHANGED <<state, sz, next_start, ofile, writable>>
      BY DEF SysMunmap
    <2> QED
      BY <1>1, <2>4, <2>5, <2>6, <2>7, Zenon DEF TypeOK
  <1>4. UnusedInv'
    <2>1. PICK slot \in Slots, b \in Area : Munmapped(p, slot, b, addr, len)
      BY MunmapSlot
    <2> DEFINE a == vm_areas[p][slot]
               end == LoopEnd(addr, len)
               m == Remove(Mem(p), a, addr, len)
               empty == b.valid_start >= b.valid_end
    <2>2. vm_areas' = [vm_areas EXCEPT ![p][slot] = IF empty THEN NULL ELSE b]
      BY <2>1, Zenon DEF Munmapped
    <2>3. p # InitProc /\ state[p] = "live" /\ UNCHANGED <<state, ofile>>
      BY DEF SysMunmap, User
    <2> HIDE DEF empty
    <2>4. \A q \in Proc \ {p} : vm_areas'[q] = vm_areas[q]
      BY <1>1, <2>2, Zenon DEF TypeOK
    <2> QED
      BY <1>1, <2>3, <2>4, MmapSizes, Zenon DEF UnusedInv
  <1>5. RangeInv'
    <2>1. PICK slot \in Slots, b \in Area : Munmapped(p, slot, b, addr, len)
      BY MunmapSlot
    <2> DEFINE a == vm_areas[p][slot]
               end == LoopEnd(addr, len)
               m == Remove(Mem(p), a, addr, len)
               empty == b.valid_start >= b.valid_end
    <2>2. vm_areas' = [vm_areas EXCEPT ![p][slot] = IF empty THEN NULL ELSE b] /\ b # NULL
      BY <2>1, Zenon DEF Munmapped
    <2>3. b.valid_end < TOP
      <3>1. a \in Area /\ a.valid_end < TOP
        BY <1>1, <2>1, Zenon DEF RangeInv, Munmapped
      <3>2. b.valid_end = a.valid_end \/ b.valid_end = (a.valid_end - len) % TOP
        BY <2>1 DEF Munmapped
      <3> QED
        BY <3>1, <3>2, MmapSizes DEF Area
    <2>4. empty \/ b.valid_start < b.valid_end
      BY DEF Area
    <2> HIDE DEF empty
    <2> QED
      BY <1>1, <2>2, <2>3, <2>4, Zenon DEF RangeInv, TypeOK
  <1>6. NoOrphanPages'
    <2>1. PICK slot \in Slots, b \in Area : Munmapped(p, slot, b, addr, len)
      BY MunmapSlot
    <2> DEFINE a == vm_areas[p][slot]
               end == LoopEnd(addr, len)
               m == Remove(Mem(p), a, addr, len)
               empty == b.valid_start >= b.valid_end
    <2>2. /\ a \in Area /\ a # NULL /\ b # NULL
          /\ pagetable' = [pagetable EXCEPT ![p] = m.pt]
          /\ vm_areas' = [vm_areas EXCEPT ![p][slot] = IF empty THEN NULL ELSE b]
      BY <2>1 DEF Munmapped
    <2>3. /\ a.valid_start \in Nat /\ a.valid_end \in Nat /\ end \in Nat
          /\ b.valid_start \in Nat /\ b.valid_end \in Nat
      BY <2>2, BackFromEnd DEF Area
    <2>4. ASSUME NEW pg \in Page, pg \notin addr..(end - 1), pg \in Valid(a)
          PROVE  ~empty /\ pg \in Valid(b)
      <3>1. \/ addr = a.valid_start /\ b.valid_start = end /\ b.valid_end = a.valid_end
            \/ end = a.valid_end /\ b.valid_start = a.valid_start /\ b.valid_end = addr
        BY <2>1, BackFromEnd DEF Munmapped
      <3>2. pg \in Int /\ addr \in Int
        BY MmapSizes DEF Page
      <3>3. a.valid_start <= pg /\ pg < a.valid_end /\ ~(addr <= pg /\ pg < end)
        BY <2>3, <2>4, <3>2 DEF Valid
      <3> HIDE DEF a, end
      <3>4. b.valid_start <= pg /\ pg < b.valid_end
        BY <2>3, <3>1, <3>2, <3>3
      <3> QED
        BY <2>3, <3>2, <3>4 DEF Valid
    <2>5. m.pt = Unmap(pagetable[p], addr, end)
      <3>1. Mem(p) \in Memory /\ Mem(p).pt = pagetable[p]
        BY <1>1, MemTyped
      <3>2. addr \in Nat /\ len \in Nat
        BY MmapSizes
      <3>3. m.pt = Unmap(Mem(p).pt, addr, end)
        BY ONLY <2>2, <3>1, <3>2, RemoveIs, Zenon
      <3> QED
        BY <3>1, <3>3, Zenon
    <2>6. UNCHANGED sz
      BY DEF SysMunmap
    <2> HIDE DEF m, empty, end
    <2>7. ASSUME NEW q \in Proc, NEW pg \in Page, pagetable'[q][pg] # NULL, pg >= sz'[q]
          PROVE  \E s \in Slots : vm_areas'[q][s] # NULL /\ pg \in Valid(vm_areas'[q][s])
      <3>1. pagetable[q][pg] # NULL /\ (q = p => pg \notin addr..(end - 1))
        BY <1>1, <2>2, <2>5, <2>7, Zenon DEF TypeOK, Unmap
      <3>2. PICK s \in Slots : vm_areas[q][s] # NULL /\ pg \in Valid(vm_areas[q][s])
        BY <1>1, <2>6, <2>7, <3>1 DEF NoOrphanPages
      <3>3. CASE q = p /\ s = slot
        <4>1. ~empty /\ pg \in Valid(b)
          BY <2>4, <3>1, <3>2, <3>3, Zenon
        <4> QED
          BY <1>1, <2>2, <3>3, <4>1, Zenon DEF TypeOK
      <3>4. CASE ~(q = p /\ s = slot)
        <4>1. vm_areas'[q][s] = vm_areas[q][s]
          BY <1>1, <2>2, <3>4 DEF TypeOK
        <4> QED
          BY <3>2, <4>1, Zenon
      <3> QED
        BY <3>3, <3>4, Zenon
    <2> QED
      BY <2>7, Zenon DEF NoOrphanPages
  <1> QED
    BY <1>2, <1>3, <1>4, <1>5, <1>6, Zenon DEF MmapInv, RefCountExact, Counts

\* mmap_load_instr() loads a page only inside the valid range of a mapping.
LEMMA PageFaultKeeps ==
    ASSUME NEW p \in Proc, NEW pg \in Touched, NEW store \in BOOLEAN,
           MmapInv, PageFault(p, pg, store)
    PROVE  MmapInv'
  <1> DEFINE slots == AreasAt(p, pg)
             slot == CHOOSE s \in slots : \A t \in slots : s <= t
             a == vm_areas[p][slot]
             off == pg - a.start
             new == [data |-> IF off < FSIZE THEN content[off] ELSE "zero",
                     w |-> "W" \in a.prot, dirty |-> FALSE]
  <1>1. CASE ExitEffect(p)
    <2>1. p # InitProc
      BY Zenon DEF PageFault, User
    <2> QED
      BY <1>1, <2>1, ExitKeeps
  <1>2. CASE UNCHANGED <<state, sz, next_start, vm_areas, pagetable, ofile, ref, writable, content>>
    <2>1. Counts'
      BY <1>2, SameCounts, Zenon DEF MmapInv, RefCountExact, Counts
    <2> QED
      BY <1>2, <2>1, Zenon DEF MmapInv, RefCountExact, Counts, TypeOK, UnusedInv, RangeInv, NoOrphanPages
  <1>3. CASE /\ slots # {} /\ Loadable(a, pg, store) /\ pg \in Page
             /\ pagetable' = [pagetable EXCEPT ![p][pg] = new]
             /\ UNCHANGED <<state, sz, next_start, vm_areas, ofile, ref, writable, content>>
    <2>1. TypeOK /\ UnusedInv /\ RangeInv /\ NoOrphanPages /\ Counts
      BY DEF MmapInv, RefCountExact, Counts
    <2>2. slot \in slots
      <3>1. slots \in SUBSET Slots /\ slots # {}
        BY <1>3, Zenon DEF AreasAt
      <3> HIDE DEF slots
      <3> QED
        BY <3>1, FirstSlot
    <2>3. slot \in Slots /\ a \in Area /\ a # NULL /\ a.start <= pg
      <3> HIDE DEF slot
      <3> QED
        BY <2>1, <2>2 DEF AreasAt, TypeOK
    <2> HIDE DEF slot, slots
    <2>4. pg \in Nat /\ a.start \in Nat /\ a.valid_start \in Nat /\ a.valid_end \in Nat
      BY <1>3, <2>3, MmapSizes DEF Page, Area
    <2>5. new \in PTE
      <3>1. off < FSIZE => off \in 0..(FSIZE - 1)
        BY <2>3, <2>4, MmapSizes
      <3>2. (IF off < FSIZE THEN content[off] ELSE "zero") \in Data
        BY <2>1, <3>1, Zenon DEF TypeOK, Data
      <3> HIDE DEF off
      <3> QED
        BY <3>2 DEF PTE
    <2>6. pg \in Valid(a)
      BY <1>3, <2>4 DEF Loadable, Valid
    <2> HIDE DEF new
    <2>7. Counts'
      BY <1>3, <2>1, SameCounts, Zenon
    <2>8. TypeOK'
      <3>1. pagetable' \in [Proc -> [Page -> PTE \cup {NULL}]]
        BY <1>3, <2>1, <2>5, Zenon DEF TypeOK
      <3> QED
        BY <1>3, <2>1, <3>1, Zenon DEF TypeOK
    <2>9. NoOrphanPages'
      <3>1. \A q \in Proc, g \in Page : (pagetable'[q][g] # NULL /\ ~(q = p /\ g = pg)) =>
               pagetable[q][g] # NULL
        BY <1>3, <2>1, Zenon DEF TypeOK
      <3> QED
        BY <1>3, <2>1, <2>3, <2>6, <3>1, Zenon DEF NoOrphanPages
    <2> QED
      BY <1>3, <2>1, <2>7, <2>8, <2>9, Zenon DEF MmapInv, RefCountExact, Counts, UnusedInv, RangeInv
  <1> QED
    BY <1>1, <1>2, <1>3, Zenon DEF PageFault

-----------------------------------------------------------------------------
(* The theorems.                                                           *)

\* Every step keeps the invariant.
LEMMA MmapStep == MmapInv /\ [Next]_vars => MmapInv'
  <1> SUFFICES ASSUME MmapInv, [Next]_vars PROVE MmapInv'
    OBVIOUS
  <1>1. CASE UNCHANGED vars
    <2>1. UNCHANGED <<state, sz, next_start, vm_areas, pagetable, ofile, ref, writable, content>>
      BY <1>1 DEF vars
    <2>2. Counts'
      BY <2>1, SameCounts DEF MmapInv, RefCountExact, Counts
    <2> QED
      BY <2>1, <2>2, Zenon DEF MmapInv, RefCountExact, Counts, TypeOK, UnusedInv, RangeInv, NoOrphanPages
  <1>2. ASSUME NEW p \in Proc, NEW rw \in OpenModes, Open(p, rw) PROVE MmapInv'
    BY <1>2, OpenKeeps
  <1>3. ASSUME NEW p \in Proc, NEW len \in MapLens, NEW prot \in Prots, NEW shared \in BOOLEAN,
               NEW fd \in FD, SysMmap(p, len, prot, shared, fd)
        PROVE  MmapInv'
    BY <1>3, SysMmapKeeps
  <1>4. ASSUME NEW p \in Proc, NEW n \in SbrkDeltas, SbrkGrow(p, n) \/ SbrkShrink(p, n)
        PROVE  MmapInv'
    BY <1>4, SbrkGrowKeeps, SbrkShrinkKeeps, Zenon
  <1>5. ASSUME NEW p \in Proc, NEW n \in ExecSizes, Exec(p, n) PROVE MmapInv'
    BY <1>5, ExecKeeps
  <1>6. ASSUME NEW p \in Proc, NEW q \in Proc, Fork(p, q) PROVE MmapInv'
    BY <1>6, ForkKeeps, Zenon
  <1>7. ASSUME NEW p \in Proc, NEW fd \in FD, Close(p, fd) PROVE MmapInv'
    BY <1>7, CloseKeeps
  <1>8. ASSUME NEW p \in Proc, NEW r \in Ranges, SysMunmap(p, r[1], r[2]) PROVE MmapInv'
    <2>1. r[1] \in 0..(TOP - 1) /\ r[2] \in 0..(TOP - 1)
      BY MmapConstants, Zenon
    <2> QED
      BY <1>8, <2>1, SysMunmapKeeps, Zenon
  <1>9. ASSUME NEW p \in Proc, NEW pg \in Touched, Store(p, pg) PROVE MmapInv'
    BY <1>9, StoreKeeps
  <1>10. ASSUME NEW p \in Proc, NEW pg \in Touched, NEW store \in BOOLEAN, PageFault(p, pg, store)
         PROVE  MmapInv'
    BY <1>10, PageFaultKeeps
  <1>11. ASSUME NEW p \in Proc, Exit(p) PROVE MmapInv'
    BY <1>11, ExitKeeps DEF Exit, User
  <1>12. ASSUME NEW p \in Proc, Reap(p) PROVE MmapInv'
    BY <1>12, ReapKeeps, Zenon
  <1> QED
    BY <1>1, <1>2, <1>3, <1>4, <1>5, <1>6, <1>7, <1>8, <1>9, <1>10, <1>11, <1>12, Zenon DEF Next

\* Nothing is open or mapped at boot.
LEMMA MmapStart == Init => MmapInv
  <1> SUFFICES ASSUME Init PROVE MmapInv
    OBVIOUS
  <1> USE MmapSizes DEF Init
  <1>1. TypeOK
    <2>1. HeapPage \in PTE
      BY DEF HeapPage, PTE, Data
    <2>2. Grow(NoPages, 0, BootSize) \in [Page -> PTE \cup {NULL}]
      BY <2>1, Zenon DEF Grow, NoPages
    <2>3. pagetable \in [Proc -> [Page -> PTE \cup {NULL}]]
      BY <2>2, Zenon DEF NoPages
    <2>4. sz \in [Proc -> Nat]
      BY MmapConstants
    <2>5. content \in [0..(FSIZE - 1) -> Data]
      BY DEF Data
    <2>6. writable \in [File -> BOOLEAN]
      OBVIOUS
    <2> QED
      BY <2>3, <2>4, <2>5, <2>6, Zenon DEF TypeOK, NoAreas, NoFiles
  <1>2. \A f \in File : ref[f] = Cardinality(Holders(f)) + Cardinality(Mappers(f))
    <2>1. ASSUME NEW f \in File PROVE Holders(f) = {} /\ Mappers(f) = {}
      BY MmapConstants DEF Holders, Mappers, NoAreas, NoFiles
    <2>2. Cardinality({}) = 0
      BY FS_EmptySet
    <2>3. ASSUME NEW f \in File PROVE ref[f] = 0
      OBVIOUS
    <2>4. ASSUME NEW f \in File PROVE ref[f] = Cardinality(Holders(f)) + Cardinality(Mappers(f))
      <3>1. Cardinality(Holders(f)) = 0 /\ Cardinality(Mappers(f)) = 0
        BY <2>1, <2>2, Zenon
      <3> QED
        BY ONLY <2>3, <3>1
    <2> QED
      BY <2>4, Zenon
  <1>3. UnusedInv /\ RangeInv
    BY Zenon DEF UnusedInv, RangeInv, NoAreas
  <1>4. NoOrphanPages
    BY MmapConstants DEF NoOrphanPages, Grow, NoPages, Page
  <1> QED
    BY <1>1, <1>2, <1>3, <1>4, Zenon DEF MmapInv, RefCountExact

\* The invariant of mapped memory holds in every reachable state, for every
\* number of processes, files, descriptors and slots, every size of the address
\* space and of the file, and all arguments of the calls.
THEOREM MmapSafety == Spec => []MmapInv
  BY MmapStart, MmapStep, PTL DEF Spec

\* f->ref is exactly the number of descriptors and mappings of the file.
THEOREM FileReferencesCounted == Spec => []RefCountExact
  <1>1. MmapInv => RefCountExact
    BY DEF MmapInv
  <1> QED
    BY <1>1, MmapSafety, PTL

\* A page above the heap always belongs to a mapping that will free it.
THEOREM LoadedPagesAreMapped == Spec => []NoOrphanPages
  <1>1. MmapInv => NoOrphanPages
    BY Zenon DEF MmapInv
  <1> QED
    BY <1>1, MmapSafety, PTL

-----------------------------------------------------------------------------
(* What reaches the file.                                                  *)

\* A step that writes the file takes away a dirty page of a shared mapping.
SharedWrite ==
    content' # content =>
        \E p \in Proc, pg \in Page : /\ SharedAt(p, pg) # {}
                                     /\ pagetable[p][pg] # NULL /\ pagetable[p][pg].dirty
                                     /\ pagetable[p] # pagetable'[p]

\* A dirty page that is no longer there, or clean, is one that changed.
LEMMA DirtyTaken ==
    ASSUME NEW p \in Proc, NEW pg \in Page, NEW s \in Slots, DirtyIn(pagetable[p], pg),
           vm_areas[p][s] # NULL, vm_areas[p][s].shared, pg \in Valid(vm_areas[p][s]),
           pagetable'[p][pg] = NULL \/ pagetable'[p][pg] = HeapPage
    PROVE  SharedWrite
  <1>1. s \in SharedAt(p, pg)
    BY Zenon DEF SharedAt
  <1>2. pagetable[p][pg] # NULL /\ pagetable[p][pg].dirty
    BY Zenon DEF DirtyIn
  <1>3. pagetable[p] # pagetable'[p]
    BY <1>2 DEF HeapPage
  <1> QED
    BY <1>1, <1>2, <1>3, Zenon DEF SharedWrite

\* munmap of a part of a mapping.
LEMMA MunmapWrites ==
    ASSUME NEW p \in Proc, NEW addr \in 0..(TOP - 1), NEW len \in 0..(TOP - 1),
           MmapInv, SysMunmap(p, addr, len)
    PROVE  SharedWrite
  <1> SUFFICES ASSUME content' # content PROVE SharedWrite
    BY DEF SharedWrite
  <1>1. PICK slot \in Slots, b \in Area : Munmapped(p, slot, b, addr, len)
    BY MunmapSlot, Zenon
  <1> DEFINE a == vm_areas[p][slot]
             end == LoopEnd(addr, len)
             m == Remove(Mem(p), a, addr, len)
  <1>2. TypeOK /\ Mem(p) \in Memory /\ Mem(p).pt = pagetable[p] /\ Mem(p).content = content
    BY MemTyped DEF MmapInv, RefCountExact
  <1>3. addr \in Nat /\ len \in Nat /\ end \in Nat
    BY BackFromEnd, MmapSizes
  <1>4. /\ m.pt = Unmap(pagetable[p], addr, end)
        /\ m.content # content =>
              a.shared /\ \E pg \in Page : pg \in addr..(end - 1) /\ DirtyIn(pagetable[p], pg)
    <2>1. a \in Area
      BY <1>1 DEF Munmapped
    <2> HIDE DEF a
    <2>2. /\ m.pt = Unmap(Mem(p).pt, addr, end)
          /\ m.content # Mem(p).content =>
                a.shared /\ \E pg \in Page : pg \in addr..(end - 1) /\ DirtyIn(Mem(p).pt, pg)
      BY <1>2, <1>3, <2>1, RemoveIs, Zenon
    <2> HIDE DEF m, end
    <2> QED
      BY <1>2, <2>2, Zenon
  <1>5. PICK pg \in Page : a.shared /\ pg \in addr..(end - 1) /\ DirtyIn(pagetable[p], pg)
    BY <1>1, <1>4 DEF Munmapped
  <1>6. pagetable'[p][pg] = NULL
    <2> HIDE DEF m, end
    <2>1. pagetable' = [pagetable EXCEPT ![p] = m.pt]
      BY <1>1 DEF m, Munmapped
    <2> QED
      BY <1>2, <1>4, <1>5, <2>1, Zenon DEF TypeOK, Unmap
  <1>7. pg \in Valid(a)
    <2>1. /\ a.valid_start \in Nat /\ a.valid_end \in Nat
          /\ a.valid_start <= addr /\ end <= a.valid_end
      BY <1>1 DEF Area, Munmapped
    <2>2. pg \in Nat
      BY MmapSizes DEF Page
    <2> HIDE DEF a, end
    <2> QED
      BY <1>3, <1>5, <2>1, <2>2 DEF Valid
  <1> QED
    BY <1>1, <1>5, <1>6, <1>7, DirtyTaken, Zenon DEF Munmapped

\* exit() and exec().
LEMMA ClearWrites ==
    ASSUME NEW p \in Proc, MmapInv,
           content' = ClearAll(Mem(p), vm_areas[p]).content,
           \/ pagetable' = [pagetable EXCEPT ![p] = ClearAll(Mem(p), vm_areas[p]).pt]
           \/ \E n \in ExecSizes : pagetable' = [pagetable EXCEPT ![p] = Grow(NoPages, 0, n)]
    PROVE  SharedWrite
  <1> SUFFICES ASSUME content' # content PROVE SharedWrite
    BY DEF SharedWrite
  <1> DEFINE m == ClearAll(Mem(p), vm_areas[p])
  <1>1. TypeOK /\ RangeInv
    BY DEF MmapInv, RefCountExact
  <1>2. /\ m.pt \in [Page -> PTE \cup {NULL}]
        /\ \A pg \in Page : m.pt[pg] =
              IF \E s \in Slots : vm_areas[p][s] # NULL /\ pg \in Valid(vm_areas[p][s])
              THEN NULL ELSE pagetable[p][pg]
        /\ m.content # content =>
              \E s \in Slots, pg \in Page :
                 /\ vm_areas[p][s] # NULL /\ vm_areas[p][s].shared
                 /\ pg \in Valid(vm_areas[p][s]) /\ DirtyIn(pagetable[p], pg)
    BY <1>1, ClearedMemory, Zenon
  <1> HIDE DEF m
  <1>3. PICK s \in Slots, pg \in Page :
                 /\ vm_areas[p][s] # NULL /\ vm_areas[p][s].shared
                 /\ pg \in Valid(vm_areas[p][s]) /\ DirtyIn(pagetable[p], pg)
    BY <1>2, Zenon DEF m
  <1>4. pagetable'[p][pg] = NULL \/ pagetable'[p][pg] = HeapPage
    <2>1. CASE pagetable' = [pagetable EXCEPT ![p] = m.pt]
      BY <1>1, <1>2, <1>3, <2>1, Zenon DEF TypeOK
    <2>2. ASSUME NEW n \in ExecSizes, pagetable' = [pagetable EXCEPT ![p] = Grow(NoPages, 0, n)]
          PROVE  pagetable'[p][pg] = NULL \/ pagetable'[p][pg] = HeapPage
      BY <1>1, <2>2, Zenon DEF TypeOK, Grow, NoPages
    <2> QED
      BY <2>1, <2>2 DEF m
  <1> QED
    BY <1>3, <1>4, DirtyTaken, Zenon

\* What is stored through a private mapping never reaches the file: it changes
\* only when munmap, exec or exit takes a dirty page of a shared mapping away.
THEOREM OnlySharedMappingsWrite == Spec => OnlySharedWritten
  <1>1. MmapInv /\ [Next]_vars => [SharedWrite]_vars
    <2> SUFFICES ASSUME MmapInv, Next PROVE SharedWrite
      OBVIOUS
    <2>1. CASE UNCHANGED content
      BY <2>1 DEF SharedWrite
    <2>2. ASSUME NEW p \in Proc, NEW n \in ExecSizes, Exec(p, n) PROVE SharedWrite
      BY <2>2, ClearWrites, Zenon DEF Exec
    <2>3. ASSUME NEW p \in Proc, NEW r \in Ranges, SysMunmap(p, r[1], r[2]) PROVE SharedWrite
      <3>1. r[1] \in 0..(TOP - 1) /\ r[2] \in 0..(TOP - 1)
        BY MmapConstants
      <3> QED
        BY <2>3, <3>1, MunmapWrites, Zenon
    <2>4. ASSUME NEW p \in Proc, ExitEffect(p) PROVE SharedWrite
      BY <2>4, ClearWrites, Zenon DEF ExitEffect
    <2>5. ASSUME NEW p \in Proc, Exit(p) PROVE SharedWrite
      BY <2>4, <2>5 DEF Exit
    <2>6. ASSUME NEW p \in Proc, NEW pg \in Touched, NEW store \in BOOLEAN, PageFault(p, pg, store)
          PROVE  SharedWrite
      <3>1. ExitEffect(p) \/ UNCHANGED content
        BY <2>6, Zenon DEF PageFault
      <3> QED
        BY <2>1, <2>4, <3>1
    <2>7. ASSUME NEW p \in Proc, NEW len \in MapLens, NEW prot \in Prots, NEW shared \in BOOLEAN,
                 NEW fd \in FD, SysMmap(p, len, prot, shared, fd)
          PROVE  UNCHANGED content
      BY <2>7, Zenon DEF SysMmap
    <2>8. ASSUME NEW p \in Proc,
                 \/ \E rw \in OpenModes : Open(p, rw)
                 \/ \E n \in SbrkDeltas : SbrkGrow(p, n) \/ SbrkShrink(p, n)
                 \/ \E q \in Proc : Fork(p, q)
                 \/ \E fd \in FD : Close(p, fd)
                 \/ \E pg \in Touched : Store(p, pg)
                 \/ Reap(p)
          PROVE  UNCHANGED content
      BY <2>8, Zenon DEF Open, SbrkGrow, SbrkShrink, Fork, Close, Store, Reap
    <2> QED
      BY <2>1, <2>2, <2>3, <2>5, <2>6, <2>7, <2>8, Zenon DEF Next
  <1> QED
    BY <1>1, MmapSafety, PTL DEF Spec, OnlySharedWritten, SharedWrite

-----------------------------------------------------------------------------
(* Mappings do not overlap, as long as the ranges given to munmap do not   *)
(* wrap around at 2^64: a range that wraps can move valid_start below the  *)
(* mapping.                                                                *)

\* A range given to munmap ends below 2^64.
RangesDoNotWrap == \A r \in Ranges : r[1] + r[2] < TOP

\* Mappings that shrink or go away stay apart.
LEMMA FewerAreas ==
    ASSUME TypeOK, TypeOK', AreasDisjoint, UNCHANGED next_start,
           \A q \in Proc, s \in Slots : vm_areas'[q][s] # NULL =>
              /\ vm_areas[q][s] # NULL
              /\ vm_areas[q][s].valid_start <= vm_areas'[q][s].valid_start
              /\ vm_areas'[q][s].valid_end <= vm_areas[q][s].valid_end
    PROVE  AreasDisjoint'
  <1>1. next_start \in [Proc -> Nat]
    BY DEF TypeOK
  <1>2. ASSUME NEW q \in Proc, NEW s \in Slots, vm_areas'[q][s] # NULL
        PROVE  /\ Valid(vm_areas'[q][s]) \subseteq Valid(vm_areas[q][s])
               /\ vm_areas'[q][s].valid_end <= next_start[q]
    <2>1. vm_areas[q][s] \in Area /\ vm_areas'[q][s] \in Area
      BY <1>2 DEF TypeOK
    <2>2. /\ vm_areas[q][s].valid_start \in Nat /\ vm_areas[q][s].valid_end \in Nat
          /\ vm_areas'[q][s].valid_start \in Nat /\ vm_areas'[q][s].valid_end \in Nat
      BY <2>1, Zenon DEF Area
    <2>3. vm_areas[q][s].valid_end <= next_start[q]
      BY <1>2, Zenon DEF AreasDisjoint
    <2> QED
      BY <1>1, <1>2, <2>2, <2>3 DEF Valid
  <1>3. ASSUME NEW q \in Proc, NEW s \in Slots, NEW t \in Slots \ {s},
               vm_areas'[q][s] # NULL, vm_areas'[q][t] # NULL
        PROVE  Valid(vm_areas'[q][s]) \cap Valid(vm_areas'[q][t]) = {}
    <2>1. Valid(vm_areas[q][s]) \cap Valid(vm_areas[q][t]) = {}
      BY <1>3, Zenon DEF AreasDisjoint
    <2>2. /\ Valid(vm_areas'[q][s]) \subseteq Valid(vm_areas[q][s])
          /\ Valid(vm_areas'[q][t]) \subseteq Valid(vm_areas[q][t])
      BY <1>2, <1>3, Zenon
    <2> QED
      BY ONLY <2>1, <2>2, Zenon
  <1> QED
    BY <1>2, <1>3, Zenon DEF AreasDisjoint

\* A new mapping starts where all the others have ended.
LEMMA NewAreaDisjoint ==
    ASSUME NEW p \in Proc, NEW len \in MapLens, NEW prot \in Prots, NEW shared \in BOOLEAN,
           NEW fd \in FD, MmapInv, AreasDisjoint, SysMmap(p, len, prot, shared, fd)
    PROVE  AreasDisjoint'
  <1>1. TypeOK /\ RangeInv
    BY Zenon DEF MmapInv, RefCountExact
  <1>2. next_start[p] \in Nat /\ sz[p] \in Nat /\ len \in Nat \ {0} /\ NextStart(p) \in Nat
    BY <1>1, MmapConstants DEF TypeOK, NextStart
  <1>3. ASSUME NEW t \in Slots, vm_areas[p][t] # NULL
        PROVE  /\ vm_areas[p][t].valid_end <= NextStart(p)
               /\ vm_areas[p][t].valid_start \in Nat /\ vm_areas[p][t].valid_end \in Nat
    <2>1. /\ vm_areas[p][t].valid_start \in Nat /\ vm_areas[p][t].valid_end \in Nat
          /\ vm_areas[p][t].valid_start < vm_areas[p][t].valid_end
      BY <1>1, <1>3 DEF TypeOK, Area, RangeInv
    <2>2. vm_areas[p][t].valid_end <= next_start[p]
      BY <1>3 DEF AreasDisjoint
    <2> QED
      BY <1>2, <2>1, <2>2 DEF NextStart
  <1>4. \/ UNCHANGED next_start
        \/ next_start' = [next_start EXCEPT ![p] = NextStart(p)]
        \/ next_start' = [next_start EXCEPT ![p] = NextStart(p) + len]
    BY Zenon DEF SysMmap
  <1>5. CASE UNCHANGED <<vm_areas, ref>>
    <2>1. ASSUME NEW t \in Slots, vm_areas[p][t] # NULL
          PROVE  vm_areas[p][t].valid_end <= next_start'[p]
      <3>1. vm_areas[p][t].valid_end <= next_start[p]
        BY <2>1 DEF AreasDisjoint
      <3> QED
        BY <1>1, <1>2, <1>3, <1>4, <2>1, <3>1 DEF TypeOK
    <2>2. \A q \in Proc \ {p} : next_start'[q] = next_start[q]
      BY <1>1, <1>4, Zenon DEF TypeOK
    <2> QED
      BY <1>5, <2>1, <2>2, Zenon DEF AreasDisjoint
  <1>6. CASE ~UNCHANGED <<vm_areas, ref>>
    <2>1. PICK slot \in Slots, a \in Area :
             /\ a = NewArea(p, len, prot, shared, ofile[p][fd]) /\ a # NULL
             /\ vm_areas[p][slot] = NULL
             /\ vm_areas' = [vm_areas EXCEPT ![p][slot] = a]
      BY <1>6, MmapSlot
    <2>2. next_start' = [next_start EXCEPT ![p] = NextStart(p) + len]
      BY <1>6, Zenon DEF SysMmap
    <2>3. a.valid_start = NextStart(p) /\ a.valid_end = NextStart(p) + len
      BY <2>1, Zenon DEF NewArea
    <2>4. ASSUME NEW t \in Slots, vm_areas[p][t] # NULL
          PROVE  /\ Valid(vm_areas[p][t]) \cap Valid(a) = {}
                 /\ vm_areas[p][t].valid_end <= NextStart(p) + len
      BY <1>2, <1>3, <2>3, <2>4 DEF Valid
    <2>5. /\ next_start'[p] = NextStart(p) + len /\ a.valid_end <= NextStart(p) + len
          /\ \A q \in Proc \ {p} : next_start'[q] = next_start[q]
      BY <1>1, <1>2, <2>2, <2>3 DEF TypeOK
    <2>6. /\ vm_areas'[p][slot] = a
          /\ \A t \in Slots \ {slot} : vm_areas'[p][t] = vm_areas[p][t]
          /\ \A q \in Proc \ {p}, t \in Slots : vm_areas'[q][t] = vm_areas[q][t]
      BY <1>1, <2>1, Zenon DEF TypeOK
    <2>7. ASSUME NEW q \in Proc, NEW s \in Slots, vm_areas'[q][s] # NULL
          PROVE  /\ vm_areas'[q][s].valid_end <= next_start'[q]
                 /\ \A t \in Slots \ {s} : vm_areas'[q][t] # NULL =>
                       Valid(vm_areas'[q][s]) \cap Valid(vm_areas'[q][t]) = {}
      <3>1. CASE q # p
        <4>1. /\ next_start'[q] = next_start[q]
              /\ \A t \in Slots : vm_areas'[q][t] = vm_areas[q][t]
          BY <2>5, <2>6, <3>1, Zenon
        <4> QED
          BY <2>7, <4>1, Zenon DEF AreasDisjoint
      <3>2. CASE q = p /\ s = slot
        BY <2>4, <2>5, <2>6, <2>7, <3>2, Zenon
      <3>3. CASE q = p /\ s # slot
        BY <2>4, <2>5, <2>6, <2>7, <3>3, Zenon DEF AreasDisjoint
      <3> QED
        BY <3>1, <3>2, <3>3, Zenon
    <2> QED
      BY <2>7, Zenon DEF AreasDisjoint
  <1> QED
    BY <1>5, <1>6, Zenon

\* munmap shortens the mapping it finds, or gives it up.
LEMMA MunmapDisjoint ==
    ASSUME NEW p \in Proc, NEW addr \in 0..(TOP - 1), NEW len \in 0..(TOP - 1), addr + len < TOP,
           MmapInv, AreasDisjoint, SysMunmap(p, addr, len)
    PROVE  AreasDisjoint'
  <1>1. PICK slot \in Slots, b \in Area : Munmapped(p, slot, b, addr, len)
    BY MunmapSlot, Zenon
  <1> DEFINE a == vm_areas[p][slot]
             end == LoopEnd(addr, len)
             empty == b.valid_start >= b.valid_end
  <1>2. TypeOK /\ TypeOK'
    BY SysMunmapKeeps, Zenon DEF MmapInv, RefCountExact
  <1>3. /\ a.valid_start \in Nat /\ a.valid_end \in Nat
        /\ b.valid_start \in Nat /\ b.valid_end \in Nat
    BY <1>1, Zenon DEF Area, Munmapped
  <1>4. end = addr + len
    BY ModUnique, MmapSizes DEF LoopEnd
  <1>5. a.valid_start <= b.valid_start /\ b.valid_end <= a.valid_end
    <2>1. \/ addr = a.valid_start /\ b.valid_start = end /\ b.valid_end = a.valid_end
          \/ end = a.valid_end /\ b.valid_start = a.valid_start /\ b.valid_end = addr
      BY <1>1, BackFromEnd, Zenon DEF Munmapped
    <2>2. a.valid_start <= addr /\ end <= a.valid_end
      BY <1>1 DEF Munmapped
    <2> HIDE DEF a, end
    <2> QED
      BY <1>3, <1>4, <2>1, <2>2, MmapSizes
  <1>6. /\ a # NULL /\ vm_areas' = [vm_areas EXCEPT ![p][slot] = IF empty THEN NULL ELSE b]
        /\ UNCHANGED next_start
    BY <1>1, Zenon DEF SysMunmap, Munmapped
  <1> HIDE DEF empty
  <1>7. ASSUME NEW q \in Proc, NEW s \in Slots, vm_areas'[q][s] # NULL
        PROVE  /\ vm_areas[q][s] # NULL
               /\ vm_areas[q][s].valid_start <= vm_areas'[q][s].valid_start
               /\ vm_areas'[q][s].valid_end <= vm_areas[q][s].valid_end
    <2>1. CASE q = p /\ s = slot
      BY <1>2, <1>5, <1>6, <1>7, <2>1, Zenon DEF TypeOK
    <2>2. CASE ~(q = p /\ s = slot)
      <3>1. vm_areas'[q][s] = vm_areas[q][s]
        BY <1>2, <1>6, <2>2, Zenon DEF TypeOK
      <3>2. vm_areas[q][s].valid_start \in Nat /\ vm_areas[q][s].valid_end \in Nat
        <4>1. vm_areas[q][s] \in Area
          BY <1>2, <1>7, <3>1 DEF TypeOK
        <4> QED
          BY <4>1, Zenon DEF Area
      <3> QED
        BY <1>7, <3>1, <3>2
    <2> QED
      BY <2>1, <2>2, Zenon
  <1> QED
    BY <1>2, <1>6, <1>7, FewerAreas, Zenon

\* The child of fork() has the mappings of its parent and the parent's next_start.
LEMMA ForkDisjoint ==
    ASSUME NEW p \in Proc, NEW q \in Proc, MmapInv, AreasDisjoint, Fork(p, q)
    PROVE  AreasDisjoint'
  <1>1. TypeOK /\ UnusedInv
    BY Zenon DEF MmapInv, RefCountExact
  <1>2. q # InitProc
    BY <1>1, Zenon DEF Fork, UnusedInv
  <1>3. /\ vm_areas' = [vm_areas EXCEPT ![q] = vm_areas[p]]
        /\ next_start' = [next_start EXCEPT ![InitProc] = 0, ![q] = next_start[p]]
    BY DEF Fork
  <1>4. \A s \in Slots : vm_areas[InitProc][s] = NULL
    BY <1>1, Zenon DEF UnusedInv, NoAreas
  <1>5. /\ vm_areas'[q] = vm_areas[p] /\ next_start'[q] = next_start[p]
        /\ vm_areas'[InitProc] = vm_areas[InitProc]
        /\ \A r \in Proc \ {q, InitProc} :
              vm_areas'[r] = vm_areas[r] /\ next_start'[r] = next_start[r]
    BY <1>1, <1>2, <1>3, MmapSizes, Zenon DEF TypeOK
  <1> QED
    BY <1>4, <1>5 DEF AreasDisjoint

\* exit() and exec() take all the mappings of one process.
LEMMA GoneDisjoint ==
    ASSUME NEW p \in Proc, TypeOK, AreasDisjoint, UNCHANGED next_start,
           vm_areas' = [vm_areas EXCEPT ![p] = NoAreas]
    PROVE  AreasDisjoint'
  <1>1. /\ \A s \in Slots : vm_areas'[p][s] = NULL
        /\ \A q \in Proc \ {p} : vm_areas'[q] = vm_areas[q]
    BY DEF TypeOK, NoAreas
  <1> QED
    BY <1>1 DEF AreasDisjoint

\* Two mappings of a process never overlap, and sys_mmap() puts the next one
\* behind them all.
THEOREM MappingsDisjoint == ASSUME RangesDoNotWrap PROVE Spec => []AreasDisjoint
  <1>1. Init => AreasDisjoint
    BY DEF Init, AreasDisjoint, NoAreas
  <1>2. MmapInv /\ AreasDisjoint /\ [Next]_vars => AreasDisjoint'
    <2> SUFFICES ASSUME MmapInv, AreasDisjoint, [Next]_vars PROVE AreasDisjoint'
      OBVIOUS
    <2>1. TypeOK
      BY DEF MmapInv, RefCountExact
    <2>2. CASE UNCHANGED <<vm_areas, next_start>>
      BY <2>2, Zenon DEF AreasDisjoint
    <2>3. ASSUME NEW p \in Proc, NEW len \in MapLens, NEW prot \in Prots, NEW shared \in BOOLEAN,
                 NEW fd \in FD, SysMmap(p, len, prot, shared, fd)
          PROVE  AreasDisjoint'
      BY <2>3, NewAreaDisjoint
    <2>4. ASSUME NEW p \in Proc, NEW n \in ExecSizes, Exec(p, n) PROVE AreasDisjoint'
      BY <2>1, <2>4, GoneDisjoint, Zenon DEF Exec
    <2>5. ASSUME NEW p \in Proc, NEW q \in Proc, Fork(p, q) PROVE AreasDisjoint'
      BY <2>5, ForkDisjoint, Zenon
    <2>6. ASSUME NEW p \in Proc, NEW r \in Ranges, SysMunmap(p, r[1], r[2]) PROVE AreasDisjoint'
      <3>1. r[1] \in 0..(TOP - 1) /\ r[2] \in 0..(TOP - 1) /\ r[1] + r[2] < TOP
        BY MmapConstants DEF RangesDoNotWrap
      <3> QED
        BY <2>6, <3>1, MunmapDisjoint, Zenon
    <2>7. ASSUME NEW p \in Proc, ExitEffect(p) PROVE AreasDisjoint'
      BY <2>1, <2>7, GoneDisjoint, Zenon DEF ExitEffect
    <2>8. ASSUME NEW p \in Proc, Exit(p) PROVE AreasDisjoint'
      BY <2>7, <2>8, Zenon DEF Exit
    <2>9. ASSUME NEW p \in Proc, NEW pg \in Touched, NEW store \in BOOLEAN, PageFault(p, pg, store)
          PROVE  AreasDisjoint'
      <3>1. ExitEffect(p) \/ UNCHANGED <<vm_areas, next_start>>
        BY <2>9, Zenon DEF PageFault
      <3> QED
        BY <2>2, <2>7, <3>1, Zenon
    <2>10. ASSUME NEW p \in Proc,
                  \/ \E rw \in OpenModes : Open(p, rw)
                  \/ \E n \in SbrkDeltas : SbrkGrow(p, n) \/ SbrkShrink(p, n)
                  \/ \E fd \in FD : Close(p, fd)
                  \/ \E pg \in Touched : Store(p, pg)
                  \/ Reap(p)
           PROVE  UNCHANGED <<vm_areas, next_start>>
      BY <2>10, Zenon DEF Open, SbrkGrow, SbrkShrink, Close, Store, Reap
    <2>11. CASE UNCHANGED vars
      BY <2>2, <2>11 DEF vars
    <2> QED
      BY <2>2, <2>3, <2>4, <2>5, <2>6, <2>8, <2>9, <2>10, <2>11, Zenon DEF Next
  <1> QED
    BY <1>1, <1>2, MmapSafety, PTL DEF Spec
=============================================================================
