------------------------------- MODULE Malloc -------------------------------
(***************************************************************************)
(* malloc() and free() of user programs (user/umalloc.c).  Addresses and   *)
(* sizes are counted in headers.  base, the empty block the free list      *)
(* begins with, is at address 0; the heap begins at HEAP.                  *)
(***************************************************************************)
EXTENDS Integers, FiniteSets

CONSTANTS
    HEAP,      \* first address of the heap
    MaxBrk,    \* where sbrk() fails
    MORE,      \* what morecore() asks for at least: 4096 in the code
    MaxUnits   \* largest block a program asks for, with its header

ASSUME MallocSizes == HEAP \in Nat /\ HEAP > 1 /\ MaxBrk \in Nat /\ MORE \in Nat \ {0} /\ MaxUnits \in Nat

VARIABLES
    ptr, size,   \* s.ptr and s.size of the headers on the free list
    freep,       \* where the next search begins; -1 before the first malloc()
    inuse,        \* the blocks that the program has: <<address, units>>
    brk          \* end of the heap

mallocVars == <<ptr, size, freep, inuse, brk>>

Header == {0} \cup HEAP..(MaxBrk - 1)

MallocInit ==
    /\ ptr = [a \in Header |-> 0] /\ size = [a \in Header |-> 0]
    /\ freep = -1 /\ inuse = {} /\ brk = HEAP

\* The heap as the functions below take and return it.
Heap == [ptr |-> ptr, size |-> size, freep |-> freep]

\* The block of the list behind which free() puts address a.
RECURSIVE Before(_, _, _)
Before(h, p, a) ==
    IF (a > p /\ a < h.ptr[p]) \/ (p >= h.ptr[p] /\ (a > p \/ a < h.ptr[p])) THEN p
    ELSE Before(h, h.ptr[p], a)

\* MUTANT: a block is not joined with the one below it.
FreeNoLower(h, a) ==
    LET p == Before(h, h.freep, a)
        up == a + h.size[a] = h.ptr[p]
        n == IF up THEN h.size[a] + h.size[h.ptr[p]] ELSE h.size[a]
        next == IF up THEN h.ptr[h.ptr[p]] ELSE h.ptr[p] IN
    [ptr |-> [h.ptr EXCEPT ![a] = next, ![p] = a], size |-> [h.size EXCEPT ![a] = n], freep |-> p]

\* free() of the block at a: joined with the upper and with the lower neighbour.
Free(h, a) ==
    LET p == Before(h, h.freep, a)
        up == a + h.size[a] = h.ptr[p]
        n == IF up THEN h.size[a] + h.size[h.ptr[p]] ELSE h.size[a]
        next == IF up THEN h.ptr[h.ptr[p]] ELSE h.ptr[p] IN
    IF p + h.size[p] = a
    THEN [ptr |-> [h.ptr EXCEPT ![p] = next], size |-> [h.size EXCEPT ![p] = @ + n], freep |-> p]
    ELSE [ptr |-> [h.ptr EXCEPT ![a] = next, ![p] = a], size |-> [h.size EXCEPT ![a] = n], freep |-> p]

\* morecore(): sbrk() for at least MORE units, which are freed.
Asked(nu) == IF nu < MORE THEN MORE ELSE nu
Morecore(h, nu) == Free([h EXCEPT !.size[brk] = Asked(nu)], brk)

\* The loop of malloc() from prevp on: the block before one that is big enough,
\* or -1 when it comes back to freep.
RECURSIVE Fit(_, _, _)
Fit(h, prevp, nunits) ==
    LET p == h.ptr[prevp] IN
    IF h.size[p] >= nunits THEN prevp
    ELSE IF p = h.freep THEN -1
    ELSE Fit(h, p, nunits)

\* The block behind prevp is taken, or the tail of it.
Take(h, prevp, nunits) ==
    LET p == h.ptr[prevp] IN
    IF h.size[p] = nunits
    THEN [h |-> [h EXCEPT !.ptr[prevp] = h.ptr[p], !.freep = prevp], at |-> p]
    ELSE [h |-> [h EXCEPT !.size[p] = @ - nunits, !.freep = prevp], at |-> p + h.size[p] - nunits]

\* The first call makes base a list of its own.
Started == IF freep = -1 THEN [Heap EXCEPT !.ptr[0] = 0, !.size[0] = 0, !.freep = 0] ELSE Heap

\* Headers that are not on the free list are the program's to overwrite.
RECURSIVE Listed(_, _)
Listed(h, a) == IF h.ptr[a] = h.freep THEN {a} ELSE {a} \cup Listed(h, h.ptr[a])
HeapBecomes(h) == LET l == Listed(h, h.freep) IN
    /\ ptr' = [a \in Header |-> IF a \in l THEN h.ptr[a] ELSE 0]
    /\ size' = [a \in Header |-> IF a \in l THEN h.size[a] ELSE 0]
    /\ freep' = h.freep

\* malloc(): from a free block, or from new memory, or not at all.
CallMalloc(nunits) ==
    LET f == Fit(Started, Started.freep, nunits)
        more == Morecore(Started, nunits)
        t == IF f # -1 THEN Take(Started, f, nunits) ELSE Take(more, Fit(more, more.freep, nunits), nunits) IN
    \/ /\ f # -1 \/ brk + Asked(nunits) <= MaxBrk
       /\ HeapBecomes(t.h)
       /\ inuse' = inuse \cup {<<t.at, nunits>>}
       /\ brk' = IF f # -1 THEN brk ELSE brk + Asked(nunits)
    \/ /\ f = -1 /\ brk + Asked(nunits) > MaxBrk
       /\ HeapBecomes(Started)
       /\ UNCHANGED <<inuse, brk>>

\* free() of a block of the program; its header says how long it is.
CallFree(b) ==
    /\ HeapBecomes(Free([Heap EXCEPT !.size[b[1]] = b[2]], b[1]))
    /\ inuse' = inuse \ {b}
    /\ UNCHANGED brk

MallocNext == (\E n \in 2..MaxUnits : CallMalloc(n)) \/ (\E b \in inuse : CallFree(b))

-----------------------------------------------------------------------------
(* Properties *)

FreeBlocks == IF freep = -1 THEN {} ELSE {<<a, size[a]>> : a \in Listed(Heap, freep) \ {0}}

\* Free blocks and blocks of the program lie side by side from the start of the
\* heap to its end, without overlap and without gap, and no two free blocks
\* touch: whatever is freed can be used again in one piece.
HeapExact ==
    /\ \A a \in HEAP..(brk - 1) : Cardinality({b \in inuse \cup FreeBlocks : b[1] <= a /\ a < b[1] + b[2]}) = 1
    /\ \A b \in inuse \cup FreeBlocks : HEAP <= b[1] /\ b[1] + b[2] <= brk
    /\ \A b, c \in FreeBlocks : b[1] + b[2] # c[1]
=============================================================================
