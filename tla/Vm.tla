--------------------------------- MODULE Vm ---------------------------------
(***************************************************************************)
(* Physical pages (kernel/kalloc.c), three-level page tables (kernel/vm.c) *)
(* and the calls that build, grow, copy, replace and free an address space *)
(* (kernel/proc.c, kernel/exec.c).  Memory may run out at every kalloc().  *)
(*                                                                         *)
(* A call is one step: two calls share only the free list.  Memory, as the *)
(* functions below take and return it, is a record of the free pages, of   *)
(* the entries of the pages in use as page tables, and of whether a        *)
(* panic() was reached or a page freed twice.  Which free page kalloc()    *)
(* returns makes no difference, so it is the lowest.  Mappings of files    *)
(* are in module Mmap.                                                     *)
(***************************************************************************)
EXTENDS Integers, Sequences, FiniteSets, FiniteSetsExt

CONSTANTS
    VProc,
    NPAGE,      \* physical pages
    SPARE,      \* the least number of them that others (pipes, the kernel) leave
    MaxVmCalls, \* system calls
    PTES,       \* entries of a page table: 512 in the code
    PGSIZE,
    WRAP64,     \* 2^64
    MaxSz,      \* bytes of a process
    Grow,       \* arguments of sbrk()
    Images      \* programs: sequences of segments [vaddr, memsz, kind]

ASSUME VmSizes ==
    /\ NPAGE \in Nat /\ SPARE \in Nat /\ MaxVmCalls \in Nat /\ PTES \in Nat \ {0} /\ PGSIZE \in Nat \ {0} /\ Grow \subseteq Int
    /\ WRAP64 > PTES * PTES * PTES * PGSIZE

VARIABLES
    mem,   \* memory
    vp,    \* pagetable, sz and trapframe of each process
    ours,  \* the pages that the others leave
    ncall  \* system calls made

vmVars == <<mem, vp, ours, ncall>>

-----------------------------------------------------------------------------
(* kalloc.c *)

PhysPage == 1..NPAGE
TEXT == NPAGE + 1              \* the page of trampoline.S
NoPte == [pa |-> 0, kind |-> "none"]
Zeroed == [i \in 0..(PTES - 1) |-> NoPte]

Kalloc(m) == IF m.free = {} THEN [m |-> m, pa |-> 0]
             ELSE [m |-> [m EXCEPT !.free = @ \ {Min(@)}], pa |-> Min(m.free)]

Kfree(m, pa) == [m EXCEPT !.panic = @ \/ pa \notin PhysPage \ m.free,
                          !.free = @ \cup ({pa} \cap PhysPage),
                          !.pt = [q \in PhysPage |-> IF q = pa THEN Zeroed ELSE @[q]]]

Panics(m) == [m EXCEPT !.panic = TRUE]

-----------------------------------------------------------------------------
(* vm.c: virtual addresses are counted in pages, sizes in bytes *)

MAXVA == PTES * PTES * PTES
TRAMPOLINE == MAXVA - 1
TRAPFRAME == MAXVA - 2

PX(level, va) == (va \div PTES ^ level) % PTES
PageRoundUp(sz) == (sz + PGSIZE - 1) \div PGSIZE

\* walk(): the page table of level 0 for va, or 0.
RECURSIVE Walk(_, _, _, _, _)
Walk(m, t, va, level, alloc) ==
    LET pte == m.pt[t][PX(level, va)]
        new == Kalloc(m) IN
    IF level = 0 THEN [m |-> m, t |-> t]
    ELSE IF pte # NoPte THEN Walk(m, pte.pa, va, level - 1, alloc)
    ELSE IF ~alloc \/ new.pa = 0 THEN [m |-> m, t |-> 0]
    ELSE Walk([new.m EXCEPT !.pt = [@ EXCEPT ![new.pa] = Zeroed,
                                             ![t][PX(level, va)] = [pa |-> new.pa, kind |-> "table"]]],
              new.pa, va, level - 1, alloc)

Pte(m, t, va) == LET w == Walk(m, t, va, 2, FALSE) IN IF w.t = 0 THEN NoPte ELSE m.pt[w.t][PX(0, va)]

\* mappages() of one page, as all callers but kvmmap() use it.
Mappages(m, t, va, pa, kind) ==
    LET w == Walk(m, t, va, 2, TRUE) IN
    CASE w.t = 0 -> [m |-> w.m, ok |-> FALSE]
      [] w.t # 0 /\ w.m.pt[w.t][PX(0, va)] # NoPte -> [m |-> Panics(w.m), ok |-> TRUE]
      [] OTHER -> [m |-> [w.m EXCEPT !.pt[w.t][PX(0, va)] = [pa |-> pa, kind |-> kind]], ok |-> TRUE]

RECURSIVE Uvmunmap(_, _, _, _, _)
Uvmunmap(m, t, va, npages, dofree) ==
    LET w == Walk(m, t, va, 2, FALSE)
        pte == Pte(m, t, va)
        freed == IF dofree THEN Kfree(m, pte.pa) ELSE m IN
    IF npages <= 0 THEN m
    ELSE IF pte = NoPte THEN Panics(m)
    ELSE Uvmunmap([freed EXCEPT !.pt[w.t][PX(0, va)] = NoPte], t, va + 1, npages - 1, dofree)

Uvmdealloc(m, t, oldsz, newsz) ==
    IF newsz >= oldsz THEN [m |-> m, sz |-> oldsz]
    ELSE [m |-> Uvmunmap(m, t, PageRoundUp(newsz), PageRoundUp(oldsz) - PageRoundUp(newsz), TRUE), sz |-> newsz]

\* The loop of uvmalloc() at page a; from is where it began.
RECURSIVE UvmallocLoop(_, _, _, _, _, _)
UvmallocLoop(m, t, from, a, newsz, kind) ==
    LET new == Kalloc(m)
        map == Mappages(new.m, t, a, new.pa, kind) IN
    IF a * PGSIZE >= newsz THEN [m |-> m, sz |-> newsz]
    ELSE IF new.pa = 0 THEN [m |-> Uvmdealloc(m, t, a * PGSIZE, from * PGSIZE).m, sz |-> 0]
    ELSE IF ~map.ok THEN [m |-> Uvmdealloc(Kfree(map.m, new.pa), t, a * PGSIZE, from * PGSIZE).m, sz |-> 0]
    ELSE UvmallocLoop(map.m, t, from, a + 1, newsz, kind)

Uvmalloc(m, t, oldsz, newsz, kind) ==
    IF newsz < oldsz THEN [m |-> m, sz |-> oldsz]
    ELSE UvmallocLoop(m, t, PageRoundUp(oldsz), PageRoundUp(oldsz), newsz, kind)

\* freewalk() of the table t, from entry i on.
RECURSIVE Freewalk(_, _, _)
Freewalk(m, t, i) ==
    LET pte == m.pt[t][i] IN
    IF i = PTES THEN Kfree(m, t)
    ELSE CASE pte.kind = "table" -> Freewalk(Freewalk(m, pte.pa, 0), t, i + 1)
           [] pte.kind = "none" -> Freewalk(m, t, i + 1)
           [] OTHER -> Panics(m)

Uvmfree(m, t, sz) == Freewalk(Uvmunmap(m, t, 0, PageRoundUp(sz), TRUE), t, 0)

\* MUTANT: the page that could not be mapped is not freed.
RECURSIVE UvmcopyLeaks(_, _, _, _, _)
UvmcopyLeaks(m, old, new, sz, i) ==
    LET pte == Pte(m, old, i)
        page == Kalloc(m)
        map == Mappages(page.m, new, i, page.pa, pte.kind) IN
    IF i * PGSIZE >= sz THEN [m |-> m, ok |-> TRUE]
    ELSE IF pte = NoPte THEN [m |-> Panics(m), ok |-> FALSE]
    ELSE IF page.pa = 0 THEN [m |-> Uvmunmap(m, new, 0, i, TRUE), ok |-> FALSE]
    ELSE IF ~map.ok THEN [m |-> Uvmunmap(map.m, new, 0, i, TRUE), ok |-> FALSE]
    ELSE UvmcopyLeaks(map.m, old, new, sz, i + 1)

\* uvmcopy() from page i on.
RECURSIVE Uvmcopy(_, _, _, _, _)
Uvmcopy(m, old, new, sz, i) ==
    LET pte == Pte(m, old, i)
        page == Kalloc(m)
        map == Mappages(page.m, new, i, page.pa, pte.kind) IN
    IF i * PGSIZE >= sz THEN [m |-> m, ok |-> TRUE]
    ELSE IF pte = NoPte THEN [m |-> Panics(m), ok |-> FALSE]
    ELSE IF page.pa = 0 THEN [m |-> Uvmunmap(m, new, 0, i, TRUE), ok |-> FALSE]
    ELSE IF ~map.ok THEN [m |-> Uvmunmap(Kfree(map.m, page.pa), new, 0, i, TRUE), ok |-> FALSE]
    ELSE Uvmcopy(map.m, old, new, sz, i + 1)

\* uvmclear(): the guard page of the stack.
Uvmclear(m, t, va) == LET w == Walk(m, t, va, 2, FALSE)
                      IN  IF w.t = 0 THEN Panics(m) ELSE [m EXCEPT !.pt[w.t][PX(0, va)].kind = "guard"]

-----------------------------------------------------------------------------
(* copyout(), copyin() and copyinstr() on the address space of a process *)

\* walkaddr() and the test of copyout(): the page if its kind is among kinds,
\* or 0.
Walkaddr(t, va, kinds) == IF va >= MAXVA \/ Pte(mem, t, va).kind \notin kinds THEN 0 ELSE Pte(mem, t, va).pa

\* MUTANT: the first page is taken to be copied from its start.
ChunkWhole(va, len) == Min({PGSIZE, len})

\* The bytes of one turn of the loop.
Chunk(va, len) == Min({PGSIZE - (va % PGSIZE), len})

\* The loop: which physical bytes are copied, in order, and the result.
RECURSIVE CopyLoop(_, _, _, _, _)
CopyLoop(kinds, t, va, len, done) ==
    LET pa == Walkaddr(t, va \div PGSIZE, kinds)
        n == Chunk(va, len) IN
    IF len = 0 THEN [bytes |-> done, ok |-> TRUE]
    ELSE IF pa = 0 THEN [bytes |-> done, ok |-> FALSE]
    ELSE CopyLoop(kinds, t, (va \div PGSIZE) * PGSIZE + PGSIZE, len - n,
                  done \o [k \in 1..n |-> <<pa, (va % PGSIZE) + k - 1>>])

Copyout(t, va, len) == CopyLoop({"data"}, t, va, len, <<>>)
Copyin(t, va, len) == CopyLoop({"text", "data"}, t, va, len, <<>>)

\* copyinstr() stops at the null, which is at address nul, or fails after max.
Copyinstr(t, va, max, nul) ==
    LET len == IF va <= nul /\ nul < va + max THEN nul - va ELSE max
        c == Copyin(t, va, Min({len + 1, max}))
    IN  [c EXCEPT !.ok = @ /\ len < max]

-----------------------------------------------------------------------------
(* proc.c: address spaces *)

Unused == [pt |-> 0, sz |-> 0, tf |-> 0]

\* proc_pagetable(): t = 0 when it fails.
ProcPagetable(m, tf) ==
    LET root == Kalloc(m)
        zero == [root.m EXCEPT !.pt = [q \in PhysPage |-> IF q = root.pa THEN Zeroed ELSE @[q]]]
        tramp == Mappages(zero, root.pa, TRAMPOLINE, TEXT, "kernel")
        frame == Mappages(tramp.m, root.pa, TRAPFRAME, tf, "kernel") IN
    IF root.pa = 0 THEN [m |-> m, t |-> 0]
    ELSE IF ~tramp.ok THEN [m |-> Uvmfree(tramp.m, root.pa, 0), t |-> 0]
    ELSE IF ~frame.ok THEN [m |-> Uvmfree(Uvmunmap(frame.m, root.pa, TRAMPOLINE, 1, FALSE), root.pa, 0), t |-> 0]
    ELSE [m |-> frame.m, t |-> root.pa]

ProcFreepagetable(m, t, sz) ==
    Uvmfree(Uvmunmap(Uvmunmap(m, t, TRAMPOLINE, 1, FALSE), t, TRAPFRAME, 1, FALSE), t, sz)

Freeproc(m, v) == LET f == IF v.tf = 0 THEN m ELSE Kfree(m, v.tf)
                  IN  IF v.pt = 0 THEN f ELSE ProcFreepagetable(f, v.pt, v.sz)

\* allocproc(): pt = 0 when it fails.
Allocproc(m) ==
    LET tf == Kalloc(m)
        pt == ProcPagetable(tf.m, tf.pa) IN
    IF tf.pa = 0 THEN [m |-> m, v |-> Unused]
    ELSE IF pt.t = 0 THEN [m |-> Freeproc(pt.m, [Unused EXCEPT !.tf = tf.pa]), v |-> Unused]
    ELSE [m |-> pt.m, v |-> [pt |-> pt.t, sz |-> 0, tf |-> tf.pa]]

\* userinit(): the first process has one page.
VmInit ==
    \E n \in SPARE..NPAGE :
    LET m == [free |-> 1..n, pt |-> [q \in PhysPage |-> Zeroed], panic |-> FALSE]
        a == Allocproc(m)
        first == Kalloc(a.m) IN
    /\ mem = Mappages(first.m, a.v.pt, 0, first.pa, "data").m
    /\ vp = [q \in VProc |-> IF q = CHOOSE p \in VProc : TRUE THEN [a.v EXCEPT !.sz = PGSIZE] ELSE Unused]
    /\ ours = 1..n /\ ncall = 0

Live(p) == vp[p].pt # 0

\* A call of process p.
VmCall(p) == Live(p) /\ ncall < MaxVmCalls /\ ncall' = ncall + 1 /\ UNCHANGED ours

\* fork(), without descriptors and mappings.
VmFork(p, q) ==
    /\ VmCall(p) /\ vp[q] = Unused
    /\ \E a \in {Allocproc(mem)} :
          \/ a.v.pt = 0 /\ mem' = a.m /\ UNCHANGED vp
          \/ /\ a.v.pt # 0
             /\ \E c \in {Uvmcopy(a.m, vp[p].pt, a.v.pt, vp[p].sz, 0)} :
                   \/ ~c.ok /\ mem' = Freeproc(c.m, a.v) /\ UNCHANGED vp
                   \/ c.ok /\ mem' = c.m /\ vp' = [vp EXCEPT ![q] = [a.v EXCEPT !.sz = vp[p].sz]]

\* growproc(); p->sz + n is computed modulo 2^64.
Growproc(p, n) ==
    /\ VmCall(p) /\ vp[p].sz + n <= MaxSz
    /\ \E new \in {(vp[p].sz + n) % WRAP64} :
       \E g \in {IF n > 0 THEN Uvmalloc(mem, vp[p].pt, vp[p].sz, new, "data")
                 ELSE Uvmdealloc(mem, vp[p].pt, vp[p].sz, new)} :
          /\ mem' = g.m
          /\ vp' = IF n > 0 /\ g.sz = 0 THEN vp ELSE [vp EXCEPT ![p].sz = g.sz]

\* The segments of exec(), up to one that there is no memory for.
RECURSIVE LoadSegs(_, _, _, _)
LoadSegs(m, t, sz, segs) ==
    LET g == Uvmalloc(m, t, sz, segs[1].vaddr + segs[1].memsz, segs[1].kind) IN
    IF segs = <<>> THEN [m |-> m, sz |-> sz, ok |-> TRUE]
    ELSE IF g.sz = 0 THEN [m |-> g.m, sz |-> sz, ok |-> FALSE]
    ELSE LoadSegs(g.m, t, g.sz, Tail(segs))

\* bad: of exec().
ExecBad(m, t, sz) == mem' = ProcFreepagetable(m, t, sz) /\ UNCHANGED vp

\* The stack with its guard page, the arguments, which may not fit, and the
\* commitment to the new image.
ExecStack(p, m, t, base, argsFit) ==
    \E s \in {Uvmalloc(m, t, base * PGSIZE, (base + 2) * PGSIZE, "data")} :
       \/ s.sz = 0 /\ ExecBad(s.m, t, base * PGSIZE)
       \/ /\ s.sz # 0
          /\ \E c \in {Uvmclear(s.m, t, base)} :
                \/ ~argsFit /\ ExecBad(c, t, s.sz)
                \/ /\ argsFit
                   /\ mem' = ProcFreepagetable(c, vp[p].pt, vp[p].sz)
                   /\ vp' = [vp EXCEPT ![p] = [@ EXCEPT !.pt = t, !.sz = s.sz]]

\* exec(): the segments, of which number bad may turn out unreadable (0: none),
\* and the rest.
Exec(p, segs, bad, argsFit) ==
    /\ VmCall(p)
    /\ \E t \in {ProcPagetable(mem, vp[p].tf)} :
          \/ t.t = 0 /\ mem' = t.m /\ UNCHANGED vp
          \/ /\ t.t # 0
             /\ \E l \in {LoadSegs(t.m, t.t, 0, IF bad = 0 THEN segs ELSE SubSeq(segs, 1, bad))} :
                   \/ (~l.ok \/ bad # 0) /\ ExecBad(l.m, t.t, l.sz)
                   \/ l.ok /\ bad = 0 /\ ExecStack(p, l.m, t.t, PageRoundUp(l.sz), argsFit)

\* wait() frees a process that has exited; the first process does not exit.
VmFree(q) == /\ VmCall(q) /\ \E p \in VProc \ {q} : Live(p)
             /\ mem' = Freeproc(mem, vp[q])
             /\ vp' = [vp EXCEPT ![q] = Unused]

VmDone == ncall = MaxVmCalls /\ UNCHANGED vmVars

VmNext ==
    \/ \E p, q \in VProc : VmFork(p, q)
    \/ \E p \in VProc, n \in Grow : Growproc(p, n)
    \/ \E p \in VProc, i \in Images, argsFit \in BOOLEAN : \E bad \in 0..Len(i) : Exec(p, i, bad, argsFit)
    \/ \E q \in VProc : VmFree(q)
    \/ VmDone

-----------------------------------------------------------------------------
(* Properties *)

\* The pages that the page table t refers to, itself included: one entry for
\* each reference.
RECURSIVE Refs(_)
Refs(t) == <<t>> \o FoldSet(LAMBDA i, s : CASE mem.pt[t][i].kind = "table" -> s \o Refs(mem.pt[t][i].pa)
                                          [] mem.pt[t][i].kind \in {"none", "kernel"} -> s
                                          [] OTHER -> Append(s, mem.pt[t][i].pa), <<>>, 0..(PTES - 1))

\* Every physical page is free, or belongs to one process in one place: no
\* failure of kalloc() in the middle of fork(), exec() or sbrk() loses a page,
\* frees one twice or reaches a panic(); and a process has pages exactly up to
\* its size, besides the trampoline and its trap frame.
PagesExact ==
    LET owned == FoldSet(LAMBDA p, s : IF vp[p].pt = 0 THEN s ELSE Append(s, vp[p].tf) \o Refs(vp[p].pt), <<>>, VProc)
    IN  /\ ~mem.panic
        /\ Len(owned) = Cardinality({owned[i] : i \in DOMAIN owned})
        /\ {owned[i] : i \in DOMAIN owned} = ours \ mem.free
        /\ \A p \in VProc : vp[p].pt # 0 =>
              /\ \A va \in 0..(TRAPFRAME - 1) : (Pte(mem, vp[p].pt, va) # NoPte) = (va < PageRoundUp(vp[p].sz))
              /\ Pte(mem, vp[p].pt, TRAPFRAME) = [pa |-> vp[p].tf, kind |-> "kernel"]

\* copyout() and copyin() copy exactly the bytes asked for, in order, across
\* pages, and stop at the first page the user may not access; copyinstr() fails
\* unless it finds the null.
CopyExact ==
    \A p \in VProc : vp[p].pt # 0 =>
        LET page == [v \in 0..TRAMPOLINE |-> Pte(mem, vp[p].pt, v)]
            place(a) == <<page[a \div PGSIZE].pa, a % PGSIZE>>
            user(a, kinds) == page[a \div PGSIZE].kind \in kinds
            right(c, va, n, kinds) ==
                LET k == Max({j \in 0..n : \A i \in 0..(j - 1) : user(va + i, kinds)})
                IN  c.bytes = [i \in 1..k |-> place(va + i - 1)] /\ c.ok = (k = n)
        IN  \A va \in 0..(MaxSz + PGSIZE), len \in 0..(2 * PGSIZE + 1) :
            /\ right(Copyout(vp[p].pt, va, len), va, len, {"data"})
            /\ right(Copyin(vp[p].pt, va, len), va, len, {"text", "data"})
            /\ \A nul \in va..(va + len) :
                  Copyinstr(vp[p].pt, va, len, nul).ok
                    = (nul < va + len /\ \A a \in va..nul : user(a, {"text", "data"}))
=============================================================================
