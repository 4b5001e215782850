-------------------------------- MODULE Mmap --------------------------------
(***************************************************************************)
(* Memory-mapped files: sys_mmap, sys_munmap and the page-fault handler of *)
(* kernel/sysfile.c, with what they share a process with: sbrk, fork, exec *)
(* and exit (kernel/proc.c, exec.c), the user page table (vm.c) and the    *)
(* reference counts of open files (file.c).                                *)
(*                                                                         *)
(* Addresses and lengths are in pages.  A user page table maps a page to   *)
(* its data and its W and D bits.  All files are opens of one inode of     *)
(* FSIZE pages.  A system call on a process's own memory is one action:    *)
(* nobody else can see that memory, and ilock() makes its accesses to the  *)
(* inode atomic.                                                           *)
(***************************************************************************)
EXTENDS Integers, FiniteSets

CONSTANTS Proc,       \* slots of proc[]
          InitProc,   \* proc[0]; user/init.c never maps a file
          File,       \* slots of ftable.file[]
          FD,         \* file descriptors of a process
          NVMA,       \* slots of p->vm_areas[]
          MAXVA,      \* pages 0 .. MAXVA-1 can be mapped
          TOP,        \* 2^64 in pages
          FSIZE,      \* ip->size in pages, the last one perhaps partial
          BootSize,   \* pages of the first image
          OpenModes,  \* f->writable of the files that are opened
          MapLens,    \* len arguments of mmap
          Prots,      \* prot arguments of mmap: {"R"} or {"R", "W"}
          Ranges,     \* <<addr, len>> arguments of munmap
          SbrkDeltas, \* arguments of sbrk, in pages
          ExecSizes,  \* pages of the images that exec loads
          Caller,     \* processes whose program opens and maps files, forks and changes
                      \* its size; the others use what they inherit
          Touched,    \* pages the user program loads from and stores to
          NULL

ASSUME MmapConstants ==
    /\ IsFiniteSet(Proc) /\ IsFiniteSet(FD)
    /\ InitProc \in Proc /\ NULL \notin File
    /\ NVMA \in Nat /\ MAXVA \in Nat /\ TOP \in Nat /\ FSIZE \in Nat
    /\ MAXVA <= TOP /\ BootSize \in 0..(MAXVA - 1)
    /\ OpenModes \subseteq BOOLEAN
    /\ MapLens \subseteq 1..(TOP - 1) /\ Prots \subseteq {{"R"}, {"R", "W"}}
    /\ Ranges \subseteq (0..(TOP - 1)) \X (0..(TOP - 1))
    /\ SbrkDeltas \subseteq -TOP..TOP /\ ExecSizes \subseteq 0..TOP /\ Touched \subseteq 0..(TOP - 1)

VARIABLES state,       \* p->state: unused, live or zombie
          sz,          \* p->sz
          next_start,  \* p->next_start
          vm_areas,    \* p->vm_areas[]: a record, or NULL when length is 0
          pagetable,   \* p->pagetable: page -> [data, w, dirty], or NULL
          ofile,       \* p->ofile[]
          ref,         \* f->ref
          writable,    \* f->writable
          content,     \* data of the pages of the inode
          panic        \* the message of the panic() that stopped the machine, or NULL

vars == <<state, sz, next_start, vm_areas, pagetable, ofile, ref, writable, content, panic>>

Slots == 1..NVMA
Page == 0..(MAXVA - 1)

(* Data is one of: file (what the inode held at boot), zero, heap, stored  *)
(* (by the user program) and junk (the physical memory behind a page).     *)

NoAreas == [s \in Slots |-> NULL]
NoFiles == [fd \in FD |-> NULL]
NoPages == [pg \in Page |-> NULL]
HeapPage == [data |-> "heap", w |-> TRUE, dirty |-> FALSE]

\* uvmalloc() of pages [a, b).
Grow(pt, a, b) == [pg \in Page |-> IF pg \in a..(b - 1) THEN HeapPage ELSE pt[pg]]

\* Pages [a, b) without their mappings.
Unmap(pt, a, b) == [pg \in Page |-> IF pg \in a..(b - 1) THEN NULL ELSE pt[pg]]

Init == /\ state = [p \in Proc |-> IF p = InitProc THEN "live" ELSE "unused"]
        /\ sz = [p \in Proc |-> IF p = InitProc THEN BootSize ELSE 0]
        /\ next_start = [p \in Proc |-> 0]
        /\ vm_areas = [p \in Proc |-> NoAreas]
        /\ pagetable = [p \in Proc |-> IF p = InitProc THEN Grow(NoPages, 0, BootSize)
                                                       ELSE NoPages]
        /\ ofile = [p \in Proc |-> NoFiles]
        /\ ref = [f \in File |-> 0]
        /\ writable = [f \in File |-> FALSE]
        /\ content = [k \in 0..(FSIZE - 1) |-> "file"]
        /\ panic = NULL

\* A process that runs user code, other than init.
User(p) == panic = NULL /\ state[p] = "live" /\ p # InitProc

-----------------------------------------------------------------------------
(* Open files: file.c and the descriptor calls of sysfile.c.               *)

\* sys_open(): filealloc() and fdalloc(); the inode is the only file.
Open(p, rw) ==
    /\ User(p)
    /\ \E f \in File, fd \in FD :
        /\ ref[f] = 0 /\ ofile[p][fd] = NULL
        /\ ref' = [ref EXCEPT ![f] = 1]
        /\ writable' = [writable EXCEPT ![f] = rw]
        /\ ofile' = [ofile EXCEPT ![p][fd] = f]
    /\ UNCHANGED <<state, sz, next_start, vm_areas, pagetable, content, panic>>

\* sys_close().
Close(p, fd) ==
    /\ User(p)
    /\ ofile[p][fd] # NULL
    /\ ref' = [ref EXCEPT ![ofile[p][fd]] = @ - 1]
    /\ ofile' = [ofile EXCEPT ![p][fd] = NULL]
    /\ UNCHANGED <<state, sz, next_start, vm_areas, pagetable, writable, content, panic>>

-----------------------------------------------------------------------------
(* mmap.                                                                   *)

\* filedup() in sys_mmap().
MapRef(f) == [ref EXCEPT ![f] = @ + 1]

\* MUTANT: every mapping is placed right behind the heap.
NextStartFromSize(p) == sz[p]

\* Where the next mapping of p goes.
NextStart(p) == IF next_start[p] = 0 THEN sz[p] ELSE next_start[p]

\* sys_mmap(): the paths that return -1 change nothing, except that next_start
\* is already set when the end of the mapping overflows.
SysMmap(p, len, prot, shared, fd) ==
    LET f == ofile[p][fd]
        start == NextStart(p)
        free == {s \in Slots : vm_areas[p][s] = NULL}
        slot == CHOOSE s \in free : \A t \in free : s <= t
    IN  /\ User(p)
        /\ f # NULL
        /\ "W" \in prot /\ shared => writable[f]
        /\ free # {}
        /\ \/ /\ start < sz[p]
              /\ panic' = "sys_mmap: memory crash"
              /\ UNCHANGED <<next_start, vm_areas, ref>>
           \/ /\ start >= sz[p] /\ start + len >= TOP
              /\ next_start' = [next_start EXCEPT ![p] = start]
              /\ UNCHANGED <<vm_areas, ref, panic>>
           \/ /\ start >= sz[p] /\ start + len < TOP
              /\ ref' = MapRef(f)
              /\ next_start' = [next_start EXCEPT ![p] = start + len]
              /\ vm_areas' = [vm_areas EXCEPT ![p][slot] =
                    [start |-> start, length |-> len, prot |-> prot, shared |-> shared,
                     fptr |-> f, valid_start |-> start, valid_end |-> start + len]]
              /\ UNCHANGED panic
        /\ UNCHANGED <<state, sz, pagetable, ofile, writable, content>>

-----------------------------------------------------------------------------
(* Taking mappings away.  m is a record of a page table and the content of *)
(* the inode, which the operators transform as the C functions do.         *)

\* walkaddr(): the entry of a user page, or NULL.
WalkAddr(pt, pg) == IF pg \in Page THEN pt[pg] ELSE NULL

\* The last page of a loop "pgaddr < addr + len", in 64-bit arithmetic.
LoopEnd(addr, len) == (addr + len) % TOP

\* writei() of all the bytes from page off to the end of the file, taken from
\* one page of memory and from what lies behind it.
WriteToEnd(c, off, data) ==
    [k \in DOMAIN c |-> IF k < off THEN c[k] ELSE IF k = off THEN data ELSE "junk"]

\* One page of the loop of write_back(): off moves only past pages that are
\* loaded, and only dirty pages are written.
SyncPage(at, pte) ==
    IF pte = NULL THEN at
    ELSE [off |-> at.off + 1,
          content |-> IF pte.dirty /\ at.off < FSIZE
                      THEN WriteToEnd(at.content, at.off, pte.data)
                      ELSE at.content]

\* write_back().
WriteBack(m, addr, len, offset) ==
    LET n == LoopEnd(addr, len) - addr
        after[i \in 0..n] == IF i = 0 THEN [off |-> offset, content |-> m.content]
                             ELSE SyncPage(after[i - 1], WalkAddr(m.pt, addr + i - 1))
    IN  [pt |-> Unmap(m.pt, addr, LoopEnd(addr, len)),
         content |-> IF n > 0 THEN after[n].content ELSE m.content]

\* put_back().
PutBack(m, addr, len) == [m EXCEPT !.pt = Unmap(@, addr, LoopEnd(addr, len))]

\* MUTANT: private mappings are written back too.
RemoveAlwaysSync(m, a, addr, len) == WriteBack(m, addr, len, (addr - a.start) % TOP)

\* The choice between the two, in sys_munmap() and clear_vm_area().
Remove(m, a, addr, len) ==
    IF a.shared THEN WriteBack(m, addr, len, (addr - a.start) % TOP)
                ELSE PutBack(m, addr, len)

\* clear_vm_area() up to fileclose(); an empty slot is left alone by its callers.
ClearArea(m, a) ==
    IF a # NULL /\ a.valid_start < a.valid_end
    THEN Remove(m, a, a.valid_start, a.valid_end - a.valid_start)
    ELSE m

\* proc_free_vmareas(), and the same loop in exit(), over all the slots.
ClearAll(m, areas) ==
    LET after[s \in 0..NVMA] == IF s = 0 THEN m ELSE ClearArea(after[s - 1], areas[s])
    IN  after[NVMA]

\* References a process holds through its areas and through its descriptors.
AreaRefs(areas, f) == Cardinality({s \in Slots : areas[s] # NULL /\ areas[s].fptr = f})
FdRefs(fds, f) == Cardinality({fd \in FD : fds[fd] = f})

Mem(p) == [pt |-> pagetable[p], content |-> content]

\* Where sys_munmap() finds the range: the first area that contains it.
AreaOf(p, addr, len) ==
    {s \in Slots : /\ vm_areas[p][s] # NULL
                   /\ vm_areas[p][s].valid_start <= addr
                   /\ LoopEnd(addr, len) <= vm_areas[p][s].valid_end}

\* sys_munmap().
SysMunmap(p, addr, len) ==
    LET slots == AreaOf(p, addr, len)
        slot == CHOOSE s \in slots : \A t \in slots : s <= t
        a == vm_areas[p][slot]
        end == LoopEnd(addr, len)
        b == IF a.valid_start = addr THEN [a EXCEPT !.valid_start = end]
                                     ELSE [a EXCEPT !.valid_end = (@ - len) % TOP]
        m == Remove(Mem(p), a, addr, len)
        empty == b.valid_start >= b.valid_end
    IN  /\ User(p)
        /\ slots # {}
        /\ a.valid_start = addr \/ end = a.valid_end    \* no hole
        /\ content' = m.content
        /\ pagetable' = [pagetable EXCEPT ![p] = m.pt]
        /\ vm_areas' = [vm_areas EXCEPT ![p][slot] = IF empty THEN NULL ELSE b]
        /\ ref' = [ref EXCEPT ![a.fptr] = IF empty THEN @ - 1 ELSE @]
        /\ UNCHANGED <<state, sz, next_start, ofile, writable, panic>>

-----------------------------------------------------------------------------
(* The end of an image.                                                    *)

\* proc_freepagetable(): the panic it stops with, or NULL.
FreePageTable(pt, size) ==
    CASE \E pg \in 0..(size - 1) : pt[pg] = NULL -> "uvmunmap: not mapped"
      [] \E pg \in size..(MAXVA - 1) : pt[pg] # NULL -> "freewalk: leaf"
      [] OTHER -> NULL

\* MUTANT: exit() forgets the files behind the mappings.
ExitRefFdsOnly(p) == [f \in File |-> ref[f] - FdRefs(ofile[p], f)]

\* fileclose() of every mapping and every descriptor of p.
ExitRef(p) == [f \in File |-> ref[f] - AreaRefs(vm_areas[p], f) - FdRefs(ofile[p], f)]

\* exit(), up to the last sched(); also where usertrap() ends a killed process.
ExitEffect(p) ==
    LET m == ClearAll(Mem(p), vm_areas[p])
    IN  /\ content' = m.content
        /\ pagetable' = [pagetable EXCEPT ![p] = m.pt]
        /\ vm_areas' = [vm_areas EXCEPT ![p] = NoAreas]
        /\ ref' = ExitRef(p)
        /\ ofile' = [ofile EXCEPT ![p] = NoFiles]
        /\ state' = [state EXCEPT ![p] = "zombie"]
        /\ UNCHANGED <<sz, next_start, writable, panic>>

Exit(p) == User(p) /\ ExitEffect(p)

\* freeproc(), from the parent's wait(); exit() left no areas.
Reap(p) ==
    /\ panic = NULL /\ state[p] = "zombie"
    /\ panic' = FreePageTable(pagetable[p], sz[p])
    /\ state' = [state EXCEPT ![p] = "unused"]
    /\ sz' = [sz EXCEPT ![p] = 0]
    /\ pagetable' = [pagetable EXCEPT ![p] = NoPages]
    /\ UNCHANGED <<next_start, vm_areas, ofile, ref, writable, content>>

\* exec() of an image of n pages, when it succeeds: next_start is kept.
Exec(p, n) ==
    LET m == ClearAll(Mem(p), vm_areas[p])
    IN  /\ User(p)
        /\ content' = m.content
        /\ pagetable' = [pagetable EXCEPT ![p] = Grow(NoPages, 0, n)]
        /\ sz' = [sz EXCEPT ![p] = n]
        /\ vm_areas' = [vm_areas EXCEPT ![p] = NoAreas]
        /\ ref' = [f \in File |-> ref[f] - AreaRefs(vm_areas[p], f)]
        /\ panic' = FreePageTable(m.pt, sz[p])
        /\ UNCHANGED <<state, next_start, ofile, writable>>

-----------------------------------------------------------------------------
(* fork and sbrk.                                                          *)

\* The panics of allocproc(), which looks at the areas of proc[0], and uvmcopy().
ForkPanic(p) ==
    CASE vm_areas[InitProc] # NoAreas -> "allocproc: vma contains data"
      [] \E pg \in 0..(sz[p] - 1) : pagetable[p][pg] = NULL -> "uvmcopy: page not present"
      [] OTHER -> NULL

\* fork(): the child gets the heap, the areas and the descriptors, and no page
\* of a mapping.  A failed allocation leaves everything as it was.
Fork(p, q) ==
    /\ panic = NULL /\ state[p] = "live" /\ state[q] = "unused"
    /\ panic' = ForkPanic(p)
    /\ state' = [state EXCEPT ![q] = "live"]
    /\ sz' = [sz EXCEPT ![q] = sz[p]]
    /\ pagetable' = [pagetable EXCEPT ![q] = Unmap(pagetable[p], sz[p], MAXVA)]
    /\ vm_areas' = [vm_areas EXCEPT ![q] = vm_areas[p]]
    /\ next_start' = [next_start EXCEPT ![InitProc] = 0, ![q] = next_start[p]]
    /\ ofile' = [ofile EXCEPT ![q] = ofile[p]]
    /\ ref' = [f \in File |-> ref[f] + AreaRefs(vm_areas[p], f) + FdRefs(ofile[p], f)]
    /\ UNCHANGED <<writable, content>>

\* growproc() with n > 0, when memory is found: uvmalloc() panics on a page
\* that a mapping already loaded.
SbrkGrow(p, n) ==
    /\ User(p)
    /\ n > 0 /\ sz[p] + n < MAXVA
    /\ IF \E pg \in sz[p]..(sz[p] + n - 1) : pagetable[p][pg] # NULL
       THEN panic' = "mappages: remap" /\ UNCHANGED <<sz, pagetable>>
       ELSE /\ sz' = [sz EXCEPT ![p] = @ + n]
            /\ pagetable' = [pagetable EXCEPT ![p] = Grow(@, sz[p], sz[p] + n)]
            /\ UNCHANGED panic
    /\ UNCHANGED <<state, next_start, vm_areas, ofile, ref, writable, content>>

\* growproc() with n < 0; a size below zero wraps and changes nothing.
SbrkShrink(p, n) ==
    /\ User(p)
    /\ n < 0 /\ sz[p] + n >= 0
    /\ IF \E pg \in (sz[p] + n)..(sz[p] - 1) : pagetable[p][pg] = NULL
       THEN panic' = "uvmunmap: not mapped" /\ UNCHANGED <<sz, pagetable>>
       ELSE /\ sz' = [sz EXCEPT ![p] = @ + n]
            /\ pagetable' = [pagetable EXCEPT ![p] = Unmap(@, sz[p] + n, sz[p])]
            /\ UNCHANGED panic
    /\ UNCHANGED <<state, next_start, vm_areas, ofile, ref, writable, content>>

-----------------------------------------------------------------------------
(* Memory accesses of the user program.                                    *)

\* The hardware lets the access through.
Hit(p, pg, store) ==
    /\ WalkAddr(pagetable[p], pg) # NULL
    /\ store => pagetable[p][pg].w

\* A store that hits sets the D bit.
Store(p, pg) ==
    /\ User(p) /\ Hit(p, pg, TRUE)
    /\ pagetable' = [pagetable EXCEPT ![p][pg].data = "stored", ![p][pg].dirty = TRUE]
    /\ UNCHANGED <<state, sz, next_start, vm_areas, ofile, ref, writable, content, panic>>

\* The areas whose whole range contains the page, valid or not.
AreasAt(p, pg) ==
    {s \in Slots : /\ vm_areas[p][s] # NULL
                   /\ vm_areas[p][s].start <= pg
                   /\ pg < vm_areas[p][s].start + vm_areas[p][s].length}

\* MUTANT: the handler looks at the range the mapping had at first.
LoadableWholeRange(a, pg, store) == store => "W" \in a.prot

\* The two checks of mmap_load_instr() on the area it found.
Loadable(a, pg, store) ==
    /\ a.valid_start <= pg /\ pg < a.valid_end
    /\ store => "W" \in a.prot

\* usertrap() on a page fault: mmap_load_instr() loads the page, or the process
\* exits.  The instruction is retried afterwards.
PageFault(p, pg, store) ==
    LET slots == AreasAt(p, pg)
        a == vm_areas[p][CHOOSE s \in slots : \A t \in slots : s <= t]
        ok == slots # {} /\ Loadable(a, pg, store)
        off == pg - a.start
        new == [data |-> IF off < FSIZE THEN content[off] ELSE "zero",
                w |-> "W" \in a.prot, dirty |-> FALSE]
    IN  /\ User(p) /\ ~Hit(p, pg, store)
        /\ \/ ExitEffect(p)     \* not loadable, or kalloc() finds no memory
           \/ /\ ok /\ pg \in Page /\ pagetable[p][pg] = NULL
              /\ pagetable' = [pagetable EXCEPT ![p][pg] = new]
              /\ UNCHANGED <<state, sz, next_start, vm_areas, ofile, ref, writable, content, panic>>
           \/ /\ ok /\ (pg \in Page => pagetable[p][pg] # NULL)
              /\ panic' = IF pg \in Page THEN "mappages: remap" ELSE "walk"
              /\ UNCHANGED <<state, sz, next_start, vm_areas, pagetable, ofile, ref, writable,
                             content>>

-----------------------------------------------------------------------------
\* A program keeps page 0, where its code is: without it the next instruction
\* faults, and the process makes no further call.
Next == \E p \in Proc :
    \/ /\ p \in Caller
       /\ \/ \E rw \in OpenModes : Open(p, rw)
          \/ \E len \in MapLens, prot \in Prots, shared \in BOOLEAN, fd \in FD :
                SysMmap(p, len, prot, shared, fd)
          \/ \E n \in SbrkDeltas : SbrkGrow(p, n) \/ (sz[p] + n > 0 /\ SbrkShrink(p, n))
          \/ \E n \in ExecSizes : Exec(p, n)
          \/ \E q \in Proc : Fork(p, q)
    \/ \E fd \in FD : Close(p, fd)
    \/ \E r \in Ranges : SysMunmap(p, r[1], r[2])
    \/ \E pg \in Touched : Store(p, pg)
    \/ \E pg \in Touched, store \in BOOLEAN : PageFault(p, pg, store)
    \/ Exit(p)
    \/ Reap(p)

Spec == Init /\ [][Next]_vars

-----------------------------------------------------------------------------
Data == {"file", "zero", "heap", "stored", "junk"}
PTE == [data : Data, w : BOOLEAN, dirty : BOOLEAN]
Area == [start : Nat, length : Nat \ {0}, prot : Prots, shared : BOOLEAN, fptr : File,
         valid_start : Nat, valid_end : Nat]

\* An empty slot is not an area.
ASSUME NoArea == NULL \notin Area

\* The types of struct proc, struct vm_area and struct file.
TypeOK ==
    /\ state \in [Proc -> {"unused", "live", "zombie"}]
    /\ sz \in [Proc -> Nat]
    /\ next_start \in [Proc -> Nat]
    /\ vm_areas \in [Proc -> [Slots -> Area \cup {NULL}]]
    /\ pagetable \in [Proc -> [Page -> PTE \cup {NULL}]]
    /\ ofile \in [Proc -> [FD -> File \cup {NULL}]]
    /\ ref \in [File -> Nat]
    /\ writable \in [File -> BOOLEAN]
    /\ content \in [0..(FSIZE - 1) -> Data]

\* References to a file from all processes.
Holders(f) == {h \in Proc \X FD : ofile[h[1]][h[2]] = f}
Mappers(f) == {h \in Proc \X Slots : /\ vm_areas[h[1]][h[2]] # NULL
                                     /\ vm_areas[h[1]][h[2]].fptr = f}

\* f->ref counts exactly the descriptors and the mappings that refer to the
\* file, through mmap, munmap, fork, exec and exit: a mapping keeps its file
\* open after close(), and the last one to go frees the slot.  (With the types.)
RefCountExact ==
    /\ TypeOK
    /\ \A f \in File : ref[f] = Cardinality(Holders(f)) + Cardinality(Mappers(f))

Valid(a) == a.valid_start..(a.valid_end - 1)

\* The mappings of a process never overlap and lie below next_start, where
\* sys_mmap() puts the next one, whatever was unmapped, inherited or replaced
\* before.
AreasDisjoint ==
    \A p \in Proc, s \in Slots : vm_areas[p][s] # NULL =>
        /\ vm_areas[p][s].valid_end <= next_start[p]
        /\ \A t \in Slots \ {s} : vm_areas[p][t] # NULL =>
              Valid(vm_areas[p][s]) \cap Valid(vm_areas[p][t]) = {}

\* Every page loaded above the heap lies in the valid range of a mapping, so
\* that some later munmap, exec or exit frees it: otherwise freewalk() panics
\* on the leaf when the page table is freed.
NoOrphanPages ==
    \A p \in Proc, pg \in Page : (pagetable[p][pg] # NULL /\ pg >= sz[p]) =>
        \E s \in Slots : vm_areas[p][s] # NULL /\ pg \in Valid(vm_areas[p][s])

\* What the inductive invariant adds: init has no mappings, and a process that
\* does not run has neither mappings nor open files.
UnusedInv ==
    /\ state[InitProc] = "live" /\ vm_areas[InitProc] = NoAreas
    /\ \A p \in Proc : state[p] # "live" => vm_areas[p] = NoAreas /\ ofile[p] = NoFiles

\* A mapping without a valid page is given up, and none reaches 2^64.
RangeInv ==
    \A p \in Proc, s \in Slots : vm_areas[p][s] # NULL =>
        vm_areas[p][s].valid_start < vm_areas[p][s].valid_end /\ vm_areas[p][s].valid_end < TOP

MmapInv == RefCountExact /\ UnusedInv /\ RangeInv /\ NoOrphanPages

\* The shared mappings of p that hold page pg.
SharedAt(p, pg) == {s \in Slots : vm_areas[p][s] # NULL /\ vm_areas[p][s].shared
                                     /\ pg \in Valid(vm_areas[p][s])}

\* The file changes only when a dirty page of a shared mapping is taken away:
\* what is stored through a private mapping never reaches it, in whatever order
\* munmap, exec and exit remove the mappings.
OnlySharedWritten ==
    [][content' # content =>
        \E p \in Proc, pg \in Page : /\ SharedAt(p, pg) # {}
                                     /\ pagetable[p][pg] # NULL /\ pagetable[p][pg].dirty
                                     /\ pagetable[p] # pagetable'[p]]_vars

\* munmap of a shared range leaves what was stored in each of its pages in the
\* page of the file it maps, and leaves the rest of the file alone.
MunmapWritesBack ==
    [][\A p \in Proc, s \in Slots :
        LET a == vm_areas[p][s]
            b == vm_areas'[p][s]
            gone == {pg \in Valid(a) : b = NULL \/ pg \notin Valid(b)}
            Dirty(k) == /\ a.start + k \in gone \cap Page
                        /\ pagetable[p][a.start + k] # NULL
                        /\ pagetable[p][a.start + k].dirty
        IN  (/\ a # NULL /\ a.shared /\ a # b
             /\ \A t \in Slots \ {s} : vm_areas'[p][t] = vm_areas[p][t])
            => \A k \in DOMAIN content :
                  content'[k] = IF Dirty(k) THEN pagetable[p][a.start + k].data
                                ELSE content[k]]_vars

\* sys_mmap() always finds an unused range above the heap: its check that
\* next_start has not fallen below p->sz never fires.
NoMemoryCrash == panic # "sys_mmap: memory crash"
=============================================================================
