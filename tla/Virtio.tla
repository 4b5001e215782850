------------------------------- MODULE Virtio -------------------------------
(***************************************************************************)
(* The disk driver of kernel/virtio_disk.c and the device it talks to.     *)
(*                                                                         *)
(* A request belongs to a buffer: its caller holds the buffer's sleep-lock *)
(* (bio.c), so a buffer has at most one request, and no two buffers hold   *)
(* the same block.  A region under vdisk_lock is one step, except where    *)
(* the device may look in between: before the avail index is advanced, and *)
(* between two iterations of the interrupt handler.  A ring entry that     *)
(* both sides have passed, and the locals of a call that has returned, are *)
(* never read again and are forgotten.                                     *)
(***************************************************************************)
EXTENDS Integers, FiniteSets

CONSTANTS Buf,      \* buffers, each of its own block
          NUM,      \* virtio.h: number of descriptors, and size of the rings
          WRAP,     \* 2^16, the range of the ring indices
          Watched,  \* the buffers RequestsReturn is about; all are alike
          NULL

ASSUME VirtioConstants ==
    /\ NUM \in Nat /\ NUM >= 3
    /\ WRAP \in Nat /\ WRAP >= NUM /\ WRAP % NUM = 0
    /\ NULL \notin Buf /\ "intr" \notin Buf /\ Watched \subseteq Buf

Desc == 0..(NUM - 1)

VARIABLES same,      \* b->data and the block on the disk agree
          busy,      \* b->disk: the device owns the buffer
          pc,        \* where the request of a buffer is
          idx,       \* idx[0 .. 2] of virtio_disk_rw()
          free,      \* descriptors whose disk.free[] is set
          desc,      \* desc[i]: what addr points to, and next
          ops,       \* disk.ops[i].sector, named by the buffer of the block
          info,      \* disk.info[i]: buffer and status
          avail, availIdx,    \* the avail ring
          used, usedIdx,      \* the used ring, written by the device
          used_idx,  \* disk.used_idx, how far the driver has looked
          lock,      \* vdisk_lock: NULL, a buffer's caller, or "intr"
          panic,
          seen,      \* device: how far it has looked in the avail ring
          inflight,  \* device: heads of the chains it is working on
          owed,      \* device: a used entry was added, no interrupt raised yet
          irq        \* device: InterruptStatus

callVars == <<pc, idx>>
descVars == <<free, desc, ops>>
deviceVars == <<seen, inflight, owed, irq>>
vars == <<same, busy, pc, idx, free, desc, ops, info, avail, availIdx,
          used, usedIdx, used_idx, lock, panic, seen, inflight, owed, irq>>

NoDesc == [addr |-> NULL, next |-> NULL]

\* virtio_disk_init(): zeroed rings, all descriptors unused.
Init == /\ same = [b \in Buf |-> FALSE]
        /\ busy = [b \in Buf |-> FALSE]
        /\ pc = [b \in Buf |-> "idle"]
        /\ idx = [b \in Buf |-> <<0, 0, 0>>]
        /\ free = Desc
        /\ desc = [i \in Desc |-> NoDesc]
        /\ ops = [i \in Desc |-> NULL]
        /\ info = [i \in Desc |-> [b |-> NULL, status |-> 0]]
        /\ avail = [i \in Desc |-> NULL] /\ availIdx = 0
        /\ used = [i \in Desc |-> NULL] /\ usedIdx = 0 /\ used_idx = 0
        /\ lock = NULL /\ panic = FALSE
        /\ seen = 0 /\ inflight = {} /\ owed = FALSE /\ irq = FALSE
-----------------------------------------------------------------------------
(* virtio_disk_rw().                                                       *)

\* wakeup(&disk.free[0])
WakeAlloc(s) == [b \in Buf |-> IF s[b] = "alloc_sleep" THEN "alloc" ELSE s[b]]

Inc(i) == (i + 1) % WRAP

\* What stays free when alloc_desc() has handed out c[1], c[2] and c[3].
Alloc(c) == free \ {c[1], c[2], c[3]}

\* alloc_desc() three times: the lowest free descriptors, in order.
Lowest == CHOOSE c \in free \X free \X free :
    /\ c[1] < c[2] /\ c[2] < c[3]
    /\ \A i \in free : i <= c[3] => i \in {c[1], c[2], c[3]}

\* bread() of an invalid buffer, which holds another block's data, or bwrite()
\* of a buffer that its holder has changed.
Call(b) ==
    /\ ~panic /\ pc[b] = "idle"
    /\ same' = [same EXCEPT ![b] = FALSE]
    /\ pc' = [pc EXCEPT ![b] = "alloc"]
    /\ UNCHANGED <<busy, idx, descVars, info, avail, availIdx, used, usedIdx, used_idx,
                   lock, panic, deviceVars>>

\* From acquire() to the entry in the avail ring.
Format(b) ==
    LET c == Lowest
    IN  /\ ~panic /\ pc[b] = "alloc" /\ lock = NULL
        /\ Cardinality(free) >= 3
        /\ free' = Alloc(c)
        /\ ops' = [ops EXCEPT ![c[1]] = b]
        /\ desc' = [desc EXCEPT ![c[1]] = [addr |-> c[1], next |-> c[2]],
                                ![c[2]] = [addr |-> b, next |-> c[3]],
                                ![c[3]] = [addr |-> c[1], next |-> NULL]]
        /\ info' = [info EXCEPT ![c[1]] = [b |-> b, status |-> 255]]
        /\ busy' = [busy EXCEPT ![b] = TRUE]
        /\ avail' = [avail EXCEPT ![availIdx % NUM] = c[1]]
        /\ idx' = [idx EXCEPT ![b] = c]
        /\ pc' = [pc EXCEPT ![b] = "publish"]
        /\ lock' = b
        /\ UNCHANGED <<same, availIdx, used, usedIdx, used_idx, panic, deviceVars>>

\* alloc3_desc() fails: it gives back what it took, which wakes the others that
\* wait for descriptors, and the caller sleeps.
AllocSleep(b) ==
    /\ ~panic /\ pc[b] = "alloc" /\ lock = NULL
    /\ Cardinality(free) < 3
    /\ pc' = [(IF free = {} THEN pc ELSE WakeAlloc(pc)) EXCEPT ![b] = "alloc_sleep"]
    /\ UNCHANGED <<same, busy, idx, descVars, info, avail, availIdx, used,
                   usedIdx, used_idx, lock, panic, deviceVars>>

\* avail->idx += 1, the notification, and sleep(b): b->disk is still 1, since
\* the interrupt handler needs the lock.
Publish(b) ==
    /\ ~panic /\ pc[b] = "publish"
    /\ availIdx' = Inc(availIdx)
    /\ pc' = [pc EXCEPT ![b] = "sleep"]
    /\ lock' = NULL
    /\ UNCHANGED <<same, busy, idx, descVars, info, avail, used, usedIdx,
                   used_idx, panic, deviceVars>>

\* MUTANT: free_chain() frees the head only.
ChainHead(h) == {h}

\* The descriptors free_chain() visits: the driver builds chains of three.
Chain(h) == {h, desc[h].next, desc[desc[h].next].next}

\* MUTANT: sleep(b) under an if instead of a while.
StillBusyNever(b) == FALSE

\* The condition of the loop around sleep(b).
StillBusy(b) == busy[b]

\* Back from sleep(b) with the lock: sleep again, or free the chain and return.
Finish(b) ==
    LET h == idx[b][1]
        c == Chain(h)
    IN  /\ ~panic /\ pc[b] = "woken" /\ lock = NULL
        /\ \/ /\ StillBusy(b)
              /\ pc' = [pc EXCEPT ![b] = "sleep"]
              /\ UNCHANGED <<idx, descVars, info, panic>>
           \/ /\ ~StillBusy(b) /\ c \cap free # {}
              /\ panic' = TRUE
              /\ UNCHANGED <<callVars, descVars, info>>
           \/ /\ ~StillBusy(b) /\ c \cap free = {}
              /\ info' = [info EXCEPT ![h].b = NULL]
              /\ desc' = [i \in Desc |-> IF i \in c THEN NoDesc ELSE desc[i]]
              /\ ops' = [ops EXCEPT ![h] = NULL]
              /\ free' = free \cup c
              /\ pc' = WakeAlloc([pc EXCEPT ![b] = "idle"])
              /\ idx' = [idx EXCEPT ![b] = <<0, 0, 0>>]
              /\ UNCHANGED panic
        /\ UNCHANGED <<same, busy, avail, availIdx, used, usedIdx, used_idx, lock,
                       deviceVars>>
\* kill() of a process asleep in virtio_disk_rw() makes it runnable.
Kill(b) ==
    /\ pc[b] \in {"sleep", "alloc_sleep"}
    /\ pc' = [pc EXCEPT ![b] = IF @ = "sleep" THEN "woken" ELSE "alloc"]
    /\ UNCHANGED <<same, busy, idx, descVars, info, avail, availIdx, used,
                   usedIdx, used_idx, lock, panic, deviceVars>>

-----------------------------------------------------------------------------
(* virtio_disk_intr().                                                     *)

\* acquire() and the acknowledgement.
IntrAck ==
    /\ ~panic /\ irq /\ lock = NULL
    /\ lock' = "intr"
    /\ irq' = FALSE
    /\ UNCHANGED <<same, busy, callVars, descVars, info, avail, availIdx, used,
                   usedIdx, used_idx, panic, seen, inflight, owed>>

\* The head of the chain that the next used entry names.
Completed == used[used_idx % NUM]

\* One iteration over the used ring; a failed request, or one that is not on
\* record, stops the kernel.
IntrLoop ==
    LET b == info[Completed].b
    IN  /\ ~panic /\ lock = "intr" /\ used_idx # usedIdx
        /\ IF info[Completed].status # 0 \/ b = NULL
           THEN panic' = TRUE /\ UNCHANGED <<busy, pc, used_idx, avail, used>>
           ELSE /\ busy' = [busy EXCEPT ![b] = FALSE]
                /\ pc' = [pc EXCEPT ![b] = IF @ = "sleep" THEN "woken" ELSE @]
                /\ used_idx' = Inc(used_idx)
                /\ avail' = [avail EXCEPT ![used_idx % NUM] = NULL]
                /\ used' = [used EXCEPT ![used_idx % NUM] = NULL]
                /\ UNCHANGED panic
        /\ UNCHANGED <<same, idx, descVars, info, availIdx, usedIdx, lock,
                       deviceVars>>

\* MUTANT: the handler may leave while there are used entries.
IntrDoneEarly ==
    /\ ~panic /\ lock = "intr"
    /\ lock' = NULL
    /\ UNCHANGED <<same, busy, callVars, descVars, info, avail, availIdx, used,
                   usedIdx, used_idx, panic, deviceVars>>

\* The used ring is empty: release().
IntrDone ==
    /\ ~panic /\ lock = "intr" /\ used_idx = usedIdx
    /\ lock' = NULL
    /\ UNCHANGED <<same, busy, callVars, descVars, info, avail, availIdx, used,
                   usedIdx, used_idx, panic, deviceVars>>

-----------------------------------------------------------------------------
(* The device, as the driver relies on it: it takes requests in order,     *)
(* finishes them in any order, and raises the interrupt after it has added *)
(* the used entry.                                                         *)

DeviceFetch ==
    /\ seen # availIdx
    /\ inflight' = inflight \cup {avail[seen % NUM]}
    /\ seen' = Inc(seen)
    /\ UNCHANGED <<same, busy, callVars, descVars, info, avail, availIdx, used,
                   usedIdx, used_idx, lock, panic, owed, irq>>

\* The transfer, in whichever direction, the status byte, and the entry in the
\* used ring.
DeviceComplete(h) ==
    LET buf == desc[desc[h].next].addr
        status == desc[desc[desc[h].next].next].addr
    IN  /\ h \in inflight
        /\ same' = [b \in Buf |-> IF b \in {buf, ops[h]} THEN buf = ops[h] ELSE same[b]]
        /\ info' = [info EXCEPT ![status].status = 0]
        /\ inflight' = inflight \ {h}
        /\ used' = [used EXCEPT ![usedIdx % NUM] = h]
        /\ usedIdx' = Inc(usedIdx)
        /\ owed' = TRUE
        /\ UNCHANGED <<busy, callVars, descVars, avail, availIdx, used_idx, lock, panic,
                       seen, irq>>

DeviceInterrupt ==
    /\ owed
    /\ owed' = FALSE
    /\ irq' = TRUE
    /\ UNCHANGED <<same, busy, callVars, descVars, info, avail, availIdx, used,
                   usedIdx, used_idx, lock, panic, seen, inflight>>
-----------------------------------------------------------------------------
Step(b) == Format(b) \/ AllocSleep(b) \/ Publish(b) \/ Finish(b)
Intr == IntrAck \/ IntrLoop \/ IntrDone
Device == DeviceFetch \/ DeviceInterrupt

Next == \/ \E b \in Buf : Call(b) \/ Step(b) \/ Kill(b)
        \/ Intr
        \/ Device
        \/ \E h \in Desc : DeviceComplete(h)

Spec == Init /\ [][Next]_vars

\* The device answers every request and raises the interrupts it owes; whoever
\* is awake runs, and gets vdisk_lock if it is free again and again.  Nobody
\* has to call.
Fairness == /\ WF_vars(DeviceFetch) /\ WF_vars(DeviceInterrupt)
            /\ SF_vars(IntrAck) /\ WF_vars(IntrLoop \/ IntrDone)
            /\ \A b \in Buf : /\ WF_vars(DeviceComplete(idx[b][1]))
                              /\ WF_vars(Publish(b))
                              /\ SF_vars(Finish(b))

FairSpec == Spec /\ Fairness

-----------------------------------------------------------------------------
\* Calls that own descriptors.
Owners == {b \in Buf : pc[b] \in {"publish", "sleep", "woken"}}
DescsOf(b) == {idx[b][1], idx[b][2], idx[b][3]}

\* The types of struct disk, of the rings and of the device's state; indices are
\* uint16 and the rings hold heads of chains.
TypeOK ==
    /\ same \in [Buf -> BOOLEAN] /\ busy \in [Buf -> BOOLEAN]
    /\ pc \in [Buf -> {"idle", "alloc", "alloc_sleep", "publish", "sleep", "woken"}]
    /\ idx \in [Buf -> Desc \X Desc \X Desc]
    /\ free \subseteq Desc
    /\ desc \in [Desc -> [addr : Buf \cup Desc \cup {NULL}, next : Desc \cup {NULL}]]
    /\ ops \in [Desc -> Buf \cup {NULL}]
    /\ info \in [Desc -> [b : Buf \cup {NULL}, status : {0, 255}]]
    /\ avail \in [Desc -> Desc \cup {NULL}] /\ used \in [Desc -> Desc \cup {NULL}]
    /\ {availIdx, usedIdx, used_idx, seen} \subseteq 0..(WRAP - 1)
    /\ lock \in Buf \cup {NULL, "intr"}
    /\ inflight \subseteq Desc
    /\ {panic, owed, irq} \subseteq BOOLEAN

\* Every descriptor is free or belongs to exactly one request, through failed
\* allocations, frees and completions in any order: alloc3_desc() and
\* free_chain() neither leak nor share one, and what the device works on belongs
\* to a call that waits for it.  Nobody sleeps for descriptors that are free.
\* None of the driver's panics is reached.  (With the types.)
DescriptorsOwned ==
    /\ TypeOK
    /\ ~panic
    /\ free = Desc \ UNION {DescsOf(b) : b \in Owners}
    /\ \A b, c \in Owners : b # c => DescsOf(b) \cap DescsOf(c) = {}
    /\ \A h \in inflight : \E b \in Owners : idx[b][1] = h /\ busy[b]
    /\ \A b \in Buf : pc[b] = "alloc_sleep" => Cardinality(free) < 3

\* virtio_disk_rw() returns only when its own transfer is done, whichever
\* completions and kills woke it: the buffer and the disk agree.
TransferDone ==
    [][\A b \in Buf : pc[b] = "woken" /\ pc'[b] = "idle" => same[b]]_vars

\* No request is lost in the race between the device that adds used entries and
\* the handler that acknowledges (virtio_disk.c:299-304): every call that
\* reached the device returns.
RequestsReturn == \A b \in Watched : pc[b] = "publish" ~> pc[b] = "idle"
-----------------------------------------------------------------------------
(* Why DescriptorsOwned holds: the chains that the driver has built, and   *)
(* which ring each of them is in.                                          *)

\* How far index j is ahead of index i.
Ahead(i, j) == (j + WRAP - i) % WRAP

\* The n entries of ring r from index i on, and that they differ.
Entries(r, i, n) == {r[(i + k) % NUM] : k \in 0..(n - 1)}
EntriesDiffer(r, i, n) ==
    \A k, l \in 0..(n - 1) : r[(i + k) % NUM] = r[(i + l) % NUM] => k = l

\* Heads that the device has not fetched, and that the handler has not seen.
Waiting == Entries(avail, seen, Ahead(seen, availIdx))
Done == Entries(used, used_idx, Ahead(used_idx, usedIdx))

\* Calls whose request is published and not yet acknowledged.
Published == {b \in Buf : busy[b] /\ pc[b] # "publish"}

\* A descriptor is free or some call's, and nobody sleeps when three are free.
OwnInv ==
    /\ free = {i \in Desc : \A b \in Owners : i \notin DescsOf(b)}
    /\ \A b, c \in Owners : b # c => DescsOf(b) \cap DescsOf(c) = {}
    /\ \A b \in Buf : pc[b] = "alloc_sleep" => Cardinality(free) < 3

\* The three descriptors of a call form the chain that describes its request.
ChainInv ==
    \A b \in Owners :
        LET i == idx[b]
        IN  /\ i[1] # i[2] /\ i[1] # i[3] /\ i[2] # i[3]
            /\ desc[i[1]].next = i[2]
            /\ desc[i[2]].next = i[3] /\ desc[i[2]].addr = b
            /\ desc[i[3]].addr = i[1]
            /\ ops[i[1]] = b /\ info[i[1]].b = b

\* A buffer the device owns has a call, which holds the lock until the request
\* is published.  Nobody sleeps for a transfer that is acknowledged.
CallInv ==
    \A b \in Buf :
        /\ busy[b] => b \in Owners
        /\ pc[b] = "sleep" => busy[b]
        /\ pc[b] = "publish" => /\ busy[b] /\ lock = b
                                /\ avail[availIdx % NUM] = idx[b][1]

\* Every published request is in one place: the avail ring, the device or the
\* used ring.  The device has as many as the indices say.
RingInv ==
    /\ EntriesDiffer(avail, seen, Ahead(seen, availIdx))
    /\ EntriesDiffer(used, used_idx, Ahead(used_idx, usedIdx))
    /\ Cardinality(inflight) = Ahead(usedIdx, seen)
    /\ Waiting \cap inflight = {} /\ Done \cap (Waiting \cup inflight) = {}
    /\ Waiting \cup inflight \cup Done = {idx[b][1] : b \in Published}

\* What the used ring names was transferred without an error, and so was what
\* the handler has acknowledged.
DoneInv ==
    \A b \in Owners :
        /\ idx[b][1] \in Done => info[idx[b][1]].status = 0 /\ same[b]
        /\ ~busy[b] => same[b]

\* The inductive invariant of Spec.
VirtioInv ==
    /\ TypeOK /\ ~panic /\ OwnInv
    /\ ChainInv /\ CallInv /\ RingInv /\ DoneInv
=============================================================================
