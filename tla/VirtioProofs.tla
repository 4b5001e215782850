---------------------------- MODULE VirtioProofs ----------------------------
(***************************************************************************)
(* The disk driver, for any number of buffers, any number of descriptors   *)
(* and any indices that wrap around at a multiple of it: VirtioInv is      *)
(* inductive, so no descriptor is leaked or shared, no panic is reached,   *)
(* and virtio_disk_rw() returns only when its transfer is done.            *)
(***************************************************************************)
EXTENDS VirtioLemmas

USE VirtioSizes

\* The request of the call with the lock joins the avail ring.
LEMMA PublishKeeps ==
    ASSUME NEW b \in Buf, VirtioInv, Publish(b)
    PROVE  VirtioInv'
  <1> DEFINE n == Ahead(seen, availIdx)
  <1>1. /\ TypeOK /\ OwnInv /\ ChainInv /\ CallInv /\ RingInv /\ DoneInv /\ ~panic
        /\ pc \in [Buf -> {"idle", "alloc", "alloc_sleep", "publish", "sleep", "woken"}]
    BY DEF VirtioInv, TypeOK
  <1>2. /\ pc[b] = "publish" /\ availIdx' = Inc(availIdx) /\ lock' = NULL
        /\ pc' = [pc EXCEPT ![b] = "sleep"]
        /\ UNCHANGED <<same, busy, idx, free, desc, ops, info, avail, used, usedIdx,
                       used_idx, panic, seen, inflight, owed, irq>>
    BY DEF Publish, descVars, deviceVars
  <1>3. busy[b] /\ lock = b /\ avail[availIdx % NUM] = idx[b][1] /\ b \in Owners
    BY <1>1, <1>2 DEF CallInv
  <1>4. /\ pc'[b] = "sleep" /\ \A c \in Buf : c # b => pc'[c] = pc[c]
        /\ \A c \in Buf : c # b => pc[c] # "publish"
    BY <1>1, <1>2, <1>3 DEF CallInv
  <1>5. Owners' = Owners /\ Published' = Published \cup {b} /\ b \notin Published
    BY <1>2, <1>3, <1>4 DEF Owners, Published
  <1>6. /\ n \in Nat /\ n < NUM /\ n < WRAP - 1 /\ seen \in Int
        /\ seen \in 0..(WRAP - 1) /\ availIdx \in 0..(WRAP - 1)
    <2>1. /\ seen \in 0..(WRAP - 1) /\ availIdx \in 0..(WRAP - 1)
          /\ usedIdx \in 0..(WRAP - 1) /\ used_idx \in 0..(WRAP - 1)
      BY <1>1, Types
    <2>2. /\ Ahead(seen, availIdx) \in 0..(WRAP - 1) /\ Ahead(usedIdx, seen) \in 0..(WRAP - 1)
          /\ Ahead(used_idx, usedIdx) \in 0..(WRAP - 1)
      BY <2>1, AheadIs, Zenon
    <2>3. Ahead(seen, availIdx) + Ahead(usedIdx, seen) + Ahead(used_idx, usedIdx) <= NUM - 2
      BY <1>3, OwnerLeavesRoom
    <2> QED
      BY <2>1, <2>2, <2>3
  <1>7. availIdx' \in 0..(WRAP - 1) /\ Ahead(seen, availIdx') = n + 1
    BY <1>2, <1>6, AheadGrows
  <1>8. TypeOK' /\ ~panic'
    BY <1>1, <1>2, <1>7 DEF TypeOK
  <1>9. OwnInv'
    <2>1. \A c \in Buf : pc'[c] = "alloc_sleep" => pc[c] = "alloc_sleep"
      BY <1>4, Zenon
    <2> QED
      BY <1>1, <1>2, <1>5, <2>1, OwnFrame
  <1>10. ChainInv'
    BY <1>1, <1>2, <1>5 DEF ChainInv
  <1>11. CallInv'
    BY <1>1, <1>2, <1>3, <1>4, <1>5, Zenon DEF CallInv
  <1>12. RingInv' /\ Done' = Done
    <2>1. avail[(seen + n) % NUM] = idx[b][1]
      <3>1. (availIdx + 0) % NUM = (seen + Ahead(seen, availIdx) + 0) % NUM
        BY <1>6, AheadSlot
      <3> QED
        BY <1>3, <1>6, <3>1
    <2>2. \A c \in Published : idx[c][1] # idx[b][1]
      BY <1>1, <1>3, <1>5, OwnerFacts, PublishedOwn
    <2>3. idx[b][1] \notin Waiting /\ idx[b][1] \notin inflight /\ idx[b][1] \notin Done
      BY <1>1, <2>2 DEF RingInv
    <2>4. EntriesDiffer(avail, seen, n) /\ idx[b][1] \notin Entries(avail, seen, n)
      BY <1>1, <2>3 DEF RingInv, Waiting
    <2> HIDE DEF n
    <2>5. /\ Entries(avail, seen, n + 1) = Entries(avail, seen, n) \cup {idx[b][1]}
          /\ EntriesDiffer(avail, seen, n + 1)
      BY <1>6, <2>1, <2>4, EntriesAdd
    <2>6. /\ Waiting' = Waiting \cup {idx[b][1]} /\ Done' = Done
          /\ EntriesDiffer(avail', seen', Ahead(seen', availIdx'))
      BY <1>2, <1>7, <2>5 DEF Waiting, Done, n
    <2>7. {idx'[c][1] : c \in Published'} = {idx[c][1] : c \in Published} \cup {idx[b][1]}
      BY <1>2, <1>5
    <2> QED
      BY <1>1, <1>2, <2>3, <2>6, <2>7 DEF RingInv
  <1>13. DoneInv'
    BY <1>1, <1>2, <1>5, <1>12 DEF DoneInv
  <1> QED
    BY <1>8, <1>9, <1>10, <1>11, <1>12, <1>13, Zenon DEF VirtioInv

\* The device takes the oldest request.
LEMMA FetchKeeps ==
    ASSUME VirtioInv, DeviceFetch
    PROVE  VirtioInv'
  <1> DEFINE n == Ahead(seen, availIdx)
             h == avail[seen % NUM]
  <1>1. /\ TypeOK /\ OwnInv /\ ChainInv /\ CallInv /\ RingInv /\ DoneInv /\ ~panic
    BY DEF VirtioInv
  <1>2. /\ seen # availIdx /\ inflight' = inflight \cup {h} /\ seen' = Inc(seen)
        /\ UNCHANGED <<same, busy, pc, idx, free, desc, ops, info, avail, availIdx, used,
                       usedIdx, used_idx, lock, panic, owed, irq>>
    BY DEF DeviceFetch, callVars, descVars
  <1>3. /\ seen \in 0..(WRAP - 1) /\ availIdx \in 0..(WRAP - 1)
        /\ usedIdx \in 0..(WRAP - 1) /\ used_idx \in 0..(WRAP - 1)
    BY <1>1, Types
  <1>4. n \in Nat \ {0} /\ EntriesDiffer(avail, seen, n)
    BY <1>1, <1>2, <1>3, AheadIs DEF RingInv
  <1>5. seen' \in 0..(WRAP - 1) /\ Ahead(seen', availIdx) = n - 1
    BY <1>2, <1>3, AheadShrinks, Zenon
  <1>6. /\ h \in Entries(avail, seen, n)
        /\ Entries(avail, seen', n - 1) = Entries(avail, seen, n) \ {h}
        /\ EntriesDiffer(avail, seen', n - 1)
    <2> HIDE DEF n
    <2>1. /\ avail[seen % NUM] \in Entries(avail, seen, n)
          /\ Entries(avail, Inc(seen), n - 1) = Entries(avail, seen, n) \ {avail[seen % NUM]}
          /\ EntriesDiffer(avail, Inc(seen), n - 1)
      BY <1>3, <1>4, EntriesDrop, Zenon
    <2> QED
      BY <1>2, <2>1
  <1>7. h \in Waiting /\ Waiting' = Waiting \ {h} /\ EntriesDiffer(avail', seen', Ahead(seen', availIdx'))
    BY <1>2, <1>5, <1>6 DEF Waiting
  <1> HIDE DEF h, n
  <1>8. PICK b \in Published : h = idx[b][1]
    BY <1>1, <1>7, Zenon DEF RingInv
  <1>9. b \in Owners /\ h \in Desc
    BY <1>1, <1>8, PublishedOwn, OwnerFacts, Zenon
  <1>10. Owners' = Owners /\ Published' = Published /\ Done' = Done
    BY <1>2 DEF Owners, Published, Done
  <1>11. Ahead(usedIdx, seen') = Ahead(usedIdx, seen) + 1
    <2>1. /\ Ahead(seen, availIdx) \in 0..(WRAP - 1) /\ Ahead(usedIdx, seen) \in 0..(WRAP - 1)
          /\ Ahead(used_idx, usedIdx) \in 0..(WRAP - 1)
      BY <1>3, AheadIs, Zenon
    <2>2. Ahead(seen, availIdx) + Ahead(usedIdx, seen) + Ahead(used_idx, usedIdx) <= NUM - 2
      BY <1>9, OwnerLeavesRoom
    <2>3. Ahead(usedIdx, seen) < WRAP - 1
      BY <2>1, <2>2
    <2> QED
      BY <1>2, <1>3, <2>3, AheadGrows, Zenon
  <1>12. TypeOK' /\ ~panic'
    BY <1>1, <1>2, <1>5, <1>9 DEF TypeOK
  <1>13. OwnInv'
    BY <1>1, <1>2, <1>10, OwnFrame, Zenon
  <1>14. ChainInv'
    BY <1>1, <1>2, <1>10, Zenon DEF ChainInv
  <1>15. CallInv'
    BY <1>1, <1>2, <1>10, Zenon DEF CallInv
  <1>16. RingInv'
    <2>1. h \notin inflight /\ h \notin Done
      BY <1>1, <1>7, Zenon DEF RingInv
    <2>2. Cardinality(inflight') = Ahead(usedIdx', seen')
      <3>1. IsFiniteSet(inflight) /\ Cardinality(inflight) = Ahead(usedIdx, seen)
        BY <1>1, HeadsCounted
      <3>2. Cardinality(inflight \cup {h}) = Cardinality(inflight) + 1
        BY <2>1, <3>1, FS_AddElement, Zenon
      <3> QED
        BY <1>2, <1>11, <3>1, <3>2, Zenon
    <2>3. {idx'[c][1] : c \in Published'} = {idx[c][1] : c \in Published}
      BY <1>2, <1>10, Zenon
    <2> QED
      BY <1>1, <1>2, <1>7, <1>10, <2>1, <2>2, <2>3, Zenon DEF RingInv
  <1>17. DoneInv'
    BY <1>1, <1>2, <1>10 DEF DoneInv
  <1> QED
    BY <1>12, <1>13, <1>14, <1>15, <1>16, <1>17, Zenon DEF VirtioInv

\* The device carries out a request of a call that waits for it, and answers.
LEMMA CompleteKeeps ==
    ASSUME NEW h \in Desc, VirtioInv, DeviceComplete(h)
    PROVE  VirtioInv'
  <1> DEFINE n == Ahead(used_idx, usedIdx)
  <1>1. /\ TypeOK /\ OwnInv /\ ChainInv /\ CallInv /\ RingInv /\ DoneInv /\ ~panic
    BY DEF VirtioInv
  <1>2. h \in inflight
    BY Zenon DEF DeviceComplete
  <1>3. PICK b \in Published : h = idx[b][1]
    BY <1>1, <1>2 DEF RingInv
  <1>4. b \in Owners /\ b \in Buf /\ \A d \in Owners : idx[d][1] = h => d = b
    BY <1>1, <1>3, PublishedOwn, OwnerFacts, Zenon
  <1>5. /\ desc[desc[h].next].addr = b /\ desc[desc[desc[h].next].next].addr = h
        /\ ops[h] = b /\ info[h].b = b
    <2>1. /\ desc[idx[b][1]].next = idx[b][2]
          /\ desc[idx[b][2]].next = idx[b][3] /\ desc[idx[b][2]].addr = b
          /\ desc[idx[b][3]].addr = idx[b][1]
          /\ ops[idx[b][1]] = b /\ info[idx[b][1]].b = b
      BY <1>1, <1>4, Zenon DEF ChainInv
    <2> QED
      BY ONLY <1>3, <2>1, Zenon
  <1>6. /\ same' = [d \in Buf |-> IF d = b THEN TRUE ELSE same[d]]
        /\ info' = [info EXCEPT ![h].status = 0]
        /\ inflight' = inflight \ {h}
        /\ used' = [used EXCEPT ![usedIdx % NUM] = h]
        /\ usedIdx' = Inc(usedIdx)
        /\ owed' = TRUE
        /\ UNCHANGED <<busy, pc, idx, free, desc, ops, avail, availIdx, used_idx, lock,
                       panic, seen, irq>>
    BY <1>5, Zenon DEF DeviceComplete, callVars, descVars
  <1>7. /\ seen \in 0..(WRAP - 1) /\ availIdx \in 0..(WRAP - 1)
        /\ usedIdx \in 0..(WRAP - 1) /\ used_idx \in 0..(WRAP - 1)
    BY <1>1, Types
  <1>8. n \in Nat /\ n < NUM /\ n < WRAP - 1 /\ used_idx \in Int
    <2>1. /\ Ahead(seen, availIdx) \in 0..(WRAP - 1) /\ Ahead(usedIdx, seen) \in 0..(WRAP - 1)
          /\ Ahead(used_idx, usedIdx) \in 0..(WRAP - 1)
      BY <1>7, AheadIs, Zenon
    <2>2. Ahead(seen, availIdx) + Ahead(usedIdx, seen) + Ahead(used_idx, usedIdx) <= NUM - 2
      BY <1>4, OwnerLeavesRoom
    <2> QED
      BY <1>7, <2>1, <2>2
  <1>9. usedIdx' \in 0..(WRAP - 1) /\ Ahead(used_idx, usedIdx') = n + 1
    BY <1>6, <1>7, <1>8, AheadGrows
  <1>10. /\ IsFiniteSet(inflight) /\ Cardinality(inflight) = Ahead(usedIdx, seen)
         /\ Cardinality(inflight \ {h}) = Cardinality(inflight) - 1
    BY <1>1, <1>2, HeadsCounted, FS_RemoveElement, Zenon
  <1>11. Ahead(usedIdx', seen) = Ahead(usedIdx, seen) - 1
    <2>1. Cardinality(inflight) # 0
      BY <1>2, <1>10, FS_EmptySet
    <2>2. usedIdx # seen
      BY <1>7, <1>10, <2>1, AheadIs
    <2> QED
      BY <1>6, <1>7, <2>2, AheadShrinks
  <1>12. TypeOK' /\ ~panic'
    <2>1. info' \in [Desc -> [b : Buf \cup {NULL}, status : {0, 255}]]
      <3>1. info \in [Desc -> [b : Buf \cup {NULL}, status : {0, 255}]]
        BY <1>1 DEF TypeOK
      <3>2. info' = [info EXCEPT ![h] = [info[h] EXCEPT !.status = 0]]
        BY <1>6, <3>1
      <3>3. [info[h] EXCEPT !.status = 0] \in [b : Buf \cup {NULL}, status : {0, 255}]
        BY <3>1
      <3> QED
        BY <3>1, <3>2, <3>3, Zenon
    <2>2. /\ used' \in [Desc -> Desc \cup {NULL}] /\ same' \in [Buf -> BOOLEAN]
          /\ inflight' \subseteq Desc
      <3>1. /\ used \in [Desc -> Desc \cup {NULL}] /\ same \in [Buf -> BOOLEAN]
            /\ inflight \subseteq Desc
        BY <1>1, Zenon DEF TypeOK
      <3>2. usedIdx % NUM \in Desc
        BY <1>7, SlotType
      <3>3. same' \in [Buf -> BOOLEAN]
        <4>1. same' = [d \in Buf |-> IF d = b THEN TRUE ELSE same[d]]
          BY <1>6, Zenon
        <4> QED
          BY ONLY <3>1, <4>1, Zenon
      <3> QED
        BY ONLY <1>6, <3>1, <3>2, <3>3, h \in Desc, Zenon
    <2>3. /\ {panic', owed', irq'} \subseteq BOOLEAN
          /\ {availIdx', usedIdx', used_idx', seen'} \subseteq 0..(WRAP - 1)
      BY <1>1, <1>6, <1>7, <1>9, Types
    <2> QED
      BY <1>1, <1>6, <2>1, <2>2, <2>3, Zenon DEF TypeOK
  <1>13. Owners' = Owners /\ Published' = Published
    BY <1>6 DEF Owners, Published
  <1>14. /\ info'[h].b = info[h].b /\ info'[h].status = 0
         /\ \A i \in Desc : i # h => info'[i] = info[i]
    BY <1>1, <1>6 DEF TypeOK
  <1>15. OwnInv'
    BY <1>1, <1>6, <1>13, OwnFrame
  <1>16. ChainInv'
    <2>1. \A d \in Owners : info'[idx[d][1]].b = info[idx[d][1]].b
      BY <1>1, <1>14, OwnerFacts
    <2> QED
      BY <1>1, <1>6, <1>13, <2>1 DEF ChainInv
  <1>17. CallInv'
    BY <1>1, <1>6, <1>13 DEF CallInv
  <1>18. RingInv' /\ Done' = Done \cup {h}
    <2>1. h \notin Waiting /\ h \notin Done
      BY <1>1, <1>2, Zenon DEF RingInv
    <2>2. EntriesDiffer(used, used_idx, n) /\ h \notin Entries(used, used_idx, n)
      BY <1>1, <2>1 DEF RingInv, Done
    <2>3. \A j \in Desc : used'[j] = IF j = (used_idx + n) % NUM THEN h ELSE used[j]
      <3>1. (usedIdx + 0) % NUM = (used_idx + Ahead(used_idx, usedIdx) + 0) % NUM
        BY <1>7, AheadSlot
      <3>2. usedIdx % NUM = (used_idx + n) % NUM
        BY <1>7, <1>8, <3>1
      <3>3. used \in [Desc -> Desc \cup {NULL}]
        BY <1>1 DEF TypeOK
      <3> HIDE DEF n
      <3> QED
        BY <1>6, <3>2, <3>3
    <2> HIDE DEF n
    <2>4. /\ Entries(used', used_idx, n + 1) = Entries(used, used_idx, n) \cup {h}
          /\ EntriesDiffer(used', used_idx, n + 1)
      <3>1. used_idx \in Int /\ n \in Nat /\ n < NUM
        BY <1>8
      <3>2. Entries(used', used_idx, n) = Entries(used, used_idx, n) /\ EntriesDiffer(used', used_idx, n)
        BY <2>2, <2>3, <3>1, EntriesUntouched
      <3>3. used'[(used_idx + n) % NUM] = h
        BY <2>3, <3>1, SlotType
      <3> QED
        BY <2>2, <3>1, <3>2, <3>3, EntriesAdd
    <2>5. /\ Done' = Done \cup {h} /\ Waiting' = Waiting
          /\ EntriesDiffer(used', used_idx', Ahead(used_idx', usedIdx'))
      BY <1>6, <1>9, <2>4, Zenon DEF Done, Waiting, n
    <2>6. Cardinality(inflight') = Ahead(usedIdx', seen')
      BY <1>6, <1>10, <1>11
    <2>7. {idx'[d][1] : d \in Published'} = {idx[d][1] : d \in Published}
      BY <1>6, <1>13
    <2> QED
      BY <1>1, <1>2, <1>6, <2>1, <2>5, <2>6, <2>7, Zenon DEF RingInv
  <1>19. DoneInv'
    <2>1. ASSUME NEW d \in Owners
          PROVE  /\ idx[d][1] \in Done' => info'[idx[d][1]].status = 0 /\ same'[d]
                 /\ ~busy[d] => same'[d]
      <3>1. d \in Buf /\ idx[d][1] \in Desc
        BY <1>1, OwnerFacts, Zenon
      <3>2. CASE d = b
        BY <1>3, <1>6, <1>14, <3>1, <3>2, Zenon
      <3>3. CASE d # b
        <4>1. idx[d][1] # h /\ same'[d] = same[d]
          BY <1>4, <1>6, <3>1, <3>3, Zenon
        <4> QED
          BY <1>1, <1>14, <1>18, <3>1, <4>1, Zenon DEF DoneInv
      <3> QED
        BY <3>2, <3>3, Zenon
    <2> QED
      BY <1>6, <1>13, <2>1, Zenon DEF DoneInv
  <1> QED
    BY <1>12, <1>15, <1>16, <1>17, <1>18, <1>19, Zenon DEF VirtioInv

\* The handler acknowledges what the used ring names: it is on record, and it
\* was transferred without an error.
LEMMA LoopKeeps ==
    ASSUME VirtioInv, IntrLoop
    PROVE  VirtioInv'
  <1> DEFINE n == Ahead(used_idx, usedIdx)
             m == Ahead(seen, availIdx)
             h == used[used_idx % NUM]
  <1>1. /\ TypeOK /\ OwnInv /\ ChainInv /\ CallInv /\ RingInv /\ DoneInv /\ ~panic
    BY DEF VirtioInv
  <1>2. lock = "intr" /\ used_idx # usedIdx
    BY Zenon DEF IntrLoop
  <1>3. /\ seen \in 0..(WRAP - 1) /\ availIdx \in 0..(WRAP - 1)
        /\ usedIdx \in 0..(WRAP - 1) /\ used_idx \in 0..(WRAP - 1)
    BY <1>1, Types
  <1>4. n \in Nat \ {0} /\ EntriesDiffer(used, used_idx, n)
    BY <1>1, <1>2, <1>3, AheadIs DEF RingInv
  <1>5. /\ h \in Entries(used, used_idx, n)
        /\ Entries(used, Inc(used_idx), n - 1) = Entries(used, used_idx, n) \ {h}
        /\ EntriesDiffer(used, Inc(used_idx), n - 1)
    <2> HIDE DEF n
    <2> QED
      BY <1>3, <1>4, EntriesDrop
  <1>6. h \in Done
    BY <1>5 DEF Done
  <1>7. PICK b \in Published : h = idx[b][1]
    <2> HIDE DEF h
    <2> QED
      BY <1>1, <1>6, Zenon DEF RingInv
  <1>8. b \in Owners /\ b \in Buf /\ h \in Desc /\ \A d \in Owners : idx[d][1] = h => d = b
    BY <1>1, <1>7, PublishedOwn, OwnerFacts, Zenon
  <1>9. info[h].status = 0 /\ info[h].b = b /\ same[b] /\ b # NULL
    BY <1>1, <1>6, <1>7, <1>8 DEF DoneInv, ChainInv
  <1>10. /\ busy' = [busy EXCEPT ![b] = FALSE]
         /\ pc' = [pc EXCEPT ![b] = IF @ = "sleep" THEN "woken" ELSE @]
         /\ used_idx' = Inc(used_idx)
         /\ avail' = [avail EXCEPT ![used_idx % NUM] = NULL]
         /\ used' = [used EXCEPT ![used_idx % NUM] = NULL]
         /\ UNCHANGED <<same, idx, free, desc, ops, info, availIdx, usedIdx, lock, panic,
                        seen, inflight, owed, irq>>
    BY <1>9 DEF IntrLoop, Completed, descVars, deviceVars
  <1>11. used_idx' \in 0..(WRAP - 1) /\ Ahead(used_idx', usedIdx) = n - 1
    BY <1>2, <1>3, <1>10, AheadShrinks, Zenon
  <1>12. /\ m \in Nat /\ n \in Nat /\ Ahead(usedIdx, seen) \in Nat
         /\ m + Ahead(usedIdx, seen) + n <= NUM - 2
    <2>1. /\ Ahead(seen, availIdx) \in 0..(WRAP - 1) /\ Ahead(usedIdx, seen) \in 0..(WRAP - 1)
          /\ Ahead(used_idx, usedIdx) \in 0..(WRAP - 1)
      BY <1>3, AheadIs, Zenon
    <2>2. Ahead(seen, availIdx) + Ahead(usedIdx, seen) + Ahead(used_idx, usedIdx) <= NUM - 2
      BY <1>8, OwnerLeavesRoom
    <2> QED
      BY <2>1, <2>2
  <1> HIDE DEF h, m, n
  <1>13. \A k \in 1..(NUM - 1) : (used_idx + k) % NUM # used_idx % NUM
    <2> TAKE k \in 1..(NUM - 1)
    <2>1. used_idx \in Int /\ used_idx + k \in Int /\ used_idx < used_idx + k /\ used_idx + k < used_idx + NUM
      BY <1>3
    <2> QED
      BY <2>1, SlotsDiffer, Zenon
  <1>14. used_idx % NUM \in Desc
    BY <1>3, SlotType
  <1>15. \A j \in Desc : j # used_idx % NUM => used'[j] = used[j] /\ avail'[j] = avail[j]
    BY <1>1, <1>10, <1>14 DEF TypeOK
  <1>16. /\ pc'[b] \in {"publish", "sleep", "woken"} /\ pc'[b] # "sleep" /\ pc[b] # "publish"
         /\ pc'[b] # "publish" /\ ~busy'[b]
         /\ \A d \in Buf : d # b => pc'[d] = pc[d] /\ busy'[d] = busy[d]
    BY <1>1, <1>7, <1>8, <1>10 DEF TypeOK, Owners, Published
  <1>17. Owners' = Owners /\ Published' = Published \ {b}
    BY <1>8, <1>16, Zenon DEF Owners, Published
  <1>18. TypeOK' /\ ~panic'
    <2>1. used' \in [Desc -> Desc \cup {NULL}] /\ avail' \in [Desc -> Desc \cup {NULL}]
      BY <1>1, <1>10, Zenon DEF TypeOK
    <2>2. busy' \in [Buf -> BOOLEAN]
      BY <1>1, <1>10, Zenon DEF TypeOK
    <2>3. pc' \in [Buf -> {"idle", "alloc", "alloc_sleep", "publish", "sleep", "woken"}]
      <3>1. pc \in [Buf -> {"idle", "alloc", "alloc_sleep", "publish", "sleep", "woken"}]
        BY <1>1, Zenon DEF TypeOK
      <3>2. pc' = [d \in Buf |-> pc'[d]]
        BY <1>10, <3>1, Zenon
      <3>3. \A d \in Buf : pc'[d] \in {"idle", "alloc", "alloc_sleep", "publish", "sleep", "woken"}
        BY <1>16, <3>1, Zenon
      <3> QED
        BY ONLY <3>2, <3>3, Zenon
    <2>4. {availIdx', usedIdx', used_idx', seen'} \subseteq 0..(WRAP - 1)
      BY <1>3, <1>10, <1>11, Zenon
    <2> QED
      BY <1>1, <1>10, <2>1, <2>2, <2>3, <2>4, Zenon DEF TypeOK
  <1>19. OwnInv'
    <2>1. \A d \in Buf : pc'[d] = "alloc_sleep" => pc[d] = "alloc_sleep"
      BY <1>16
    <2> QED
      BY <1>1, <1>10, <1>17, <2>1, OwnFrame
  <1>20. ChainInv'
    BY <1>1, <1>10, <1>17 DEF ChainInv
  <1>21. CallInv'
    <2>1. \A d \in Buf : pc[d] # "publish"
      BY <1>1, <1>2 DEF CallInv
    <2> QED
      BY <1>1, <1>8, <1>10, <1>16, <1>17, <2>1 DEF CallInv
  <1>22. RingInv' /\ Done' = Done \ {h}
    <2>1. \A k \in 0..((n - 1) - 1) : used'[(used_idx' + k) % NUM] = used[(used_idx' + k) % NUM]
      <3> TAKE k \in 0..((n - 1) - 1)
      <3>1. k \in Int /\ k + 1 \in 1..(NUM - 1) /\ used_idx \in 0..(WRAP - 1)
        BY <1>3, <1>12
      <3>2. (Inc(used_idx) + k) % NUM = (used_idx + 1 + k) % NUM
        BY <3>1, IncSlot
      <3>3. used_idx + 1 + k = used_idx + (k + 1)
        BY <3>1
      <3>4. (used_idx' + k) % NUM # used_idx % NUM
        BY <1>10, <1>13, <3>1, <3>2, <3>3, Zenon
      <3>5. used_idx' + k \in Int
        BY <1>11, <3>1
      <3>6. (used_idx' + k) % NUM \in Desc
        BY <3>5, SlotType
      <3> QED
        BY <1>15, <3>4, <3>6
    <2>2. \A k \in 0..(m - 1) : avail'[(seen + k) % NUM] = avail[(seen + k) % NUM]
      <3> TAKE k \in 0..(m - 1)
      <3> DEFINE l == Ahead(usedIdx, seen) + k
                 q == n + l
      <3>1. k \in Int /\ l \in Int /\ q \in 1..(NUM - 1)
        BY <1>4, <1>12
      <3>2. (seen + k) % NUM = (usedIdx + Ahead(usedIdx, seen) + k) % NUM
        BY <1>3, <3>1, AheadSlot, Zenon
      <3>3. (usedIdx + l) % NUM = (used_idx + n + l) % NUM
        <4> HIDE DEF l
        <4> QED
          BY <1>3, <3>1, AheadSlot, Zenon DEF n
      <3>4. /\ usedIdx + Ahead(usedIdx, seen) + k = usedIdx + l
            /\ used_idx + n + l = used_idx + q
        BY <1>3, <1>12, <3>1
      <3> HIDE DEF l, q
      <3>5. (seen + k) % NUM # used_idx % NUM
        BY <1>13, <3>1, <3>2, <3>3, <3>4, Zenon
      <3>6. seen + k \in Int
        BY <1>3, <3>1
      <3>7. (seen + k) % NUM \in Desc
        BY <3>6, SlotType
      <3> QED
        BY <1>15, <3>5, <3>7
    <2>3. n - 1 \in Nat /\ used_idx' \in Int /\ seen \in Int
      BY <1>3, <1>4, <1>11
    <2>4. /\ Entries(used', used_idx', n - 1) = Entries(used, used_idx', n - 1)
          /\ EntriesDiffer(used, used_idx', n - 1) => EntriesDiffer(used', used_idx', n - 1)
      BY <2>1, <2>3, EntriesSame, Zenon
    <2>5. /\ Entries(avail', seen, m) = Entries(avail, seen, m)
          /\ EntriesDiffer(avail, seen, m) => EntriesDiffer(avail', seen, m)
      BY <1>12, <2>2, <2>3, EntriesSame, Zenon
    <2>6. Done' = Done \ {h} /\ EntriesDiffer(used', used_idx', Ahead(used_idx', usedIdx'))
      BY <1>5, <1>10, <1>11, <2>4, Zenon DEF Done, n
    <2>7. Waiting' = Waiting /\ EntriesDiffer(avail', seen', Ahead(seen', availIdx'))
      BY <1>1, <1>10, <2>5, Zenon DEF Waiting, RingInv, m
    <2>8. {idx'[d][1] : d \in Published'} = {idx[d][1] : d \in Published} \ {h}
      <3>1. \A d \in Published : idx[d][1] = h <=> d = b
        BY <1>1, <1>7, <1>8, PublishedOwn, Zenon
      <3> QED
        BY <1>10, <1>17, <3>1, Zenon
    <2>9. h \notin Waiting /\ h \notin inflight
      BY <1>1, <1>6, Zenon DEF RingInv
    <2> QED
      BY <1>1, <1>10, <2>6, <2>7, <2>8, <2>9, Zenon DEF RingInv
  <1>23. DoneInv'
    BY <1>1, <1>8, <1>9, <1>10, <1>16, <1>17, <1>22 DEF DoneInv, Owners
  <1> QED
    BY <1>18, <1>19, <1>20, <1>21, <1>22, <1>23, Zenon DEF VirtioInv

\* A call that returns frees exactly its own chain, and wakes whoever waits.
LEMMA FinishKeeps ==
    ASSUME NEW b \in Buf, VirtioInv, Finish(b)
    PROVE  VirtioInv'
  <1> DEFINE h == idx[b][1]
  <1>1. /\ TypeOK /\ OwnInv /\ ChainInv /\ CallInv /\ RingInv /\ DoneInv /\ ~panic
        /\ pc \in [Buf -> {"idle", "alloc", "alloc_sleep", "publish", "sleep", "woken"}]
    BY DEF VirtioInv, TypeOK
  <1>2. /\ pc[b] = "woken" /\ b \in Owners
        /\ UNCHANGED <<same, busy, avail, availIdx, used, usedIdx, used_idx, lock,
                       seen, inflight, owed, irq>>
    BY Zenon DEF Finish, Owners, deviceVars
  <1>3. /\ Chain(h) = DescsOf(b) /\ DescsOf(b) \cap free = {} /\ h \in Desc
        /\ h \in DescsOf(b) /\ DescsOf(b) \subseteq Desc
    BY <1>1, <1>2, OwnerFacts, Zenon DEF DescsOf
  <1>4. CASE busy[b] /\ pc' = [pc EXCEPT ![b] = "sleep"] /\ UNCHANGED <<idx, descVars, info, panic>>
    <2>1. UNCHANGED <<idx, free, desc, ops, info, panic>>
      BY <1>4 DEF descVars
    <2>2. Owners' = Owners /\ Published' = Published
      BY <1>1, <1>2, <1>4, Zenon DEF Owners, Published
    <2>3. TypeOK' /\ ~panic'
      BY <1>1, <1>2, <1>4, <2>1 DEF TypeOK
    <2>4. \A d \in Buf : pc'[d] = "alloc_sleep" => pc[d] = "alloc_sleep"
      BY <1>1, <1>4
    <2>5. OwnInv'
      BY <1>1, <2>1, <2>2, <2>4, OwnFrame, Zenon
    <2>6. ChainInv'
      BY <1>1, <2>1, <2>2, Zenon DEF ChainInv
    <2>7. CallInv'
      BY <1>1, <1>2, <1>4, <2>1, <2>2, Zenon DEF CallInv
    <2>8. RingInv' /\ Done' = Done
      BY <1>1, <1>2, <2>1, <2>2, RingFrame, Zenon
    <2>9. DoneInv'
      BY <1>1, <1>2, <2>1, <2>2, <2>8, Zenon DEF DoneInv
    <2> QED
      BY <2>3, <2>5, <2>6, <2>7, <2>8, <2>9 DEF VirtioInv
  <1>5. CASE /\ ~busy[b]
             /\ info' = [info EXCEPT ![h].b = NULL]
             /\ desc' = [i \in Desc |-> IF i \in DescsOf(b) THEN NoDesc ELSE desc[i]]
             /\ ops' = [ops EXCEPT ![h] = NULL]
             /\ free' = free \cup DescsOf(b)
             /\ pc' = WakeAlloc([pc EXCEPT ![b] = "idle"])
             /\ idx' = [idx EXCEPT ![b] = <<0, 0, 0>>]
             /\ UNCHANGED panic
    <2>1. /\ pc'[b] = "idle" /\ \A d \in Buf : pc'[d] # "alloc_sleep"
          /\ \A d \in Buf : d # b => /\ pc[d] # "alloc_sleep" => pc'[d] = pc[d]
                                     /\ pc[d] = "alloc_sleep" => pc'[d] = "alloc"
          /\ pc' \in [Buf -> {"idle", "alloc", "alloc_sleep", "publish", "sleep", "woken"}]
      BY <1>1, <1>5 DEF WakeAlloc
    <2>2. Owners' = Owners \ {b} /\ Published' = Published /\ b \notin Published
      <3>1. Owners' = Owners \ {b}
        BY <2>1 DEF Owners
      <3>2. Published \subseteq Owners
        BY <1>1, PublishedOwn
      <3> QED
        BY <1>2, <1>5, <2>1, <3>1, <3>2, Zenon DEF Published, Owners
    <2>3. \A d \in Owners : d \in Buf
      BY Zenon DEF Owners
    <2>4. \A d \in Owners \ {b} : /\ idx'[d] = idx[d] /\ DescsOf(d)' = DescsOf(d)
                                  /\ DescsOf(d) \cap DescsOf(b) = {} /\ DescsOf(d) \subseteq Desc
      <3>1. \A d \in Owners \ {b} : idx'[d] = idx[d]
        BY <1>1, <1>5, <2>3 DEF TypeOK
      <3>2. \A d \in Owners \ {b} : DescsOf(d) \cap DescsOf(b) = {} /\ DescsOf(d) \subseteq Desc
        BY <1>1, <1>2, <2>3, Types, Zenon DEF OwnInv
      <3> QED
        BY <3>1, <3>2 DEF DescsOf
    <2>5. \A d \in Owners \ {b} : \A i \in DescsOf(d) :
              desc'[i] = desc[i] /\ ops'[i] = ops[i] /\ info'[i] = info[i]
      BY <1>1, <1>3, <1>5, <2>4 DEF TypeOK
    <2>6. TypeOK' /\ ~panic'
      <3>1. info' \in [Desc -> [b : Buf \cup {NULL}, status : {0, 255}]]
        <4>1. info \in [Desc -> [b : Buf \cup {NULL}, status : {0, 255}]]
          BY <1>1 DEF TypeOK
        <4>2. info' = [info EXCEPT ![h] = [info[h] EXCEPT !.b = NULL]]
          BY <1>3, <1>5, <4>1
        <4>3. [info[h] EXCEPT !.b = NULL] \in [b : Buf \cup {NULL}, status : {0, 255}]
          BY <1>3, <4>1
        <4> QED
          BY <4>1, <4>2, <4>3, Zenon
      <3>2. desc' \in [Desc -> [addr : Buf \cup Desc \cup {NULL}, next : Desc \cup {NULL}]]
        BY <1>1, <1>5 DEF TypeOK, NoDesc
      <3>3. ops' \in [Desc -> Buf \cup {NULL}] /\ free' \subseteq Desc
        BY <1>1, <1>3, <1>5 DEF TypeOK
      <3>4. idx' \in [Buf -> Desc \X Desc \X Desc]
        <4>1. <<0, 0, 0>> \in Desc \X Desc \X Desc
          BY DEF Desc
        <4> QED
          BY <1>1, <1>5, <4>1 DEF TypeOK
      <3> QED
        BY <1>1, <1>2, <1>5, <2>1, <3>1, <3>2, <3>3, <3>4, Zenon DEF TypeOK
    <2>7. OwnInv'
      <3>1. free' = {i \in Desc : \A d \in Owners' : i \notin DescsOf(d)'}
        <4>1. free = {i \in Desc : \A d \in Owners : i \notin DescsOf(d)}
          BY <1>1, Zenon DEF OwnInv
        <4> QED
          BY <1>2, <1>3, <1>5, <2>2, <2>4, <4>1
      <3>2. \A d, e \in Owners' : d # e => DescsOf(d)' \cap DescsOf(e)' = {}
        BY <1>1, <2>2, <2>4, Zenon DEF OwnInv
      <3> QED
        BY <2>1, <3>1, <3>2 DEF OwnInv
    <2>8. ChainInv'
      <3>1. \A d \in Owners \ {b} : {idx[d][1], idx[d][2], idx[d][3]} \subseteq DescsOf(d)
        BY Zenon DEF DescsOf
      <3>2. ASSUME NEW d \in Owners \ {b}
            PROVE  /\ idx'[d][1] # idx'[d][2] /\ idx'[d][1] # idx'[d][3] /\ idx'[d][2] # idx'[d][3]
                   /\ desc'[idx'[d][1]].next = idx'[d][2]
                   /\ desc'[idx'[d][2]].next = idx'[d][3] /\ desc'[idx'[d][2]].addr = d
                   /\ desc'[idx'[d][3]].addr = idx'[d][1]
                   /\ ops'[idx'[d][1]] = d /\ info'[idx'[d][1]].b = d
        BY <1>1, <2>4, <2>5, <3>1 DEF ChainInv
      <3> QED
        BY <2>2, <3>2 DEF ChainInv
    <2>9. CallInv'
      <3>1. ASSUME NEW d \in Buf, d # b
            PROVE  /\ busy[d] => d \in Owners'
                   /\ pc'[d] = "sleep" => busy[d]
                   /\ pc'[d] = "publish" => /\ busy[d] /\ lock = d
                                            /\ avail[availIdx % NUM] = idx[d][1] /\ d \in Owners
        BY <1>1, <2>1, <2>2, <3>1 DEF CallInv, Owners
      <3>2. /\ busy'[b] => b \in Owners'
            /\ pc'[b] # "sleep" /\ pc'[b] # "publish"
        BY <1>2, <1>5, <2>1, Zenon
      <3> QED
        <4>1. UNCHANGED <<lock, avail, availIdx>> /\ b \in Buf
              /\ \A d \in Buf \ {b} : busy'[d] = busy[d]
          BY <1>2, <1>5, <2>1, Zenon
        <4>2. \A d \in Owners \ {b} : idx'[d] = idx[d]
          BY <2>4, Zenon
        <4> QED
          BY ONLY <3>1, <3>2, <4>1, <4>2 DEF CallInv
    <2>10. RingInv' /\ Done' = Done
      <3>1. \A d \in Published : idx'[d] = idx[d]
        BY <1>1, <2>2, <2>4, PublishedOwn, Zenon
      <3> QED
        BY <1>1, <1>2, <2>2, <3>1, RingFrame, Zenon
    <2>11. DoneInv'
      <3>1. \A d \in Owners \ {b} : info'[idx[d][1]] = info[idx[d][1]]
        BY <2>5 DEF DescsOf
      <3> QED
        BY <1>1, <1>2, <2>2, <2>4, <2>10, <3>1 DEF DoneInv
    <2> QED
      BY <2>6, <2>7, <2>8, <2>9, <2>10, <2>11 DEF VirtioInv
  <1>6. ~(~busy[b] /\ Chain(h) \cap free # {})
    BY <1>3
  <1> QED
    BY <1>3, <1>4, <1>5, <1>6 DEF Finish, StillBusy

\* Every step of the driver, of its interrupt handler and of the device.
LEMMA VirtioStep == VirtioInv /\ [Next]_vars => VirtioInv'
  <1> SUFFICES ASSUME VirtioInv, [Next]_vars PROVE VirtioInv'
    OBVIOUS
  <1>1. CASE \E b \in Buf : Call(b) \/ Step(b) \/ Kill(b)
    BY <1>1, CallKeeps, FormatKeeps, AllocSleepKeeps, PublishKeeps, FinishKeeps, KillKeeps, Zenon DEF Step
  <1>2. CASE Intr
    BY <1>2, QuietKeeps, LoopKeeps DEF Intr
  <1>3. CASE Device
    BY <1>3, QuietKeeps, FetchKeeps DEF Device
  <1>4. CASE \E h \in Desc : DeviceComplete(h)
    BY <1>4, CompleteKeeps, Zenon
  <1>5. CASE UNCHANGED vars
    <2> USE <1>5 DEF vars
    <2>1. TypeOK' /\ ~panic'
      BY DEF VirtioInv, TypeOK
    <2>2. Owners' = Owners /\ Published' = Published
      BY DEF Owners, Published
    <2>3. OwnInv'
      BY <2>2, OwnFrame, Zenon DEF VirtioInv
    <2>4. ChainInv' /\ CallInv'
      BY <2>2 DEF VirtioInv, ChainInv, CallInv
    <2>5. RingInv' /\ Done' = Done
      BY <2>2, RingFrame, Zenon DEF VirtioInv
    <2>6. DoneInv'
      BY <2>2, <2>5 DEF VirtioInv, DoneInv
    <2> QED
      BY <2>1, <2>3, <2>4, <2>5, <2>6, Zenon DEF VirtioInv
  <1> QED
    BY <1>1, <1>2, <1>3, <1>4, <1>5 DEF Next

-----------------------------------------------------------------------------
\* The inductive invariant of virtio_disk.c holds for any number of buffers, any
\* number of descriptors from three on, and any indices that wrap around at a
\* multiple of it: every published request is in the avail ring, in the device
\* or in the used ring, once, and its chain is what virtio_disk_rw() built.
THEOREM VirtioSafety == Spec => []VirtioInv
  BY VirtioInit, VirtioStep, PTL DEF Spec

\* alloc3_desc() and free_chain() neither leak nor share a descriptor, the
\* device works for calls that wait for it, nobody sleeps for descriptors that
\* are free, and none of the panics of virtio_disk.c is reached.
THEOREM DescriptorsNeverShared == Spec => []DescriptorsOwned
  <1>1. VirtioInv => DescriptorsOwned
    <2> SUFFICES ASSUME VirtioInv PROVE DescriptorsOwned
      OBVIOUS
    <2>1. TypeOK /\ ~panic /\ OwnInv /\ CallInv /\ RingInv
      BY DEF VirtioInv
    <2>2. free = Desc \ UNION {DescsOf(b) : b \in Owners}
      BY <2>1 DEF OwnInv
    <2>3. \A h \in inflight : \E b \in Owners : idx[b][1] = h /\ busy[b]
      <3>1. ASSUME NEW h \in inflight
            PROVE  \E b \in Published : idx[b][1] = h
        BY <2>1 DEF RingInv
      <3> QED
        BY <2>1, <3>1, PublishedOwn, Zenon DEF Published
    <2> QED
      BY <2>1, <2>2, <2>3, Zenon DEF DescriptorsOwned, OwnInv
  <1> QED
    BY <1>1, VirtioSafety, PTL

\* virtio_disk_rw() returns only when its own transfer is done, whichever
\* completions and kills woke it.
THEOREM ReturnsAfterTransfer == Spec => TransferDone
  <1>1. ASSUME VirtioInv, [Next]_vars
        PROVE  [\A b \in Buf : pc[b] = "woken" /\ pc'[b] = "idle" => same[b]]_vars
    <2> SUFFICES ASSUME Next, NEW b \in Buf, pc[b] = "woken", pc'[b] = "idle"
                 PROVE  same[b]
      BY <1>1, Zenon
    <2>1. pc \in [Buf -> {"idle", "alloc", "alloc_sleep", "publish", "sleep", "woken"}]
      BY <1>1 DEF VirtioInv, TypeOK
    <2>2. Finish(b)
      <3>1. ASSUME NEW d \in Buf, Call(d) \/ Format(d) \/ AllocSleep(d) \/ Publish(d) \/ Kill(d)
            PROVE  pc'[b] # "idle"
        <4>1. CASE ~AllocSleep(d)
          <5>1. \E v \in {"alloc", "publish", "sleep", "woken"} : pc' = [pc EXCEPT ![d] = v]
            BY <3>1, <4>1, Zenon DEF Call, Format, Publish, Kill
          <5> QED
            BY ONLY <2>1, <5>1, b \in Buf, d \in Buf, pc[b] = "woken"
        <4>2. CASE AllocSleep(d)
          <5>1. \/ pc' = [pc EXCEPT ![d] = "alloc_sleep"]
                \/ pc' = [WakeAlloc(pc) EXCEPT ![d] = "alloc_sleep"]
            BY <4>2, Zenon DEF AllocSleep
          <5> QED
            BY ONLY <2>1, <5>1, b \in Buf, d \in Buf, pc[b] = "woken", Zenon DEF WakeAlloc
        <4> QED
          BY <4>1, <4>2, Zenon
      <3>2. ASSUME NEW d \in Buf, Finish(d), d # b
            PROVE  pc'[b] # "idle"
        BY <2>1, <3>2 DEF Finish, WakeAlloc, callVars
      <3>3. ASSUME Intr \/ Device PROVE pc'[b] # "idle"
        BY <2>1, <3>3 DEF Intr, IntrAck, IntrLoop, IntrDone, Device, DeviceFetch, DeviceInterrupt, callVars
      <3>4. ASSUME NEW h \in Desc, DeviceComplete(h) PROVE pc'[b] # "idle"
        BY <2>1, <3>4, Zenon DEF DeviceComplete, callVars
      <3> QED
        BY <3>1, <3>2, <3>3, <3>4 DEF Next, Step
    <2>3. ~busy[b]
      BY <2>1, <2>2 DEF Finish, StillBusy, callVars
    <2>4. b \in Owners
      BY DEF Owners
    <2> QED
      BY <1>1, <2>3, <2>4 DEF VirtioInv, DoneInv
  <1> QED
    BY <1>1, VirtioSafety, PTL DEF Spec, TransferDone
=============================================================================
