------------------------- MODULE YdrasilCtrlProofs -------------------------
(***************************************************************************)
(* Proofs about the reorder buffer of YdrasilCtrl, for every number of     *)
(* producer slots, every register set and every set of uops.               *)
(*                                                                         *)
(* The hypothesis []SquashedResultRejected is what the comment at          *)
(* ydrasil_ex_block.sv:122-124 promises of the divider; the run ctrl_stale *)
(* shows that the 1-bit epoch alone does not keep that promise.  A program *)
(* that squashes no division satisfies it (SquashedNever).                 *)
(***************************************************************************)
EXTENDS YdrasilCtrl, SequenceTheorems, TLAPS

(***************************************************************************)
(* Ring arithmetic.                                                        *)
(***************************************************************************)
Off(h, s) == IF s >= h THEN s - h ELSE s - h + PRODUCER_NUM

\* Moving at most one lap forward from a slot ends on a slot.
LEMMA PlusType ==
    ASSUME NEW s \in Slots, NEW k \in 0 .. PRODUCER_NUM
    PROVE  Plus(s, k) \in Slots
BY CtrlAssumption DEF Plus, Slots

\* Offsets are below PRODUCER_NUM and lead back to their slot.
LEMMA OffType ==
    ASSUME NEW h \in Slots, NEW s \in Slots
    PROVE  Off(h, s) \in 0 .. PRODUCER_NUM - 1 /\ Plus(h, Off(h, s)) = s
BY CtrlAssumption DEF Off, Plus, Slots

\* A slot k places past h has offset k.
LEMMA OffPlus ==
    ASSUME NEW h \in Slots, NEW k \in 0 .. PRODUCER_NUM - 1
    PROVE  Off(h, Plus(h, k)) = k
BY CtrlAssumption DEF Off, Plus, Slots

\* Offsets seen from c places further on.
LEMMA OffShift ==
    ASSUME NEW h \in Slots, NEW s \in Slots, NEW c \in 0 .. PRODUCER_NUM
    PROVE  Off(Plus(h, c), s) = IF Off(h, s) >= c THEN Off(h, s) - c
                                ELSE Off(h, s) - c + PRODUCER_NUM
BY CtrlAssumption DEF Off, Plus, Slots

\* Two moves compose.
LEMMA PlusPlus ==
    ASSUME NEW h \in Slots, NEW c \in Nat, NEW k \in Nat,
           c + k <= PRODUCER_NUM
    PROVE  Plus(Plus(h, c), k) = Plus(h, c + k)
BY CtrlAssumption DEF Plus, Slots

\* Offset is Off from the head.
LEMMA OffsetOff == \A s : Offset(s) = Off(queue_head, s)
BY DEF Offset, Off

(***************************************************************************)
(* Identities.                                                             *)
(***************************************************************************)

\* The id of a slot is a producer id, and differs from the id of another.
LEMMA IdType ==
    ASSUME TypeOK, NEW s \in Slots
    PROVE  /\ Id(s) \in ProducerId /\ Id(s) # NoId
           /\ Id(s).slot = s /\ Id(s).epoch = producer_epoch[s]
           /\ \A b \in Slots : Id(s) = Id(b) => s = b
BY NoIdAssumption DEF TypeOK, Id, ProducerId

\* A live id is the id of its slot.
LEMMA LiveIsId ==
    ASSUME TypeOK, NEW id \in MaybeId, Live(id)
    PROVE  id.slot \in Slots /\ producer_valid[id.slot] /\ id = Id(id.slot)
BY DEF TypeOK, Live, Id, MaybeId, ProducerId

(***************************************************************************)
(* Retirement.                                                             *)
(***************************************************************************)

\* The commits of a cycle take the oldest CommitCount slots.
LEMMA CommitWindow ==
    ASSUME TypeOK, RingInv
    PROVE  /\ CommitCount \in 0 .. 2 /\ CommitCount <= queue_count
           /\ bru.redirect => CommitCount <= 1
           /\ HeadAfterCommit = Plus(queue_head, CommitCount)
           /\ \A s \in Slots : Retires(s) <=> Off(queue_head, s) < CommitCount
<1>1. queue_head \in Slots /\ queue_count \in 0 .. PRODUCER_NUM
  BY DEF TypeOK
<1>2. \A s \in Slots : /\ Off(queue_head, s) = 0 <=> s = queue_head
                       /\ Off(queue_head, s) = 1 <=> s = Head1
                       /\ Off(queue_head, s) \in Nat
  BY <1>1, CtrlAssumption DEF Off, Slots, Head1, Plus
<1>3. HeadAfterCommit = Plus(queue_head, CommitCount)
  BY <1>1, CtrlAssumption
     DEF HeadAfterCommit, CommitCount, Head1, Head2, Plus, Slots
<1>4. /\ CommitCount \in 0 .. 2 /\ CommitCount <= queue_count
      /\ bru.redirect => CommitCount <= 1
  BY <1>1 DEF CommitCount, Commit0, Commit1
<1>5. ASSUME NEW s \in Slots
      PROVE  Retires(s) <=> Off(queue_head, s) < CommitCount
  <2>1. CASE Commit1
    BY <2>1, <1>2 DEF Retires, CommitCount, Commit1
  <2>2. CASE ~Commit1 /\ Commit0
    BY <2>2, <1>2 DEF Retires, CommitCount
  <2>3. CASE ~Commit1 /\ ~Commit0
    BY <2>3, <1>2 DEF Retires, CommitCount
  <2> QED BY <2>1, <2>2, <2>3
<1> QED BY <1>3, <1>4, <1>5

\* What retires has executed, or is a branch retiring in the cycle of its own
\* resolution.
LEMMA RetiredIsExecuted ==
    ASSUME IndInv, NEW s \in Slots, Retires(s)
    PROVE  producer_valid[s] /\ (executed[s] \/ bru.id = Id(s))
<1>1. TypeOK /\ DoneIsOwn /\ DueIsResolving
  BY DEF IndInv
<1>2. CASE Commit0 /\ s = queue_head
  <2>1. producer_valid[s] /\ (producer_done[s] \/ HeadBranchDue)
    BY <1>2 DEF Commit0
  <2>2. CASE producer_done[s]
    BY <1>1, <2>1, <2>2 DEF DoneIsOwn
  <2>3. CASE HeadBranchDue
    BY <1>1, <1>2, <2>1, <2>3, IdType DEF HeadBranchDue, DueIsResolving
  <2> QED BY <2>1, <2>2, <2>3
<1>3. CASE Commit1 /\ s = Head1
  BY <1>1, <1>3 DEF Commit1, DoneIsOwn
<1> QED BY <1>2, <1>3 DEF Retires

(***************************************************************************)
(* Dispatch.                                                               *)
(***************************************************************************)

\* A batch holds at most two uops.
LEMMA BatchType ==
    ASSUME NEW alloc \in Allocations
    PROVE  /\ Len(alloc) \in 0 .. 2
           /\ \A i \in 1 .. Len(alloc) : alloc[i] \in Uops
<1>1. CASE alloc = <<>>
  BY <1>1
<1>2. ASSUME NEW u \in Uops, alloc = <<u>>
      PROVE  Len(alloc) = 1 /\ alloc[1] \in Uops
  BY <1>2
<1>3. ASSUME NEW u \in Uops, NEW v \in Uops, alloc = <<u, v>>
      PROVE  Len(alloc) = 2 /\ alloc[1] \in Uops /\ alloc[2] \in Uops
  BY <1>3
<1>4. CASE \E u \in Uops : alloc = <<u>>
  BY <1>2, <1>4
<1>5. CASE \E u, v \in Uops : alloc = <<u, v>>
  BY <1>3, <1>5
<1> QED BY <1>1, <1>4, <1>5 DEF Allocations

\* An accepted batch fits, and takes the free slots next to the tail.
LEMMA AllocWindow ==
    ASSUME TypeOK, RingInv, NEW alloc \in Allocations, MayDispatch(alloc)
    PROVE  /\ queue_count + Len(alloc) <= PRODUCER_NUM
           /\ Len(alloc) # 0 => ~serial_pending
           /\ \A s \in Slots :
                 Allocs(alloc, s) <=>
                    /\ queue_count <= Off(queue_head, s)
                    /\ Off(queue_head, s) < queue_count + Len(alloc)
           /\ \A s \in Slots : Allocs(alloc, s) => ~producer_valid[s]
<1>1. queue_head \in Slots /\ queue_count \in 0 .. PRODUCER_NUM
  BY DEF TypeOK
<1>2. Len(alloc) \in 0 .. 2
  BY BatchType
<1>3. /\ queue_count + Len(alloc) <= PRODUCER_NUM
      /\ Len(alloc) # 0 => ~serial_pending
  <2>1. CASE Len(alloc) = 0
    BY <1>1, <2>1, CtrlAssumption
  <2>2. CASE Len(alloc) = 1
    BY <1>1, <2>2, CtrlAssumption DEF MayDispatch, DispatchReady
  <2>3. CASE Len(alloc) = 2
    BY <1>1, <2>3, CtrlAssumption DEF MayDispatch, DispatchTwoReady
  <2> QED BY <1>2, <2>1, <2>2, <2>3
<1>4. ASSUME NEW s \in Slots
      PROVE  Allocs(alloc, s) <=>
                /\ queue_count <= Off(queue_head, s)
                /\ Off(queue_head, s) < queue_count + Len(alloc)
  <2>1. ASSUME NEW i \in 1 .. Len(alloc)
        PROVE  AllocSlot(i) = Plus(queue_head, queue_count + (i - 1))
    <3>1. /\ i - 1 \in Nat /\ queue_count \in Nat
          /\ queue_count + (i - 1) <= PRODUCER_NUM
      BY <1>1, <1>2, <1>3, CtrlAssumption
    <3>2. Plus(Plus(queue_head, queue_count), i - 1)
             = Plus(queue_head, queue_count + (i - 1))
      BY <1>1, <3>1, PlusPlus
    <3> QED BY <3>2 DEF AllocSlot, RingInv
  <2>2. \A i \in 1 .. Len(alloc) :
           s = AllocSlot(i) <=> Off(queue_head, s) = queue_count + (i - 1)
    BY <1>1, <1>2, <1>3, <2>1, CtrlAssumption, SMTT(30) DEF Off, Plus, Slots
  <2>3. Off(queue_head, s) \in 0 .. PRODUCER_NUM - 1
    BY <1>1, OffType
  <2>4. ASSUME Allocs(alloc, s)
        PROVE  /\ queue_count <= Off(queue_head, s)
               /\ Off(queue_head, s) < queue_count + Len(alloc)
    <3>1. PICK i \in 1 .. Len(alloc) : s = AllocSlot(i)
      BY <2>4 DEF Allocs
    <3>2. Off(queue_head, s) = queue_count + (i - 1)
      BY <2>2, <3>1
    <3> QED BY <1>1, <1>2, <3>1, <3>2
  <2>5. ASSUME queue_count <= Off(queue_head, s),
               Off(queue_head, s) < queue_count + Len(alloc)
        PROVE  Allocs(alloc, s)
    <3> DEFINE i == Off(queue_head, s) - queue_count + 1
    <3>1. i \in 1 .. Len(alloc) /\ Off(queue_head, s) = queue_count + (i - 1)
      BY <1>1, <1>2, <2>3, <2>5
    <3> HIDE DEF i
    <3>2. s = AllocSlot(i)
      BY <2>2, <3>1
    <3> QED BY <3>1, <3>2 DEF Allocs
  <2> QED BY <2>4, <2>5
<1>5. ASSUME NEW s \in Slots, Allocs(alloc, s)
      PROVE  ~producer_valid[s]
  BY <1>1, <1>4, <1>5, OffsetOff, OffType DEF RingInv
<1> QED BY <1>3, <1>4, <1>5

(***************************************************************************)
(* Recovery.  Ports is the contract under which Next takes a Cycle.        *)
(***************************************************************************)
FenceAtHead == /\ producer_valid[queue_head] /\ ~executed[queue_head]
               /\ uop[queue_head].kind = "fence"
Ports(alloc, x, fence) ==
    /\ alloc \in Allocations /\ MayDispatch(alloc) /\ x \in Executions
    /\ bru.redirect => alloc = <<>>
    /\ fence # NoId => /\ alloc = <<>> /\ x = {} /\ ~bru.redirect
                       /\ fence = Id(queue_head) /\ FenceAtHead

\* Nothing retires in the cycle of a fence.
LEMMA FenceCommits ==
    ASSUME IndInv, FenceAtHead
    PROVE  CommitCount = 0
<1>1. TypeOK /\ RingInv /\ ResolvingBranchInRob /\ queue_head \in Slots
  BY DEF IndInv, TypeOK
<1>2. bru.id # Id(queue_head)
  BY <1>1, IdType DEF ResolvingBranchInRob, FenceAtHead, Branch
<1>3. ~Retires(queue_head)
  BY <1>1, <1>2, RetiredIsExecuted DEF FenceAtHead
<1>4. ~Commit0
  BY <1>3 DEF Retires
<1> QED BY <1>4 DEF CommitCount, Commit1

\* A recovery keeps the slots from the head up to the recovering uop, which
\* is in flight, and the commits of that cycle lie within them.
LEMMA RecoveryWindow ==
    ASSUME IndInv, NEW alloc, NEW x, NEW fence, Ports(alloc, x, fence),
           RecoveryEvent(fence)
    PROVE  LET b == RecoverySlot(fence) IN
           /\ alloc = <<>>
           /\ b \in Slots /\ producer_valid[b]
           /\ RecoveryNext(fence) = Plus(queue_head, Off(queue_head, b) + 1)
           /\ RecoveryCountBeforeCommit(fence) = Off(queue_head, b) + 1
           /\ CommitCount <= Off(queue_head, b) + 1
           /\ \A s \in Slots : InRecoveryWindow(fence, s) <=>
                                Off(queue_head, s) <= Off(queue_head, b)
<1> DEFINE b == RecoverySlot(fence)
<1>1. TypeOK /\ RingInv /\ ResolvingBranchInRob /\ queue_head \in Slots
      /\ bru.id \in MaybeId
  BY DEF IndInv, TypeOK
<1>2. alloc = <<>> /\ b \in Slots /\ producer_valid[b] /\ CommitCount <= 1
  <2>1. CASE fence # NoId
    <3>1. FenceAtHead /\ fence = Id(queue_head) /\ alloc = <<>>
      BY <2>1 DEF Ports
    <3>2. Live(fence) /\ fence.slot = queue_head
      BY <1>1, <3>1, IdType DEF Live, FenceAtHead
    <3>3. b = queue_head
      BY <3>2 DEF RecoverySlot
    <3> QED BY <1>1, <3>1, <3>3, FenceCommits DEF FenceAtHead
  <2>2. CASE fence = NoId
    <3>1. ~Live(fence) /\ bru.redirect /\ Live(bru.id)
      BY <2>2 DEF RecoveryEvent, BranchLive, Live
    <3>2. b = bru.id.slot
      BY <3>1 DEF RecoverySlot
    <3>3. b \in Slots /\ producer_valid[b]
      BY <1>1, <3>1, <3>2, LiveIsId
    <3>4. CommitCount <= 1
      BY <1>1, <3>1, CommitWindow
    <3> QED BY <3>1, <3>3, <3>4 DEF Ports
  <2> QED BY <2>1, <2>2
<1> HIDE DEF b
<1>3. /\ Plus(b, 1) = Plus(queue_head, Off(queue_head, b) + 1)
      /\ IF Plus(b, 1) = queue_head THEN Off(queue_head, b) + 1 = PRODUCER_NUM
         ELSE IF Plus(b, 1) > queue_head
         THEN Off(queue_head, b) + 1 = Plus(b, 1) - queue_head
         ELSE Off(queue_head, b) + 1 = PRODUCER_NUM - queue_head + Plus(b, 1)
  BY <1>1, <1>2, CtrlAssumption DEF Plus, Off, Slots
<1>4. ASSUME NEW s \in Slots
      PROVE  (IF queue_head > b THEN s >= queue_head \/ s <= b
              ELSE s >= queue_head /\ s <= b)
                <=> Off(queue_head, s) <= Off(queue_head, b)
  BY <1>1, <1>2, CtrlAssumption DEF Off, Slots
<1>5. Off(queue_head, b) \in Nat
  BY <1>1, <1>2, OffType
<1>6. CommitCount <= Off(queue_head, b) + 1
  BY <1>1, <1>2, <1>5, CommitWindow
<1>7. RecoveryNext(fence) = Plus(b, 1)
  BY DEF RecoveryNext, b
<1>8. RecoveryCountBeforeCommit(fence) = Off(queue_head, b) + 1
  BY <1>3, <1>7 DEF RecoveryCountBeforeCommit
<1>9. \A s \in Slots : InRecoveryWindow(fence, s) <=>
                        Off(queue_head, s) <= Off(queue_head, b)
  BY <1>4 DEF InRecoveryWindow, b
<1> QED BY <1>2, <1>3, <1>6, <1>7, <1>8, <1>9 DEF b

\* A cycle leaves a window of slots: the old one without what retires, with
\* what is dispatched, or cut behind the recovering uop.
LEMMA CycleRing ==
    ASSUME IndInv, NEW alloc, NEW x, NEW fin, NEW fence,
           Ports(alloc, x, fence), Cycle(alloc, x, fin, fence)
    PROVE  /\ queue_head' \in Slots /\ queue_tail' \in Slots
           /\ queue_count' \in 0 .. PRODUCER_NUM
           /\ queue_tail' = Plus(queue_head', queue_count')
           /\ \A s \in Slots : producer_valid'[s] <=>
                                  Off(queue_head', s) < queue_count'
<1>1. TypeOK /\ RingInv /\ queue_head \in Slots
      /\ queue_count \in 0 .. PRODUCER_NUM
  BY DEF IndInv, TypeOK
<1>2. /\ CommitCount \in 0 .. 2 /\ CommitCount <= queue_count
      /\ CommitCount \in 0 .. PRODUCER_NUM
      /\ HeadAfterCommit = Plus(queue_head, CommitCount)
      /\ \A s \in Slots : Retires(s) <=> Off(queue_head, s) < CommitCount
  BY <1>1, CommitWindow, CtrlAssumption
<1>3. queue_head' = Plus(queue_head, CommitCount) /\ queue_head' \in Slots
  BY <1>1, <1>2, PlusType DEF Cycle, QueueStep
<1>4. \A s \in Slots : /\ Off(queue_head, s) \in 0 .. PRODUCER_NUM - 1
                       /\ Off(queue_head', s) =
                            IF Off(queue_head, s) >= CommitCount
                            THEN Off(queue_head, s) - CommitCount
                            ELSE Off(queue_head, s) - CommitCount
                                    + PRODUCER_NUM
  BY <1>1, <1>2, <1>3, OffType, OffShift
<1>5. \A s \in Slots : producer_valid[s] <=> Off(queue_head, s) < queue_count
  BY <1>1, OffsetOff DEF RingInv
<1>6. CASE ~RecoveryEvent(fence)
  <2>1. alloc \in Allocations /\ MayDispatch(alloc)
    BY DEF Ports
  <2>2. /\ queue_count + Len(alloc) <= PRODUCER_NUM
        /\ Len(alloc) \in 0 .. 2
        /\ \A s \in Slots :
              Allocs(alloc, s) <=>
                 /\ queue_count <= Off(queue_head, s)
                 /\ Off(queue_head, s) < queue_count + Len(alloc)
    BY <1>1, <2>1, AllocWindow, BatchType
  <2>3. /\ queue_tail' = Plus(Plus(queue_head, queue_count), Len(alloc))
        /\ queue_count' = queue_count + Len(alloc) - CommitCount
    BY <1>1, <1>6 DEF Cycle, QueueStep, RingInv
  <2>4. queue_tail' = Plus(queue_head, queue_count + Len(alloc))
    BY <1>1, <2>2, <2>3, PlusPlus
  <2>5. Plus(queue_head', queue_count') =
           Plus(queue_head, queue_count + Len(alloc))
    <3>1. /\ CommitCount \in Nat /\ queue_count' \in Nat
          /\ CommitCount + queue_count' = queue_count + Len(alloc)
      BY <1>1, <1>2, <2>2, <2>3
    <3> QED BY <1>1, <1>3, <2>2, <3>1, PlusPlus
  <2>6. \A s \in Slots : producer_valid'[s] <=>
                            \/ Allocs(alloc, s)
                            \/ producer_valid[s] /\ ~Retires(s)
    BY <1>6 DEF Cycle, NextValid
  <2>7. ASSUME NEW s \in Slots
        PROVE  producer_valid'[s] <=> Off(queue_head', s) < queue_count'
    BY <1>1, <1>2, <1>4, <1>5, <2>2, <2>3, <2>6, CtrlAssumption
  <2>8. queue_tail' \in Slots /\ queue_count' \in 0 .. PRODUCER_NUM
    BY <1>1, <1>2, <2>2, <2>3, <2>4, PlusType, CtrlAssumption
  <2> QED BY <1>3, <2>4, <2>5, <2>7, <2>8
<1>7. CASE RecoveryEvent(fence)
  <2> DEFINE b == RecoverySlot(fence)
  <2>1. /\ b \in Slots /\ producer_valid[b]
        /\ RecoveryNext(fence) = Plus(queue_head, Off(queue_head, b) + 1)
        /\ RecoveryCountBeforeCommit(fence) = Off(queue_head, b) + 1
        /\ CommitCount <= Off(queue_head, b) + 1
        /\ \A s \in Slots : InRecoveryWindow(fence, s) <=>
                             Off(queue_head, s) <= Off(queue_head, b)
    BY <1>7, RecoveryWindow
  <2> HIDE DEF b
  <2>2. /\ queue_tail' = Plus(queue_head, Off(queue_head, b) + 1)
        /\ queue_count' = Off(queue_head, b) + 1 - CommitCount
        /\ \A s \in Slots : producer_valid'[s] <=>
              producer_valid[s] /\ InRecoveryWindow(fence, s) /\ ~Retires(s)
    <3>1. /\ queue_tail' = RecoveryNext(fence)
          /\ queue_count' = RecoveryCountBeforeCommit(fence) - CommitCount
      BY <1>7 DEF Cycle, QueueStep, RecoveryCount
    <3>2. \A s \in Slots : producer_valid'[s] <=>
              producer_valid[s] /\ InRecoveryWindow(fence, s) /\ ~Retires(s)
      BY <1>7 DEF Cycle, NextValid
    <3>3. /\ queue_tail' = Plus(queue_head, Off(queue_head, b) + 1)
          /\ queue_count' = Off(queue_head, b) + 1 - CommitCount
      <4>1. queue_tail' = Plus(queue_head, Off(queue_head, b) + 1)
        BY <2>1, <3>1
      <4>2. Off(queue_head, b) \in Int /\ CommitCount \in Int
        BY <1>2, <1>4, <2>1
      <4> QED BY <2>1, <3>1, <4>1, <4>2
    <3> QED BY <3>2, <3>3
  <2>3. /\ Off(queue_head, b) \in 0 .. PRODUCER_NUM - 1
        /\ Off(queue_head, b) < queue_count
    BY <1>4, <1>5, <2>1
  <2>4. Plus(queue_head', queue_count') =
           Plus(queue_head, Off(queue_head, b) + 1)
    <3>1. /\ CommitCount \in Nat /\ queue_count' \in Nat
          /\ CommitCount + queue_count' = Off(queue_head, b) + 1
          /\ CommitCount + queue_count' <= PRODUCER_NUM
      <4>1. PICK o \in 0 .. PRODUCER_NUM - 1 : o = Off(queue_head, b) BY <2>3
      <4>2. PICK c \in 0 .. 2 : c = CommitCount BY <1>2
      <4>3. queue_count' = o + 1 - c BY <2>2, <4>1, <4>2
      <4>4. c <= o + 1 BY <2>1, <1>2, <2>3, <4>1, <4>2, CtrlAssumption
      <4>5. PRODUCER_NUM \in Nat BY CtrlAssumption
      <4> QED BY <4>1, <4>2, <4>3, <4>4, <4>5
    <3> QED BY <1>1, <1>3, <3>1, PlusPlus
  <2>5. ASSUME NEW s \in Slots
        PROVE  producer_valid'[s] <=> Off(queue_head', s) < queue_count'
    BY <1>1, <1>2, <1>4, <1>5, <2>1, <2>2, <2>3, CtrlAssumption
  <2>6. queue_tail' \in Slots /\ queue_count' \in 0 .. PRODUCER_NUM
    BY <1>1, <1>2, <2>1, <2>2, <2>3, PlusType, CtrlAssumption, SMTT(30)
  <2> QED BY <1>3, <2>2, <2>4, <2>5, <2>6
<1> QED BY <1>6, <1>7

(***************************************************************************)
(* What a cycle does to one slot.                                          *)
(***************************************************************************)

\* Only free slots are dispatched into, and not in the cycle of a redirect or
\* fence.
LEMMA AllocatedSlot ==
    ASSUME IndInv, NEW alloc, NEW x, NEW fence, Ports(alloc, x, fence),
           NEW s \in Slots, Allocs(alloc, s)
    PROVE  /\ ~producer_valid[s] /\ ~bru.redirect /\ fence = NoId
           /\ ~RecoveryEvent(fence) /\ ~serial_pending
           /\ UopOf(alloc, s) \in Uops
<1>1. TypeOK /\ RingInv /\ alloc \in Allocations /\ MayDispatch(alloc)
  BY DEF IndInv, Ports
<1>2. PICK i \in 1 .. Len(alloc) : s = AllocSlot(i)
  BY DEF Allocs
<1>3. Len(alloc) \in 1 .. 2
  BY <1>1, <1>2, BatchType
<1>4. alloc # <<>>
  BY <1>3
<1>5. ~bru.redirect /\ fence = NoId
  BY <1>4 DEF Ports
<1>6. ~producer_valid[s] /\ ~serial_pending
  BY <1>1, <1>3, AllocWindow
<1>7. ~RecoveryEvent(fence)
  BY <1>5 DEF RecoveryEvent, BranchLive, Live
<1>8. UopOf(alloc, s) \in Uops
  <2>1. CASE i = 1
    BY <1>1, <1>2, <2>1, BatchType DEF UopOf
  <2>2. CASE i = 2
    BY <1>1, <1>2, <1>3, <2>2, BatchType DEF UopOf
  <2> QED BY <1>2, <1>3, <2>1, <2>2
<1> QED BY <1>5, <1>6, <1>7, <1>8

\* A slot that is not dispatched into keeps its identity; it stays in flight
\* exactly if it neither retires nor is cut off.
LEMMA KeptSlot ==
    ASSUME IndInv, NEW alloc, NEW x, NEW fin, NEW fence,
           Ports(alloc, x, fence), Cycle(alloc, x, fin, fence),
           NEW s \in Slots, ~Allocs(alloc, s)
    PROVE  /\ producer_valid'[s] <=>
                 producer_valid[s] /\ ~Retires(s) /\ Kept(fence, s)
           /\ producer_epoch'[s] = producer_epoch[s]
           /\ Id(s)' = Id(s)
           /\ producer_valid'[s] => uop'[s] = uop[s]
           /\ executed'[s] <=> /\ producer_valid'[s]
                               /\ executed[s] \/ OwnResult(x, fin, fence, s)
<1>1. producer_valid'[s] <=>
         producer_valid[s] /\ ~Retires(s) /\ Kept(fence, s)
  BY DEF Cycle, NextValid, Kept
<1>2. producer_epoch'[s] = producer_epoch[s]
  BY DEF Cycle, ProducerStep
<1>3. Id(s)' = Id(s)
  BY <1>2 DEF Id
<1>4. producer_valid'[s] => uop'[s] = uop[s]
  BY DEF Cycle, BackendStep
<1>5. executed'[s] <=> /\ producer_valid'[s]
                       /\ executed[s] \/ OwnResult(x, fin, fence, s)
  BY DEF Cycle, BackendStep
<1> QED BY <1>1, <1>2, <1>3, <1>4, <1>5

\* A slot dispatched into holds the new uop, not done and not executed.
LEMMA FilledSlot ==
    ASSUME IndInv, NEW alloc, NEW x, NEW fin, NEW fence,
           Ports(alloc, x, fence), Cycle(alloc, x, fin, fence),
           NEW s \in Slots, Allocs(alloc, s)
    PROVE  /\ producer_valid'[s] /\ ~producer_done'[s] /\ ~executed'[s]
           /\ uop'[s] = UopOf(alloc, s)
<1>1. ~RecoveryEvent(fence)
  BY AllocatedSlot
<1>2. producer_valid'[s]
  BY <1>1 DEF Cycle, NextValid
<1>3. ~producer_done'[s]
  BY DEF Cycle, NextDone
<1>4. ~executed'[s] /\ uop'[s] = UopOf(alloc, s)
  BY DEF Cycle, BackendStep
<1> QED BY <1>2, <1>3, <1>4

\* A slot that executes is in flight, waiting, and, if it needs lane B, alone
\* there.
LEMMA ExecutionType ==
    ASSUME NEW x \in Executions, NEW s \in x
    PROVE  /\ s \in Slots /\ Ready(s)
           /\ \A b \in x : LaneBOnly(s) /\ LaneBOnly(b) => s = b
BY DEF Executions

\* An executing uop that is no fence survives its cycle unless it is cut off.
LEMMA WaitingSurvives ==
    ASSUME IndInv, NEW alloc, NEW x, NEW fin, NEW fence,
           Ports(alloc, x, fence), Cycle(alloc, x, fin, fence),
           NEW s \in Slots, producer_valid[s], ~executed[s],
           bru.id # Id(s), Kept(fence, s)
    PROVE  /\ ~Allocs(alloc, s) /\ producer_valid'[s]
           /\ Id(s)' = Id(s) /\ uop'[s] = uop[s]
           /\ executed'[s] <=> OwnResult(x, fin, fence, s)
<1>1. ~Allocs(alloc, s)
  BY AllocatedSlot
<1>2. ~Retires(s)
  BY RetiredIsExecuted
<1> QED BY <1>1, <1>2, KeptSlot

(***************************************************************************)
(* A cycle preserves each part of the invariant.                           *)
(***************************************************************************)

\* A done bit stays the present occupant's own over a cycle.
LEMMA CycleDone ==
    ASSUME IndInv, SquashedResultRejected, NEW alloc, NEW x, NEW fin,
           NEW fence, Ports(alloc, x, fence), Cycle(alloc, x, fin, fence)
    PROVE  DoneIsOwn'
<1> SUFFICES ASSUME NEW s \in Slots, producer_valid'[s], producer_done'[s]
             PROVE  executed'[s]
  BY DEF DoneIsOwn
<1>1. TypeOK /\ DoneIsOwn /\ DueIsResolving
  BY DEF IndInv
<1>2. ~Allocs(alloc, s)
  BY FilledSlot
<1>3. producer_valid[s] /\ ~Retires(s)
  BY <1>2, KeptSlot
<1>4. CASE producer_done[s]
  BY <1>1, <1>2, <1>3, <1>4, KeptSlot DEF DoneIsOwn
<1>5. CASE Completes(x, fin, fence, s)
  <2>1. CASE DueToken(x, s) \/ bru.id = Id(s) \/ fence = Id(s)
    BY <1>2, <2>1, KeptSlot DEF OwnResult
  <2>2. CASE MduHit(fin, s)
    <3>1. mdu.id = Id(s) /\ Live(mdu.id)
      BY <1>1, <1>3, <2>2, IdType DEF MduHit, Live
    <3>2. ~mdu.squashed
      BY <3>1 DEF SquashedResultRejected
    <3> QED BY <1>2, <2>2, <3>2, KeptSlot DEF OwnResult
  <2>3. CASE branch_retire_due = Id(s)
    <3>1. bru.id = Id(s)
      BY <1>1, <2>3, IdType DEF DueIsResolving
    <3> QED BY <1>2, <3>1, KeptSlot DEF OwnResult
  <2> QED BY <1>5, <2>1, <2>2, <2>3 DEF Completes
<1>6. producer_done[s] \/ Completes(x, fin, fence, s)
  BY <1>2, <1>3 DEF Cycle, NextDone
<1> QED BY <1>4, <1>5, <1>6

\* The branch entering EX2 is the executing branch.
LEMMA BranchOfX ==
    ASSUME NEW x \in Executions, NEW s \in x, Branch(uop[s])
    PROVE  /\ (CHOOSE b \in x : Branch(uop[b])) = s
           /\ s \in Slots /\ producer_valid[s] /\ ~executed[s]
           /\ bru.id # Id(s)
<1>1. Ready(s) /\ s \in Slots
  BY ExecutionType
<1>2. \A b \in x : Branch(uop[b]) => b = s
  BY ExecutionType DEF LaneBOnly, Branch
<1> QED BY <1>1, <1>2 DEF Ready, Unresolved

\* The branch entering the BRU register is live, unexecuted and a branch.
LEMMA CycleBru ==
    ASSUME IndInv, NEW alloc, NEW x, NEW fin,
           NEW fence, Ports(alloc, x, fence), Cycle(alloc, x, fin, fence)
    PROVE  /\ DueIsResolving' /\ FlushWhenEmpty' /\ ResolvingBranchInRob'
           /\ bru' \in [id : MaybeId, redirect : BOOLEAN]
           /\ branch_retire_due' \in MaybeId
<1>1. TypeOK /\ MduWaits /\ x \in Executions
  BY DEF IndInv, Ports
<1>2. bru' = NextBru(x, fence)
      /\ branch_retire_due' = NextBranchRetireDue(x, fence)
  BY DEF Cycle, BackendStep
<1>3. CASE \E s \in x : Branch(uop[s]) /\ Kept(fence, s)
  <2>1. PICK s \in x : Branch(uop[s]) /\ Kept(fence, s)
    BY <1>3
  <2>2. /\ (CHOOSE b \in x : Branch(uop[b])) = s
        /\ s \in Slots /\ producer_valid[s] /\ ~executed[s]
        /\ bru.id # Id(s)
    BY <1>1, <2>1, BranchOfX
  <2>3. bru' = [id |-> Id(s), redirect |-> uop[s].kind = "brmis"]
    BY <1>2, <1>3, <2>2 DEF NextBru
  <2>4. Id(s) \in ProducerId /\ Id(s) # NoId /\ Id(s).slot = s
    BY <1>1, <2>2, IdType
  <2>5. /\ producer_valid'[s] /\ Id(s)' = Id(s) /\ uop'[s] = uop[s]
        /\ executed'[s] <=> OwnResult(x, fin, fence, s)
    BY <2>1, <2>2, WaitingSurvives
  <2>6. ~OwnResult(x, fin, fence, s)
    <3>1. ~DueToken(x, s)
      BY <2>1 DEF DueToken
    <3>2. fence # Id(s)
      BY <2>1, <2>4 DEF Ports
    <3>3. mdu.id = Id(s) => mdu.squashed
      BY <2>1, <2>4, <1>1 DEF MduWaits, Branch
    <3> QED BY <2>2, <3>1, <3>2, <3>3 DEF OwnResult, MduHit
  <2>7. bru'.id = Id(s) /\ Id(s).epoch = producer_epoch'[s]
    BY <2>3, <2>5 DEF Id
  <2>8. ResolvingBranchInRob'
    BY <2>1, <2>4, <2>5, <2>6, <2>7 DEF ResolvingBranchInRob, Live, Branch
  <2>9. branch_retire_due' = NoId \/ branch_retire_due' = Id(s)
    BY <1>2, <2>2 DEF NextBranchRetireDue
  <2>10. DueIsResolving' /\ FlushWhenEmpty'
    BY <2>4, <2>7, <2>9 DEF DueIsResolving, FlushWhenEmpty
  <2> QED BY <2>3, <2>4, <2>8, <2>9, <2>10 DEF MaybeId
<1>4. CASE ~ \E s \in x : Branch(uop[s]) /\ Kept(fence, s)
  <2>1. bru' = NoBru
    BY <1>2, <1>4 DEF NextBru
  <2>2. branch_retire_due' = NoId
    <3>1. CASE bru.redirect \/ fence # NoId
      BY <1>2, <3>1 DEF NextBranchRetireDue
    <3>2. CASE ~bru.redirect /\ fence = NoId
      <4>1. ~RecoveryEvent(fence)
        BY <3>2 DEF RecoveryEvent, BranchLive, Live
      <4>2. \A s \in x : ~Branch(uop[s])
        BY <1>4, <4>1 DEF Kept
      <4> QED BY <1>2, <4>2 DEF NextBranchRetireDue
    <3> QED BY <3>1, <3>2
  <2>3. bru'.id = NoId /\ bru'.redirect = FALSE
    BY <2>1 DEF NoBru
  <2> QED BY <2>1, <2>2, <2>3
          DEF DueIsResolving, FlushWhenEmpty, ResolvingBranchInRob, NoBru,
              MaybeId
<1> QED BY <1>3, <1>4

\* A divider occupant that is not squashed stays in the ROB, waiting.
LEMMA CycleMdu ==
    ASSUME IndInv, NEW alloc, NEW x, NEW fin \in BOOLEAN,
           NEW fence, Ports(alloc, x, fence), Cycle(alloc, x, fin, fence)
    PROVE  /\ MduWaits'
           /\ mdu' \in [id : MaybeId, squashed : BOOLEAN,
                        age : 0 .. DIV_CYCLES]
<1>1. TypeOK /\ MduWaits /\ ResolvingBranchInRob /\ x \in Executions
  BY DEF IndInv, Ports
<1>2. mdu' = NextMdu(x, fin, fence)
  BY DEF Cycle, BackendStep
<1>3. ASSUME NEW s \in Slots, producer_valid[s], ~executed[s],
             uop[s].kind = "div", Kept(fence, s), ~MduHit(fin, s)
      PROVE  /\ Id(s) \in ProducerId /\ Id(s).slot = s
             /\ producer_valid'[s] /\ ~executed'[s] /\ uop'[s].kind = "div"
             /\ Id(s).epoch = producer_epoch'[s]
  <2>1. Id(s) \in ProducerId /\ Id(s) # NoId /\ Id(s).slot = s
    BY <1>1, <1>3, IdType
  <2>2. bru.id # Id(s)
    BY <1>1, <1>3, <2>1 DEF ResolvingBranchInRob, Branch
  <2>3. fence # Id(s)
    <3>1. SUFFICES ASSUME fence = Id(s)
                   PROVE  FALSE
      OBVIOUS
    <3>2. Id(queue_head) = Id(s) /\ uop[queue_head].kind = "fence"
          /\ queue_head \in Slots
      BY <1>1, <2>1, <3>1 DEF Ports, FenceAtHead, TypeOK
    <3>3. queue_head = s
      BY <1>1, <1>3, <3>2, IdType
    <3> QED BY <1>3, <3>2, <3>3
  <2>4. ~OwnResult(x, fin, fence, s)
    BY <1>3, <2>2, <2>3 DEF OwnResult, DueToken
  <2>5. /\ producer_valid'[s] /\ Id(s)' = Id(s) /\ uop'[s] = uop[s]
        /\ executed'[s] <=> OwnResult(x, fin, fence, s)
    BY <1>3, <2>2, WaitingSurvives
  <2>6. Id(s).epoch = producer_epoch'[s]
    BY <2>5 DEF Id
  <2> QED BY <1>3, <2>1, <2>4, <2>5, <2>6
<1>4. CASE \E s \in x : uop[s].kind = "div" /\ Kept(fence, s)
  <2>1. PICK s \in x : uop[s].kind = "div" /\ Kept(fence, s)
    BY <1>4
  <2>2. Ready(s) /\ s \in Slots /\ mdu.id = NoId
    BY <1>1, <2>1, ExecutionType DEF Ready
  <2>3. \A b \in x : uop[b].kind = "div" => b = s
    BY <1>1, <2>1, ExecutionType DEF LaneBOnly
  <2>4. mdu' = [id |-> Id(s), squashed |-> FALSE, age |-> 0]
    <3>1. (CHOOSE b \in x : uop[b].kind = "div") = s
      BY <2>1, <2>3
    <3> QED BY <1>2, <1>4, <3>1 DEF NextMdu
  <2>5. ~MduHit(fin, s)
    BY <1>1, <2>2, IdType DEF MduHit
  <2>6. /\ Id(s) \in ProducerId /\ Id(s).slot = s
        /\ producer_valid'[s] /\ ~executed'[s] /\ uop'[s].kind = "div"
        /\ Id(s).epoch = producer_epoch'[s]
    BY <1>3, <2>1, <2>2, <2>5 DEF Ready
  <2>7. MduWaits'
    BY <2>4, <2>6 DEF MduWaits, Live
  <2> QED BY <2>4, <2>6, <2>7, CtrlAssumption DEF MaybeId
<1>5. CASE /\ ~ \E s \in x : uop[s].kind = "div" /\ Kept(fence, s)
           /\ mdu.id = NoId \/ fin
  <2>1. mdu' = NoMdu
    BY <1>2, <1>5 DEF NextMdu
  <2> QED BY <2>1, CtrlAssumption DEF NoMdu, MduWaits, MaybeId
<1>6. CASE /\ ~ \E s \in x : uop[s].kind = "div" /\ Kept(fence, s)
           /\ mdu.id # NoId /\ ~fin
  <2>1. mdu' = [id |-> mdu.id,
                squashed |-> mdu.squashed \/ ~Kept(fence, mdu.id.slot),
                age |-> mdu.age + 1]
    BY <1>2, <1>6 DEF NextMdu
  <2>2. mdu.age \in 0 .. DIV_CYCLES /\ mdu.age # DIV_CYCLES
    BY <1>1, <1>6 DEF TypeOK, Cycle
  <2>3. mdu.id \in ProducerId
    BY <1>1, <1>6 DEF TypeOK, MaybeId
  <2>4. /\ mdu'.id = mdu.id
        /\ mdu'.squashed <=> mdu.squashed \/ ~Kept(fence, mdu.id.slot)
    BY <1>1, <2>1 DEF TypeOK
  <2>5. mdu' \in [id : MaybeId, squashed : BOOLEAN, age : 0 .. DIV_CYCLES]
    <3>1. mdu.age + 1 \in 0 .. DIV_CYCLES
      BY <2>2, CtrlAssumption
    <3>2. (mdu.squashed \/ ~Kept(fence, mdu.id.slot)) \in BOOLEAN
      OBVIOUS
    <3> QED BY <1>1, <2>1, <3>1, <3>2 DEF TypeOK
  <2>6. ASSUME ~mdu'.squashed
        PROVE  /\ Live(mdu.id)' /\ ~executed'[mdu.id.slot]
               /\ uop'[mdu.id.slot].kind = "div"
    <3>1. /\ ~mdu.squashed /\ Kept(fence, mdu.id.slot)
          /\ Live(mdu.id) /\ ~executed[mdu.id.slot]
          /\ uop[mdu.id.slot].kind = "div"
      BY <1>1, <1>6, <2>4, <2>6 DEF MduWaits
    <3>2. /\ mdu.id.slot \in Slots /\ producer_valid[mdu.id.slot]
          /\ mdu.id = Id(mdu.id.slot)
      BY <1>1, <2>3, <3>1, LiveIsId DEF MaybeId
    <3>3. /\ producer_valid'[mdu.id.slot] /\ ~executed'[mdu.id.slot]
          /\ uop'[mdu.id.slot].kind = "div"
          /\ mdu.id.epoch = producer_epoch'[mdu.id.slot]
      BY <1>3, <1>6, <3>1, <3>2 DEF MduHit
    <3> QED BY <1>6, <2>4, <3>3 DEF Live
  <2>7. MduWaits'
    BY <2>4, <2>6 DEF MduWaits
  <2> QED BY <2>5, <2>7
<1> QED BY <1>4, <1>5, <1>6

\* A serial uop that has not executed stays the youngest and holds dispatch.
LEMMA CycleSerial ==
    ASSUME IndInv, NEW alloc, NEW x, NEW fin \in BOOLEAN,
           NEW fence, Ports(alloc, x, fence), Cycle(alloc, x, fin, fence)
    PROVE  SerialIsYoungest'
<1> SUFFICES ASSUME NEW s \in Slots, producer_valid'[s], ~executed'[s],
                    Serial(uop'[s])
             PROVE  serial_pending' /\ Plus(s, 1) = queue_tail'
  BY DEF SerialIsYoungest, Serial, Plus
<1>1. /\ TypeOK /\ RingInv /\ SerialIsYoungest /\ ResolvingBranchInRob
      /\ FlushWhenEmpty /\ x \in Executions /\ alloc \in Allocations
      /\ MayDispatch(alloc)
  BY DEF IndInv, Ports
<1>2. /\ queue_head \in Slots /\ queue_tail \in Slots
      /\ queue_count \in 0 .. PRODUCER_NUM
      /\ queue_tail = Plus(queue_head, queue_count)
  BY <1>1 DEF TypeOK, RingInv
\* A csr executes only while it is the youngest uop and holds dispatch.
<1>3. ASSUME NEW c \in x, uop[c].kind = "csr"
      PROVE  /\ c \in Slots /\ serial_pending
             /\ Plus(c, 1) = queue_tail /\ DueToken(x, c)
  <2>1. c \in Slots /\ Ready(c)
    BY <1>1, ExecutionType
  <2>2. producer_valid[c] /\ ~executed[c] /\ Serial(uop[c])
    BY <1>3, <2>1 DEF Ready, Serial
  <2> QED BY <1>1, <1>3, <2>1, <2>2 DEF SerialIsYoungest, DueToken, Branch
<1>4. CASE Allocs(alloc, s)
  <2>1. /\ ~bru.redirect /\ fence = NoId /\ ~RecoveryEvent(fence)
        /\ ~serial_pending
    BY <1>4, AllocatedSlot
  <2>2. uop'[s] = UopOf(alloc, s)
    BY <1>4, FilledSlot
  <2>3. ~SerialAccept(x, fence)
    BY <1>3, <2>1 DEF SerialAccept
  <2>4. serial_pending' = SerialAlloc(alloc)
    BY <2>1, <2>3 DEF Cycle, SerialStep, SerialAlloc
  <2>5. queue_tail' = Plus(queue_tail, Len(alloc))
    BY <2>1 DEF Cycle, QueueStep
  <2>6. PICK i \in 1 .. Len(alloc) : s = AllocSlot(i)
    BY <1>4 DEF Allocs
  <2>7. Len(alloc) \in 1 .. 2
    BY <1>1, <2>6, BatchType
  <2>8. CASE s = AllocSlot(1)
    <3>1. Serial(alloc[1])
      BY <2>2, <2>8 DEF UopOf, Serial
    <3>2. Len(alloc) = 1
      BY <1>1, <2>7, <3>1 DEF MayDispatch
    <3>3. s = queue_tail
      BY <1>2, <2>8, CtrlAssumption DEF AllocSlot, Plus, Slots
    <3>4. SerialAlloc(alloc)
      BY <3>1, <3>2 DEF SerialAlloc
    <3> QED BY <2>4, <2>5, <3>2, <3>3, <3>4
  <2>9. CASE s # AllocSlot(1)
    <3>1. i = 2 /\ Len(alloc) = 2
      <4>1. i # 1
        BY <2>6, <2>9
      <4>2. CASE Len(alloc) = 1
        BY <4>1, <4>2
      <4>3. CASE Len(alloc) = 2
        BY <4>1, <4>3
      <4> QED BY <2>7, <4>2, <4>3
    <3>2. Serial(alloc[2])
      BY <2>2, <2>9 DEF UopOf, Serial
    <3>3. s = Plus(queue_tail, 1)
      BY <2>6, <3>1 DEF AllocSlot
    <3>4. Plus(s, 1) = Plus(queue_tail, 2)
      BY <1>2, <3>3, CtrlAssumption DEF Plus, Slots
    <3>5. SerialAlloc(alloc)
      BY <3>1, <3>2 DEF SerialAlloc
    <3> QED BY <2>4, <2>5, <3>1, <3>4, <3>5
  <2> QED BY <2>8, <2>9
<1>5. CASE ~Allocs(alloc, s)
  <2>1. /\ producer_valid[s] /\ ~Retires(s) /\ Kept(fence, s)
        /\ ~executed[s] /\ ~OwnResult(x, fin, fence, s) /\ Serial(uop[s])
    BY <1>5, KeptSlot
  <2>2. serial_pending /\ Plus(s, 1) = queue_tail
    BY <1>1, <2>1 DEF SerialIsYoungest
  <2>3. Off(queue_head, s) < queue_count
    BY <1>1, <2>1, OffsetOff DEF RingInv
  <2>4. Off(queue_head, s) = queue_count - 1
    BY <1>2, <2>2, <2>3, CtrlAssumption DEF Off, Plus, Slots
  <2>5. ~RecoveryEvent(fence)
    <3>1. SUFFICES ASSUME RecoveryEvent(fence)
                   PROVE  FALSE
      OBVIOUS
    <3> DEFINE b == RecoverySlot(fence)
    <3>2. /\ b \in Slots /\ producer_valid[b]
          /\ Off(queue_head, s) <= Off(queue_head, b)
      BY <2>1, <3>1, RecoveryWindow DEF Kept
    <3>3. b = s
      <4> HIDE DEF b
      <4>1. Off(queue_head, b) < queue_count
        BY <1>1, <3>2, OffsetOff DEF RingInv
      <4> QED BY <1>2, <2>4, <3>2, <4>1, CtrlAssumption DEF Off, Slots
    <3>4. CASE Live(fence)
      <4>1. fence = Id(queue_head) /\ fence.slot = queue_head
        BY <1>1, <1>2, <3>4, IdType DEF Ports, Live
      <4>2. fence = Id(s)
        BY <3>3, <3>4, <4>1 DEF RecoverySlot
      <4> QED BY <2>1, <4>2 DEF OwnResult
    <3>5. CASE ~Live(fence)
      <4>1. Live(bru.id) /\ s = bru.id.slot
        BY <3>1, <3>3, <3>5 DEF RecoveryEvent, BranchLive, RecoverySlot
      <4>2. Branch(uop[s])
        BY <1>1, <4>1 DEF ResolvingBranchInRob, Live
      <4> QED BY <2>1, <4>2 DEF Branch, Serial
    <3> QED BY <3>4, <3>5
  <2>6. Len(alloc) = 0
    BY <1>1, <2>2, AllocWindow
  <2>7. queue_tail' = queue_tail
    <3>1. queue_tail' = Plus(queue_tail, 0)
      BY <2>5, <2>6 DEF Cycle, QueueStep
    <3> QED BY <1>2, <3>1, CtrlAssumption DEF Plus, Slots
  <2>8. ~bru.redirect
    <3>1. ~(bru.redirect /\ Live(bru.id))
      BY <2>5 DEF RecoveryEvent, BranchLive
    <3>2. queue_count # 0
      BY <1>2, <2>3, OffType
    <3> QED BY <1>1, <3>1, <3>2 DEF ResolvingBranchInRob, FlushWhenEmpty
  <2>9. fence = NoId
    <3>1. SUFFICES ASSUME fence # NoId
                   PROVE  FALSE
      OBVIOUS
    <3>2. Live(fence)
      BY <1>1, <1>2, <3>1, IdType DEF Ports, FenceAtHead, Live
    <3> QED BY <2>5, <3>2 DEF RecoveryEvent
  <2>10. ~SerialAccept(x, fence)
    <3>1. SUFFICES ASSUME NEW c \in x, uop[c].kind = "csr"
                   PROVE  FALSE
      BY <2>9 DEF SerialAccept
    <3>2. c \in Slots /\ Plus(c, 1) = queue_tail /\ DueToken(x, c)
      BY <1>3, <3>1
    <3>3. c = s
      BY <2>2, <3>2, CtrlAssumption DEF Plus, Slots
    <3> QED BY <2>1, <3>2, <3>3 DEF OwnResult
  <2>11. serial_pending'
    BY <2>2, <2>8, <2>10 DEF Cycle, SerialStep
  <2> QED BY <2>2, <2>7, <2>11
<1> QED BY <1>4, <1>5

\* The ids that enter the RAT are ids of slots.
LEMMA CycleLatest ==
    ASSUME IndInv, NEW alloc, NEW x, NEW fin,
           NEW fence, Ports(alloc, x, fence), Cycle(alloc, x, fin, fence)
    PROVE  latest' \in [REGS -> MaybeId]
<1>1. TypeOK /\ alloc \in Allocations
  BY DEF IndInv, Ports
<1>2. rebuild_ptr \in Slots /\ RebuildPtr1 \in Slots
  BY <1>1, PlusType, CtrlAssumption DEF TypeOK, RebuildPtr1
<1>3. Id(rebuild_ptr) \in MaybeId /\ Id(RebuildPtr1) \in MaybeId
  BY <1>1, <1>2, IdType DEF MaybeId
<1>4. ASSUME NEW i \in {1, 2}
      PROVE  AllocId(i) \in MaybeId
  <2>1. AllocSlot(i) \in Slots
    BY <1>1, PlusType, CtrlAssumption DEF TypeOK, AllocSlot
  <2>2. 1 - producer_epoch[AllocSlot(i)] \in {0, 1}
    BY <1>1, <2>1 DEF TypeOK
  <2> QED BY <2>1, <2>2 DEF AllocId, MaybeId, ProducerId
<1>5. latest' = NextLatest(alloc, fence)
  BY DEF Cycle
<1>6. ASSUME NEW r \in REGS
      PROVE  latest[r] \in MaybeId /\ NoId \in MaybeId
  BY <1>1 DEF TypeOK, MaybeId
<1> QED BY <1>3, <1>4, <1>5, <1>6 DEF NextLatest

\* The rebuild pointers stay in range.
LEMMA CycleRebuild ==
    ASSUME IndInv, NEW alloc, NEW x, NEW fin,
           NEW fence, Ports(alloc, x, fence), Cycle(alloc, x, fin, fence)
    PROVE  /\ recovering' \in BOOLEAN /\ rebuild_ptr' \in Slots
           /\ rebuild_remaining' \in 0 .. PRODUCER_NUM
<1>1. /\ recovering \in BOOLEAN /\ rebuild_ptr \in Slots
      /\ rebuild_remaining \in 0 .. PRODUCER_NUM
  BY DEF IndInv, TypeOK
<1>2. RebuildStep(fence)
  BY DEF Cycle
<1>3. CASE RecoveryEvent(fence)
  <2>1. /\ recovering' = (RecoveryCount(fence) # 0)
        /\ rebuild_ptr' = queue_head'
        /\ rebuild_remaining' = queue_count'
    BY <1>2, <1>3 DEF RebuildStep, Cycle, QueueStep
  <2>2. queue_head' \in Slots /\ queue_count' \in 0 .. PRODUCER_NUM
    BY CycleRing
  <2> QED BY <2>1, <2>2
<1>4. CASE ~RecoveryEvent(fence)
  <2>1. Plus(rebuild_ptr, 2) \in Slots
    BY <1>1, PlusType, CtrlAssumption
  <2>2. rebuild_remaining > 2 => rebuild_remaining - 2 \in 0 .. PRODUCER_NUM
    BY <1>1, CtrlAssumption
  <2>3. 0 \in 0 .. PRODUCER_NUM
    BY CtrlAssumption
  <2>4. rebuild_remaining <= 2 \/ rebuild_remaining > 2
    BY <1>1, CtrlAssumption
  <2> QED BY <1>1, <1>2, <1>4, <2>1, <2>2, <2>3, <2>4 DEF RebuildStep
<1> QED BY <1>3, <1>4

\* A cycle keeps the registers in range.
LEMMA CycleType ==
    ASSUME IndInv, NEW alloc, NEW x, NEW fin \in BOOLEAN,
           NEW fence, Ports(alloc, x, fence), Cycle(alloc, x, fin, fence)
    PROVE  TypeOK'
<1>1. TypeOK
  BY DEF IndInv
<1>2. producer_valid' \in [Slots -> BOOLEAN]
  BY DEF Cycle, NextValid
<1>3. producer_done' \in [Slots -> BOOLEAN]
  BY <1>1 DEF Cycle, NextDone, TypeOK
<1>4. \A s \in Slots : Allocs(alloc, s) =>
         /\ UopOf(alloc, s) \in [kind : Kinds, rd : REGS \cup {NoReg}]
         /\ UopOf(alloc, s).rd \in REGS \cup {NoReg}
  BY AllocatedSlot, CtrlAssumption
<1>5. producer_rd' \in [Slots -> REGS \cup {NoReg}]
  BY <1>1, <1>4 DEF Cycle, ProducerStep, TypeOK
<1>6. producer_epoch' \in [Slots -> {0, 1}]
  BY <1>1 DEF Cycle, ProducerStep, TypeOK
<1>7. IdleUop \in [kind : Kinds, rd : REGS \cup {NoReg}]
  BY DEF IdleUop, Kinds
<1>8. uop' \in [Slots -> [kind : Kinds, rd : REGS \cup {NoReg}]]
  BY <1>1, <1>4, <1>7 DEF Cycle, BackendStep, TypeOK
<1>9. executed' \in [Slots -> BOOLEAN]
  BY DEF Cycle, BackendStep
<1>10. wrong' \in [Slots -> BOOLEAN]
  BY DEF Cycle, BackendStep, Misled
<1>11. serial_pending' \in BOOLEAN
  BY <1>1 DEF Cycle, SerialStep, TypeOK
<1>12. trap_stall' \in BOOLEAN
  BY <1>1 DEF Cycle, BackendStep, TypeOK
<1>13. /\ queue_head' \in Slots /\ queue_tail' \in Slots
       /\ queue_count' \in 0 .. PRODUCER_NUM
  BY CycleRing
<1>14. /\ bru' \in [id : MaybeId, redirect : BOOLEAN]
       /\ branch_retire_due' \in MaybeId
  BY CycleBru
<1>15. mdu' \in [id : MaybeId, squashed : BOOLEAN, age : 0 .. DIV_CYCLES]
  BY CycleMdu
<1>16. latest' \in [REGS -> MaybeId]
  BY CycleLatest
<1>17. /\ recovering' \in BOOLEAN /\ rebuild_ptr' \in Slots
       /\ rebuild_remaining' \in 0 .. PRODUCER_NUM
  BY CycleRebuild
<1> QED BY <1>2, <1>3, <1>5, <1>6, <1>8, <1>9, <1>10, <1>11, <1>12, <1>13,
           <1>14, <1>15, <1>16, <1>17
        DEF TypeOK, MaybeId, ProducerId, Slots, Kinds

\* A cycle that respects the ports' contract preserves the invariant.
LEMMA CyclePreserves ==
    ASSUME IndInv, SquashedResultRejected, NEW alloc, NEW x,
           NEW fin \in BOOLEAN, NEW fence,
           Ports(alloc, x, fence), Cycle(alloc, x, fin, fence)
    PROVE  IndInv'
<1>1. TypeOK'
  BY CycleType
<1>2. RingInv'
  <2>1. \A s : Offset(s)' = Off(queue_head', s)
    BY DEF Offset, Off
  <2>2. /\ queue_tail' = Plus(queue_head', queue_count')
        /\ \A s \in Slots : producer_valid'[s] <=>
                               Off(queue_head', s) < queue_count'
    BY CycleRing
  <2> QED BY <2>1, <2>2 DEF RingInv, Plus
<1>3. DoneIsOwn'
  BY CycleDone
<1>4. DueIsResolving' /\ FlushWhenEmpty' /\ ResolvingBranchInRob'
  BY CycleBru
<1>5. MduWaits'
  BY CycleMdu
<1>6. SerialIsYoungest'
  BY CycleSerial
<1> QED BY <1>1, <1>2, <1>3, <1>4, <1>5, <1>6 DEF IndInv

\* Without dispatch and without a fence the contract holds by itself.
LEMMA IdlePorts ==
    ASSUME NEW x \in Executions
    PROVE  Ports(<<>>, x, NoId)
<1>1. <<>> \in Allocations
  BY DEF Allocations
<1>2. MayDispatch(<<>>)
  BY DEF MayDispatch
<1> QED BY <1>1, <1>2 DEF Ports

\* A state with no producer satisfies the invariant.
LEMMA EmptyState ==
    ASSUME producer_valid = [s \in Slots |-> FALSE],
           producer_done = [s \in Slots |-> FALSE],
           producer_rd = [s \in Slots |-> NoReg],
           producer_epoch = [s \in Slots |-> 0],
           queue_head = 0, queue_tail = 0, queue_count = 0,
           latest = [r \in REGS |-> NoId],
           recovering = FALSE, rebuild_ptr = 0, rebuild_remaining = 0,
           serial_pending = FALSE, branch_retire_due = NoId,
           uop = [s \in Slots |-> IdleUop],
           executed = [s \in Slots |-> FALSE],
           wrong = [s \in Slots |-> FALSE],
           bru.id = NoId, bru \in [id : MaybeId, redirect : BOOLEAN],
           mdu = NoMdu, trap_stall = FALSE
    PROVE  IndInv
<1>1. /\ 0 \in Slots /\ 0 \in 0 .. PRODUCER_NUM /\ 0 \in 0 .. DIV_CYCLES
      /\ NoId \in MaybeId
  BY CtrlAssumption DEF Slots, MaybeId
<1>2. IdleUop \in [kind : Kinds, rd : REGS \cup {NoReg}]
  BY DEF IdleUop, Kinds
<1>3. mdu \in [id : MaybeId, squashed : BOOLEAN, age : 0 .. DIV_CYCLES]
      /\ mdu.id = NoId
  BY <1>1 DEF NoMdu
<1>4. TypeOK
  BY <1>1, <1>2, <1>3 DEF TypeOK
<1>5. RingInv
  BY CtrlAssumption DEF RingInv, Offset, Plus, Slots
<1>6. /\ DoneIsOwn /\ DueIsResolving /\ FlushWhenEmpty
      /\ ResolvingBranchInRob /\ MduWaits /\ SerialIsYoungest
  BY <1>3 DEF DoneIsOwn, DueIsResolving, FlushWhenEmpty,
              ResolvingBranchInRob, MduWaits, SerialIsYoungest
<1> QED BY <1>4, <1>5, <1>6 DEF IndInv

\* Reset establishes the invariant.
LEMMA InitInv == Init => IndInv
<1> SUFFICES ASSUME Init
             PROVE  IndInv
  OBVIOUS
<1>1. bru.id = NoId /\ bru \in [id : MaybeId, redirect : BOOLEAN]
  BY DEF Init, NoBru, MaybeId
<1> QED BY <1>1, EmptyState DEF Init

\* A trap redirect establishes it again.
LEMMA TrapPreserves ==
    ASSUME TrapCycle
    PROVE  IndInv'
<1>1. bru'.id = NoId /\ bru' \in [id : MaybeId, redirect : BOOLEAN]
  BY DEF TrapCycle, MaybeId
<1>2. /\ 0 \in Slots /\ 0 \in 0 .. PRODUCER_NUM /\ 0 \in 0 .. DIV_CYCLES
      /\ NoId \in MaybeId
  BY CtrlAssumption DEF Slots, MaybeId
<1>3. IdleUop \in [kind : Kinds, rd : REGS \cup {NoReg}]
  BY DEF IdleUop, Kinds
<1>4. mdu' \in [id : MaybeId, squashed : BOOLEAN, age : 0 .. DIV_CYCLES]
      /\ mdu'.id = NoId
  BY <1>2 DEF TrapCycle, NoMdu
<1>5. TypeOK'
  BY <1>1, <1>2, <1>3, <1>4 DEF TrapCycle, TypeOK, MaybeId, Slots, Kinds,
     ProducerId
<1>6. RingInv'
  BY CtrlAssumption DEF TrapCycle, RingInv, Offset, Plus, Slots
<1>7. /\ DoneIsOwn' /\ DueIsResolving' /\ FlushWhenEmpty'
      /\ ResolvingBranchInRob' /\ MduWaits' /\ SerialIsYoungest'
  BY <1>1, <1>4 DEF TrapCycle, DoneIsOwn, DueIsResolving, FlushWhenEmpty,
                    ResolvingBranchInRob, MduWaits, SerialIsYoungest
<1> QED BY <1>5, <1>6, <1>7 DEF IndInv

\* Every step preserves the invariant.
LEMMA NextInv ==
    ASSUME IndInv, SquashedResultRejected, [Next]_vars
    PROVE  IndInv'
<1>1. CASE RunCycle
  <2>1. PICK alloc \in Allocations, x \in Executions, fin \in BOOLEAN :
           MayDispatch(alloc) /\ Cycle(alloc, x, fin, NoId)
    BY <1>1 DEF RunCycle
  <2>2. Ports(alloc, x, NoId)
    BY <1>1, <2>1 DEF RunCycle, Ports
  <2> QED BY <2>1, <2>2, CyclePreserves
<1>2. CASE BranchRecoveryCycle
  <2>1. PICK x \in Executions, fin \in BOOLEAN : Cycle(<<>>, x, fin, NoId)
    BY <1>2 DEF BranchRecoveryCycle
  <2> QED BY <2>1, IdlePorts, CyclePreserves
<1>3. CASE FlushCycle
  <2>1. PICK x \in Executions, fin \in BOOLEAN : Cycle(<<>>, x, fin, NoId)
    BY <1>3 DEF FlushCycle
  <2> QED BY <2>1, IdlePorts, CyclePreserves
<1>4. CASE FenceCycle
  <2>1. PICK fin \in BOOLEAN : Cycle(<<>>, {}, fin, Id(queue_head))
    BY <1>4 DEF FenceCycle
  <2>2. {} \in Executions
    BY DEF Executions
  <2>3. Ports(<<>>, {}, NoId)
    BY <2>2, IdlePorts
  <2>4. Ports(<<>>, {}, Id(queue_head))
    BY <1>4, <2>2, <2>3 DEF Ports, FenceCycle, FenceAtHead
  <2> QED BY <2>1, <2>4, CyclePreserves
<1>5. CASE TrapCycle
  BY <1>5, TrapPreserves
<1>6. CASE UNCHANGED vars
  BY <1>6 DEF vars, rob, rat, backend, IndInv, TypeOK, RingInv, Offset,
     DoneIsOwn, DueIsResolving, FlushWhenEmpty, ResolvingBranchInRob,
     MduWaits, SerialIsYoungest, Live
<1> QED BY <1>1, <1>2, <1>3, <1>4, <1>5, <1>6 DEF Next

(***************************************************************************)
(* Theorems.                                                               *)
(***************************************************************************)

\* IndInv is an invariant of the reorder buffer as long as squashed divider
\* results are rejected.
THEOREM Inductive == Spec /\ []SquashedResultRejected => []IndInv
<1>1. Init => IndInv
  BY InitInv
<1>2. IndInv /\ SquashedResultRejected /\ [Next]_vars => IndInv'
  BY NextInv
<1> QED BY <1>1, <1>2, PTL DEF Spec

\* Every register of Ctrl keeps its width: pointers and counts never leave
\* their range, whatever commits, dispatches and recoveries coincide.
THEOREM TypeCorrect == Spec /\ []SquashedResultRejected => []TypeOK
<1>1. IndInv => TypeOK
  BY DEF IndInv
<1> QED BY <1>1, Inductive, PTL

\* The valid bits are exactly the window from queue_head to queue_tail.
THEOREM RingCorrect == Spec /\ []SquashedResultRejected => []RingInv
<1>1. IndInv => RingInv
  BY DEF IndInv
<1> QED BY <1>1, Inductive, PTL

\* A mispredicted branch is still in the reorder buffer when it resolves.
THEOREM BranchFound ==
    Spec /\ []SquashedResultRejected => []ResolvingBranchInRob
<1>1. IndInv => ResolvingBranchInRob
  BY DEF IndInv
<1> QED BY <1>1, Inductive, PTL

(***************************************************************************)
(* Programs that never squash a division: they have no division, or        *)
(* neither a misprediction nor a fence.i.  For them the hypothesis of the  *)
(* theorems above is a fact.                                               *)
(***************************************************************************)
Has(kinds) == \E u \in Uops : u.kind \in kinds
SquashesNoDivision == ~Has({"div"}) \/ ~Has({"brmis", "fence"})

NoSquash ==
    /\ queue_head \in Slots
    /\ \A s \in Slots : uop[s] \in Uops \cup {IdleUop}
    /\ ~mdu.squashed
    /\ ~Has({"div"}) => mdu.id = NoId
    /\ ~Has({"brmis", "fence"}) => (bru.redirect => bru.id = NoId)

\* A cycle squashes no division if no branch and no fence recovers in it, or
\* if there is none.
LEMMA CycleNoSquash ==
    ASSUME NoSquash, NEW alloc \in Allocations, NEW x \in Executions,
           NEW fin, NEW fence, Cycle(alloc, x, fin, fence), SquashesNoDivision,
           ~Has({"brmis", "fence"}) => ~RecoveryEvent(fence)
    PROVE  NoSquash'
<1>1. ASSUME NEW s \in x
      PROVE  /\ uop[s].kind = "div" => Has({"div"})
             /\ uop[s].kind = "brmis" => Has({"brmis", "fence"})
  <2>1. uop[s] \in Uops \cup {IdleUop} BY ExecutionType DEF NoSquash
  <2> QED BY <2>1 DEF Has, IdleUop
<1>2. queue_head' \in Slots
  <2>1. 1 \in 0 .. PRODUCER_NUM /\ 2 \in 0 .. PRODUCER_NUM
    BY CtrlAssumption
  <2>2. Head1 \in Slots /\ Head2 \in Slots
    BY <2>1, PlusType DEF Head1, Head2, NoSquash
  <2> QED BY <2>2 DEF Cycle, QueueStep, HeadAfterCommit, NoSquash
<1>3. ASSUME NEW s \in Slots PROVE uop'[s] \in Uops \cup {IdleUop}
  <2>1. uop'[s] = IF Allocs(alloc, s) THEN UopOf(alloc, s)
                  ELSE IF producer_valid'[s] THEN uop[s] ELSE IdleUop
    BY DEF Cycle, BackendStep
  <2>2. CASE Allocs(alloc, s)
    <3>1. PICK i \in 1 .. Len(alloc) : s = AllocSlot(i)
      BY <2>2 DEF Allocs
    <3>2. /\ Len(alloc) \in 0 .. 2
          /\ \A k \in 1 .. Len(alloc) : alloc[k] \in Uops
      BY BatchType
    <3>3. alloc[1] \in Uops BY <3>1, <3>2
    <3>4. s # AllocSlot(1) => alloc[2] \in Uops
      <4>1. s # AllocSlot(1) => i = 2 BY <3>1, <3>2
      <4> QED BY <3>2, <4>1
    <3> QED BY <2>1, <2>2, <3>3, <3>4 DEF UopOf
  <2> QED BY <2>1, <2>2 DEF NoSquash
<1>4. mdu' = NextMdu(x, fin, fence) /\ bru' = NextBru(x, fence)
  BY DEF Cycle, BackendStep
<1>5. ~mdu'.squashed /\ (~Has({"div"}) => mdu'.id = NoId)
  <2>1. CASE ~Has({"div"})
    <3>1. mdu' = NoMdu
      BY <1>1, <1>4, <2>1 DEF NextMdu, NoSquash
    <3> QED BY <3>1 DEF NoMdu
  <2>2. CASE Has({"div"})
    <3>1. \A s : Kept(fence, s)
      BY <2>2 DEF SquashesNoDivision, Kept
    <3> QED BY <1>4, <2>2, <3>1 DEF NextMdu, NoMdu, NoSquash
  <2> QED BY <2>1, <2>2
<1>6. ~Has({"brmis", "fence"}) => ~bru'.redirect
  <2> SUFFICES ASSUME ~Has({"brmis", "fence"}) PROVE ~bru'.redirect
    OBVIOUS
  <2>1. CASE \E s \in x : Branch(uop[s]) /\ Kept(fence, s)
    <3>1. PICK b : /\ b = (CHOOSE s \in x : Branch(uop[s])) /\ b \in x
      BY <2>1
    <3>2. bru'.redirect = (uop[b].kind = "brmis")
      BY <1>4, <2>1, <3>1 DEF NextBru
    <3> QED BY <1>1, <3>1, <3>2
  <2>2. CASE ~\E s \in x : Branch(uop[s]) /\ Kept(fence, s)
    BY <1>4, <2>2 DEF NextBru, NoBru
  <2> QED BY <2>1, <2>2
<1> QED BY <1>2, <1>3, <1>5, <1>6 DEF NoSquash

\* Neither does any other step.
LEMMA NextNoSquash ==
    ASSUME NoSquash, SquashesNoDivision, [Next]_vars
    PROVE  NoSquash'
<1>1. <<>> \in Allocations /\ {} \in Executions
  BY DEF Allocations, Executions
<1>2. ~Live(NoId) BY DEF Live
<1>3. CASE RunCycle
  <2>1. PICK alloc \in Allocations, x \in Executions, fin \in BOOLEAN :
           Cycle(alloc, x, fin, NoId)
    BY <1>3 DEF RunCycle
  <2>2. ~RecoveryEvent(NoId) BY <1>2, <1>3 DEF RunCycle, RecoveryEvent, BranchLive
  <2> QED BY <2>1, <2>2, CycleNoSquash
<1>4. CASE BranchRecoveryCycle \/ FlushCycle
  <2>1. PICK x \in Executions, fin \in BOOLEAN : Cycle(<<>>, x, fin, NoId)
    BY <1>4 DEF BranchRecoveryCycle, FlushCycle
  <2>2. ~Has({"brmis", "fence"}) => ~RecoveryEvent(NoId)
    BY <1>2 DEF NoSquash, RecoveryEvent, BranchLive, Live
  <2> QED BY <1>1, <2>1, <2>2, CycleNoSquash
<1>5. CASE FenceCycle
  <2>1. PICK fin \in BOOLEAN : Cycle(<<>>, {}, fin, Id(queue_head))
    BY <1>5 DEF FenceCycle
  <2>2. Has({"brmis", "fence"})
    <3>1. uop[queue_head] \in Uops \cup {IdleUop} BY DEF NoSquash
    <3>2. uop[queue_head].kind = "fence" BY <1>5 DEF FenceCycle
    <3> QED BY <3>1, <3>2 DEF Has, IdleUop
  <2> QED BY <1>1, <2>1, <2>2, CycleNoSquash
<1>6. CASE TrapCycle
  <2>1. 0 \in Slots BY CtrlAssumption DEF Slots
  <2> QED BY <1>6, <2>1 DEF TrapCycle, NoSquash, NoMdu
<1>7. CASE UNCHANGED vars
  BY <1>7 DEF vars, rob, backend, NoSquash
<1> QED BY <1>3, <1>4, <1>5, <1>6, <1>7 DEF Next

\* A program that squashes no division meets the hypothesis.
LEMMA SquashedNever ==
    ASSUME SquashesNoDivision
    PROVE  Spec => []SquashedResultRejected
<1>1. Init => NoSquash
  <2>1. 0 \in Slots BY CtrlAssumption DEF Slots
  <2> QED BY <2>1 DEF Init, NoSquash, NoMdu, NoBru
<1>2. NoSquash /\ [Next]_vars => NoSquash' BY NextNoSquash
<1>3. NoSquash => SquashedResultRejected
  BY DEF NoSquash, SquashedResultRejected
<1> QED BY <1>1, <1>2, <1>3, PTL DEF Spec

\* In a program that squashes no division every uop retires on a result or
\* resolution of its own, whatever retires, dispatches and recovers in one
\* cycle (the completion and retirement terms of Ctrl).  With divisions and
\* recoveries the code breaks this.
THEOREM RetirementSound ==
    ASSUME SquashesNoDivision
    PROVE  Spec => []RetireOnlyExecuted
<1>1. IndInv => RetireOnlyExecuted
  BY RetiredIsExecuted DEF RetireOnlyExecuted
<1> QED BY <1>1, Inductive, SquashedNever, PTL

\* The assertion "branch recovery retirement count underflow" never fires.
THEOREM NoUnderflow ==
    Spec /\ []SquashedResultRejected => []RecoveryNoUnderflow
<1>1. ASSUME IndInv, BranchLive
      PROVE  RecoveryCountBeforeCommit(NoId) >= CommitCount
  <2>1. Ports(<<>>, {}, NoId)
    BY IdlePorts DEF Executions
  <2>2. RecoveryEvent(NoId)
    BY <1>1 DEF RecoveryEvent
  <2>3. /\ RecoverySlot(NoId) \in Slots
        /\ RecoveryCountBeforeCommit(NoId) =
              Off(queue_head, RecoverySlot(NoId)) + 1
        /\ CommitCount <= Off(queue_head, RecoverySlot(NoId)) + 1
    BY <1>1, <2>1, <2>2, RecoveryWindow
  <2>4. /\ CommitCount \in Int
        /\ Off(queue_head, RecoverySlot(NoId)) \in Int
    BY <1>1, <2>3, CommitWindow, OffType DEF IndInv, TypeOK
  <2> QED BY <2>3, <2>4
<1>2. IndInv => RecoveryNoUnderflow
  BY <1>1 DEF RecoveryNoUnderflow
<1> QED BY <1>2, Inductive, PTL

(***************************************************************************)
(* Recovery, on top of that window: the register alias table is exact      *)
(* while and after it is rebuilt, nothing fetched past a mispredicted      *)
(* branch retires, serial_pending is neither leaked nor dropped, and the   *)
(* whole implements the bounded queue of YdrasilRob.                       *)
(***************************************************************************)
Waiting(s) == producer_valid[s] /\ ~executed[s]

\* The rebuild pointer never falls behind the head: the slots still to be
\* mapped are the youngest rebuild_remaining ones.
RebuildInv ==
    recovering =>
       /\ rebuild_remaining \in 1 .. queue_count
       /\ rebuild_ptr = Plus(queue_head, queue_count - rebuild_remaining)

\* The number of slots from the head on that the RAT accounts for.
Known == IF recovering THEN queue_count - rebuild_remaining ELSE queue_count

\* latest[r] is the id of the youngest writer of r among those slots.
Maps(s, r) == Off(queue_head, s) < Known /\ producer_rd[s] = r
Mapped(r) ==
    \/ latest[r] = NoId /\ \A z \in Slots : ~Maps(z, r)
    \/ \E s \in Slots :
          /\ Maps(s, r) /\ latest[r] = Id(s)
          /\ \A z \in Slots : Maps(z, r) =>
                Off(queue_head, z) <= Off(queue_head, s)
MappedInv == \A r \in REGS : Mapped(r)

\* The BRU redirects exactly on a mispredicted branch, and resolves the
\* oldest waiting one.
BruKind == bru.id # NoId =>
              (bru.redirect <=> uop[bru.id.slot].kind = "brmis")
BruOldest == bru.id # NoId =>
                \A s \in Slots : Waiting(s) /\ Branch(uop[s]) =>
                   Off(queue_head, bru.id.slot) <= Off(queue_head, s)

\* Behind every uop of a wrong path waits the branch that misled it.
WrongInv ==
    \A s \in Slots : wrong[s] =>
       /\ producer_valid[s]
       /\ \E b \in Slots : /\ Waiting(b) /\ uop[b].kind = "brmis"
                           /\ Off(queue_head, b) < Off(queue_head, s)

SerialHeld ==
    serial_pending =>
       trap_stall \/ \E s \in Slots : Waiting(s) /\ Serial(uop[s])

RecoveryInv == /\ IndInv /\ RebuildInv /\ MappedInv
               /\ BruKind /\ BruOldest /\ WrongInv /\ SerialHeld

(***************************************************************************)
(* How a cycle moves the window.                                           *)
(***************************************************************************)

\* Every offset shrinks by the number of commits, and what retires is what
\* would fall below zero.
LEMMA CycleOffsets ==
    ASSUME IndInv, NEW alloc, NEW x, NEW fin, NEW fence,
           Ports(alloc, x, fence), Cycle(alloc, x, fin, fence)
    PROVE  /\ queue_head \in Slots /\ queue_count \in 0 .. PRODUCER_NUM
           /\ CommitCount \in 0 .. 2 /\ CommitCount <= queue_count
           /\ bru.redirect => CommitCount <= 1
           /\ queue_head' = Plus(queue_head, CommitCount)
           /\ queue_head' \in Slots
           /\ \A s \in Slots :
                 /\ Off(queue_head, s) \in 0 .. PRODUCER_NUM - 1
                 /\ Off(queue_head', s) =
                       IF Off(queue_head, s) >= CommitCount
                       THEN Off(queue_head, s) - CommitCount
                       ELSE Off(queue_head, s) - CommitCount + PRODUCER_NUM
                 /\ Retires(s) <=> Off(queue_head, s) < CommitCount
                 /\ producer_valid[s] <=> Off(queue_head, s) < queue_count
<1>1. TypeOK /\ RingInv
  BY DEF IndInv
<1>2. queue_head \in Slots /\ queue_count \in 0 .. PRODUCER_NUM
  BY <1>1 DEF TypeOK
<1>3. /\ CommitCount \in 0 .. 2 /\ CommitCount <= queue_count
      /\ bru.redirect => CommitCount <= 1
      /\ HeadAfterCommit = Plus(queue_head, CommitCount)
      /\ \A s \in Slots : Retires(s) <=> Off(queue_head, s) < CommitCount
  BY <1>1, CommitWindow
<1>4. CommitCount \in 0 .. PRODUCER_NUM
  BY <1>2, <1>3, CtrlAssumption
<1>5. queue_head' = Plus(queue_head, CommitCount) /\ queue_head' \in Slots
  BY <1>2, <1>3, <1>4, PlusType DEF Cycle, QueueStep
<1>6. \A s \in Slots :
         /\ Off(queue_head, s) \in 0 .. PRODUCER_NUM - 1
         /\ Off(queue_head', s) =
               IF Off(queue_head, s) >= CommitCount
               THEN Off(queue_head, s) - CommitCount
               ELSE Off(queue_head, s) - CommitCount + PRODUCER_NUM
  BY <1>2, <1>4, <1>5, OffType, OffShift
<1>7. \A s \in Slots : producer_valid[s] <=> Off(queue_head, s) < queue_count
  BY <1>1, OffsetOff DEF RingInv
<1> QED BY <1>2, <1>3, <1>5, <1>6, <1>7

\* A number less itself is zero.
LEMMA LessItself == \A n \in Int : n - n = 0
OBVIOUS

\* Two slots have the same offset only if they are the same.
LEMMA OffInjective ==
    ASSUME NEW h \in Slots, NEW s \in Slots, NEW z \in Slots,
           Off(h, s) = Off(h, z)
    PROVE  s = z
BY CtrlAssumption DEF Off, Slots

\* Offsets keep their order among the slots that do not retire.
LEMMA OrderKept ==
    ASSUME IndInv, NEW alloc, NEW x, NEW fin, NEW fence,
           Ports(alloc, x, fence), Cycle(alloc, x, fin, fence),
           NEW s \in Slots, NEW z \in Slots, ~Retires(s), ~Retires(z)
    PROVE  /\ Off(queue_head', s) < Off(queue_head', z) <=>
                 Off(queue_head, s) < Off(queue_head, z)
           /\ Off(queue_head', s) <= Off(queue_head', z) <=>
                 Off(queue_head, s) <= Off(queue_head, z)
<1>1. /\ CommitCount \in 0 .. 2
      /\ \A y \in {s, z} : /\ Off(queue_head, y) \in 0 .. PRODUCER_NUM - 1
                           /\ Off(queue_head, y) >= CommitCount
                           /\ Off(queue_head', y) =
                                 Off(queue_head, y) - CommitCount
  <2>1. /\ CommitCount \in 0 .. 2
        /\ \A y \in Slots :
                 /\ Off(queue_head, y) \in 0 .. PRODUCER_NUM - 1
                 /\ Off(queue_head', y) =
                       IF Off(queue_head, y) >= CommitCount
                       THEN Off(queue_head, y) - CommitCount
                       ELSE Off(queue_head, y) - CommitCount + PRODUCER_NUM
                 /\ Retires(y) <=> Off(queue_head, y) < CommitCount
    BY CycleOffsets
  <2>2. \A y \in {s, z} : Off(queue_head, y) >= CommitCount
    BY <2>1
  <2> QED BY <2>1, <2>2
<1> QED BY <1>1

\* A slot dispatched into lies behind every slot in flight, before and after.
LEMMA DispatchBehind ==
    ASSUME IndInv, NEW alloc, NEW x, NEW fin, NEW fence,
           Ports(alloc, x, fence), Cycle(alloc, x, fin, fence),
           NEW s \in Slots, Allocs(alloc, s)
    PROVE  /\ ~Retires(s)
           /\ \A b \in Slots : producer_valid[b] =>
                 Off(queue_head, b) < Off(queue_head, s)
<1>1. /\ TypeOK /\ RingInv /\ alloc \in Allocations /\ MayDispatch(alloc)
  BY DEF IndInv, Ports
<1>2. queue_count <= Off(queue_head, s)
  BY <1>1, AllocWindow
<1>3. /\ queue_count \in 0 .. PRODUCER_NUM
      /\ CommitCount \in 0 .. 2 /\ CommitCount <= queue_count
      /\ \A b \in Slots :
            /\ Off(queue_head, b) \in 0 .. PRODUCER_NUM - 1
            /\ Retires(b) <=> Off(queue_head, b) < CommitCount
            /\ producer_valid[b] <=> Off(queue_head, b) < queue_count
  BY CycleOffsets
<1> QED BY <1>2, <1>3

(***************************************************************************)
(* Branches.                                                               *)
(***************************************************************************)

\* A waiting branch executes only by resolving in the BRU.
LEMMA BranchExecutes ==
    ASSUME IndInv, NEW alloc, NEW x, NEW fin, NEW fence,
           Ports(alloc, x, fence), NEW s \in Slots, Waiting(s),
           Branch(uop[s]), OwnResult(x, fin, fence, s)
    PROVE  bru.id = Id(s)
<1>1. TypeOK /\ MduWaits /\ queue_head \in Slots
  BY DEF IndInv, TypeOK
<1>2. Id(s) # NoId /\ Id(s).slot = s
  BY <1>1, IdType
<1>3. ~DueToken(x, s)
  BY DEF DueToken
<1>4. ~(MduHit(fin, s) /\ ~mdu.squashed)
  BY <1>1, <1>2 DEF MduHit, MduWaits, Branch
<1>5. fence # Id(s)
  <2>1. SUFFICES ASSUME fence = Id(s)
                 PROVE  FALSE
    OBVIOUS
  <2>2. Id(queue_head) = Id(s) /\ uop[queue_head].kind = "fence"
    BY <1>2, <2>1 DEF Ports, FenceAtHead
  <2>3. queue_head = s
    BY <1>1, <2>2, IdType
  <2> QED BY <2>2, <2>3 DEF Branch
<1> QED BY <1>3, <1>4, <1>5 DEF OwnResult

\* A branch that waits after a cycle was dispatched in it, or waited before
\* it and is not the one the BRU resolved.
LEMMA WaitingBefore ==
    ASSUME IndInv, NEW alloc, NEW x, NEW fin, NEW fence,
           Ports(alloc, x, fence), Cycle(alloc, x, fin, fence),
           NEW s \in Slots, Waiting(s)', ~Allocs(alloc, s)
    PROVE  /\ Waiting(s) /\ ~Retires(s) /\ Kept(fence, s)
           /\ uop'[s] = uop[s] /\ bru.id # Id(s)
<1>1. producer_valid'[s] /\ ~executed'[s]
  BY DEF Waiting
<1> QED BY <1>1, KeptSlot DEF Waiting, OwnResult

\* A waiting mispredicted branch that is not resolving waits on if it is not
\* cut off.
LEMMA MisledWaits ==
    ASSUME IndInv, NEW alloc, NEW x, NEW fin, NEW fence,
           Ports(alloc, x, fence), Cycle(alloc, x, fin, fence),
           NEW b \in Slots, Waiting(b), Branch(uop[b]),
           bru.id # Id(b), Kept(fence, b)
    PROVE  Waiting(b)' /\ uop'[b] = uop[b] /\ ~Retires(b)
<1>1. /\ producer_valid'[b] /\ uop'[b] = uop[b]
      /\ executed'[b] <=> OwnResult(x, fin, fence, b)
  BY WaitingSurvives DEF Waiting
<1>2. ~OwnResult(x, fin, fence, b)
  BY BranchExecutes
<1>3. ~Retires(b)
  BY RetiredIsExecuted DEF Waiting
<1> QED BY <1>1, <1>2, <1>3 DEF Waiting

\* The branch that enters the BRU register is the oldest that then waits.
LEMMA CycleResolves ==
    ASSUME IndInv, NEW alloc, NEW x, NEW fin, NEW fence,
           Ports(alloc, x, fence), Cycle(alloc, x, fin, fence)
    PROVE  BruKind' /\ BruOldest'
<1>1. TypeOK /\ x \in Executions /\ ResolvingBranchInRob
  BY DEF IndInv, Ports
<1>2. bru' = NextBru(x, fence)
  BY DEF Cycle, BackendStep
<1>3. CASE \E s \in x : Branch(uop[s]) /\ Kept(fence, s)
  <2>1. PICK s \in x : Branch(uop[s]) /\ Kept(fence, s)
    BY <1>3
  <2>2. /\ (CHOOSE b \in x : Branch(uop[b])) = s
        /\ s \in Slots /\ producer_valid[s] /\ ~executed[s]
        /\ bru.id # Id(s)
    BY <1>1, <2>1, BranchOfX
  <2>3. bru' = [id |-> Id(s), redirect |-> uop[s].kind = "brmis"]
    BY <1>2, <1>3, <2>2 DEF NextBru
  <2>4. bru'.id.slot = s /\ (bru'.redirect <=> uop[s].kind = "brmis")
    BY <1>1, <2>2, <2>3, IdType
  <2>5. Waiting(s)' /\ uop'[s] = uop[s] /\ ~Retires(s)
    BY <2>1, <2>2, MisledWaits DEF Waiting
  <2>6. BruKind'
    BY <2>4, <2>5 DEF BruKind
  <2>7. ASSUME NEW b \in Slots, Waiting(b)', Branch(uop'[b])
        PROVE  Off(queue_head', s) <= Off(queue_head', b)
    <3>1. CASE Allocs(alloc, b)
      <4>1. Off(queue_head, s) < Off(queue_head, b) /\ ~Retires(b)
        BY <2>2, <3>1, DispatchBehind
      <4>2. Off(queue_head, s) \in Int /\ Off(queue_head, b) \in Int
        BY <2>2, CycleOffsets
      <4> QED BY <2>2, <2>5, <4>1, <4>2, OrderKept
    <3>2. CASE ~Allocs(alloc, b)
      <4>1. Waiting(b) /\ ~Retires(b) /\ uop'[b] = uop[b] /\ bru.id # Id(b)
        BY <2>7, <3>2, WaitingBefore
      <4>2. Unresolved(b)
        BY <2>7, <4>1 DEF Unresolved, Waiting, Branch
      <4>3. Offset(s) <= Offset(b)
        BY <1>1, <2>1, <4>2, ExecutionType DEF Ready
      <4>4. Off(queue_head, s) <= Off(queue_head, b)
        BY <4>3, OffsetOff
      <4> QED BY <2>2, <2>5, <4>1, <4>4, OrderKept
    <3> QED BY <3>1, <3>2
  <2>8. BruOldest'
    <3>1. \A b \in Slots : (Waiting(b) /\ Branch(uop[b]))' =>
             Off(queue_head', s) <= Off(queue_head', b)
      BY <2>7 DEF Branch
    <3> QED BY <2>4, <3>1 DEF BruOldest, Off
  <2> QED BY <2>6, <2>8
<1>4. CASE ~ \E s \in x : Branch(uop[s]) /\ Kept(fence, s)
  <2>1. bru' = NoBru
    BY <1>2, <1>4 DEF NextBru
  <2> QED BY <2>1 DEF NoBru, BruKind, BruOldest
<1> QED BY <1>3, <1>4

\* A cycle that resolves a waiting mispredicted branch dispatches nothing and
\* cuts off everything behind it.
LEMMA MispredictCuts ==
    ASSUME RecoveryInv, NEW alloc, NEW x, NEW fin, NEW fence,
           Ports(alloc, x, fence), Cycle(alloc, x, fin, fence),
           NEW b \in Slots, Waiting(b), uop[b].kind = "brmis",
           bru.id = Id(b)
    PROVE  /\ bru.redirect /\ fence = NoId /\ RecoveryEvent(fence)
           /\ RecoverySlot(fence) = b
           /\ \A s \in Slots : Kept(fence, s) <=>
                 Off(queue_head, s) <= Off(queue_head, b)
<1>1. IndInv /\ TypeOK /\ BruKind /\ ResolvingBranchInRob
  BY DEF RecoveryInv, IndInv
<1>2. Id(b) # NoId /\ Id(b).slot = b
  BY <1>1, IdType
<1>3. bru.redirect /\ Live(bru.id)
  BY <1>1, <1>2 DEF BruKind, ResolvingBranchInRob
<1>4. fence = NoId
  BY <1>3 DEF Ports
<1>5. RecoveryEvent(fence) /\ RecoverySlot(fence) = b
  BY <1>2, <1>3, <1>4 DEF RecoveryEvent, BranchLive, RecoverySlot, Live
<1>6. \A s \in Slots : InRecoveryWindow(fence, s) <=>
         Off(queue_head, s) <= Off(queue_head, b)
  BY <1>1, <1>5, RecoveryWindow
<1> QED BY <1>3, <1>4, <1>5, <1>6 DEF Kept

\* A slot older than a kept one is kept.
LEMMA KeptOlder ==
    ASSUME IndInv, NEW alloc, NEW x, NEW fence, Ports(alloc, x, fence),
           NEW s \in Slots, Kept(fence, s), NEW b \in Slots,
           Off(queue_head, b) < Off(queue_head, s)
    PROVE  Kept(fence, b)
<1>1. CASE ~RecoveryEvent(fence)
  BY <1>1 DEF Kept
<1>2. CASE RecoveryEvent(fence)
  <2> DEFINE c == RecoverySlot(fence)
  <2>1. c \in Slots /\ \A z \in Slots : InRecoveryWindow(fence, z) <=>
           Off(queue_head, z) <= Off(queue_head, c)
    BY <1>2, RecoveryWindow
  <2>2. \A z \in Slots : Off(queue_head, z) \in 0 .. PRODUCER_NUM - 1
    BY OffType DEF IndInv, TypeOK
  <2> HIDE DEF c
  <2> QED BY <1>2, <2>1, <2>2 DEF Kept
<1> QED BY <1>1, <1>2

\* Nothing of a wrong path outlives the resolution of the branch that misled
\* it.
LEMMA CycleWrong ==
    ASSUME RecoveryInv, NEW alloc, NEW x, NEW fin, NEW fence,
           Ports(alloc, x, fence), Cycle(alloc, x, fin, fence)
    PROVE  WrongInv'
<1>1. IndInv /\ TypeOK /\ WrongInv
  BY DEF RecoveryInv, IndInv
<1>2. SUFFICES ASSUME NEW s \in Slots, wrong'[s]
               PROVE  /\ producer_valid'[s]
                      /\ \E b \in Slots :
                            /\ Waiting(b)' /\ uop'[b].kind = "brmis"
                            /\ Off(queue_head', b) < Off(queue_head', s)
  BY DEF WrongInv, Off
<1>3. ASSUME NEW b \in Slots, Waiting(b), uop[b].kind = "brmis",
             bru.id # Id(b), Kept(fence, b), ~Retires(s),
             Off(queue_head, b) < Off(queue_head, s)
      PROVE  /\ Waiting(b)' /\ uop'[b].kind = "brmis"
             /\ Off(queue_head', b) < Off(queue_head', s)
  <2>1. Waiting(b)' /\ uop'[b] = uop[b] /\ ~Retires(b)
    BY <1>1, <1>3, MisledWaits DEF Branch
  <2> QED BY <1>1, <1>3, <2>1, OrderKept
<1>4. CASE Allocs(alloc, s)
  <2>1. ~bru.redirect /\ ~RecoveryEvent(fence)
    BY <1>1, <1>4, AllocatedSlot
  <2>2. /\ ~Retires(s)
        /\ \A b \in Slots : producer_valid[b] =>
              Off(queue_head, b) < Off(queue_head, s)
    BY <1>1, <1>4, DispatchBehind
  <2>3. producer_valid'[s]
    BY <1>1, <1>4, FilledSlot
  <2>4. CASE Misled
    <3>1. PICK b \in Slots : Waiting(b) /\ uop[b].kind = "brmis"
      BY <2>4 DEF Misled, Waiting
    <3>2. bru.id # Id(b)
      BY <2>1, <3>1, MispredictCuts
    <3>3. Kept(fence, b)
      BY <2>1 DEF Kept
    <3> QED BY <1>3, <2>2, <2>3, <3>1, <3>2, <3>3 DEF Waiting
  <2>5. CASE s # AllocSlot(1) /\ alloc[1].kind = "brmis"
    <3>1. PICK i \in 1 .. Len(alloc) : s = AllocSlot(i)
      BY <1>4 DEF Allocs
    <3>2. Len(alloc) \in 1 .. 2 /\ alloc \in Allocations
          /\ MayDispatch(alloc)
      BY <3>1, BatchType DEF Ports
    <3>3. i = 2 /\ Len(alloc) = 2
      <4>1. i # 1
        BY <2>5, <3>1
      <4>2. CASE Len(alloc) = 1
        BY <4>1, <4>2
      <4>3. CASE Len(alloc) = 2
        BY <4>1, <4>3
      <4> QED BY <3>2, <4>2, <4>3
    <3>0. PICK b : b = AllocSlot(1)
      OBVIOUS
    <3>4. /\ b \in Slots /\ Allocs(alloc, b)
          /\ UopOf(alloc, b) = alloc[1]
      <4>1. AllocSlot(1) \in Slots
        BY <1>1, PlusType, CtrlAssumption DEF AllocSlot, TypeOK
      <4> QED BY <3>0, <3>3, <4>1 DEF Allocs, UopOf
    <3>5. Waiting(b)' /\ uop'[b].kind = "brmis"
      BY <1>1, <2>5, <3>4, FilledSlot DEF Waiting
    <3>6. Off(queue_head, b) < Off(queue_head, s)
      <4>1. /\ queue_tail = Plus(queue_head, queue_count)
            /\ queue_head \in Slots /\ queue_count \in 0 .. PRODUCER_NUM
            /\ RingInv
        BY <1>1 DEF IndInv, RingInv, TypeOK
      <4>2. queue_count + 2 <= PRODUCER_NUM
        BY <1>1, <3>2, <3>3, <4>1, AllocWindow
      <4>3. b = Plus(queue_tail, 0) /\ s = Plus(queue_tail, 1)
        BY <3>0, <3>1, <3>3 DEF AllocSlot
      <4>4. b = Plus(queue_head, queue_count)
            /\ s = Plus(queue_head, queue_count + 1)
        BY <4>1, <4>2, <4>3, CtrlAssumption DEF Plus, Slots
      <4>5. Off(queue_head, b) = queue_count
            /\ Off(queue_head, s) = queue_count + 1
        <5>1. /\ queue_count \in 0 .. PRODUCER_NUM - 1
              /\ queue_count + 1 \in 0 .. PRODUCER_NUM - 1
          BY <4>1, <4>2, CtrlAssumption
        <5> QED BY <4>1, <4>4, <5>1, OffPlus
      <4> QED BY <4>1, <4>5
    <3>7. ~Retires(b)
      BY <1>1, <3>4, DispatchBehind
    <3>8. Off(queue_head', b) < Off(queue_head', s)
      BY <1>1, <2>2, <3>4, <3>6, <3>7, OrderKept
    <3> QED BY <2>3, <3>4, <3>5, <3>8
  <2>6. Misled \/ (s # AllocSlot(1) /\ alloc[1].kind = "brmis")
    BY <1>2, <1>4 DEF Cycle, BackendStep
  <2> QED BY <2>4, <2>5, <2>6
<1>5. CASE ~Allocs(alloc, s)
  <2>1. producer_valid'[s] /\ wrong[s]
    BY <1>2, <1>5 DEF Cycle, BackendStep
  <2>2. ~Retires(s) /\ Kept(fence, s)
    BY <1>1, <1>5, <2>1, KeptSlot
  <2>3. PICK b \in Slots : /\ Waiting(b) /\ uop[b].kind = "brmis"
                           /\ Off(queue_head, b) < Off(queue_head, s)
    BY <1>1, <2>1 DEF WrongInv
  <2>4. bru.id # Id(b)
    <3>1. SUFFICES ASSUME bru.id = Id(b)
                   PROVE  FALSE
      OBVIOUS
    <3>2. Off(queue_head, s) <= Off(queue_head, b)
      BY <2>2, <2>3, <3>1, MispredictCuts
    <3>3. Off(queue_head, s) \in Int /\ Off(queue_head, b) \in Int
      BY <1>1, CycleOffsets
    <3> QED BY <2>3, <3>2, <3>3
  <2>5. Kept(fence, b)
    BY <1>1, <2>2, <2>3, KeptOlder
  <2> QED BY <1>3, <2>1, <2>2, <2>3, <2>4, <2>5
<1> QED BY <1>4, <1>5

\* A serial uop keeps its flag until it executes, is squashed or traps.
LEMMA CycleSerialHeld ==
    ASSUME RecoveryInv, NEW alloc, NEW x, NEW fin, NEW fence,
           Ports(alloc, x, fence), Cycle(alloc, x, fin, fence)
    PROVE  SerialHeld'
<1>1. /\ IndInv /\ TypeOK /\ SerialHeld /\ ResolvingBranchInRob /\ MduWaits
      /\ x \in Executions /\ alloc \in Allocations
  BY DEF RecoveryInv, IndInv, Ports
<1>2. SUFFICES ASSUME serial_pending', ~trap_stall'
               PROVE  \E s \in Slots : Waiting(s)' /\ Serial(uop'[s])
  BY DEF SerialHeld, Serial
<1>3. /\ ~bru.redirect /\ ~SerialAccept(x, fence)
      /\ serial_pending \/ SerialAlloc(alloc)
  BY <1>2 DEF Cycle, SerialStep
<1>4. fence = NoId /\ ~RecoveryEvent(fence)
  BY <1>3 DEF SerialAccept, RecoveryEvent, BranchLive, Live
<1>5. CASE serial_pending
  <2>1. ~trap_stall
    BY <1>1, <1>2 DEF Cycle, BackendStep, TypeOK
  <2>2. PICK s \in Slots : Waiting(s) /\ Serial(uop[s])
    BY <1>1, <1>5, <2>1 DEF SerialHeld
  <2>3. Id(s) # NoId /\ Id(s).slot = s
    BY <1>1, IdType
  <2>4. bru.id # Id(s)
    BY <1>1, <2>2, <2>3 DEF ResolvingBranchInRob, Branch, Serial
  <2>5. Kept(fence, s)
    BY <1>4 DEF Kept
  <2>6. /\ producer_valid'[s] /\ uop'[s] = uop[s]
        /\ executed'[s] <=> OwnResult(x, fin, fence, s)
    BY <1>1, <2>2, <2>4, <2>5, WaitingSurvives DEF Waiting
  <2>7. ~DueToken(x, s)
    <3>1. SUFFICES ASSUME s \in x
                   PROVE  FALSE
      BY DEF DueToken
    <3>2. uop[s].kind # "fence"
      BY <1>1, <3>1, ExecutionType DEF Ready
    <3>3. uop[s].kind # "csr"
      BY <1>3, <3>1 DEF SerialAccept
    <3>4. uop[s].kind # "sys"
      BY <1>2, <3>1 DEF Cycle, BackendStep
    <3> QED BY <2>2, <3>2, <3>3, <3>4 DEF Serial
  <2>8. ~(MduHit(fin, s) /\ ~mdu.squashed)
    BY <1>1, <2>2, <2>3 DEF MduHit, MduWaits, Serial
  <2>9. ~OwnResult(x, fin, fence, s)
    BY <1>4, <2>3, <2>4, <2>7, <2>8 DEF OwnResult
  <2> QED BY <2>2, <2>6, <2>9 DEF Waiting
<1>6. CASE SerialAlloc(alloc)
  <2>1. PICK i \in 1 .. Len(alloc) : Serial(alloc[i])
    BY <1>6 DEF SerialAlloc
  <2>2. i \in {1, 2} /\ Len(alloc) \in 1 .. 2
    BY <1>1, <2>1, BatchType
  <2>3. AllocSlot(i) \in Slots /\ Allocs(alloc, AllocSlot(i))
    BY <1>1, <2>1, <2>2, PlusType, CtrlAssumption
       DEF AllocSlot, TypeOK, Allocs
  <2>4. AllocSlot(1) # AllocSlot(2)
    BY <1>1, CtrlAssumption DEF AllocSlot, Plus, TypeOK, Slots
  <2>5. UopOf(alloc, AllocSlot(i)) = alloc[i]
    BY <2>2, <2>4 DEF UopOf
  <2>6. /\ producer_valid'[AllocSlot(i)] /\ ~executed'[AllocSlot(i)]
        /\ uop'[AllocSlot(i)] = alloc[i]
    BY <1>1, <2>3, <2>5, FilledSlot
  <2> QED BY <2>1, <2>3, <2>6 DEF Waiting
<1> QED BY <1>3, <1>5, <1>6

(***************************************************************************)
(* The register alias table.                                               *)
(***************************************************************************)

\* Nothing is dispatched while the RAT is rebuilt.
LEMMA RebuildHolds ==
    ASSUME NEW alloc, NEW x, NEW fence, Ports(alloc, x, fence), recovering
    PROVE  Len(alloc) = 0 /\ \A s : ~Allocs(alloc, s)
<1>1. alloc \in Allocations /\ MayDispatch(alloc)
  BY DEF Ports
<1>2. Len(alloc) \in 0 .. 2
  BY <1>1, BatchType
<1>3. Len(alloc) = 0
  BY <1>1, <1>2 DEF MayDispatch, DispatchReady
<1> QED BY <1>3 DEF Allocs

\* The rebuild pointer moves two slots a cycle and the head at most two, so
\* the head never overtakes it.
LEMMA CycleRebuildInv ==
    ASSUME RecoveryInv, NEW alloc, NEW x, NEW fin, NEW fence,
           Ports(alloc, x, fence), Cycle(alloc, x, fin, fence)
    PROVE  RebuildInv'
<1>1. IndInv /\ RebuildInv /\ RebuildStep(fence) /\ QueueStep(alloc, fence)
  BY DEF RecoveryInv, Cycle
<1>2. /\ queue_head \in Slots /\ queue_count \in 0 .. PRODUCER_NUM
      /\ CommitCount \in 0 .. 2 /\ CommitCount <= queue_count
      /\ queue_head' = Plus(queue_head, CommitCount)
      /\ queue_head' \in Slots
  BY <1>1, CycleOffsets
<1>3. queue_count' \in 0 .. PRODUCER_NUM /\ queue_count' \in Int
  BY <1>1, CycleRing, CtrlAssumption
<1>4. CASE RecoveryEvent(fence)
  <2>1. /\ recovering' = (queue_count' # 0) /\ rebuild_ptr' = queue_head'
        /\ rebuild_remaining' = queue_count'
    BY <1>1, <1>4 DEF RebuildStep, QueueStep
  <2>2. queue_head' = Plus(queue_head', 0)
    BY <1>2, CtrlAssumption DEF Plus, Slots
  <2>3. queue_count' - queue_count' = 0
    BY <1>3, LessItself
  <2>4. queue_count' # 0 => queue_count' \in 1 .. queue_count'
    BY <1>3
  <2> QED BY <2>1, <2>2, <2>3, <2>4 DEF RebuildInv, Plus
<1>5. CASE /\ ~RecoveryEvent(fence)
           /\ ~recovering \/ rebuild_remaining <= 2
  BY <1>1, <1>5 DEF RebuildStep, RebuildInv
<1>6. CASE /\ ~RecoveryEvent(fence)
           /\ recovering /\ ~(rebuild_remaining <= 2)
  <2>1. /\ rebuild_ptr' = Plus(rebuild_ptr, 2)
        /\ rebuild_remaining' = rebuild_remaining - 2
    BY <1>1, <1>6 DEF RebuildStep
  <2>2. Len(alloc) = 0
    BY <1>6, RebuildHolds
  <2>3. queue_count' = queue_count - CommitCount
    BY <1>1, <1>2, <1>6, <2>2 DEF QueueStep
  <2>4. /\ rebuild_remaining \in 1 .. queue_count
        /\ rebuild_ptr = Plus(queue_head, queue_count - rebuild_remaining)
    BY <1>1, <1>6 DEF RebuildInv
  <2>5. PICK d \in Nat : /\ d = queue_count - rebuild_remaining
                         /\ d + 3 <= queue_count
    BY <1>2, <1>6, <2>4
  <2>6. rebuild_ptr' = Plus(queue_head, d + 2)
    <3>1. 2 \in Nat /\ d + 2 <= PRODUCER_NUM
      BY <1>2, <2>5, CtrlAssumption
    <3> QED BY <1>2, <2>1, <2>4, <2>5, <3>1, PlusPlus
  <2>7. PICK m \in Nat : m = queue_count' - rebuild_remaining'
                         /\ CommitCount + m = d + 2
    BY <1>2, <2>1, <2>3, <2>4, <2>5
  <2>8. Plus(queue_head', m) = Plus(queue_head, d + 2)
    <3>1. CommitCount \in Nat /\ CommitCount + m <= PRODUCER_NUM
      BY <1>2, <2>5, <2>7, CtrlAssumption
    <3> QED BY <1>2, <2>7, <3>1, PlusPlus
  <2>9. rebuild_remaining' \in 1 .. queue_count'
    BY <1>2, <1>6, <2>1, <2>3, <2>4, <2>5
  <2> QED BY <2>6, <2>7, <2>8, <2>9 DEF RebuildInv, Plus
<1> QED BY <1>4, <1>5, <1>6

\* The slots the RAT accounts for after a cycle, by their offsets before it:
\* "upto" is where mapping had got to, seen from the old head.
Advances(alloc, upto) ==
    /\ upto \in 0 .. PRODUCER_NUM /\ Known <= upto /\ CommitCount <= upto
    /\ Known' = upto - CommitCount
    /\ \A s \in Slots : Off(queue_head, s) < Known => ~Allocs(alloc, s)

\* Which slots map r after such a cycle.
LEMMA MapsAfter ==
    ASSUME IndInv, NEW alloc, NEW x, NEW fin, NEW fence,
           Ports(alloc, x, fence), Cycle(alloc, x, fin, fence),
           NEW upto, Advances(alloc, upto),
           NEW r \in REGS, NEW s \in Slots
    PROVE  Maps(s, r)' <=> /\ CommitCount <= Off(queue_head, s)
                           /\ Off(queue_head, s) < upto
                           /\ producer_rd'[s] = r
<1>1. /\ CommitCount \in 0 .. 2
      /\ Off(queue_head, s) \in 0 .. PRODUCER_NUM - 1
      /\ Off(queue_head', s) =
            IF Off(queue_head, s) >= CommitCount
            THEN Off(queue_head, s) - CommitCount
            ELSE Off(queue_head, s) - CommitCount + PRODUCER_NUM
  BY CycleOffsets
<1>2. upto \in 0 .. PRODUCER_NUM /\ Known' = upto - CommitCount
  BY DEF Advances
<1>3. Off(queue_head', s) < Known' <=> /\ CommitCount <= Off(queue_head, s)
                                       /\ Off(queue_head, s) < upto
  BY <1>1, <1>2, CtrlAssumption
<1> QED BY <1>3 DEF Maps, Off

\* A register mapped to the youngest slot that writes it is mapped right.
LEMMA MapNew ==
    ASSUME IndInv, NEW alloc, NEW x, NEW fin, NEW fence,
           Ports(alloc, x, fence), Cycle(alloc, x, fin, fence),
           NEW upto, Advances(alloc, upto),
           NEW r \in REGS, NEW s \in Slots, ~Retires(s),
           Off(queue_head, s) < upto,
           producer_rd'[s] = r, latest'[r] = Id(s)',
           \A z \in Slots : /\ Off(queue_head, s) < Off(queue_head, z)
                            /\ Off(queue_head, z) < upto
                            => producer_rd'[z] # r
    PROVE  Mapped(r)'
<1>1. \A z \in Slots :
         /\ Off(queue_head, z) \in 0 .. PRODUCER_NUM - 1
         /\ Retires(z) <=> Off(queue_head, z) < CommitCount
  BY CycleOffsets
<1>2. CommitCount \in 0 .. 2
  BY CycleOffsets
<1>3. Maps(s, r)'
  BY <1>1, <1>2, MapsAfter
<1>4. ASSUME NEW z \in Slots, Maps(z, r)'
      PROVE  Off(queue_head', z) <= Off(queue_head', s)
  <2>1. /\ CommitCount <= Off(queue_head, z) /\ Off(queue_head, z) < upto
        /\ producer_rd'[z] = r
    BY <1>4, MapsAfter
  <2>2. ~Retires(z) /\ Off(queue_head, z) <= Off(queue_head, s)
    BY <1>1, <1>2, <2>1
  <2> QED BY <2>2, OrderKept
<1> QED BY <1>3, <1>4 DEF Mapped, Off

\* A register nothing new maps keeps its mapping until that producer retires.
LEMMA MapKeep ==
    ASSUME IndInv, NEW alloc, NEW x, NEW fin, NEW fence,
           Ports(alloc, x, fence), Cycle(alloc, x, fin, fence),
           NEW upto, Advances(alloc, upto),
           NEW r \in REGS, Mapped(r),
           \A z \in Slots : /\ Known <= Off(queue_head, z)
                            /\ Off(queue_head, z) < upto
                            /\ producer_rd'[z] = r
                            => Retires(z),
           latest'[r] = IF RetiresMapping(r) THEN NoId ELSE latest[r]
    PROVE  Mapped(r)'
<1>1. /\ TypeOK /\ CommitCount \in 0 .. 2 /\ Known \in Int
      /\ \A z \in Slots :
            /\ Off(queue_head, z) \in 0 .. PRODUCER_NUM - 1
            /\ Retires(z) <=> Off(queue_head, z) < CommitCount
  <2>1. TypeOK
    BY DEF IndInv
  <2>2. Known \in Int
    BY <2>1, CtrlAssumption DEF Known, TypeOK
  <2> QED BY <2>1, <2>2, CycleOffsets
<1>2. ASSUME NEW z \in Slots, Maps(z, r)'
      PROVE  Maps(z, r) /\ ~Retires(z)
  <2>1. /\ CommitCount <= Off(queue_head, z) /\ Off(queue_head, z) < upto
        /\ producer_rd'[z] = r
    BY <1>2, MapsAfter
  <2>2. ~Retires(z)
    BY <1>1, <2>1
  <2>3. Off(queue_head, z) < Known
    BY <1>1, <2>1, <2>2
  <2>4. ~Allocs(alloc, z)
    BY <2>3 DEF Advances
  <2>5. producer_rd'[z] = producer_rd[z]
    BY <2>2, <2>4 DEF Cycle, ProducerStep
  <2> QED BY <2>1, <2>2, <2>3, <2>5 DEF Maps
<1>3. CASE latest[r] = NoId /\ \A z \in Slots : ~Maps(z, r)
  <2>1. latest'[r] = NoId
    BY <1>3
  <2> QED BY <1>2, <1>3, <2>1 DEF Mapped, Off
<1>4. ASSUME NEW s \in Slots, Maps(s, r), latest[r] = Id(s),
             \A z \in Slots : Maps(z, r) =>
                Off(queue_head, z) <= Off(queue_head, s)
      PROVE  Mapped(r)'
  <2>1. latest[r] # NoId /\ latest[r].slot = s
    BY <1>1, <1>4, IdType
  <2>2. CASE Retires(s)
    <3>1. RetiresMapping(r)
      BY <1>4, <2>1, <2>2 DEF RetiresMapping, Maps
    <3>2. \A z \in Slots : ~Maps(z, r)'
      BY <1>1, <1>2, <1>4, <2>2
    <3> QED BY <3>1, <3>2 DEF Mapped, Off
  <2>3. CASE ~Retires(s)
    <3>1. latest'[r] = Id(s)
      BY <1>4, <2>1, <2>3 DEF RetiresMapping
    <3>2. Off(queue_head, s) < Known /\ producer_rd[s] = r
      BY <1>4 DEF Maps
    <3>3. ~Allocs(alloc, s)
      BY <3>2 DEF Advances
    <3>4. producer_rd'[s] = r /\ Id(s)' = Id(s)
      BY <2>3, <3>2, <3>3, KeptSlot DEF Cycle, ProducerStep
    <3>5. Off(queue_head, s) < upto
      BY <1>1, <3>2 DEF Advances
    <3>6. Maps(s, r)'
      BY <1>1, <2>3, <3>4, <3>5, MapsAfter
    <3>7. ASSUME NEW z \in Slots, Maps(z, r)'
          PROVE  Off(queue_head', z) <= Off(queue_head', s)
      BY <1>2, <1>4, <2>3, <3>7, OrderKept
    <3> QED BY <3>1, <3>4, <3>6, <3>7 DEF Mapped, Off
  <2> QED BY <2>2, <2>3
<1> QED BY <1>3, <1>4 DEF Mapped

\* A cycle keeps every register mapped to its youngest known writer.
LEMMA CycleMapped ==
    ASSUME RecoveryInv, NEW alloc, NEW x, NEW fin, NEW fence,
           Ports(alloc, x, fence), Cycle(alloc, x, fin, fence)
    PROVE  MappedInv'
<1> SUFFICES ASSUME NEW r \in REGS
             PROVE  Mapped(r)'
  BY DEF MappedInv
<1>1. /\ IndInv /\ RebuildInv /\ Mapped(r) /\ RebuildStep(fence)
      /\ QueueStep(alloc, fence) /\ TypeOK /\ RingInv
      /\ alloc \in Allocations /\ MayDispatch(alloc)
  BY DEF RecoveryInv, MappedInv, Cycle, IndInv, Ports
<1>2. /\ queue_head \in Slots /\ queue_count \in 0 .. PRODUCER_NUM
      /\ CommitCount \in 0 .. 2 /\ CommitCount <= queue_count
      /\ queue_head' \in Slots
      /\ \A s \in Slots :
            /\ Off(queue_head, s) \in 0 .. PRODUCER_NUM - 1
            /\ Retires(s) <=> Off(queue_head, s) < CommitCount
            /\ producer_valid[s] <=> Off(queue_head, s) < queue_count
  BY <1>1, CycleOffsets
<1>3. queue_count' \in 0 .. PRODUCER_NUM /\ queue_count' \in Int
  BY <1>1, CycleRing, CtrlAssumption
<1>4. latest'[r] =
         IF RecoveryEvent(fence) THEN NoId
         ELSE IF Rebuild1(r) THEN Id(RebuildPtr1)
         ELSE IF Rebuild0(r) THEN Id(rebuild_ptr)
         ELSE IF Len(alloc) = 2 /\ alloc[2].rd = r THEN AllocId(2)
         ELSE IF Len(alloc) >= 1 /\ alloc[1].rd = r THEN AllocId(1)
         ELSE IF RetiresMapping(r) THEN NoId
         ELSE latest[r]
  BY DEF Cycle, NextLatest
\* The recovery clears the table and has everything still to map.
<1>5. CASE RecoveryEvent(fence)
  <2>1. /\ recovering' = (queue_count' # 0)
        /\ rebuild_remaining' = queue_count'
    BY <1>1, <1>5 DEF RebuildStep, QueueStep
  <2>2. Known' = 0
    <3>1. queue_count' - queue_count' = 0
      BY <1>3, LessItself
    <3> QED BY <2>1, <3>1 DEF Known
  <2>3. \A s \in Slots : Off(queue_head', s) \in 0 .. PRODUCER_NUM - 1
    BY <1>2, OffType
  <2>4. \A s \in Slots : ~(Off(queue_head', s) < Known')
    BY <2>2, <2>3, CtrlAssumption
  <2>5. latest'[r] = NoId
    BY <1>4, <1>5
  <2> QED BY <2>4, <2>5 DEF Mapped, Maps, Off
\* Dispatch maps the new uops' destinations.
<1>6. CASE ~RecoveryEvent(fence) /\ ~recovering
  <2>1. PICK upto : upto = queue_count + Len(alloc)
    OBVIOUS
  <2>2. /\ Len(alloc) \in 0 .. 2 /\ upto <= PRODUCER_NUM
        /\ \A s \in Slots : Allocs(alloc, s) <=>
              queue_count <= Off(queue_head, s) /\ Off(queue_head, s) < upto
    BY <1>1, <2>1, AllocWindow, BatchType
  <2>3. Known = queue_count
    BY <1>6 DEF Known
  <2>4. Known' = upto - CommitCount
    <3>1. ~recovering'
      BY <1>1, <1>6 DEF RebuildStep
    <3>2. queue_count' = upto - CommitCount
      <4>1. queue_count' = queue_count + Len(alloc) - CommitCount
        BY <1>1, <1>6 DEF QueueStep
      <4> QED BY <1>2, <2>1, <2>2, <4>1
    <3> QED BY <3>1, <3>2 DEF Known
  <2>5. Advances(alloc, upto)
    <3>1. upto \in 0 .. PRODUCER_NUM /\ Known <= upto /\ CommitCount <= upto
      BY <1>2, <2>1, <2>2, <2>3, CtrlAssumption
    <3>2. \A s \in Slots : Off(queue_head, s) < Known => ~Allocs(alloc, s)
      BY <1>2, <2>2, <2>3
    <3> QED BY <2>4, <3>1, <3>2 DEF Advances
  <2>6. ~Rebuild0(r) /\ ~Rebuild1(r)
    BY <1>6 DEF Rebuild0, Rebuild1, Rebuilds
  <2>7. ASSUME NEW i \in {1, 2}, i <= Len(alloc)
        PROVE  /\ AllocSlot(i) \in Slots /\ Allocs(alloc, AllocSlot(i))
               /\ Off(queue_head, AllocSlot(i)) = queue_count + (i - 1)
               /\ UopOf(alloc, AllocSlot(i)) = alloc[i]
               /\ producer_rd'[AllocSlot(i)] = alloc[i].rd
               /\ AllocId(i) = [slot |-> AllocSlot(i),
                                epoch |-> producer_epoch'[AllocSlot(i)]]
               /\ ~Retires(AllocSlot(i))
    <3>1. AllocSlot(i) \in Slots /\ Allocs(alloc, AllocSlot(i))
      <4>1. i \in 1 .. Len(alloc) /\ i - 1 \in 0 .. PRODUCER_NUM
        BY <2>2, <2>7, CtrlAssumption
      <4>2. queue_tail \in Slots
        BY <1>1 DEF TypeOK
      <4> QED BY <4>1, <4>2, PlusType DEF AllocSlot, Allocs
    <3>2. AllocSlot(i) = Plus(queue_head, queue_count + (i - 1))
      <4>1. /\ i - 1 \in Nat /\ queue_count \in Nat
            /\ queue_count + (i - 1) <= PRODUCER_NUM
        BY <1>2, <2>1, <2>2, <2>7, CtrlAssumption
      <4> QED BY <1>1, <1>2, <4>1, PlusPlus DEF AllocSlot, RingInv
    <3>3. Off(queue_head, AllocSlot(i)) = queue_count + (i - 1)
      <4>1. queue_count + (i - 1) \in 0 .. PRODUCER_NUM - 1
        BY <1>2, <2>1, <2>2, <2>7, CtrlAssumption
      <4> QED BY <1>2, <3>2, <4>1, OffPlus
    <3>4. AllocSlot(1) # AllocSlot(2)
      BY <1>1, CtrlAssumption DEF AllocSlot, Plus, TypeOK, Slots
    <3>5. UopOf(alloc, AllocSlot(i)) = alloc[i]
      BY <2>7, <3>4 DEF UopOf
    <3>6. /\ producer_rd'[AllocSlot(i)] = alloc[i].rd
          /\ AllocId(i) = [slot |-> AllocSlot(i),
                           epoch |-> producer_epoch'[AllocSlot(i)]]
      BY <3>1, <3>5 DEF Cycle, ProducerStep, AllocId
    <3>7. ~Retires(AllocSlot(i))
      BY <1>1, <3>1, DispatchBehind
    <3> QED BY <3>1, <3>3, <3>5, <3>6, <3>7
  <2>8. ASSUME NEW s \in Slots, Allocs(alloc, s)
        PROVE  \/ Len(alloc) >= 1 /\ s = AllocSlot(1)
               \/ Len(alloc) = 2 /\ s = AllocSlot(2)
    <3>1. PICK i \in 1 .. Len(alloc) : s = AllocSlot(i)
      BY <2>8 DEF Allocs
    <3>2. (i = 1 /\ Len(alloc) >= 1) \/ (i = 2 /\ Len(alloc) = 2)
      <4>1. CASE Len(alloc) = 1
        BY <3>1, <4>1
      <4>2. CASE Len(alloc) = 2
        BY <3>1, <4>2
      <4> QED BY <2>2, <3>1, <4>1, <4>2
    <3> QED BY <3>1, <3>2
  <2>9. CASE Len(alloc) = 2 /\ alloc[2].rd = r
    <3>1. PICK s : s = AllocSlot(2)
      OBVIOUS
    <3>2. /\ s \in Slots /\ ~Retires(s) /\ producer_rd'[s] = r
          /\ Off(queue_head, s) = queue_count + 1
          /\ AllocId(2) = [slot |-> s, epoch |-> producer_epoch'[s]]
      BY <2>7, <2>9, <3>1
    <3>3. latest'[r] = AllocId(2)
      BY <1>4, <1>6, <2>6, <2>9
    <3>4. latest'[r] = Id(s)'
      BY <3>2, <3>3 DEF Id
    <3>5. upto = queue_count + 2
      BY <2>1, <2>9
    <3>6. Off(queue_head, s) < upto
      BY <1>2, <3>2, <3>5
    <3>7. \A z \in Slots : ~(/\ Off(queue_head, s) < Off(queue_head, z)
                             /\ Off(queue_head, z) < upto)
      BY <1>2, <3>2, <3>5
    <3> QED BY <1>1, <2>5, <3>2, <3>4, <3>6, <3>7, MapNew
  <2>10. CASE /\ Len(alloc) >= 1 /\ alloc[1].rd = r
              /\ ~(Len(alloc) = 2 /\ alloc[2].rd = r)
    <3>1. PICK s : s = AllocSlot(1)
      OBVIOUS
    <3>2. /\ s \in Slots /\ ~Retires(s) /\ producer_rd'[s] = r
          /\ Off(queue_head, s) = queue_count + (1 - 1)
          /\ AllocId(1) = [slot |-> s, epoch |-> producer_epoch'[s]]
      BY <2>7, <2>10, <3>1
    <3>3. latest'[r] = AllocId(1)
      BY <1>4, <1>6, <2>6, <2>10
    <3>4. latest'[r] = Id(s)'
      BY <3>2, <3>3 DEF Id
    <3>5. Off(queue_head, s) = queue_count /\ Off(queue_head, s) < upto
      BY <1>2, <2>1, <2>2, <2>10, <3>2
    <3>6. ASSUME NEW z \in Slots, Off(queue_head, s) < Off(queue_head, z),
                 Off(queue_head, z) < upto
          PROVE  producer_rd'[z] # r
      <4>1. Allocs(alloc, z)
        BY <1>2, <2>2, <3>5, <3>6
      <4>2. z # s
        BY <1>2, <3>2, <3>6
      <4>3. Len(alloc) = 2 /\ z = AllocSlot(2)
        BY <2>8, <3>1, <4>1, <4>2
      <4> QED BY <2>7, <2>10, <4>3
    <3> QED BY <1>1, <2>5, <3>2, <3>4, <3>5, <3>6, MapNew
  <2>11. CASE /\ ~(Len(alloc) >= 1 /\ alloc[1].rd = r)
              /\ ~(Len(alloc) = 2 /\ alloc[2].rd = r)
    <3>1. latest'[r] = IF RetiresMapping(r) THEN NoId ELSE latest[r]
      BY <1>4, <1>6, <2>6, <2>11
    <3>2. ASSUME NEW z \in Slots, Known <= Off(queue_head, z),
                 Off(queue_head, z) < upto
          PROVE  producer_rd'[z] # r
      <4>1. Allocs(alloc, z)
        BY <2>2, <2>3, <3>2
      <4> QED BY <2>2, <2>7, <2>8, <2>11, <4>1
    <3> QED BY <1>1, <2>5, <3>1, <3>2, MapKeep
  <2> QED BY <2>9, <2>10, <2>11
\* The rebuild maps the next two slots, oldest first.
<1>7. CASE ~RecoveryEvent(fence) /\ recovering
  <2>1. Len(alloc) = 0 /\ \A s : ~Allocs(alloc, s)
    BY <1>7, RebuildHolds
  <2>2. /\ rebuild_remaining \in 1 .. queue_count
        /\ rebuild_ptr = Plus(queue_head, queue_count - rebuild_remaining)
    BY <1>1, <1>7 DEF RebuildInv
  <2>3. PICK d \in Nat : d = queue_count - rebuild_remaining
    BY <1>2, <2>2
  <2>4. Known = d
    BY <1>7, <2>3 DEF Known
  <2>5. PICK upto : upto = IF rebuild_remaining <= 2 THEN queue_count
                           ELSE d + 2
    OBVIOUS
  <2>6. /\ upto \in 0 .. PRODUCER_NUM /\ d < upto /\ CommitCount <= upto
        /\ upto <= queue_count /\ upto <= d + 2
        /\ rebuild_remaining > 1 <=> upto = d + 2
    BY <1>2, <2>2, <2>3, <2>5, CtrlAssumption
  <2>7. Known' = upto - CommitCount
    <3>1. queue_count' = queue_count - CommitCount
      BY <1>1, <1>2, <1>7, <2>1 DEF QueueStep
    <3>2. CASE rebuild_remaining <= 2
      BY <1>1, <1>7, <2>5, <3>1, <3>2 DEF RebuildStep, Known
    <3>3. CASE ~(rebuild_remaining <= 2)
      <4>1. recovering' /\ rebuild_remaining' = rebuild_remaining - 2
        BY <1>1, <1>7, <3>3 DEF RebuildStep
      <4> QED BY <1>2, <2>2, <2>3, <2>5, <3>1, <3>3, <4>1 DEF Known
    <3> QED BY <3>2, <3>3
  <2>8. Advances(alloc, upto)
    BY <2>1, <2>3, <2>4, <2>6, <2>7 DEF Advances
  <2>9. rebuild_ptr \in Slots /\ Off(queue_head, rebuild_ptr) = d
    <3>1. d \in 0 .. PRODUCER_NUM - 1
      BY <1>2, <2>2, <2>3, CtrlAssumption
    <3> QED BY <1>1, <1>2, <2>2, <2>3, <3>1, OffPlus DEF TypeOK
  <2>10. ASSUME rebuild_remaining > 1
         PROVE  RebuildPtr1 \in Slots /\ Off(queue_head, RebuildPtr1) = d + 1
    <3>1. d + 1 \in 0 .. PRODUCER_NUM - 1 /\ 1 \in 0 .. PRODUCER_NUM
          /\ 1 \in Nat /\ d + 1 <= PRODUCER_NUM
      BY <1>2, <2>2, <2>3, <2>10, CtrlAssumption
    <3>2. RebuildPtr1 = Plus(queue_head, d + 1)
      BY <1>2, <2>2, <2>3, <3>1, PlusPlus DEF RebuildPtr1
    <3> QED BY <1>2, <2>9, <3>1, <3>2, OffPlus, PlusType DEF RebuildPtr1
  <2>11. \A z \in Slots :
            /\ Id(z)' = Id(z)
            /\ ~Retires(z) => producer_rd'[z] = producer_rd[z]
    <3>1. ASSUME NEW z \in Slots
          PROVE  Id(z)' = Id(z)
      BY <1>1, <2>1, KeptSlot
    <3> QED BY <2>1, <3>1 DEF Cycle, ProducerStep
  <2>12. CASE Rebuild1(r)
    <3>1. rebuild_remaining > 1 /\ Rebuilds(RebuildPtr1, r)
      BY <2>12 DEF Rebuild1
    <3>2. PICK s \in Slots : s = RebuildPtr1 /\ Off(queue_head, s) = d + 1
      BY <2>10, <3>1
    <3>3. ~Retires(s) /\ producer_rd[s] = r
      BY <3>1, <3>2 DEF Rebuilds
    <3>4. producer_rd'[s] = r /\ latest'[r] = Id(s)'
      BY <1>4, <1>7, <2>11, <2>12, <3>2, <3>3
    <3>5. Off(queue_head, s) < upto
      BY <2>3, <2>6, <3>1, <3>2
    <3>6. \A z \in Slots : ~(/\ Off(queue_head, s) < Off(queue_head, z)
                             /\ Off(queue_head, z) < upto)
      BY <1>2, <2>3, <2>6, <3>1, <3>2
    <3> QED BY <1>1, <2>8, <3>3, <3>4, <3>5, <3>6, MapNew
  <2>13. CASE Rebuild0(r) /\ ~Rebuild1(r)
    <3>1. PICK s \in Slots : s = rebuild_ptr /\ Off(queue_head, s) = d
      BY <2>9
    <3>2. ~Retires(s) /\ producer_rd[s] = r
      BY <2>13, <3>1 DEF Rebuild0, Rebuilds
    <3>3. producer_rd'[s] = r /\ latest'[r] = Id(s)'
      BY <1>4, <1>7, <2>11, <2>13, <3>1, <3>2
    <3>4. ASSUME NEW z \in Slots, Off(queue_head, s) < Off(queue_head, z),
                 Off(queue_head, z) < upto
          PROVE  producer_rd'[z] # r
      <4>1. rebuild_remaining > 1 /\ Off(queue_head, z) = d + 1
        BY <1>2, <2>2, <2>3, <2>6, <3>1, <3>4
      <4>2. z = RebuildPtr1
        BY <1>2, <2>10, <4>1, OffInjective
      <4>3. producer_valid[z] /\ ~Retires(z)
        <5>1. ~Retires(z)
          BY <1>2, <3>1, <3>2, <3>4
        <5>2. Off(queue_head, z) < queue_count
          BY <1>2, <2>6, <3>4
        <5> QED BY <1>2, <5>1, <5>2
      <4>4. producer_rd[z] # r
        BY <1>7, <2>13, <4>1, <4>2, <4>3 DEF Rebuild1, Rebuilds
      <4> QED BY <2>11, <4>3, <4>4
    <3>5. Off(queue_head, s) < upto
      BY <2>6, <3>1
    <3> QED BY <1>1, <2>8, <3>2, <3>3, <3>4, <3>5, MapNew
  <2>14. CASE ~Rebuild0(r) /\ ~Rebuild1(r)
    <3>1. latest'[r] = IF RetiresMapping(r) THEN NoId ELSE latest[r]
      BY <1>4, <1>7, <2>1, <2>14
    <3>2. ASSUME NEW z \in Slots, Known <= Off(queue_head, z),
                 Off(queue_head, z) < upto, producer_rd'[z] = r
          PROVE  Retires(z)
      <4>1. SUFFICES ASSUME ~Retires(z)
                     PROVE  FALSE
        OBVIOUS
      <4>2. producer_valid[z] /\ producer_rd[z] = r
        BY <1>2, <2>6, <2>11, <3>2, <4>1
      <4>3. CASE Off(queue_head, z) = d
        <5>1. z = rebuild_ptr
          BY <1>2, <2>9, <4>3, OffInjective
        <5> QED BY <1>7, <2>14, <4>1, <4>2, <5>1 DEF Rebuild0, Rebuilds
      <4>4. CASE Off(queue_head, z) # d
        <5>1. rebuild_remaining > 1 /\ Off(queue_head, z) = d + 1
          BY <1>2, <2>2, <2>3, <2>4, <2>6, <3>2, <4>4
        <5>2. z = RebuildPtr1
          BY <1>2, <2>10, <5>1, OffInjective
        <5> QED BY <1>7, <2>14, <4>1, <4>2, <5>1, <5>2 DEF Rebuild1, Rebuilds
      <4> QED BY <4>3, <4>4
    <3> QED BY <1>1, <2>8, <3>1, <3>2, MapKeep
  <2> QED BY <2>12, <2>13, <2>14
<1> QED BY <1>5, <1>6, <1>7

(***************************************************************************)
(* Every step.                                                             *)
(***************************************************************************)

\* A cycle that respects the ports' contract preserves the invariant.
LEMMA CycleRecovers ==
    ASSUME RecoveryInv, SquashedResultRejected, NEW alloc, NEW x,
           NEW fin \in BOOLEAN, NEW fence,
           Ports(alloc, x, fence), Cycle(alloc, x, fin, fence)
    PROVE  RecoveryInv'
<1>1. IndInv
  BY DEF RecoveryInv
<1>2. IndInv'
  BY <1>1, CyclePreserves
<1>3. RebuildInv' /\ MappedInv'
  BY CycleRebuildInv, CycleMapped
<1>4. BruKind' /\ BruOldest'
  BY <1>1, CycleResolves
<1>5. WrongInv' /\ SerialHeld'
  BY CycleWrong, CycleSerialHeld
<1> QED BY <1>2, <1>3, <1>4, <1>5 DEF RecoveryInv

\* What a step of the reorder buffer is: a cycle under the ports' contract, a
\* trap redirect, or nothing.
LEMMA StepIsCycle ==
    ASSUME [Next]_vars
    PROVE  \/ \E alloc, x, fence : \E fin \in BOOLEAN :
                 Ports(alloc, x, fence) /\ Cycle(alloc, x, fin, fence)
           \/ TrapCycle
           \/ UNCHANGED vars
<1>1. CASE RunCycle
  <2>1. PICK alloc \in Allocations, x \in Executions, fin \in BOOLEAN :
           MayDispatch(alloc) /\ Cycle(alloc, x, fin, NoId)
    BY <1>1 DEF RunCycle
  <2>2. Ports(alloc, x, NoId)
    BY <1>1, <2>1 DEF RunCycle, Ports
  <2> QED BY <2>1, <2>2
<1>2. CASE BranchRecoveryCycle
  <2>1. PICK x \in Executions, fin \in BOOLEAN : Cycle(<<>>, x, fin, NoId)
    BY <1>2 DEF BranchRecoveryCycle
  <2> QED BY <2>1, IdlePorts
<1>3. CASE FlushCycle
  <2>1. PICK x \in Executions, fin \in BOOLEAN : Cycle(<<>>, x, fin, NoId)
    BY <1>3 DEF FlushCycle
  <2> QED BY <2>1, IdlePorts
<1>4. CASE FenceCycle
  <2>1. PICK fin \in BOOLEAN : Cycle(<<>>, {}, fin, Id(queue_head))
    BY <1>4 DEF FenceCycle
  <2>2. {} \in Executions
    BY DEF Executions
  <2>3. Ports(<<>>, {}, NoId)
    BY <2>2, IdlePorts
  <2>4. Ports(<<>>, {}, Id(queue_head))
    BY <1>4, <2>2, <2>3 DEF Ports, FenceCycle, FenceAtHead
  <2> QED BY <2>1, <2>4
<1> QED BY <1>1, <1>2, <1>3, <1>4 DEF Next

\* Reset establishes the invariant.
LEMMA InitRecovery == Init => RecoveryInv
<1> SUFFICES ASSUME Init
             PROVE  RecoveryInv
  OBVIOUS
<1>1. IndInv
  BY InitInv
<1>2. bru.id = NoId
  BY DEF Init, NoBru
<1>3. 0 \in Slots /\ \A s \in Slots : Off(0, s) \in 0 .. PRODUCER_NUM - 1
  BY OffType, CtrlAssumption DEF Slots
<1>4. \A r \in REGS : Mapped(r)
  <2>1. \A s \in Slots : ~(Off(queue_head, s) < Known)
    BY <1>3, CtrlAssumption DEF Init, Known
  <2> QED BY <2>1 DEF Init, Mapped, Maps
<1> QED BY <1>1, <1>2, <1>4
        DEF RecoveryInv, Init, RebuildInv, MappedInv, BruKind, BruOldest,
            WrongInv, SerialHeld

\* A trap redirect establishes it again.
LEMMA TrapRecovers ==
    ASSUME TrapCycle
    PROVE  RecoveryInv'
<1>1. IndInv'
  BY TrapPreserves
<1>2. bru'.id = NoId
  BY DEF TrapCycle
<1>3. 0 \in Slots /\ \A s \in Slots : Off(0, s) \in 0 .. PRODUCER_NUM - 1
  BY OffType, CtrlAssumption DEF Slots
<1>4. ASSUME NEW r \in REGS
      PROVE  Mapped(r)'
  <2>1. queue_head' = 0 /\ Known' = 0 /\ latest'[r] = NoId
    BY <1>4 DEF TrapCycle, Known
  <2>2. \A s \in Slots : ~(Off(queue_head', s) < Known')
    BY <1>3, <2>1, CtrlAssumption
  <2> QED BY <2>1, <2>2 DEF Mapped, Maps, Off
<1>5. MappedInv'
  BY <1>4 DEF MappedInv
<1>6. RebuildInv' /\ BruKind' /\ BruOldest' /\ WrongInv' /\ SerialHeld'
  BY <1>2 DEF TrapCycle, RebuildInv, BruKind, BruOldest, WrongInv,
              SerialHeld
<1> QED BY <1>1, <1>5, <1>6 DEF RecoveryInv

\* A step that changes nothing preserves it.
LEMMA StutterRecovers ==
    ASSUME RecoveryInv, SquashedResultRejected, UNCHANGED vars
    PROVE  RecoveryInv'
<1>1. IndInv'
  BY NextInv DEF RecoveryInv
<1>2. /\ RebuildInv' /\ BruKind' /\ BruOldest' /\ WrongInv' /\ SerialHeld'
  BY DEF RecoveryInv, vars, rob, rat, backend, RebuildInv, BruKind,
         BruOldest, WrongInv, SerialHeld, Waiting
<1>3. MappedInv'
  BY DEF RecoveryInv, vars, rob, rat, MappedInv, Mapped, Maps, Known, Id
<1> QED BY <1>1, <1>2, <1>3 DEF RecoveryInv

\* The window, the table, the branches and the serial flag stay consistent
\* with each other as long as squashed divider results are rejected.
THEOREM RecoveryInductive ==
    Spec /\ []SquashedResultRejected => []RecoveryInv
<1>1. Init => RecoveryInv
  BY InitRecovery
<1>2. RecoveryInv /\ SquashedResultRejected /\ [Next]_vars => RecoveryInv'
  BY StepIsCycle, CycleRecovers, TrapRecovers, StutterRecovers
<1> QED BY <1>1, <1>2, PTL DEF Spec

(***************************************************************************)
(* What follows.                                                           *)
(***************************************************************************)

\* The writers of r outside the part still to be rebuilt are the slots the
\* table accounts for.
LEMMA WritersKnown ==
    ASSUME RecoveryInv, NEW r \in REGS
    PROVE  Writers(r) \ ToRebuild = {s \in Slots : Maps(s, r)}
<1>1. /\ TypeOK /\ RingInv /\ RebuildInv /\ queue_head \in Slots
      /\ queue_count \in 0 .. PRODUCER_NUM
  BY DEF RecoveryInv, IndInv, TypeOK
<1>2. \A s \in Slots : /\ Off(queue_head, s) \in 0 .. PRODUCER_NUM - 1
                       /\ Plus(queue_head, Off(queue_head, s)) = s
                       /\ producer_valid[s] <=>
                             Off(queue_head, s) < queue_count
  BY <1>1, OffType, OffsetOff DEF RingInv
<1>3. CASE ~recovering
  <2>1. ToRebuild = {} /\ Known = queue_count
    BY <1>3 DEF ToRebuild, Known
  <2> QED BY <1>2, <2>1 DEF Writers, Maps
<1>4. CASE recovering
  <2>1. /\ rebuild_remaining \in 1 .. queue_count
        /\ rebuild_ptr = Plus(queue_head, queue_count - rebuild_remaining)
    BY <1>1, <1>4 DEF RebuildInv
  <2>2. PICK d \in Nat : d = queue_count - rebuild_remaining
    BY <1>1, <2>1
  <2>3. Known = d /\ d + rebuild_remaining = queue_count
    BY <1>1, <1>4, <2>1, <2>2 DEF Known
  <2>4. ASSUME NEW i \in 0 .. rebuild_remaining - 1
        PROVE  /\ Plus(rebuild_ptr, i) = Plus(queue_head, d + i)
               /\ d + i \in 0 .. PRODUCER_NUM - 1
               /\ Off(queue_head, Plus(rebuild_ptr, i)) = d + i
    <3>1. i \in Nat /\ d + i \in 0 .. PRODUCER_NUM - 1
          /\ d + i <= PRODUCER_NUM
      BY <1>1, <2>1, <2>2, <2>3, CtrlAssumption
    <3>2. Plus(rebuild_ptr, i) = Plus(queue_head, d + i)
      BY <1>1, <2>1, <2>2, <3>1, PlusPlus
    <3> QED BY <1>1, <3>1, <3>2, OffPlus
  <2>5. ASSUME NEW s \in Slots
        PROVE  s \in ToRebuild <=> /\ d <= Off(queue_head, s)
                                   /\ Off(queue_head, s) < queue_count
    <3>1. ToRebuild = {Plus(rebuild_ptr, i) : i \in 0 .. rebuild_remaining - 1}
      BY <1>4 DEF ToRebuild
    <3>2. ASSUME s \in ToRebuild
          PROVE  /\ d <= Off(queue_head, s)
                 /\ Off(queue_head, s) < queue_count
      <4>1. PICK i \in 0 .. rebuild_remaining - 1 : s = Plus(rebuild_ptr, i)
        BY <3>1, <3>2
      <4>2. Off(queue_head, s) = d + i
        BY <2>4, <4>1
      <4> QED BY <1>1, <2>1, <2>3, <4>1, <4>2
    <3>3. ASSUME d <= Off(queue_head, s), Off(queue_head, s) < queue_count
          PROVE  s \in ToRebuild
      <4>1. PICK i \in 0 .. rebuild_remaining - 1 :
               Off(queue_head, s) = d + i
        <5>1. Off(queue_head, s) - d \in 0 .. rebuild_remaining - 1
              /\ Off(queue_head, s) = d + (Off(queue_head, s) - d)
          BY <1>1, <1>2, <2>1, <2>3, <3>3
        <5> QED BY <5>1
      <4>2. s = Plus(rebuild_ptr, i)
        BY <1>2, <2>4, <4>1
      <4> QED BY <3>1, <4>1, <4>2
    <3> QED BY <3>2, <3>3
  <2>6. ASSUME NEW s \in Slots
        PROVE  producer_valid[s] /\ s \notin ToRebuild <=>
                  Off(queue_head, s) < Known
    BY <1>1, <1>2, <2>1, <2>3, <2>5, CtrlAssumption
  <2> QED BY <2>6 DEF Writers, Maps
<1> QED BY <1>3, <1>4

\* RatInv follows from the invariant.
LEMMA RatFollows ==
    ASSUME RecoveryInv
    PROVE  RatInv
<1> SUFFICES ASSUME NEW r \in REGS
             PROVE  LET W == Writers(r) \ ToRebuild
                    IN  \/ latest[r] = NoId /\ W = {}
                        \/ \E s \in W : latest[r] = Id(s) /\ IsYoungest(s, W)
  BY DEF RatInv
<1>1. Writers(r) \ ToRebuild = {s \in Slots : Maps(s, r)}
  BY WritersKnown
<1>2. Mapped(r)
  BY DEF RecoveryInv, MappedInv
<1>3. CASE latest[r] = NoId /\ \A z \in Slots : ~Maps(z, r)
  BY <1>1, <1>3
<1>4. ASSUME NEW s \in Slots, Maps(s, r), latest[r] = Id(s),
             \A z \in Slots : Maps(z, r) =>
                Off(queue_head, z) <= Off(queue_head, s)
      PROVE  LET W == Writers(r) \ ToRebuild
             IN  \E t \in W : latest[r] = Id(t) /\ IsYoungest(t, W)
  <2>1. IsYoungest(s, {z \in Slots : Maps(z, r)})
    BY <1>4, OffsetOff DEF IsYoungest
  <2> QED BY <1>1, <1>4, <2>1
<1> QED BY <1>2, <1>3, <1>4 DEF Mapped

\* The RAT names the youngest live producer of every register already
\* rebuilt, and nothing else.
THEOREM RatExact == Spec /\ []SquashedResultRejected => []RatInv
<1>1. RecoveryInv => RatInv
  BY RatFollows
<1> QED BY <1>1, RecoveryInductive, PTL

\* The source tags handed out with a dispatch name the youngest older writer.
THEOREM RenameCorrect == Spec /\ []SquashedResultRejected => []RenameSound
<1>1. ASSUME RecoveryInv, DispatchReady, NEW r \in REGS
      PROVE  /\ Names(latest[r], Writers(r))
             /\ \A u \in Uops :
                   Names(RenamedTag1(u, r),
                         Writers(r) \cup {s \in {AllocSlot(1)} : u.rd = r})
  <2>1. /\ TypeOK /\ RingInv /\ queue_head \in Slots /\ queue_tail \in Slots
        /\ queue_count \in 0 .. PRODUCER_NUM
    BY <1>1 DEF RecoveryInv, IndInv, TypeOK
  <2>2. ToRebuild = {} /\ queue_count <= PRODUCER_NUM - 1
    BY <1>1 DEF DispatchReady, ToRebuild
  <2>3. \/ latest[r] = NoId /\ Writers(r) = {}
        \/ \E s \in Writers(r) :
              latest[r] = Id(s) /\ IsYoungest(s, Writers(r))
    BY <1>1, <2>2, RatFollows DEF RatInv
  <2>4. Names(latest[r], Writers(r))
    BY <2>1, <2>3, IdType DEF Names, Writers
  <2>5. ASSUME NEW u \in Uops, u.rd # r
        PROVE  Names(RenamedTag1(u, r),
                     Writers(r) \cup {s \in {AllocSlot(1)} : u.rd = r})
    <3>1. Writers(r) \cup {s \in {AllocSlot(1)} : u.rd = r} = Writers(r)
      BY <2>5
    <3> QED BY <2>4, <2>5, <3>1 DEF RenamedTag1
  <2>6. ASSUME NEW u \in Uops, u.rd = r
        PROVE  Names(RenamedTag1(u, r),
                     Writers(r) \cup {s \in {AllocSlot(1)} : u.rd = r})
    <3>1. AllocSlot(1) = queue_tail
      BY <2>1, CtrlAssumption DEF AllocSlot, Plus, Slots
    <3>2. RenamedTag1(u, r) # NoId /\ RenamedTag1(u, r).slot = queue_tail
      <4>1. 1 - producer_epoch[queue_tail] \in {0, 1}
        BY <2>1 DEF TypeOK
      <4>2. AllocId(1) \in ProducerId /\ AllocId(1).slot = queue_tail
        BY <2>1, <3>1, <4>1 DEF AllocId, ProducerId
      <4> QED BY <2>6, <4>2, NoIdAssumption DEF RenamedTag1
    <3>3. Writers(r) \cup {s \in {AllocSlot(1)} : u.rd = r}
             = Writers(r) \cup {queue_tail}
      BY <2>6, <3>1
    <3>4. Offset(queue_tail) = queue_count
      <4>1. queue_count \in 0 .. PRODUCER_NUM - 1
        BY <2>1, <2>2, CtrlAssumption
      <4> QED BY <2>1, <4>1, OffPlus, OffsetOff DEF RingInv
    <3>5. \A z \in Writers(r) : Offset(z) < queue_count /\ Offset(z) \in Int
      BY <2>1, OffType, OffsetOff DEF Writers, RingInv
    <3>6. IsYoungest(queue_tail, Writers(r) \cup {queue_tail})
      BY <2>1, <3>4, <3>5 DEF IsYoungest
    <3> QED BY <3>2, <3>3, <3>6 DEF Names
  <2> QED BY <2>4, <2>5, <2>6
<1>2. RecoveryInv => RenameSound
  BY <1>1 DEF RenameSound, RenamedTag0
<1> QED BY <1>2, RecoveryInductive, PTL

\* No uop fetched past a mispredicted branch retires, not even beside the
\* branch in the cycle that resolves it.
THEOREM WrongPathStops ==
    Spec /\ []SquashedResultRejected => []WrongPathNeverRetires
<1>1. ASSUME RecoveryInv, NEW s \in Slots, Retires(s), wrong[s]
      PROVE  FALSE
  <2>1. /\ IndInv /\ TypeOK /\ RingInv /\ BruKind /\ WrongInv
        /\ queue_head \in Slots
    BY <1>1 DEF RecoveryInv, IndInv, TypeOK
  <2>2. PICK b \in Slots : /\ Waiting(b) /\ uop[b].kind = "brmis"
                           /\ Off(queue_head, b) < Off(queue_head, s)
    BY <1>1, <2>1 DEF WrongInv
  <2>3. /\ CommitCount \in 0 .. 2
        /\ bru.redirect => CommitCount <= 1
    BY <2>1, CommitWindow
  <2>4. \A z \in Slots : /\ Retires(z) <=> Off(queue_head, z) < CommitCount
                         /\ Off(queue_head, z) \in 0 .. PRODUCER_NUM - 1
    BY <2>1, CommitWindow, OffType
  <2>5. Retires(b)
    BY <1>1, <2>2, <2>3, <2>4
  <2>6. bru.id = Id(b)
    BY <2>1, <2>2, <2>5, RetiredIsExecuted DEF Waiting
  <2>7. bru.redirect
    BY <2>1, <2>2, <2>6, IdType DEF BruKind
  <2>8. Off(queue_head, s) < 1
    BY <1>1, <2>3, <2>4, <2>7
  <2> QED BY <2>2, <2>4, <2>8
<1>2. RecoveryInv => WrongPathNeverRetires
  BY <1>1 DEF WrongPathNeverRetires
<1> QED BY <1>2, RecoveryInductive, PTL

\* serial_pending holds dispatch exactly while a serial uop waits or a trap
\* is taken.
THEOREM SerialExact == Spec /\ []SquashedResultRejected => []SerialInv
<1>1. RecoveryInv => SerialInv
  BY DEF RecoveryInv, IndInv, SerialHeld, SerialInv, Waiting
<1> QED BY <1>1, RecoveryInductive, PTL

(***************************************************************************)
(* The refinement.                                                         *)
(***************************************************************************)

\* How a slot shows in the abstract queue.
Shows(ex, up, s) == IF ex[s] /\ Branch(up[s])
                    THEN [up[s] EXCEPT !.kind = "br"] ELSE up[s]
UopType == [kind : Kinds, rd : REGS \cup {NoReg}]

\* The abstract queue is the sequence of the slots from the head on.
ViewInv ==
    /\ RobView \in Seq(UopType) /\ Len(RobView) = queue_count
    /\ \A i \in 1 .. queue_count :
          /\ RobView[i] = Shows(executed, uop, Plus(queue_head, i - 1))
          /\ Plus(queue_head, i - 1) \in Slots
          /\ Off(queue_head, Plus(queue_head, i - 1)) = i - 1
          /\ producer_valid[Plus(queue_head, i - 1)]

\* It is, because the slots in flight are the window from the head.
LEMMA ViewIs == IndInv => ViewInv
<1> SUFFICES ASSUME IndInv
             PROVE  ViewInv
  OBVIOUS
<1>1. /\ TypeOK /\ RingInv /\ queue_head \in Slots
      /\ queue_count \in 0 .. PRODUCER_NUM
  BY DEF IndInv, TypeOK
<1>2. ASSUME NEW i \in 1 .. queue_count
      PROVE  /\ Plus(queue_head, i - 1) \in Slots
             /\ Off(queue_head, Plus(queue_head, i - 1)) = i - 1
             /\ producer_valid[Plus(queue_head, i - 1)]
  <2>1. /\ i - 1 \in 0 .. PRODUCER_NUM - 1 /\ i - 1 \in 0 .. PRODUCER_NUM
        /\ i - 1 < queue_count
    BY <1>1, <1>2, CtrlAssumption
  <2>2. /\ Plus(queue_head, i - 1) \in Slots
        /\ Off(queue_head, Plus(queue_head, i - 1)) = i - 1
    BY <1>1, <2>1, PlusType, OffPlus
  <2> QED BY <1>1, <2>1, <2>2, OffsetOff DEF RingInv
<1>3. ASSUME NEW s \in Slots
      PROVE  Shows(executed, uop, s) \in UopType
  <2>1. uop[s] \in UopType
    BY <1>1 DEF TypeOK, UopType
  <2> QED BY <2>1 DEF Shows, UopType, Kinds
<1>4. RobView = [i \in 1 .. queue_count |->
                    Shows(executed, uop, Plus(queue_head, i - 1))]
  BY DEF RobView, Shows
<1>5. RobView \in [1 .. queue_count -> UopType]
  BY <1>2, <1>3, <1>4
<1>6. queue_count \in Nat
  BY <1>1, CtrlAssumption
<1>7. RobView \in Seq(UopType) /\ Len(RobView) = queue_count
  BY <1>5, <1>6
<1> QED BY <1>2, <1>4, <1>7 DEF ViewInv

\* The same after a step.
LEMMA ViewNext ==
    ASSUME IndInv'
    PROVE  /\ RobView' \in Seq(UopType) /\ Len(RobView') = queue_count'
           /\ \A i \in 1 .. queue_count' :
                 /\ RobView'[i] = Shows(executed', uop', Plus(queue_head', i - 1))
                 /\ Plus(queue_head', i - 1) \in Slots
                 /\ Off(queue_head', Plus(queue_head', i - 1)) = i - 1
                 /\ producer_valid'[Plus(queue_head', i - 1)]
<1>1. ViewInv'
  BY ViewIs, PTL
<1> QED BY <1>1 DEF ViewInv, Plus, Slots, Shows, Off, UopType

\* Position i of the queue after a cycle held position i + CommitCount
\* before it, if it was in flight.
LEMMA ViewShift ==
    ASSUME IndInv, NEW alloc, NEW x, NEW fin, NEW fence,
           Ports(alloc, x, fence), Cycle(alloc, x, fin, fence),
           NEW i \in Nat \ {0}, i + CommitCount <= PRODUCER_NUM
    PROVE  Plus(queue_head', i - 1) =
              Plus(queue_head, (i + CommitCount) - 1)
<1>1. /\ queue_head \in Slots /\ CommitCount \in 0 .. 2
      /\ queue_head' = Plus(queue_head, CommitCount)
  BY CycleOffsets
<1>2. PICK j \in Nat : j = i - 1
  OBVIOUS
<1>3. CommitCount \in Nat /\ CommitCount + j <= PRODUCER_NUM
      /\ (i + CommitCount) - 1 = CommitCount + j
  BY <1>1, <1>2, CtrlAssumption
<1> QED BY <1>1, <1>2, <1>3, PlusPlus

\* A slot that stays shows the same, unless it is the mispredicted branch
\* being resolved.
LEMMA ShownKept ==
    ASSUME RecoveryInv, NEW alloc, NEW x, NEW fin, NEW fence,
           Ports(alloc, x, fence), Cycle(alloc, x, fin, fence),
           NEW s \in Slots, producer_valid[s], producer_valid'[s],
           bru.id = Id(s) => ~bru.redirect
    PROVE  Shows(executed', uop', s) = Shows(executed, uop, s)
<1>1. IndInv /\ TypeOK /\ BruKind
  BY DEF RecoveryInv, IndInv
<1>2. ~Allocs(alloc, s)
  BY <1>1, AllocatedSlot
<1>3. /\ uop'[s] = uop[s]
      /\ executed'[s] <=> executed[s] \/ OwnResult(x, fin, fence, s)
  BY <1>1, <1>2, KeptSlot
<1>4. uop[s] \in UopType
  BY <1>1 DEF TypeOK, UopType
<1>5. CASE ~Branch(uop[s]) \/ executed[s]
  BY <1>3, <1>5 DEF Shows, Branch
<1>6. CASE Branch(uop[s]) /\ ~executed[s] /\ ~OwnResult(x, fin, fence, s)
  BY <1>3, <1>6 DEF Shows, Branch
<1>7. CASE Branch(uop[s]) /\ ~executed[s] /\ OwnResult(x, fin, fence, s)
  <2>1. bru.id = Id(s)
    BY <1>1, <1>7, BranchExecutes DEF Waiting
  <2>2. uop[s].kind = "br"
    BY <1>1, <1>7, <2>1, IdType DEF BruKind, Branch
  <2>3. [uop[s] EXCEPT !.kind = "br"] = uop[s]
    BY <1>4, <2>2 DEF UopType
  <2> QED BY <1>3, <2>3 DEF Shows, Branch
<1> QED BY <1>5, <1>6, <1>7

\* Where nothing is cut off, uops retire at the front and enter at the back.
LEMMA FlowStep ==
    ASSUME RecoveryInv, IndInv', NEW alloc, NEW x, NEW fin, NEW fence,
           Ports(alloc, x, fence), Cycle(alloc, x, fin, fence),
           ~RecoveryEvent(fence)
    PROVE  Rob!Flow(CommitCount, Len(alloc))
<1>1. /\ IndInv /\ TypeOK /\ RingInv /\ BruKind /\ QueueStep(alloc, fence)
      /\ alloc \in Allocations /\ MayDispatch(alloc)
  BY DEF RecoveryInv, IndInv, Cycle, Ports
<1>2. /\ queue_head \in Slots /\ queue_count \in 0 .. PRODUCER_NUM
      /\ CommitCount \in 0 .. 2 /\ CommitCount <= queue_count
      /\ \A s \in Slots :
            Retires(s) <=> Off(queue_head, s) < CommitCount
  BY <1>1, CycleOffsets
<1>3. /\ Len(alloc) \in 0 .. 2
      /\ queue_count + Len(alloc) <= PRODUCER_NUM
      /\ \A s \in Slots :
            Allocs(alloc, s) <=>
               /\ queue_count <= Off(queue_head, s)
               /\ Off(queue_head, s) < queue_count + Len(alloc)
  BY <1>1, AllocWindow, BatchType
<1>4. queue_count' = queue_count + Len(alloc) - CommitCount
  BY <1>1 DEF QueueStep
<1>5. /\ Len(RobView) = queue_count
      /\ \A i \in 1 .. queue_count :
            /\ RobView[i] = Shows(executed, uop, Plus(queue_head, i - 1))
            /\ Plus(queue_head, i - 1) \in Slots
            /\ Off(queue_head, Plus(queue_head, i - 1)) = i - 1
            /\ producer_valid[Plus(queue_head, i - 1)]
  BY <1>1, ViewIs DEF ViewInv
<1>6. /\ Len(RobView') = queue_count'
      /\ \A i \in 1 .. queue_count' :
            /\ RobView'[i] = Shows(executed', uop', Plus(queue_head', i - 1))
            /\ Plus(queue_head', i - 1) \in Slots
            /\ producer_valid'[Plus(queue_head', i - 1)]
  BY ViewNext
\* The BRU resolves no mispredicted branch here.
<1>7. ASSUME NEW s \in Slots, producer_valid[s], bru.id = Id(s)
      PROVE  ~bru.redirect
  <2>1. Live(bru.id)
    BY <1>1, <1>7, IdType DEF Live
  <2> QED BY <2>1 DEF RecoveryEvent, BranchLive
<1>8. ASSUME NEW i \in 1 .. CommitCount
      PROVE  RobView[i].kind # "brmis"
  <2>1. PICK s \in Slots : /\ s = Plus(queue_head, i - 1)
                           /\ Off(queue_head, s) = i - 1
                           /\ RobView[i] = Shows(executed, uop, s)
                           /\ producer_valid[s]
    BY <1>2, <1>5, <1>8
  <2>2. Retires(s)
    BY <1>2, <1>8, <2>1
  <2>3. executed[s] \/ bru.id = Id(s)
    BY <1>1, <2>2, RetiredIsExecuted
  <2>4. uop[s] \in UopType
    BY <1>1 DEF TypeOK, UopType
  <2>5. CASE executed[s]
    BY <2>1, <2>4, <2>5 DEF Shows, Branch, UopType
  <2>6. CASE ~executed[s] /\ bru.id = Id(s)
    <3>1. uop[s].kind # "brmis"
      BY <1>1, <1>7, <2>1, <2>6, IdType DEF BruKind
    <3> QED BY <2>1, <2>6, <3>1 DEF Shows
  <2> QED BY <2>3, <2>5, <2>6
<1>9. ASSUME NEW i \in 1 .. queue_count', i <= queue_count - CommitCount
      PROVE  RobView'[i] = RobView[i + CommitCount]
  <2>1. /\ i \in Nat \ {0} /\ i + CommitCount <= PRODUCER_NUM
        /\ i + CommitCount \in 1 .. queue_count
    BY <1>2, <1>9, CtrlAssumption
  <2>2. PICK s \in Slots : /\ s = Plus(queue_head', i - 1)
                           /\ RobView'[i] = Shows(executed', uop', s)
                           /\ producer_valid'[s]
    <3>1. PICK s \in Slots : s = Plus(queue_head', i - 1)
      BY <1>6
    <3>2. RobView'[i] = Shows(executed', uop', Plus(queue_head', i - 1))
          /\ producer_valid'[s]
      BY <1>6, <3>1
    <3> QED BY <3>1, <3>2
  <2>3. s = Plus(queue_head, (i + CommitCount) - 1)
    BY <1>1, <2>1, <2>2, ViewShift
  <2>4. RobView[i + CommitCount] = Shows(executed, uop, s) /\ producer_valid[s]
    BY <1>5, <2>1, <2>3
  <2> QED BY <1>7, <2>2, <2>4, ShownKept
<1>10. ASSUME NEW i \in 1 .. queue_count', ~(i <= queue_count - CommitCount)
       PROVE  RobView'[i] \in Uops
  <2>1. /\ i \in Nat \ {0} /\ i + CommitCount <= PRODUCER_NUM
        /\ (i + CommitCount) - 1 \in 0 .. PRODUCER_NUM - 1
        /\ queue_count <= (i + CommitCount) - 1
        /\ (i + CommitCount) - 1 < queue_count + Len(alloc)
    BY <1>2, <1>3, <1>4, <1>10, CtrlAssumption
  <2>2. PICK s \in Slots : s = Plus(queue_head', i - 1)
    BY <1>6
  <2>3. RobView'[i] = Shows(executed', uop', s)
    <3>1. RobView'[i] = Shows(executed', uop', Plus(queue_head', i - 1))
      BY <1>6
    <3> QED BY <2>2, <3>1
  <2>4. s = Plus(queue_head, (i + CommitCount) - 1)
    BY <1>1, <2>1, <2>2, ViewShift
  <2>5. Off(queue_head, s) = (i + CommitCount) - 1
    BY <1>2, <2>1, <2>4, OffPlus
  <2>6. Allocs(alloc, s)
    BY <1>3, <2>1, <2>5
  <2>7. ~executed'[s] /\ uop'[s] \in Uops
    BY <1>1, <2>6, FilledSlot, AllocatedSlot
  <2> QED BY <2>3, <2>7 DEF Shows
<1>11. /\ Len(RobView) + Len(alloc) <= PRODUCER_NUM
       /\ Len(RobView') = Len(RobView) - CommitCount + Len(alloc)
  BY <1>2, <1>3, <1>4, <1>5, <1>6
<1> QED BY <1>5, <1>6, <1>8, <1>9, <1>10, <1>11
        DEF Rob!Flow, Rob!Mispredicted

\* A fence.i refetches what follows it, and nothing does: the queue stays.
LEMMA FenceStep ==
    ASSUME RecoveryInv, IndInv', NEW alloc, NEW x, NEW fin, NEW fence,
           Ports(alloc, x, fence), Cycle(alloc, x, fin, fence),
           fence # NoId
    PROVE  RobView' = RobView
<1>1. /\ IndInv /\ TypeOK /\ RingInv /\ SerialIsYoungest /\ FenceAtHead
      /\ fence = Id(queue_head) /\ queue_head \in Slots /\ queue_tail \in Slots
      /\ queue_count \in 0 .. PRODUCER_NUM
  BY DEF RecoveryInv, IndInv, Ports, TypeOK
<1>2. CommitCount = 0
  BY <1>1, FenceCommits
<1>3. queue_count = 1
  <2>1. Plus(queue_head, 1) = queue_tail /\ producer_valid[queue_head]
    BY <1>1 DEF SerialIsYoungest, FenceAtHead, Serial
  <2>2. Off(queue_head, queue_head) < queue_count
    BY <1>1, <2>1, OffsetOff DEF RingInv
  <2>3. Plus(queue_head, queue_count) = Plus(queue_head, 1)
    BY <1>1, <2>1 DEF RingInv
  <2> QED BY <1>1, <2>2, <2>3, CtrlAssumption DEF Off, Plus, Slots
<1>4. /\ RecoveryEvent(fence) /\ RecoverySlot(fence) = queue_head
  BY <1>1, IdType DEF RecoveryEvent, RecoverySlot, Live, FenceAtHead
<1>5. Off(queue_head, queue_head) = 0
  BY <1>1 DEF Off, Slots
<1>6. queue_head' = queue_head /\ queue_count' = 1
  <2>1. RecoveryCountBeforeCommit(fence) = 0 + 1
    BY <1>1, <1>4, <1>5, RecoveryWindow
  <2>2. queue_count' = RecoveryCountBeforeCommit(fence) - CommitCount
    BY <1>4 DEF Cycle, QueueStep, RecoveryCount
  <2>3. queue_head' = Plus(queue_head, 0)
    BY <1>1, <1>2, CycleOffsets
  <2>4. Plus(queue_head, 0) = queue_head
    BY <1>1, CtrlAssumption DEF Plus, Slots
  <2> QED BY <1>2, <2>1, <2>2, <2>3, <2>4
<1>7. /\ RobView \in Seq(UopType) /\ Len(RobView) = 1
      /\ RobView[1] = Shows(executed, uop, Plus(queue_head, 1 - 1))
      /\ producer_valid[Plus(queue_head, 1 - 1)]
      /\ Plus(queue_head, 1 - 1) \in Slots
  BY <1>1, <1>3, ViewIs DEF ViewInv
<1>8. /\ RobView' \in Seq(UopType) /\ Len(RobView') = 1
      /\ RobView'[1] = Shows(executed', uop', Plus(queue_head, 1 - 1))
      /\ producer_valid'[Plus(queue_head, 1 - 1)]
  BY <1>6, ViewNext
<1>9. ~bru.redirect
  BY DEF Ports
<1>10. RobView'[1] = RobView[1]
  BY <1>7, <1>8, <1>9, ShownKept
<1>11. \A i \in 1 .. Len(RobView) : RobView[i] = RobView'[i]
  BY <1>7, <1>10
<1> QED BY <1>7, <1>8, <1>11, SeqEqual

\* A mispredicted branch resolves: the queue ends with it.
LEMMA RecoverStep ==
    ASSUME RecoveryInv, IndInv', NEW alloc, NEW x, NEW fin, NEW fence,
           Ports(alloc, x, fence), Cycle(alloc, x, fin, fence),
           fence = NoId, RecoveryEvent(fence)
    PROVE  \E b \in 1 .. Len(RobView) : Rob!Recover(CommitCount, b)
<1>1. /\ IndInv /\ TypeOK /\ RingInv /\ BruKind /\ BruOldest
      /\ ResolvingBranchInRob /\ bru.id \in MaybeId
  BY DEF RecoveryInv, IndInv, TypeOK
<1>2. bru.redirect /\ Live(bru.id) /\ bru.id # NoId
  BY DEF RecoveryEvent, BranchLive, Live
<1>3. PICK c \in Slots : c = bru.id.slot
  BY <1>1, <1>2, LiveIsId
<1>4. /\ producer_valid[c] /\ bru.id = Id(c) /\ ~executed[c]
      /\ uop[c].kind = "brmis"
  BY <1>1, <1>2, <1>3, LiveIsId DEF BruKind, ResolvingBranchInRob
<1>5. RecoverySlot(fence) = c
  BY <1>3 DEF RecoverySlot, Live
<1>6. /\ queue_head \in Slots /\ queue_count \in 0 .. PRODUCER_NUM
      /\ CommitCount \in 0 .. 2 /\ CommitCount <= queue_count
      /\ \A s \in Slots : /\ Off(queue_head, s) \in 0 .. PRODUCER_NUM - 1
                          /\ producer_valid[s] <=>
                                Off(queue_head, s) < queue_count
  BY <1>1, CycleOffsets
<1>7. PICK b \in 1 .. queue_count : b = Off(queue_head, c) + 1
  BY <1>4, <1>6, CtrlAssumption
<1>8. CommitCount <= b /\ queue_count' = b - CommitCount
  <2>1. /\ RecoveryCountBeforeCommit(fence) = Off(queue_head, c) + 1
        /\ CommitCount <= Off(queue_head, c) + 1
    BY <1>1, <1>5, RecoveryWindow
  <2>2. queue_count' = RecoveryCountBeforeCommit(fence) - CommitCount
    BY DEF Cycle, QueueStep, RecoveryCount
  <2> QED BY <1>7, <2>1, <2>2
<1>9. /\ RobView \in Seq(UopType) /\ Len(RobView) = queue_count
      /\ \A i \in 1 .. queue_count :
            /\ RobView[i] = Shows(executed, uop, Plus(queue_head, i - 1))
            /\ Plus(queue_head, i - 1) \in Slots
            /\ Off(queue_head, Plus(queue_head, i - 1)) = i - 1
            /\ producer_valid[Plus(queue_head, i - 1)]
  BY <1>1, ViewIs DEF ViewInv
<1>10. c = Plus(queue_head, b - 1)
  <2>1. b - 1 = Off(queue_head, c)
    BY <1>6, <1>7, CtrlAssumption
  <2> QED BY <1>6, <2>1, OffType
<1>11. RobView[b] = uop[c]
  BY <1>4, <1>7, <1>9, <1>10 DEF Shows
<1>12. ASSUME NEW i \in 1 .. b - 1
       PROVE  RobView[i].kind # "brmis"
  <2>1. PICK s \in Slots : /\ s = Plus(queue_head, i - 1)
                           /\ Off(queue_head, s) = i - 1
                           /\ RobView[i] = Shows(executed, uop, s)
                           /\ producer_valid[s]
    <3>1. i \in 1 .. queue_count
      BY <1>6, <1>7
    <3> QED BY <1>9, <3>1
  <2>2. Off(queue_head, s) < Off(queue_head, c)
    BY <1>6, <1>7, <2>1, CtrlAssumption
  <2>3. uop[s] \in UopType
    BY <1>1 DEF TypeOK, UopType
  <2>4. CASE executed[s]
    BY <2>1, <2>3, <2>4 DEF Shows, Branch, UopType
  <2>5. CASE ~executed[s]
    <3>1. ~Branch(uop[s])
      <4>1. SUFFICES ASSUME Branch(uop[s])
                     PROVE  FALSE
        OBVIOUS
      <4>2. Off(queue_head, c) <= Off(queue_head, s)
        BY <1>1, <1>2, <1>3, <2>1, <2>5, <4>1 DEF BruOldest, Waiting
      <4> QED BY <1>6, <2>2, <4>2, CtrlAssumption
    <3> QED BY <2>1, <2>5, <3>1 DEF Shows, Branch
  <2> QED BY <2>4, <2>5
<1> DEFINE q == [RobView EXCEPT ![b] = Rob!Resolved(@)]
<1>13. /\ q \in Seq(UopType) /\ Len(q) = queue_count
       /\ q[b] = [uop[c] EXCEPT !.kind = "br"]
       /\ \A i \in 1 .. queue_count : i # b => q[i] = RobView[i]
  <2>1. [uop[c] EXCEPT !.kind = "br"] \in UopType
    BY <1>1 DEF TypeOK, UopType, Kinds
  <2>2. DOMAIN RobView = 1 .. queue_count
    BY <1>9
  <2>3. q = [RobView EXCEPT ![b] = [uop[c] EXCEPT !.kind = "br"]]
    BY <1>7, <1>11, <2>2 DEF Rob!Resolved
  <2> HIDE DEF q
  <2>4. q \in Seq(UopType) /\ Len(q) = queue_count
    BY <1>7, <1>9, <2>1, <2>3, ExceptSeq
  <2> QED BY <1>7, <2>2, <2>3, <2>4
<1> HIDE DEF q
<1>14. /\ RobView' \in Seq(UopType) /\ Len(RobView') = queue_count'
       /\ \A i \in 1 .. queue_count' :
             /\ RobView'[i] =
                   Shows(executed', uop', Plus(queue_head', i - 1))
             /\ Plus(queue_head', i - 1) \in Slots
             /\ producer_valid'[Plus(queue_head', i - 1)]
  BY ViewNext
<1>15. ASSUME NEW i \in 1 .. queue_count'
       PROVE  RobView'[i] = q[i + CommitCount]
  <2>1. /\ i \in Nat \ {0} /\ i + CommitCount <= PRODUCER_NUM
        /\ i + CommitCount \in 1 .. queue_count /\ i + CommitCount <= b
    BY <1>6, <1>7, <1>8, <1>15, CtrlAssumption
  <2>2. PICK s \in Slots : s = Plus(queue_head', i - 1)
    BY <1>14
  <2>3. RobView'[i] = Shows(executed', uop', s) /\ producer_valid'[s]
    BY <1>14, <2>2
  <2>4. s = Plus(queue_head, (i + CommitCount) - 1)
    BY <1>1, <2>1, <2>2, ViewShift
  <2>5. /\ RobView[i + CommitCount] = Shows(executed, uop, s)
        /\ producer_valid[s] /\ Off(queue_head, s) = (i + CommitCount) - 1
    BY <1>9, <2>1, <2>4
  <2>6. CASE i + CommitCount = b
    <3>1. s = c
      BY <1>10, <2>4, <2>6
    <3>2. ~Allocs(alloc, s)
      BY <1>1, <2>5, AllocatedSlot
    <3>3. uop'[s] = uop[s] /\ executed'[s]
      BY <1>1, <1>4, <2>3, <3>1, <3>2, KeptSlot DEF OwnResult
    <3>4. RobView'[i] = [uop[c] EXCEPT !.kind = "br"]
      BY <1>4, <2>3, <3>1, <3>3 DEF Shows, Branch
    <3> QED BY <1>13, <2>6, <3>4
  <2>7. CASE i + CommitCount # b
    <3>1. s # c
      BY <1>6, <1>7, <2>5, <2>7, CtrlAssumption
    <3>2. bru.id # Id(s)
      BY <1>1, <1>4, <3>1, IdType
    <3>3. RobView'[i] = RobView[i + CommitCount]
      BY <2>3, <2>5, <3>2, ShownKept
    <3> QED BY <1>13, <2>1, <2>7, <3>3
  <2> QED BY <2>6, <2>7
<1>16. RobView' = SubSeq(q, CommitCount + 1, b)
  <2> DEFINE p == SubSeq(q, CommitCount + 1, b)
  <2>2. /\ p \in Seq(UopType) /\ Len(p) = b - CommitCount
        /\ \A i \in 1 .. b - CommitCount : p[i] = q[i + CommitCount]
    <3>1. PICK m \in Int : m = CommitCount + 1
      BY <1>6
    <3>2. \A i \in m .. b : q[i] \in UopType
      BY <1>6, <1>7, <1>13, <3>1, LenProperties
    <3>3. /\ SubSeq(q, m, b) \in Seq(UopType)
          /\ Len(SubSeq(q, m, b)) = IF m <= b THEN b - m + 1 ELSE 0
          /\ \A i \in 1 .. b - m + 1 : SubSeq(q, m, b)[i] = q[m + i - 1]
      BY <3>2, SubSeqProperties
    <3>4. /\ b - m + 1 = b - CommitCount
          /\ (IF m <= b THEN b - m + 1 ELSE 0) = b - CommitCount
          /\ \A i \in 1 .. b - CommitCount : m + i - 1 = i + CommitCount
      BY <1>6, <1>7, <1>8, <3>1, CtrlAssumption
    <3>5. p = SubSeq(q, m, b)
      BY <3>1
    <3> HIDE DEF p
    <3> QED BY <3>3, <3>4, <3>5
  <2> HIDE DEF p
  <2>3. Len(RobView') = Len(p)
        /\ \A i \in 1 .. Len(RobView') : RobView'[i] = p[i]
    BY <1>8, <1>14, <1>15, <2>2
  <2>4. RobView' = p
    BY <1>14, <2>2, <2>3, SeqEqual
  <2> QED BY <2>4 DEF p
<1>17. Rob!Recover(CommitCount, b)
  BY <1>4, <1>8, <1>11, <1>12, <1>16
     DEF Rob!Recover, Rob!Mispredicted, q
<1> QED BY <1>7, <1>9, <1>17

\* Ctrl implements the bounded queue of YdrasilRob: in program order, at most
\* two out and two in, and nothing passes a mispredicted branch.
THEOREM CtrlIsRob == Spec /\ []SquashedResultRejected => ImplementsRob
<1>1. Init => Rob!Init
  <2> SUFFICES ASSUME Init
               PROVE  RobView = <<>>
    BY DEF Rob!Init
  <2>1. IndInv
    BY InitInv
  <2>2. RobView \in Seq(UopType) /\ Len(RobView) = 0
    BY <2>1, ViewIs DEF ViewInv, Init
  <2> QED BY <2>2, EmptySeq
<1>2. RecoveryInv /\ RecoveryInv' /\ [Next]_vars => [Rob!Next]_RobView
  <2> SUFFICES ASSUME RecoveryInv, RecoveryInv', [Next]_vars
               PROVE  [Rob!Next]_RobView
    OBVIOUS
  <2>1. IndInv /\ IndInv'
    BY DEF RecoveryInv
  <2>2. CASE TrapCycle
    <3>1. queue_count = 0 /\ queue_count' = 0
      BY <2>2 DEF TrapCycle
    <3>2. RobView \in Seq(UopType) /\ Len(RobView) = 0
      BY <2>1, <3>1, ViewIs DEF ViewInv
    <3>3. RobView' \in Seq(UopType) /\ Len(RobView') = 0
      BY <2>1, <3>1, ViewNext
    <3>4. RobView' = RobView
      BY <3>2, <3>3, EmptySeq
    <3> QED BY <3>4
  <2>3. CASE UNCHANGED vars
    <3>1. RobView' = RobView
      BY <2>3 DEF vars, rob, backend, RobView
    <3> QED BY <3>1
  <2>4. ASSUME NEW alloc, NEW x, NEW fence, NEW fin \in BOOLEAN,
               Ports(alloc, x, fence), Cycle(alloc, x, fin, fence)
        PROVE  [Rob!Next]_RobView
    <3>1. CommitCount \in 0 .. 2 /\ CommitCount <= Len(RobView)
      BY <2>1, <2>4, CycleOffsets, ViewIs DEF ViewInv
    <3>2. CASE fence # NoId
      BY <2>1, <2>4, <3>2, FenceStep
    <3>3. CASE fence = NoId /\ RecoveryEvent(fence)
      <4>1. \E b \in 1 .. Len(RobView) : Rob!Recover(CommitCount, b)
        BY <2>1, <2>4, <3>3, RecoverStep
      <4> QED BY <3>1, <4>1 DEF Rob!Next
    <3>4. CASE ~RecoveryEvent(fence)
      <4>1. Rob!Flow(CommitCount, Len(alloc))
        BY <2>1, <2>4, <3>4, FlowStep
      <4>2. Len(alloc) \in 0 .. 2
        BY <2>4, BatchType DEF Ports
      <4> QED BY <3>1, <4>1, <4>2 DEF Rob!Next
    <3> QED BY <3>2, <3>3, <3>4
  <2> QED BY <2>2, <2>3, <2>4, StepIsCycle
<1> QED BY <1>1, <1>2, RecoveryInductive, PTL
        DEF Spec, ImplementsRob, Rob!Spec
=============================================================================
