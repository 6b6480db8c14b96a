---------------------------- MODULE YdrasilCtrl ----------------------------
(***************************************************************************)
(* The reorder buffer and register alias table of ydrasil_ctrl.sv.         *)
(*                                                                         *)
(* One step is one clock edge.  The registers of the RTL are the variables *)
(* of the first block; the second block holds what the rest of the backend *)
(* keeps and Ctrl only sees through its ports: the BRU result register,    *)
(* the occupant of the divider, the trap controller's stall, and, per      *)
(* producer slot, which uop was dispatched into it and whether that uop    *)
(* has executed.  The ports are driven by choices constrained as the issue *)
(* stage, the execute stage and the exception stage constrain them.        *)
(***************************************************************************)
EXTENDS Integers, Sequences, FiniteSets

CONSTANTS
    PRODUCER_NUM,   \* number of producer (ROB) slots; 12 in ydrasil_pkg
    REGS,           \* architectural registers other than x0
    NoReg,          \* the destination of a uop that writes no register
    NoId,           \* an absent producer id: its valid bit is clear
    Uops,           \* the uops Decode may present
    DIV_CYCLES      \* longest occupancy of the divider, in cycles

(***************************************************************************)
(* What a uop is to Ctrl: how it completes, and its destination.           *)
(*   alu    result or no-result due token from an Operand cell             *)
(*   br     branch or jump the front end predicted correctly               *)
(*   brmis  branch or jump that will be found mispredicted                 *)
(*   div    long-latency operation of the MDU, not killed by a redirect    *)
(*   csr    serialising, executes alone at the ROB head                    *)
(*   sys    ecall, ebreak, mret or an illegal encoding: csr that traps     *)
(*   fence  fence.i: serialising, refetches what follows it                *)
(***************************************************************************)
Kinds == {"alu", "br", "brmis", "div", "csr", "sys", "fence"}
Serial(u) == u.kind \in {"csr", "sys", "fence"}
Branch(u) == u.kind \in {"br", "brmis"}

ASSUME CtrlAssumption ==
    /\ PRODUCER_NUM \in Nat /\ PRODUCER_NUM >= 2
    /\ DIV_CYCLES \in Nat
    /\ NoReg \notin REGS
    /\ Uops \subseteq [kind : Kinds, rd : REGS \cup {NoReg}]

Slots == 0 .. PRODUCER_NUM - 1
ProducerId == [slot : Slots, epoch : {0, 1}]

ASSUME NoIdAssumption == NoId \notin ProducerId

VARIABLES
    producer_valid, producer_done,
    producer_rd,            \* NoReg when producer_writes_gpr is clear
    producer_epoch,
    latest,                 \* the RAT: latest_id, or NoId if ~latest_valid
    queue_head, queue_tail, queue_count,
    serial_pending,
    branch_retire_due,      \* an id, or NoId
    recovering, rebuild_ptr, rebuild_remaining

VARIABLES
    uop,        \* the uop dispatched into a slot
    executed,   \* its own result or resolution has been produced
    wrong,      \* it was fetched past a mispredicted branch
    bru,        \* EX2 register of the BRU: resolving id, and pc redirect
    mdu,        \* divider occupant, its age, and whether it was squashed
    trap_stall  \* the trap controller is not idle

rob == <<producer_valid, producer_done, producer_rd, producer_epoch,
         queue_head, queue_tail, queue_count>>
rat == <<latest, recovering, rebuild_ptr, rebuild_remaining>>
backend == <<uop, executed, wrong, bru, mdu, trap_stall>>
vars == <<rob, rat, serial_pending, branch_retire_due, backend>>

IdleUop == [kind |-> "alu", rd |-> NoReg]
NoBru == [id |-> NoId, redirect |-> FALSE]
NoMdu == [id |-> NoId, squashed |-> FALSE, age |-> 0]

(***************************************************************************)
(* Slot arithmetic and identities.                                         *)
(***************************************************************************)
Plus(s, k) == IF s + k >= PRODUCER_NUM THEN s + k - PRODUCER_NUM ELSE s + k
Id(s) == [slot |-> s, epoch |-> producer_epoch[s]]
Live(id) == /\ id # NoId
            /\ producer_valid[id.slot]
            /\ producer_epoch[id.slot] = id.epoch

Head1 == Plus(queue_head, 1)
Head2 == Plus(queue_head, 2)

(***************************************************************************)
(* Retirement: up to two oldest producers, in order.  A branch may retire  *)
(* in the very cycle it resolves, on the registered due token.             *)
(***************************************************************************)
HeadBranchDue == /\ branch_retire_due # NoId
                 /\ producer_valid[queue_head]
                 /\ branch_retire_due = Id(queue_head)
Commit0 == /\ queue_count # 0
           /\ producer_valid[queue_head]
           /\ producer_done[queue_head] \/ HeadBranchDue
\* Slip: the second commit does not look at the redirect.
Commit1IgnoresRedirect ==
    /\ Commit0 /\ queue_count > 1
    /\ producer_valid[Head1] /\ producer_done[Head1]
Commit1 == /\ Commit0
           /\ ~bru.redirect
           /\ queue_count > 1
           /\ producer_valid[Head1]
           /\ producer_done[Head1]
CommitCount == IF Commit1 THEN 2 ELSE IF Commit0 THEN 1 ELSE 0
HeadAfterCommit == IF Commit1 THEN Head2
                   ELSE IF Commit0 THEN Head1 ELSE queue_head
Retires(s) == \/ Commit0 /\ s = queue_head
              \/ Commit1 /\ s = Head1

(***************************************************************************)
(* Dispatch: zero, one or two uops a cycle, into the tail slots.           *)
(***************************************************************************)
DispatchReady == /\ queue_count <= PRODUCER_NUM - 1
                 /\ ~serial_pending /\ ~recovering /\ ~trap_stall
DispatchTwoReady == /\ queue_count <= PRODUCER_NUM - 2
                    /\ ~serial_pending /\ ~recovering /\ ~trap_stall
Allocations == {<<>>} \cup {<<u>> : u \in Uops}
                      \cup {<<u, v>> : u, v \in Uops}
\* What the issue stage may push: never behind a serial lane-0 uop.
MayDispatch(alloc) ==
    /\ Len(alloc) >= 1 => DispatchReady
    /\ Len(alloc) = 2 => DispatchTwoReady /\ ~Serial(alloc[1])

AllocSlot(i) == Plus(queue_tail, i - 1)
AllocId(i) == [slot |-> AllocSlot(i),
               epoch |-> 1 - producer_epoch[AllocSlot(i)]]
Allocs(alloc, s) == \E i \in 1 .. Len(alloc) : s = AllocSlot(i)
UopOf(alloc, s) == IF s = AllocSlot(1) THEN alloc[1] ELSE alloc[2]
SerialAlloc(alloc) == \E i \in 1 .. Len(alloc) : Serial(alloc[i])

(***************************************************************************)
(* Recovery: a mispredicted branch, or the fence.i with id "fence", keeps  *)
(* the circular window that ends with it and drops everything younger.     *)
(***************************************************************************)
BranchLive == bru.redirect /\ Live(bru.id)
RecoveryEvent(fence) == BranchLive \/ Live(fence)
RecoverySlot(fence) == IF Live(fence) THEN fence.slot ELSE bru.id.slot
\* Slip: the recovery drops the branch together with its successors.
RecoveryNextDropsBranch(fence) == RecoverySlot(fence)
RecoveryNext(fence) == Plus(RecoverySlot(fence), 1)
\* Slip: a window that wraps onto the head counts as empty, not full.
RecoveryCountFullIsEmpty(fence) ==
    LET next == RecoveryNext(fence)
    IN  IF next >= queue_head THEN next - queue_head
        ELSE PRODUCER_NUM - queue_head + next
RecoveryCountBeforeCommit(fence) ==
    LET next == RecoveryNext(fence)
    IN  IF next = queue_head THEN PRODUCER_NUM
        ELSE IF next > queue_head THEN next - queue_head
        ELSE PRODUCER_NUM - queue_head + next
RecoveryCount(fence) == RecoveryCountBeforeCommit(fence) - CommitCount
InRecoveryWindow(fence, s) ==
    IF queue_head > RecoverySlot(fence)
    THEN s >= queue_head \/ s <= RecoverySlot(fence)
    ELSE s >= queue_head /\ s <= RecoverySlot(fence)

\* Slip: a recovery forgets the producers that retire in its own cycle.
NextValidKeepsRetired(alloc, fence) ==
    [s \in Slots |->
        IF RecoveryEvent(fence)
        THEN producer_valid[s] /\ InRecoveryWindow(fence, s)
        ELSE Allocs(alloc, s) \/ (producer_valid[s] /\ ~Retires(s))]
NextValid(alloc, fence) ==
    [s \in Slots |->
        IF RecoveryEvent(fence)
        THEN producer_valid[s] /\ InRecoveryWindow(fence, s) /\ ~Retires(s)
        ELSE Allocs(alloc, s) \/ (producer_valid[s] /\ ~Retires(s))]

(***************************************************************************)
(* The RAT: cleared by a recovery, then rebuilt from the surviving window  *)
(* two slots a cycle, oldest first, while those producers keep retiring.   *)
(***************************************************************************)
RebuildPtr1 == Plus(rebuild_ptr, 1)
\* Slip: the rebuild maps a producer in the cycle it retires.
RebuildsRetired(s, r) ==
    recovering /\ producer_valid[s] /\ producer_rd[s] = r
Rebuilds(s, r) == /\ recovering
                  /\ producer_valid[s]
                  /\ producer_rd[s] = r
                  /\ ~Retires(s)
Rebuild0(r) == Rebuilds(rebuild_ptr, r)
Rebuild1(r) == rebuild_remaining > 1 /\ Rebuilds(RebuildPtr1, r)
RetiresMapping(r) == /\ latest[r] # NoId
                     /\ Retires(latest[r].slot)
                     /\ producer_rd[latest[r].slot] = r
                     /\ latest[r] = Id(latest[r].slot)
NextLatest(alloc, fence) ==
    [r \in REGS |->
        IF RecoveryEvent(fence) THEN NoId
        ELSE IF Rebuild1(r) THEN Id(RebuildPtr1)
        ELSE IF Rebuild0(r) THEN Id(rebuild_ptr)
        ELSE IF Len(alloc) = 2 /\ alloc[2].rd = r THEN AllocId(2)
        ELSE IF Len(alloc) >= 1 /\ alloc[1].rd = r THEN AllocId(1)
        ELSE IF RetiresMapping(r) THEN NoId
        ELSE latest[r]]

\* Source tags handed to the issue stage: a lane-1 source written by lane 0
\* of the same pair takes the id being allocated.
RenamedTag0(r) == latest[r]
\* Slip: lane 1 reads the RAT past the write of lane 0.
RenamedTag1NoBypass(u, r) == latest[r]
RenamedTag1(u, r) == IF u.rd = r THEN AllocId(1) ELSE latest[r]

RebuildStep(fence) ==
    IF RecoveryEvent(fence) THEN
        /\ recovering' = (RecoveryCount(fence) # 0)
        /\ rebuild_ptr' = HeadAfterCommit
        /\ rebuild_remaining' = RecoveryCount(fence)
    ELSE IF ~recovering THEN
        UNCHANGED <<recovering, rebuild_ptr, rebuild_remaining>>
    ELSE IF rebuild_remaining <= 2 THEN
        /\ recovering' = FALSE
        /\ rebuild_remaining' = 0
        /\ UNCHANGED rebuild_ptr
    ELSE
        /\ rebuild_ptr' = Plus(rebuild_ptr, 2)
        /\ rebuild_remaining' = rebuild_remaining - 2
        /\ UNCHANGED recovering

(***************************************************************************)
(* Execution, as far as Ctrl can tell.  In a cycle the slots x present a   *)
(* token at the Operand/EX boundary; fin says the divider delivers.        *)
(***************************************************************************)
Offset(s) == IF s >= queue_head THEN s - queue_head
             ELSE s - queue_head + PRODUCER_NUM
Unresolved(s) == /\ producer_valid[s] /\ Branch(uop[s])
                 /\ ~executed[s] /\ bru.id # Id(s)
Ready(s) ==
    /\ producer_valid[s] /\ ~executed[s] /\ uop[s].kind # "fence"
    /\ Branch(uop[s]) =>
          /\ Unresolved(s)
          /\ \A b \in Slots : Unresolved(b) => Offset(s) <= Offset(b)
    /\ uop[s].kind = "div" => mdu.id = NoId
    /\ Serial(uop[s]) => s = queue_head
LaneBOnly(s) == uop[s].kind # "alu"
Executions == {x \in SUBSET {s \in Slots : Ready(s)} :
                 \A s, b \in x : LaneBOnly(s) /\ LaneBOnly(b) => s = b}

\* A token of x that a redirect does not kill.
Kept(fence, s) == ~RecoveryEvent(fence) \/ InRecoveryWindow(fence, s)
DueToken(x, s) == s \in x /\ ~Branch(uop[s]) /\ uop[s].kind # "div"
\* Slip: the divider's result is matched by slot alone.
MduHitSlotOnly(fin, s) == fin /\ mdu.id # NoId /\ mdu.id.slot = s
MduHit(fin, s) == fin /\ mdu.id = Id(s)

Completes(x, fin, fence, s) ==
    /\ producer_valid[s]
    /\ \/ DueToken(x, s)
       \/ MduHit(fin, s)
       \/ branch_retire_due = Id(s) /\ ~HeadBranchDue
       \/ bru.id = Id(s)
       \/ fence = Id(s)
\* Slip: allocation keeps the done bit a squashed occupant left behind.
NextDoneKeepsSquashed(alloc, x, fin, fence) ==
    [s \in Slots |->
        IF Completes(x, fin, fence, s) THEN TRUE
        ELSE IF Retires(s) THEN FALSE
        ELSE producer_done[s]]
NextDone(alloc, x, fin, fence) ==
    [s \in Slots |->
        IF Allocs(alloc, s) THEN FALSE
        ELSE IF Completes(x, fin, fence, s) THEN TRUE
        ELSE IF Retires(s) THEN FALSE
        ELSE producer_done[s]]

NextBru(x, fence) ==
    IF \E s \in x : Branch(uop[s]) /\ Kept(fence, s)
    THEN LET b == CHOOSE s \in x : Branch(uop[s])
         IN  [id |-> Id(b), redirect |-> uop[b].kind = "brmis"]
    ELSE NoBru
NextBranchRetireDue(x, fence) ==
    IF bru.redirect \/ fence # NoId THEN NoId
    ELSE IF \E s \in x : Branch(uop[s]) /\ uop[s].rd = NoReg
         THEN Id(CHOOSE s \in x : Branch(uop[s]))
         ELSE NoId
NextMdu(x, fin, fence) ==
    IF \E s \in x : uop[s].kind = "div" /\ Kept(fence, s)
    THEN [id |-> Id(CHOOSE s \in x : uop[s].kind = "div"),
          squashed |-> FALSE, age |-> 0]
    ELSE IF mdu.id = NoId \/ fin THEN NoMdu
    ELSE [id |-> mdu.id,
          squashed |-> mdu.squashed \/ ~Kept(fence, mdu.id.slot),
          age |-> mdu.age + 1]

OwnResult(x, fin, fence, s) ==
    \/ DueToken(x, s)
    \/ bru.id = Id(s)
    \/ MduHit(fin, s) /\ ~mdu.squashed
    \/ fence = Id(s)
Misled == \E s \in Slots : /\ producer_valid[s] /\ ~executed[s]
                           /\ uop[s].kind = "brmis"
BackendStep(alloc, x, fin, fence) ==
    /\ uop' = [s \in Slots |-> IF Allocs(alloc, s) THEN UopOf(alloc, s)
                               ELSE IF producer_valid'[s] THEN uop[s]
                               ELSE IdleUop]
    /\ executed' = [s \in Slots |->
                      /\ producer_valid'[s] /\ ~Allocs(alloc, s)
                      /\ executed[s] \/ OwnResult(x, fin, fence, s)]
    /\ wrong' = [s \in Slots |->
                   IF Allocs(alloc, s)
                   THEN Misled \/ (s # AllocSlot(1) /\ alloc[1].kind = "brmis")
                   ELSE producer_valid'[s] /\ wrong[s]]
    /\ bru' = NextBru(x, fence)
    /\ mdu' = NextMdu(x, fin, fence)
    /\ trap_stall' \in {trap_stall, TRUE}
    /\ (\E s \in x : uop[s].kind = "sys") => trap_stall'

(***************************************************************************)
(* One clock edge outside reset.                                           *)
(***************************************************************************)
SerialAccept(x, fence) == \/ fence # NoId
                          \/ \E s \in x : uop[s].kind = "csr"
\* Slip: a redirect that squashes the serial uop leaves the flag set.
SerialStepLeaks(alloc, x, fence) ==
    serial_pending' = IF SerialAccept(x, fence) THEN FALSE
                      ELSE serial_pending \/ SerialAlloc(alloc)
SerialStep(alloc, x, fence) ==
    serial_pending' =
        IF bru.redirect \/ SerialAccept(x, fence) THEN FALSE
        ELSE serial_pending \/ SerialAlloc(alloc)
QueueStep(alloc, fence) ==
    /\ queue_head' = HeadAfterCommit
    /\ queue_tail' = IF RecoveryEvent(fence) THEN RecoveryNext(fence)
                     ELSE Plus(queue_tail, Len(alloc))
    /\ queue_count' = IF RecoveryEvent(fence) THEN RecoveryCount(fence)
                      ELSE queue_count + Len(alloc) - CommitCount
ProducerStep(alloc) ==
    /\ producer_rd' = [s \in Slots |->
                         IF Allocs(alloc, s) THEN UopOf(alloc, s).rd
                         ELSE IF Retires(s) THEN NoReg ELSE producer_rd[s]]
    /\ producer_epoch' = [s \in Slots |->
                            IF Allocs(alloc, s) THEN 1 - producer_epoch[s]
                            ELSE producer_epoch[s]]
Cycle(alloc, x, fin, fence) ==
    /\ fin => mdu.id # NoId
    /\ mdu.id # NoId /\ mdu.age = DIV_CYCLES => fin
    /\ producer_valid' = NextValid(alloc, fence)
    /\ producer_done' = NextDone(alloc, x, fin, fence)
    /\ ProducerStep(alloc)
    /\ QueueStep(alloc, fence)
    /\ latest' = NextLatest(alloc, fence)
    /\ RebuildStep(fence)
    /\ SerialStep(alloc, x, fence)
    /\ branch_retire_due' = NextBranchRetireDue(x, fence)
    /\ BackendStep(alloc, x, fin, fence)

(***************************************************************************)
(* The cycles Ctrl distinguishes.                                          *)
(***************************************************************************)
\* No redirect, no fence: dispatch, execute, retire, rebuild.
RunCycle ==
    /\ ~bru.redirect
    /\ \E alloc \in Allocations, x \in Executions, fin \in BOOLEAN :
          MayDispatch(alloc) /\ Cycle(alloc, x, fin, NoId)
\* The BRU redirects and its branch is still in the ROB.
BranchRecoveryCycle ==
    /\ BranchLive
    /\ \E x \in Executions, fin \in BOOLEAN : Cycle(<<>>, x, fin, NoId)
\* A redirect without a live branch: the cycle after a trap redirect.
FlushCycle ==
    /\ bru.redirect /\ ~Live(bru.id)
    /\ \E x \in Executions, fin \in BOOLEAN : Cycle(<<>>, x, fin, NoId)
\* issue_fence_i: a fence.i has executed at the ROB head.
FenceCycle ==
    /\ ~bru.redirect
    /\ producer_valid[queue_head] /\ ~executed[queue_head]
    /\ uop[queue_head].kind = "fence"
    /\ \E fin \in BOOLEAN : Cycle(<<>>, {}, fin, Id(queue_head))
\* interrupt_pending: the trap controller, its backend drained, redirects.
TrapCycle ==
    /\ trap_stall /\ queue_count = 0 /\ bru = NoBru
    /\ producer_valid' = [s \in Slots |-> FALSE]
    /\ producer_done' = [s \in Slots |-> FALSE]
    /\ producer_rd' = [s \in Slots |-> NoReg]
    /\ producer_epoch' = [s \in Slots |-> 0]
    /\ queue_head' = 0 /\ queue_tail' = 0 /\ queue_count' = 0
    /\ latest' = [r \in REGS |-> NoId]
    /\ recovering' = FALSE /\ rebuild_ptr' = 0 /\ rebuild_remaining' = 0
    /\ serial_pending' = FALSE
    /\ branch_retire_due' = NoId
    /\ uop' = [s \in Slots |-> IdleUop]
    /\ executed' = [s \in Slots |-> FALSE]
    /\ wrong' = [s \in Slots |-> FALSE]
    /\ bru' = [id |-> NoId, redirect |-> TRUE]
    /\ mdu' = NoMdu
    /\ trap_stall' = FALSE

Init ==
    /\ producer_valid = [s \in Slots |-> FALSE]
    /\ producer_done = [s \in Slots |-> FALSE]
    /\ producer_rd = [s \in Slots |-> NoReg]
    /\ producer_epoch = [s \in Slots |-> 0]
    /\ queue_head = 0 /\ queue_tail = 0 /\ queue_count = 0
    /\ latest = [r \in REGS |-> NoId]
    /\ recovering = FALSE /\ rebuild_ptr = 0 /\ rebuild_remaining = 0
    /\ serial_pending = FALSE
    /\ branch_retire_due = NoId
    /\ uop = [s \in Slots |-> IdleUop]
    /\ executed = [s \in Slots |-> FALSE]
    /\ wrong = [s \in Slots |-> FALSE]
    /\ bru = NoBru /\ mdu = NoMdu /\ trap_stall = FALSE

Next == \/ RunCycle
        \/ BranchRecoveryCycle
        \/ FlushCycle
        \/ FenceCycle
        \/ TrapCycle

Spec == Init /\ [][Next]_vars
-----------------------------------------------------------------------------
(***************************************************************************)
(* Properties.                                                             *)
(***************************************************************************)
MaybeId == ProducerId \cup {NoId}

\* The registers keep their widths: ids name real slots, pointers stay below
\* PRODUCER_NUM and counts at or below it (ydrasil_ctrl.sv:73-135).
TypeOK ==
    /\ producer_valid \in [Slots -> BOOLEAN]
    /\ producer_done \in [Slots -> BOOLEAN]
    /\ producer_rd \in [Slots -> REGS \cup {NoReg}]
    /\ producer_epoch \in [Slots -> {0, 1}]
    /\ latest \in [REGS -> MaybeId]
    /\ queue_head \in Slots /\ queue_tail \in Slots
    /\ queue_count \in 0 .. PRODUCER_NUM
    /\ serial_pending \in BOOLEAN
    /\ branch_retire_due \in MaybeId
    /\ recovering \in BOOLEAN /\ rebuild_ptr \in Slots
    /\ rebuild_remaining \in 0 .. PRODUCER_NUM
    /\ uop \in [Slots -> [kind : Kinds, rd : REGS \cup {NoReg}]]
    /\ executed \in [Slots -> BOOLEAN] /\ wrong \in [Slots -> BOOLEAN]
    /\ bru \in [id : MaybeId, redirect : BOOLEAN]
    /\ mdu \in [id : MaybeId, squashed : BOOLEAN, age : 0 .. DIV_CYCLES]
    /\ trap_stall \in BOOLEAN

\* The valid bits are exactly the circular window of queue_count slots from
\* queue_head, and queue_tail closes it: commits, allocations and recoveries,
\* alone or in one cycle, never leave a hole or a ghost (lines 556-584,
\* 785-899).
RingInv ==
    /\ queue_tail = Plus(queue_head, queue_count)
    /\ \A s \in Slots : producer_valid[s] <=> Offset(s) < queue_count

ToRebuild == IF recovering
             THEN {Plus(rebuild_ptr, i) : i \in 0 .. rebuild_remaining - 1}
             ELSE {}
Writers(r) == {s \in Slots : producer_valid[s] /\ producer_rd[s] = r}
IsYoungest(s, S) == s \in S /\ \A z \in S : Offset(z) <= Offset(s)

\* The RAT names, for every register, the youngest live producer already
\* rebuilt, and nothing else: once the rebuild ends it is the exact mapping
\* although producers retired, and possibly another branch recovered, while
\* it ran (lines 594-632, 717-783).
RatInv ==
    \A r \in REGS :
        LET W == Writers(r) \ ToRebuild
        IN  \/ latest[r] = NoId /\ W = {}
            \/ \E s \in W : latest[r] = Id(s) /\ IsYoungest(s, W)

\* While Ctrl accepts dispatch, each source tag it hands out names the
\* youngest older writer of the register, lane 0 of the same pair counting as
\* older than lane 1, or says that no writer is in flight (lines 258-349).
Names(tag, W) == IF tag = NoId THEN W = {} ELSE IsYoungest(tag.slot, W)
RenameSound ==
    DispatchReady =>
      \A r \in REGS :
        /\ Names(RenamedTag0(r), Writers(r))
        /\ \A u \in Uops :
              Names(RenamedTag1(u, r),
                    Writers(r) \cup {s \in {AllocSlot(1)} : u.rd = r})

\* A uop fetched past a mispredicted branch never retires, in particular not
\* as the second commit of the branch's own resolve cycle (lines 136-149,
\* 457-473).
WrongPathNeverRetires ==
    \A s \in Slots : Retires(s) => ~wrong[s]

\* A uop retires only after its own result or resolution: no token meant for
\* an earlier occupant of the slot completes it.
RetireOnlyExecuted ==
    \A s \in Slots : Retires(s) => executed[s] \/ bru.id = Id(s)

\* A result of the divider that reaches the ROB after its uop was squashed
\* completes nothing, as ydrasil_ex_block.sv:122-124 says.
SquashedResultRejected ==
    mdu.squashed => ~Live(mdu.id)

\* The branch in the BRU result register is in the ROB and not yet executed,
\* so a mispredict always finds its branch and recovers (lines 512-551).
ResolvingBranchInRob ==
    bru.id # NoId => /\ Live(bru.id)
                     /\ ~executed[bru.id.slot]
                     /\ Branch(uop[bru.id.slot])

\* A serial uop that has not executed is the youngest one, and holds
\* dispatch.
SerialIsYoungest ==
    \A s \in Slots :
       producer_valid[s] /\ ~executed[s] /\ Serial(uop[s])
          => serial_pending /\ Plus(s, 1) = queue_tail

\* Dispatch is held by serial_pending exactly while such a uop is in flight,
\* or while a trap is being taken: the flag is never leaked and never dropped
\* early (lines 226-236, 806-809).
SerialInv ==
    /\ SerialIsYoungest
    /\ serial_pending =>
          \/ trap_stall
          \/ \E s \in Slots : producer_valid[s] /\ ~executed[s]
                              /\ Serial(uop[s])

\* A recovery never retires more than it keeps: the assertion "branch
\* recovery retirement count underflow" (lines 586-592).
RecoveryNoUnderflow ==
    BranchLive => RecoveryCountBeforeCommit(NoId) >= CommitCount

\* A done bit, and the registered branch token, belong to the present
\* occupant of the slot; the divider's occupant, unless squashed, is in the
\* ROB and waiting for it.
DoneIsOwn == \A s \in Slots : producer_valid[s] /\ producer_done[s]
                                  => executed[s]
DueIsResolving == branch_retire_due # NoId => branch_retire_due = bru.id
FlushWhenEmpty == bru.redirect /\ bru.id = NoId => queue_count = 0
MduWaits == mdu.id # NoId /\ ~mdu.squashed =>
               /\ Live(mdu.id) /\ ~executed[mdu.id.slot]
               /\ uop[mdu.id.slot].kind = "div"
\* The inductive strengthening of RingInv: why a commit, a dispatch and a
\* recovery that meet in one cycle agree on which slots are in flight.
IndInv == /\ TypeOK /\ RingInv
          /\ DoneIsOwn /\ DueIsResolving /\ FlushWhenEmpty
          /\ ResolvingBranchInRob /\ MduWaits /\ SerialIsYoungest

\* Ctrl implements the abstract queue of YdrasilRob: the slots from
\* queue_head on, a resolved branch no longer counting as mispredicted.
RobView ==
    [i \in 1 .. queue_count |->
        LET s == Plus(queue_head, i - 1)
        IN  IF executed[s] /\ Branch(uop[s])
            THEN [uop[s] EXCEPT !.kind = "br"] ELSE uop[s]]
Rob == INSTANCE YdrasilRob WITH Capacity <- PRODUCER_NUM, q <- RobView
ImplementsRob == Rob!Spec

(***************************************************************************)
(* Liveness.  The clock never stops, the trap controller finishes, and the *)
(* oldest uop, whose operands are all available, is eventually selected.   *)
(***************************************************************************)
ClockTick == /\ \E fin \in BOOLEAN : Cycle(<<>>, {}, fin, NoId)
             /\ UNCHANGED trap_stall
HeadExecutes ==
    /\ queue_count # 0 /\ ~executed[queue_head]
    /\ \/ FenceCycle
       \/ ~bru.redirect /\ \E x \in Executions, fin \in BOOLEAN :
              queue_head \in x /\ Cycle(<<>>, x, fin, NoId)
FairSpec == /\ Spec
            /\ WF_vars(ClockTick)
            /\ SF_vars(HeadExecutes)
            /\ WF_vars(TrapCycle)

\* Dispatch is never blocked for ever: no rebuild, serial flag, full ROB or
\* trap drain keeps dispatch_ready_o low for good (lines 212-225).
DispatchReadyRecurs == []<>DispatchReady
=============================================================================
