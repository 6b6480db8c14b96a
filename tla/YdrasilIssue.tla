---------------------------- MODULE YdrasilIssue ----------------------------
(***************************************************************************)
(* The reservation stations of ydrasil_issue_stage.sv: three banks (ALU,   *)
(* P0 for memory, P1 for branches) with their allocation, ordering masks,  *)
(* source tags and wakeup, selection, the free-slot credits Dispatch sees, *)
(* and what a branch recovery does to all of them; with the valid and      *)
(* epoch bits of the value file, which a new entry looks up.               *)
(*                                                                         *)
(* One step is one clock edge.  The reorder buffer is reduced to a window  *)
(* of slots with their epoch and progress (YdrasilCtrl has it in full); a  *)
(* uop reads and writes one register, so its source is the youngest        *)
(* writer before it.  The LSU is reduced to what its loads tell the stage: *)
(* the launch of a DTCM read, its response, and the recovery that cancels  *)
(* it.  The LSU's credit and the time a unit takes are free.               *)
(***************************************************************************)
EXTENDS Naturals, Sequences, FiniteSets

CONSTANTS
    PRODUCER_NUM,   \* ROB slots; 12 in ydrasil_pkg
    BANK_SIZE,      \* entries of each bank; 4 each in the code
    REPLACE,        \* ENABLE_P0_SAME_CYCLE_REPLACE; FALSE by default
    Uops,           \* what Decode may present
    None

Kinds == {"alu", "load", "store", "br"}
Banks == {"alu", "p0", "p1"}
ASSUME IssueAssumption ==
    /\ PRODUCER_NUM \in Nat \ {0, 1} /\ BANK_SIZE \in [Banks -> Nat \ {0}]
    /\ REPLACE \in BOOLEAN
    /\ Uops \subseteq [kind : Kinds, reads : BOOLEAN, writes : BOOLEAN]

Slots == 0 .. PRODUCER_NUM - 1
Ids == [slot : Slots, epoch : {0, 1}]
BankOf(u) == IF u.kind = "alu" THEN "alu"
             ELSE IF u.kind = "br" THEN "p1" ELSE "p0"
Base(b) == IF b = "alu" THEN 0 ELSE IF b = "p0" THEN BANK_SIZE["alu"]
           ELSE BANK_SIZE["alu"] + BANK_SIZE["p0"]
Bank(b) == Base(b) .. Base(b) + BANK_SIZE[b] - 1
Rs == UNION {Bank(b) : b \in Banks}
Entries == [uop : Uops, slot : Slots, src : Ids \cup {None},
            ready : BOOLEAN, mask : SUBSET Rs]
Windows == [head : Slots, branch : Slots]
ASSUME NoneAssumption ==
    None \notin Ids /\ None \notin Entries /\ None \notin Windows

VARIABLES
    rs,             \* entry: its uop and ROB slot, source tag (or None),
                    \* ready bit and ordering mask; None when not valid
    issued,         \* issued_slot_mask_q
    token,          \* select_wakeup ids: early results selected last cycle
    alloc,          \* entries written last cycle, with lane 0's id
    credit, release, resync,
    recovery,       \* window of a recovery that the entries apply now, or None
    head_q          \* rob_head_select_q

VARIABLES
    head, count, uop, epoch,
    stage,          \* "free", in a station ("rs"), being executed ("out"), a
                    \* load with its response in S1 ("resp") or cancelled by
                    \* a recovery ("lost"), or "done"
    due,            \* completion_meta: results on the completion bus now
    retire,         \* retire_commit_q: uops that committed at the last edge
    value, value_alloc

station == <<rs, issued, token, alloc, credit, release, resync, recovery,
             head_q>>
rob == <<head, count, uop, epoch, stage, due, retire, value, value_alloc>>
vars == <<station, rob>>

Plus(s, k) == (s + k) % PRODUCER_NUM
Least(S) == CHOOSE x \in S : \A y \in S : x <= y
Id(s) == [slot |-> s, epoch |-> epoch[s]]
Age(s) == (s + PRODUCER_NUM - head) % PRODUCER_NUM
Live(s) == stage[s] # "free"

Init ==
    /\ rs = [i \in Rs |-> None] /\ issued = {} /\ token = {}
    /\ alloc = <<>>
    /\ credit = BANK_SIZE
    /\ release = [b \in Banks |-> 0] /\ resync = 0
    /\ recovery = None /\ head_q = 0
    /\ head = 0 /\ count = 0
    /\ uop = [s \in Slots |-> None] /\ epoch = [s \in Slots |-> 0]
    /\ stage = [s \in Slots |-> "free"]
    /\ due = {} /\ retire = {} /\ value_alloc = {}
    /\ value = [s \in Slots |-> None]

(***************************************************************************)
(* The reorder buffer: retirement, the youngest writer, a recovery window. *)
(***************************************************************************)
\* A branch at the head commits in the cycle in which it resolves.  The second
\* of the two commit ports is closed in the cycle of a recovery.
HeadCommits(fin) ==
    stage[head] = "done" \/ (head \in fin /\ uop[head].kind = "br")
RetireCount(fin, ports) ==
    IF ~HeadCommits(fin) THEN 0
    ELSE IF ports = 2 /\ count > 1 /\ stage[Plus(head, 1)] = "done" THEN 2
    ELSE 1
Retired(fin, ports) == {Plus(head, k) : k \in 0 .. RetireCount(fin, ports) - 1}
Writers == {s \in Slots : Live(s) /\ uop[s].writes}
Latest == IF Writers = {} THEN None
          ELSE Id(CHOOSE s \in Writers : \A t \in Writers : Age(t) <= Age(s))
InWindow(s, h, b) == (s + PRODUCER_NUM - h) % PRODUCER_NUM
                       <= (b + PRODUCER_NUM - h) % PRODUCER_NUM

(***************************************************************************)
(* Loads.  A DTCM read that fires has its response in S1 in the next       *)
(* cycle, and completes then.  The cycle after a recovery empties S1: a    *)
(* read that fires in it is cancelled, stays in the LSU's queue and fires  *)
(* again at once.  Either way the launch was announced.                    *)
(***************************************************************************)
Responding == {s \in Slots : stage[s] = "resp"}
Cancelled == {s \in Slots : stage[s] = "lost"}
\* The launch registers beside the banks; a recovery clears them.
LaunchIds == IF recovery # None THEN {}
             ELSE {Id(s) : s \in Responding \cup Cancelled}
Executing == {s \in Slots : stage[s] \in {"out", "resp"}}
KindIn(fin, K) == {s \in fin : uop[s].kind \in K}
\* The slots whose uops complete at this edge: two execution lanes, one of
\* them with the branch unit, and the LSU, whose DTCM response goes first.
Finishes ==
    {fin \in SUBSET Executing :
        /\ Responding \subseteq fin
        /\ Cardinality(KindIn(fin, {"load"})) <= 1
        /\ Cardinality(KindIn(fin, {"alu", "store", "br"})) <= 2
        /\ Cardinality(KindIn(fin, {"br"})) <= 1}
\* Slip: a cancelled read waits its turn like any other.
FiresLater(fin) ==
    {{}} \cup {{s} : s \in
        {t \in Slots : stage[t] \in {"out", "lost"} /\ uop[t].kind = "load"}}
\* The load whose DTCM read fires; a buffered MMIO response holds it back.
Fires(fin) ==
    IF Cancelled # {} THEN {Cancelled}
    ELSE {{}} \cup {{s} : s \in
            {t \in Slots : /\ stage[t] = "out" /\ uop[t].kind = "load"
                           /\ KindIn(fin, {"load"}) \subseteq Responding}}

(***************************************************************************)
(* Selection: at most one uop for each lane, from the registered state.    *)
(***************************************************************************)
Valid(b) == {i \in Bank(b) : rs[i] # None}
Ready(i) == \/ rs[i].ready
            \/ rs[i].src # None /\ rs[i].src \in token \cup LaunchIds
Blocked(i) == rs[i].mask \ issued
Candidates(b, lsu) == {i \in Valid(b) : /\ Ready(i) /\ Blocked(i) = {}
                                        /\ b = "p0" => lsu}
\* Slip: the age is not measured from the head.
p0_age_slot(i) == rs[i].slot
p0_age(i) == (rs[i].slot + PRODUCER_NUM - head_q) % PRODUCER_NUM
P0Pick(lsu) ==
    LET C == Candidates("p0", lsu)
    IN  {i \in C : \A j \in C : j # i => p0_age(i) < p0_age(j)}
P1Pick == LET C == Candidates("p1", FALSE)
          IN  IF C = {} THEN {} ELSE {Least(C)}
AluPick(lanes) ==
    LET C == Candidates("alu", FALSE)
        first == {Least(C)}
    IN  IF C = {} \/ lanes = 0 THEN {}
        ELSE IF lanes = 1 \/ C = first THEN first
        ELSE first \cup {Least(C \ first)}
Selected(lsu) ==
    LET p == P0Pick(lsu) \cup P1Pick
    IN  IF recovery # None THEN {} ELSE p \cup AluPick(2 - Cardinality(p))

(***************************************************************************)
(* Dispatch of zero, one or two uops: credits, slots, ordering masks.      *)
(***************************************************************************)
Released(picked, b) == IF REPLACE /\ b = "p0" THEN picked \cap Bank(b) ELSE {}
Free(picked, b) == (Bank(b) \ Valid(b)) \cup Released(picked, b)
\* Slip: a release is counted in the free entries already.
EffectiveTwice(b) == credit[b] + 2 * release[b]
Effective(b) == credit[b] + release[b]
Demand(d, b) == Cardinality({k \in DOMAIN d : BankOf(d[k]) = b})
MayDispatch(d, picked) ==
    /\ d # <<>> => resync = 0 /\ count + Len(d) <= PRODUCER_NUM
    /\ \A b \in Banks :
          Demand(d, b) <= Effective(b) + Cardinality(Released(picked, b))

Target(d, picked, k) ==
    LET first == Free(picked, BankOf(d[1]))
        second == Free(picked, BankOf(d[2])) \ (IF first = {} THEN {}
                                                ELSE {Least(first)})
        F == IF k = 1 THEN first ELSE second
    IN  IF F = {} THEN None ELSE Least(F)

\* May u not pass the older uop w?  Loads pass loads; branches resolve in
\* order.
WaitsFor(u, w) ==
    \/ u.kind = "br" /\ w.kind = "br"
    \/ u.kind = "load" /\ w.kind = "store"
    \/ u.kind = "store" /\ w.kind \in {"load", "store"}
\* Slip: the second uop of a pair ignores the first.
MaskNoPair(d, picked, k) ==
    {i \in Valid(BankOf(d[k])) : WaitsFor(d[k], rs[i].uop)}
Mask(d, picked, k) ==
    {i \in Valid(BankOf(d[k])) : WaitsFor(d[k], rs[i].uop)}
      \cup IF k = 2 /\ WaitsFor(d[2], d[1]) THEN {Target(d, picked, 1)}
           ELSE {}

NewSlot(k) == Plus(head, count + k - 1)
NewId(k) == [slot |-> NewSlot(k), epoch |-> 1 - epoch[NewSlot(k)]]
Source(d, k) == IF ~d[k].reads THEN None
                ELSE IF k = 2 /\ d[1].writes THEN NewId(1) ELSE Latest
\* A producer that committed at the last edge is not waited for; one that
\* commits in this very cycle still is, for a cycle.
NewEntry(d, picked, k) ==
    LET src == Source(d, k)
        gone == src \in retire
    IN  [uop |-> d[k], slot |-> NewSlot(k),
         src |-> IF gone THEN None ELSE src,
         ready |-> src = None \/ gone,
         mask |-> Mask(d, picked, k)]

(***************************************************************************)
(* Wakeup: early tokens, a load's launch and response, the completion bus  *)
(* and, once, the lookup of the value file.                                *)
(***************************************************************************)
Resident(id) == value[id.slot] = [id |-> id, valid |-> TRUE]
AllocWakeup(i) == \E k \in DOMAIN alloc :
                    /\ alloc[k].entry = i
                    /\ k = 2 => rs[i].src # alloc[1].id
                    /\ Resident(rs[i].src)
Wakeup(i) == /\ rs[i].src # None
             /\ \/ rs[i].src \in token \cup LaunchIds \cup due
                \/ rs[i].src \in {Id(s) : s \in Responding}
                \/ AllocWakeup(i)
\* Slip: the retirement of a producer makes a source ready and leaves its tag.
WokenKeepsTag(i) ==
    [rs[i] EXCEPT !.ready = @ \/ Wakeup(i) \/ rs[i].src \in retire,
                  !.mask = @ \ issued]
Woken(i) ==
    LET gone == rs[i].src \in retire
    IN  [rs[i] EXCEPT !.ready = @ \/ Wakeup(i) \/ gone,
                      !.src = IF gone THEN None ELSE @,
                      !.mask = @ \ issued]

RsStep(d, picked) ==
    rs' = [i \in Rs |->
        IF \E k \in DOMAIN d : i = Target(d, picked, k)
        THEN NewEntry(d, picked,
                      CHOOSE k \in DOMAIN d : i = Target(d, picked, k))
        ELSE IF rs[i] = None \/ i \in picked THEN None
        ELSE Woken(i)]

\* The edge at which the entries apply a recovery.
Survives(i) == rs[i] # None /\ InWindow(rs[i].slot, recovery.head,
                                        recovery.branch)
\* Slip: an entry hears no completion while it applies a recovery.
RsRecoverDeaf ==
    rs' = [i \in Rs |->
        IF Survives(i)
        THEN [rs[i] EXCEPT !.mask = @ \cap {j \in Rs : Survives(j)}]
        ELSE None]
RsRecover ==
    rs' = [i \in Rs |->
        IF Survives(i)
        THEN [Woken(i) EXCEPT
                !.mask = rs[i].mask \cap {j \in Rs : Survives(j)}]
        ELSE None]

(***************************************************************************)
(* Credits: rebased on the occupancy, with the releases of the last cycle  *)
(* beside them; a recovery withholds them until the entries have settled.  *)
(***************************************************************************)
\* Slip: the credits are carried on instead of rebased.
CreditStepCarried(d, picked) ==
    IF resync # 0
    THEN /\ release' = [b \in Banks |-> 0]
         /\ resync' = resync - 1
         /\ credit' = IF resync = 1
                      THEN [b \in Banks |-> Cardinality(Free(picked, b))]
                      ELSE credit
    ELSE /\ release' = [b \in Banks |-> Cardinality(picked \cap Bank(b))]
         /\ credit' = [b \in Banks |-> Effective(b) - Demand(d, b)]
         /\ UNCHANGED resync
CreditStep(d, picked) ==
    IF resync # 0
    THEN /\ release' = [b \in Banks |-> 0]
         /\ resync' = resync - 1
         /\ credit' = IF resync = 1
                      THEN [b \in Banks |-> Cardinality(Free(picked, b))]
                      ELSE credit
    ELSE /\ release' = [b \in Banks |-> Cardinality(picked \cap Bank(b))]
         /\ credit' = [b \in Banks |->
                         Cardinality(Free(picked, b)) - Demand(d, b)]
         /\ UNCHANGED resync

(***************************************************************************)
(* Everything else that an edge moves.                                     *)
(***************************************************************************)
ValueStep ==
    value' = [s \in Slots |->
        IF \E id \in value_alloc : id.slot = s
        THEN [id |-> CHOOSE id \in value_alloc : id.slot = s, valid |-> FALSE]
        ELSE IF \E id \in due : id.slot = s
        THEN [id |-> CHOOSE id \in due : id.slot = s, valid |-> TRUE]
        ELSE value[s]]

\* The fixed-latency results whose readers may be selected right behind them.
Early(s) == uop[s].kind \in {"alu", "br"}
EarlyIds(picked) == {Id(rs[i].slot) : i \in
                        {j \in picked : Early(rs[j].slot)
                                        /\ uop[rs[j].slot].writes}}
\* The results that go onto the completion bus: a recovery stops those of
\* the uops it squashes in the execution lanes, not a load's response.
BusIds(fin, kept) ==
    {Id(s) : s \in {t \in fin : /\ uop[t].writes
                                /\ t \in kept \/ uop[t].kind = "load"}}
PickedSlots(picked) == {rs[i].slot : i \in picked}
\* What becomes of a uop in flight; a read that fires while the LSU applies
\* a recovery is cancelled.
Progress(s, picked, fin, fire) ==
    IF s \in fin THEN "done"
    ELSE IF s \in fire THEN (IF recovery = None THEN "resp" ELSE "lost")
    ELSE IF s \in PickedSlots(picked) THEN "out"
    ELSE stage[s]

Cycle(d, picked, fin, fire) ==
    LET retired == Retired(fin, 2)
        new(s) == {k \in DOMAIN d : s = NewSlot(k)}
    IN  /\ IF recovery = None THEN RsStep(d, picked) ELSE RsRecover
        /\ issued' = picked
        /\ token' = EarlyIds(picked)
        /\ alloc' = [k \in DOMAIN d |->
                       [entry |-> Target(d, picked, k), id |-> NewId(k)]]
        /\ CreditStep(d, picked)
        /\ recovery' = None
        /\ head_q' = head
        /\ head' = Plus(head, RetireCount(fin, 2))
        /\ count' = count - RetireCount(fin, 2) + Len(d)
        /\ uop' = [s \in Slots |->
                     IF new(s) # {} THEN d[CHOOSE k \in new(s) : TRUE]
                     ELSE IF s \in retired THEN None ELSE uop[s]]
        /\ epoch' = [s \in Slots |->
                       IF new(s) # {} THEN 1 - epoch[s] ELSE epoch[s]]
        /\ stage' = [s \in Slots |->
                       IF new(s) # {} THEN "rs"
                       ELSE IF s \in retired THEN "free"
                       ELSE Progress(s, picked, fin, fire)]
        /\ due' = BusIds(fin, Slots)
        /\ retire' = {Id(s) : s \in retired}
        /\ value_alloc' = {NewId(k) : k \in DOMAIN d}
        /\ ValueStep

Dispatches == {<<>>} \cup {<<u>> : u \in Uops} \cup {<<u, v>> : u, v \in Uops}

RunCycle ==
    \E d \in Dispatches, picked \in {Selected(lsu) : lsu \in BOOLEAN} :
        /\ MayDispatch(d, picked)
        /\ \E fin \in Finishes : \E fire \in Fires(fin) :
              Cycle(d, picked, fin, fire)

\* branch_recovery_i: the branch in slot b resolves as mispredicted, beside
\* whatever else completes or is launched in that cycle.
Recover(b, fin, fire) ==
    LET kept == {s \in Slots : Live(s) /\ InWindow(s, head, b)}
        retired == Retired(fin, 1)
        gone == Slots \ (kept \ retired)
    IN  /\ IF recovery = None THEN RsStep(<<>>, {}) ELSE RsRecover
        /\ issued' = {} /\ token' = {} /\ alloc' = <<>>
        /\ credit' = [c \in Banks |-> 0]
        /\ release' = [c \in Banks |-> 0] /\ resync' = 2
        /\ recovery' = [head |-> head, branch |-> b]
        /\ head_q' = 0
        /\ head' = Plus(head, RetireCount(fin, 1))
        /\ count' = Cardinality(kept \ retired)
        /\ uop' = [s \in Slots |-> IF s \in gone THEN None ELSE uop[s]]
        /\ stage' = [s \in Slots |-> IF s \in gone THEN "free"
                                     ELSE Progress(s, {}, fin, fire)]
        /\ UNCHANGED epoch
        /\ due' = BusIds(fin, kept)
        /\ retire' = {Id(s) : s \in retired}
        /\ value_alloc' = {}
        /\ ValueStep

RecoveryCycle ==
    \E fin \in Finishes : \E b \in KindIn(fin, {"br"}), fire \in Fires(fin) :
        Recover(b, fin, fire)

\* trap_flush_i: the trap controller redirects the drained backend, cycles
\* after the last uop has retired (it writes its CSRs first).
TrapCycle ==
    /\ count = 0 /\ due = {} /\ retire = {} /\ recovery = None
    /\ rs' = [i \in Rs |-> None] /\ issued' = {} /\ token' = {}
    /\ alloc' = <<>> /\ recovery' = None /\ head_q' = 0
    /\ credit' = BANK_SIZE
    /\ release' = [b \in Banks |-> 0] /\ resync' = 0
    /\ head' = 0 /\ epoch' = [s \in Slots |-> 0]
    /\ value_alloc' = {} /\ ValueStep
    /\ UNCHANGED <<count, uop, stage, due, retire>>

Next == RunCycle \/ RecoveryCycle \/ TrapCycle
Spec == Init /\ [][Next]_vars

(***************************************************************************)
(* Properties.                                                             *)
(***************************************************************************)
\* An entry that the recovery in progress is about to drop is dead already.
LiveEntries == {i \in Rs : rs[i] # None /\ (recovery # None => Survives(i))}

\* Every register of the stage holds a value of its width: a credit never
\* exceeds the bank nor wraps below zero, and the recovery countdown ends.
TypeOK ==
    /\ credit \in [Banks -> Nat]
    /\ \A b \in Banks : credit[b] <= BANK_SIZE[b]
    /\ release \in [Banks -> 0 .. 2] /\ resync \in 0 .. 2
    /\ issued \subseteq Rs /\ token \subseteq Ids
    /\ head \in Slots /\ head_q \in Slots /\ count \in 0 .. PRODUCER_NUM
    /\ \A i \in Rs : rs[i] # None =>
          /\ rs[i].slot \in Slots /\ rs[i].src \in Ids \cup {None}
          /\ rs[i].ready \in BOOLEAN /\ rs[i].mask \subseteq Rs

\* Between its dispatch and its selection a uop sits in exactly one entry,
\* and no entry holds anything else: the credits never let Dispatch send a
\* uop to a full bank, where it would be lost, and a recovery keeps the
\* entries of the surviving uops and only those.
WaitingInRs ==
    \A s \in Slots :
        Cardinality({i \in LiveEntries : rs[i].slot = s})
          = (IF stage[s] = "rs" THEN 1 ELSE 0)

\* Outside a recovery the credit Dispatch sees after an edge is the number
\* of free entries: no credit is lost for good, whatever mix of releases,
\* allocations and recoveries came before (the rebasing of the credits).
CreditExact ==
    [][resync = 0 /\ resync' = 0 =>
          \A b \in Banks :
              Effective(b)' = Cardinality(Bank(b) \ Valid(b))']_vars

\* What holds a waiting memory uop or branch back is exactly every older one
\* it must not pass and that has not been selected: whatever left, entered or
\* was squashed in between, no ordering mask misses one, names an empty entry,
\* or names one that a younger uop has taken over.
OrderExact ==
    \A i \in LiveEntries :
        Blocked(i) = {j \in LiveEntries :
                        /\ Age(rs[j].slot) < Age(rs[i].slot)
                        /\ WaitsFor(rs[i].uop, rs[j].uop)}

\* A source tag names a producer that is in flight, in the same epoch, and
\* older than the entry, or one that committed at the last edge and whose
\* slot nobody has taken yet: the tag goes before the slot is used again, and
\* can never match a later user (the comment on dropping resident tags).
TagLive ==
    \A i \in LiveEntries :
        LET id == rs[i].src
        IN  id # None =>
              /\ Id(id.slot) = id
              /\ IF Live(id.slot) THEN Age(id.slot) < Age(rs[i].slot)
                 ELSE id \in retire

\* An entry that still waits for a completed producer is about to be woken:
\* by the completion itself, by its first lookup of the value file or by the
\* retirement.  No one-cycle completion is missed, whatever completes beside
\* it and whether or not a recovery is being applied.
NoLostWakeup ==
    \A i \in LiveEntries :
        ~rs[i].ready /\ stage[rs[i].src.slot] \in {"done", "free"}
          => rs[i].src \in due \cup retire \/ AllocWakeup(i)

\* A source is only called ready once its producer has completed, its early
\* result has been selected, or its DTCM read has been launched: a value left
\* in the value file by another use of the slot qualifies nobody.
ReadySound ==
    \A i \in LiveEntries :
        Ready(i) /\ rs[i].src # None =>
            LET p == rs[i].src.slot
            IN  \/ stage[p] \in {"resp", "lost", "done", "free"}
                \/ stage[p] = "out" /\ Early(p)

\* The memory uop that is selected is the oldest that could be, although the
\* age is measured from last cycle's ROB head, which a recovery clears.
P0Oldest ==
    \A i \in Selected(TRUE) \cap Bank("p0") :
        \A j \in Candidates("p0", TRUE) :
            Age(rs[i].slot) <= Age(rs[j].slot)

\* The stations as a whole: well-formed registers, and every accepted uop in
\* exactly one entry until it is selected.
StationInv == TypeOK /\ WaitingInRs
\* A source becomes ready exactly when its value can be had: not before, and
\* not never.
WakeupExact == NoLostWakeup /\ ReadySound

\* A uop selected on the launch of a load finds the response, or the finished
\* load, when it reads its operands in the next cycle, although a recovery may
\* have cancelled the read that was announced.
OperandInTime ==
    [][\A i \in issued' :
          LET p == rs[i].src.slot
          IN  rs[i].src # None /\ Live(p) /\ uop[p].kind = "load" =>
                \/ stage'[p] \in {"resp", "done"}
                \/ rs[i].src \in retire']_vars

\* What the comment on the select ready logic says of loads: their readers are
\* selected on the response (dtcm_reservation_i), not on the launch.
ReadyAtResponse ==
    \A i \in LiveEntries :
        Ready(i) /\ rs[i].src # None =>
            LET p == rs[i].src.slot
            IN  Live(p) /\ uop[p].kind = "load" => stage[p] \in {"resp", "done"}
=============================================================================
