---------------------------- MODULE YdrasilFetch ----------------------------
(***************************************************************************)
(* The fetch stage of ydrasil_if_stage.sv with its fetch queue: the PC,    *)
(* the one outstanding request to the instruction memory, the pending      *)
(* redirect, and the queue of two visible registers in front of a ring.    *)
(*                                                                         *)
(* One step is one clock edge.  The branch predictor, which answers with   *)
(* the memory, and the L0 target table, looked up with the request, are    *)
(* inputs that may say anything: stale and aliased entries are included.   *)
(* An address is a word index; a queue entry keeps its address and the     *)
(* address that its prediction says comes next.                            *)
(***************************************************************************)
EXTENDS Naturals, Sequences

CONSTANTS
    PcCount,        \* words of the address space
    Dtcm,           \* those in the data memory, fetched one at a time
    Targets,        \* what predictors, branches and fences may aim at
    FETCHQ_DEPTH,
    None            \* no prediction, or no entry

PCs == 0 .. PcCount - 1
Entries == [pc : PCs, next : PCs]
ASSUME FetchAssumption ==
    /\ PcCount \in Nat \ {0} /\ PcCount % 2 = 0
    /\ Dtcm \subseteq PCs /\ Targets \subseteq PCs
    /\ FETCHQ_DEPTH \in Nat /\ FETCHQ_DEPTH >= 4 /\ FETCHQ_DEPTH % 2 = 0
    /\ None \notin PCs /\ None \notin Entries

BACK_DEPTH == FETCHQ_DEPTH - 2

VARIABLES
    pc,
    mem_req,                \* outstanding request
    pending_redirect,       \* its target, or None
    count, payload0, payload1, back, back_head, back_tail,
    expect      \* history: where the instruction after the last one taken by
                \* Decode is, as that one was predicted

queue == <<count, payload0, payload1, back, back_head, back_tail>>
vars == <<pc, mem_req, pending_redirect, queue, expect>>

NoReq == [valid |-> FALSE, two |-> FALSE, pc |-> 0, next |-> 0]

Init ==
    /\ pc = 0 /\ mem_req = NoReq /\ pending_redirect = None
    /\ count = 0 /\ payload0 = None /\ payload1 = None
    /\ back = [i \in 0 .. BACK_DEPTH - 1 |-> None]
    /\ back_head = 0 /\ back_tail = 0
    /\ expect = 0

Plus(a, k) == (a + k) % PcCount
BackPlus(i, k) == (i + k) % BACK_DEPTH
Least(a, b) == IF a <= b THEN a ELSE b

(***************************************************************************)
(* The fetch queue.  The head pointer moves once for each entry that       *)
(* enters the two registers, a directly pushed one included.  A response   *)
(* is written to the ring whole, also its half that a taken branch hides.  *)
(***************************************************************************)
HeadAdvance(pop, push) ==
    Least(2, count - pop + push) -
    (IF Least(2, count) > pop THEN Least(2, count) - pop ELSE 0)

Backing(k) == back[BackPlus(back_head, k)]

\* p is the response, push how much of it counts.
PayloadStep(pop, push, p) ==
    LET rest == count - pop
    IN  /\ back' = [i \in DOMAIN back |->
                      IF p # <<>> /\ i = back_tail THEN p[1]
                      ELSE IF Len(p) = 2 /\ i = BackPlus(back_tail, 1)
                           THEN p[2]
                      ELSE back[i]]
        /\ payload0' =
              IF rest > 0 THEN <<payload0, payload1, Backing(0)>>[pop + 1]
              ELSE IF push > 0 THEN p[1] ELSE payload0
        /\ payload1' =
              IF rest > 1 THEN <<payload1, Backing(0), Backing(1)>>[pop + 1]
              ELSE IF rest = 1 /\ push > 0 THEN p[1]
              ELSE IF rest = 0 /\ Len(p) = 2 THEN p[2] ELSE payload1

QueueStep(pop, push, p) ==
    /\ count' = count - pop + push
    /\ back_head' = BackPlus(back_head, HeadAdvance(pop, push))
    /\ back_tail' = BackPlus(back_tail, push)
    /\ PayloadStep(pop, push, p)

(***************************************************************************)
(* The fetch stage.                                                        *)
(***************************************************************************)
fetch_addr == IF pending_redirect # None THEN pending_redirect ELSE pc
fetch_two == fetch_addr \notin Dtcm /\ fetch_addr % 2 = 0

Lanes(req) == IF req.two THEN 2 ELSE 1
reserved_count == count + (IF mem_req.valid THEN Lanes(mem_req) ELSE 0)
\* Slip: the capacity leaves room for one word, not for a pair.
PairCapacityOne == reserved_count <= FETCHQ_DEPTH - 1
PairCapacity == reserved_count <= FETCHQ_DEPTH - 2
\* Slip: no request while a redirect is pending, so not the redirect's own.
FetchIssueHeld == PairCapacity /\ pending_redirect = None
FetchIssue == PairCapacity

\* What Decode takes from the queue.
Pop(ready, two) == IF ready /\ count > 0
                   THEN IF two /\ count > 1 THEN 2 ELSE 1
                   ELSE 0
Taken(pop) == IF pop = 0 THEN expect
              ELSE IF pop = 1 THEN payload0.next ELSE payload1.next

\* The response of the memory, with the predictions t0 and t1 of its words.
Sequential == Plus(mem_req.pc, Lanes(mem_req))
NextOf(a, t) == IF t # None THEN t ELSE Plus(a, 1)
Response(t0, t1) ==
    LET first == [pc |-> mem_req.pc, next |-> NextOf(mem_req.pc, t0)]
        second == [pc |-> Plus(mem_req.pc, 1),
                   next |-> NextOf(Plus(mem_req.pc, 1), t1)]
    IN  IF ~mem_req.valid THEN <<>>
        ELSE IF mem_req.two THEN <<first, second>> ELSE <<first>>
PushCount(t0) == IF ~mem_req.valid THEN 0
                 ELSE IF t0 # None THEN 1 ELSE Lanes(mem_req)
predict_next_pc(t0, t1) == IF t0 # None THEN t0
                           ELSE IF mem_req.two /\ t1 # None THEN t1
                           ELSE Sequential
PredictCorrection(t0, t1) ==
    mem_req.valid /\ predict_next_pc(t0, t1) # mem_req.next

\* The next request; l0 is the L0 table's target for it.
NextPc(l0) == IF l0 # None THEN l0
              ELSE Plus(fetch_addr, IF fetch_two THEN 2 ELSE 1)
\* Slip: the request made beside a correction stays valid.
RequestKept(t0, t1, l0) ==
    mem_req' = IF FetchIssue
               THEN [valid |-> TRUE, two |-> fetch_two, pc |-> fetch_addr,
                     next |-> NextPc(l0)]
               ELSE [mem_req EXCEPT !.valid = FALSE]
Request(t0, t1, l0) ==
    mem_req' = IF FetchIssue
               THEN [valid |-> ~PredictCorrection(t0, t1),
                     two |-> fetch_two, pc |-> fetch_addr,
                     next |-> NextPc(l0)]
               ELSE [mem_req EXCEPT !.valid = FALSE]

\* A cycle without redirect.
Run(ready, two, t0, t1, l0) ==
    LET pop == Pop(ready, two)
    IN  /\ QueueStep(pop, PushCount(t0), Response(t0, t1))
        /\ expect' = Taken(pop)
        /\ Request(t0, t1, l0)
        /\ pc' = IF FetchIssue THEN NextPc(l0) ELSE pc
        /\ pending_redirect' =
              IF PredictCorrection(t0, t1) THEN predict_next_pc(t0, t1)
              ELSE IF FetchIssue THEN None ELSE pending_redirect

RunCycle ==
    \E ready, two \in BOOLEAN,
       t0 \in IF mem_req.valid THEN Targets \cup {None} ELSE {None},
       t1 \in IF mem_req.valid /\ mem_req.two THEN Targets \cup {None}
              ELSE {None},
       l0 \in IF FetchIssue THEN Targets \cup {None} ELSE {None} :
        Run(ready, two, t0, t1, l0)

(***************************************************************************)
(* Redirects.  The count hides what the payload registers still hold.      *)
(***************************************************************************)
Redirect(target) ==
    /\ pc' = target /\ expect' = target
    /\ mem_req' = [NoReq EXCEPT !.pc = target, !.next = target]
    /\ pending_redirect' = None
    /\ count' = 0 /\ back_head' = 0 /\ back_tail' = 0

\* branch_jump_i: a resolved branch or a trap.
JumpCycle ==
    /\ \E target \in Targets : Redirect(target)
    /\ UNCHANGED <<payload0, payload1, back>>

\* bp_invalidate_i: fence.i.  It empties the queue but holds back neither a
\* pop nor a response, so the payload registers move all the same.
InvalidateCycle ==
    \E target \in Targets, ready, two \in BOOLEAN,
       t0 \in Targets \cup {None},
       t1 \in IF mem_req.two THEN Targets \cup {None} ELSE {None} :
        /\ Redirect(target)
        /\ PayloadStep(Pop(ready, two), PushCount(t0), Response(t0, t1))

Next == RunCycle \/ JumpCycle \/ InvalidateCycle
Spec == Init /\ [][Next]_vars
\* The clock runs.
FairSpec == Spec /\ WF_vars(RunCycle)

(***************************************************************************)
(* Properties.                                                             *)
(***************************************************************************)
Requests == [valid : BOOLEAN, two : BOOLEAN, pc : PCs, next : PCs]

\* Types.
TypeOK ==
    /\ pc \in PCs /\ expect \in PCs /\ mem_req \in Requests
    /\ pending_redirect \in PCs \cup {None}
    /\ count \in 0 .. FETCHQ_DEPTH
    /\ {payload0, payload1} \subseteq Entries \cup {None}
    /\ back \in [0 .. BACK_DEPTH - 1 -> Entries \cup {None}]
    /\ back_head \in 0 .. BACK_DEPTH - 1 /\ back_tail \in 0 .. BACK_DEPTH - 1

Content == [i \in 1 .. count |-> IF i = 1 THEN payload0
                                 ELSE IF i = 2 THEN payload1
                                 ELSE Backing(i - 3)]

\* What Decode takes is the predicted path, word by word: none is left out,
\* repeated or taken from a path a prediction has left.
StreamInOrder ==
    \A i \in 1 .. count :
        /\ Content[i] # None
        /\ Content[i].pc = IF i = 1 THEN expect ELSE Content[i - 1].next

\* Slip: an outstanding request is forgotten.
if_resume_pc_request == IF count > 0 THEN payload0.pc ELSE fetch_addr
if_resume_pc == IF count > 0 THEN payload0.pc
                ELSE IF mem_req.valid THEN mem_req.pc ELSE fetch_addr
\* Where a trap would resume is always the instruction that follows the last
\* one handed to Decode, whatever is in the queue, on its way or pending.
ResumeIsNext == if_resume_pc = expect

\* The queue never holds more than it has room for, and a response that is
\* written to the ring whole overwrites nothing that is still to be read.
QueueFits ==
    count + (IF mem_req.valid THEN Lanes(mem_req) ELSE 0) <= FETCHQ_DEPTH

\* Instructions keep coming: unless redirected again and again, the fetch
\* stage always comes back to a word for Decode, however the L0 table and
\* the predictor disagree.
FetchProgress == <>[][RunCycle]_vars => []<>(count > 0)

\* The queue as a whole: well-formed entries and pointers, and room for all
\* that was requested.
FetchInv == TypeOK /\ QueueFits
=============================================================================
