----------------------------- MODULE YdrasilMdu -----------------------------
(***************************************************************************)
(* Multiply and divide: the reservation, selection and wakeup that         *)
(* ydrasil_issue_stage.sv keeps for them, the MDU of ydrasil_ex_block.sv   *)
(* with its one result port, and the control of ydrasil_div.sv and         *)
(* ydrasil_mul.sv.                                                         *)
(*                                                                         *)
(* One step is one clock edge.  The window holds, in program order, the    *)
(* uops of interest: divisions, multiplications and the single-cycle uops  *)
(* that read their results.  Branches are left out: a recovery simply cuts *)
(* the window after some uop.  A uop is named by its position in the       *)
(* window, which stands for its producer id; one that is squashed inside   *)
(* the MDU becomes a Ghost, whose result matches nothing (YdrasilCtrl asks *)
(* when that is so).  Numbers of iterations are bounded by ITERS, in the   *)
(* code by the width of a register.                                        *)
(***************************************************************************)
EXTENDS Integers, Sequences, FiniteSets

CONSTANTS
    WINDOW,     \* uops in flight
    ITERS,      \* longest quotient
    Ops,        \* subset of AllOps that Decode may present
    RECOVERY,   \* whether branches are mispredicted
    None, Ghost

\* divx is a division into x0: it writes no register.
AllOps == {"div", "divx", "mul", "use"}
Divides(op) == op \in {"div", "divx"}
Uops == 1 .. WINDOW

ASSUME MduAssumption ==
    /\ WINDOW \in Nat \ {0} /\ ITERS \in Nat
    /\ Ops \subseteq AllOps /\ RECOVERY \in BOOLEAN
    /\ None \notin Nat /\ Ghost \notin Nat /\ None # Ghost

\* Where a uop is: its reservation station entry, the Operand register, the
\* input register of its unit, the MDU; completed: its result is on the
\* registered completion bus; resident: it is in the value file.
Stages == {"rs", "operand", "ex", "mdu", "completed", "resident", "lost"}

VARIABLES
    window,     \* op, stage, the uop read and whether it woke us, fresh
    available,  \* mdu_div_available_q
    reserved,   \* div_select_reserved_q
    busy_seen,  \* div_busy_seen_q
    recovering, \* recovery_pending_q
    div,        \* divider state and the ex_block registers around it
    mul,        \* s0 to s3: the uops in the multiplier
    exposed     \* history: a recovery found a division in Operand, and some
                \* division has been under way ever since

vars == <<window, available, reserved, busy_seen, recovering, div, mul, exposed>>

In(stage) == {i \in 1 .. Len(window) : window[i].stage = stage}
Finished == In("completed") \cup In("resident")

(***************************************************************************)
(* The MDU.  A multiplication result cannot wait; a division result waits  *)
(* for the port.                                                           *)
(***************************************************************************)
div_available == ~(div.active \/ div.pending \/ div.busy \/ div.done)
DivComplete == div.pending /\ mul[3] = None
\* Slip: the division takes the port even when the multiplication has it.
ResultDivisionFirst == IF div.pending THEN div.uop ELSE mul[3]
\* The uop on the result port.
Result == IF mul[3] # None THEN mul[3]
          ELSE IF div.pending THEN div.uop ELSE None
\* Slip: the units announce their results from an earlier stage.
mdu_dueEarly == IF div.state = "iter" THEN div.uop ELSE mul[1]
\* mdu_due_o, the wakeup that runs ahead of the completion bus.
mdu_due == IF div.done /\ div.active THEN div.uop ELSE mul[3]

Kept(cut, i) == IF cut = None THEN TRUE ELSE i <= cut
Starts(cut) == {i \in In("ex") : /\ Divides(window[i].op)
                                 /\ Kept(cut, i) /\ div_available}
MulIssues(cut) == {i \in In("ex") : window[i].op = "mul" /\ Kept(cut, i)}

Iterate == IF div.iter = 0 THEN [div EXCEPT !.state = "finish"]
           ELSE [div EXCEPT !.iter = @ - 1]
\* ydrasil_div: n is the number of quotient bits past the first, or None
\* when the operands need no iteration.
DivFsm(start, n) ==
    CASE start /\ n = None ->
            [div EXCEPT !.done = TRUE]
      [] start /\ n # None ->
            [div EXCEPT !.state = "shift", !.busy = TRUE, !.done = FALSE]
      [] ~start /\ div.state = "idle" ->
            [div EXCEPT !.done = FALSE]
      [] div.state = "shift" /\ n = None ->
            [div EXCEPT !.state = "idle", !.busy = FALSE, !.done = TRUE]
      [] div.state = "shift" /\ n # None ->
            [div EXCEPT !.state = "iter", !.iter = n]
      [] div.state = "iter" -> Iterate
      [] div.state = "finish" ->
            [div EXCEPT !.state = "idle", !.busy = FALSE, !.done = TRUE]
\* What a name becomes when k uops retire and those after cut are squashed.
Renamed(cut, k, u) == IF u \notin Uops THEN u
                      ELSE IF ~Kept(cut, u) THEN Ghost
                      ELSE IF u <= k THEN None ELSE u - k
DivStep(cut, k, n) ==
    LET S == Starts(cut)
        fsm == DivFsm(S # {}, n)
        over == div.done /\ div.active
        u == CHOOSE i \in S : TRUE
    IN  div' = [fsm EXCEPT
          !.active = IF over THEN FALSE ELSE @ \/ S # {},
          !.pending = IF over THEN div.wen ELSE @ /\ ~DivComplete,
          !.wen = IF S # {} THEN window[u].op = "div"
                  ELSE @ /\ (over \/ ~DivComplete),
          !.uop = IF S # {} THEN Renamed(cut, k, u)
                  ELSE IF DivComplete \/ (over /\ ~div.wen) THEN None
                  ELSE Renamed(cut, k, @)]
Iterations(cut) == IF div.state = "shift" THEN {None} \cup 0 .. ITERS
                   ELSE IF Starts(cut) # {} THEN {None, 0} ELSE {None}
MulStep(cut, k) ==
    mul' = [s \in 0 .. 3 |->
              Renamed(cut, k, IF s > 0 THEN mul[s - 1]
                              ELSE IF MulIssues(cut) = {} THEN None
                              ELSE CHOOSE i \in MulIssues(cut) : TRUE)]

(***************************************************************************)
(* Issue: selection with the local divider reservation, and wakeup.        *)
(***************************************************************************)
select_enable(cut) == cut = None /\ ~recovering
OrderBlocked(i) == /\ Divides(window[i].op)
                   /\ \E j \in In("rs") : j < i /\ window[j].op # "use"
\* Slip: selection looks at the divider and forgets the reservation.
P1CandidatesUnreserved ==
    {i \in In("rs") : /\ window[i].op # "use" /\ ~OrderBlocked(i)
                      /\ Divides(window[i].op) => available}
P1Candidates ==
    {i \in In("rs") : /\ window[i].op # "use" /\ ~OrderBlocked(i)
                      /\ Divides(window[i].op) => available /\ ~reserved}
AluCandidates == {i \in In("rs") : window[i].op = "use" /\ window[i].ready}
\* At most one P1 uop, and two uops in all.
Selections(cut) ==
    IF ~select_enable(cut) THEN {{}}
    ELSE {x \in SUBSET (P1Candidates \cup AluCandidates) :
             Cardinality(x) <= 2 /\ Cardinality(x \cap P1Candidates) <= 1}

\* Slip: a squashed division keeps its reservation.
ReservationOutlivesRecovery(cut, x) ==
    LET pick == \E i \in x : Divides(window[i].op)
        over == reserved /\ busy_seen /\ available
    IN  /\ available' = IF cut # None THEN TRUE ELSE div_available
        /\ reserved' = (pick \/ (reserved /\ ~over))
        /\ busy_seen' = (~pick /\ ~over
                            /\ (busy_seen \/ (reserved /\ ~available)))
Reservation(cut, x) ==
    LET pick == \E i \in x : Divides(window[i].op)
        over == reserved /\ busy_seen /\ available
    IN  IF cut # None
        THEN available' = TRUE /\ reserved' = FALSE /\ busy_seen' = FALSE
        ELSE /\ available' = div_available
             /\ reserved' = (pick \/ (reserved /\ ~over))
             /\ busy_seen' = (~pick /\ ~over
                                 /\ (busy_seen \/ (reserved /\ ~available)))

\* Slip: a newly dispatched uop does not look into the value file.
WakesNoLookup(u) == u.src = mdu_due \/ u.src \in In("completed")
Wakes(u) == \/ u.src = mdu_due
            \/ u.src \in In("completed")
            \/ u.fresh /\ u.src \in In("resident")

NextStage(cut, x, i) ==
    LET u == window[i]
    IN  CASE u.stage = "rs" -> IF i \in x THEN "operand" ELSE "rs"
          [] u.stage = "operand" ->
                IF cut # None THEN "operand"
                ELSE IF u.op = "use" THEN "resident" ELSE "ex"
          [] u.stage = "ex" ->
                IF u.op = "divx" THEN "resident"
                ELSE IF u.op = "div" /\ i \notin Starts(cut) THEN "lost"
                ELSE "mdu"
          [] u.stage = "mdu" -> IF i = Result THEN "completed" ELSE "mdu"
          [] u.stage = "completed" -> "resident"
          [] OTHER -> u.stage
\* A source after k uops retire: the value is then in the register file.
Reread(u, k) == IF u.src = None THEN u
                ELSE IF u.src <= k THEN [u EXCEPT !.src = None, !.ready = TRUE]
                ELSE [u EXCEPT !.src = @ - k]
Moved(cut, x, k, i) ==
    LET u == window[i]
    IN  Reread([u EXCEPT !.stage = NextStage(cut, x, i),
                         !.ready = @ \/ Wakes(u), !.fresh = FALSE], k)

\* Dispatch: a batch of at most two uops, each with the uop it reads.
Uop(op, src) == [op |-> op, src |-> src, stage |-> "rs",
                 ready |-> src = None, fresh |-> TRUE]
Batches(cut) ==
    LET free == IF select_enable(cut) THEN WINDOW - Len(window) ELSE 0
        writers == {i \in 1 .. Len(window) : window[i].op \in {"div", "mul"}}
        reads(op, S) == IF op = "use" THEN S ELSE {None}
        one == UNION {{<<Uop(op, s)>> : s \in reads(op, writers)} : op \in Ops}
        pair(b) ==
            UNION {{<<b[1], Uop(op, s)>> :
                      s \in reads(op, writers \cup
                              {i \in {Len(window) + 1} :
                                  b[1].op \in {"div", "mul"}})} : op \in Ops}
    IN  {<<>>} \cup {b \in one \cup UNION {pair(b) : b \in one} : Len(b) <= free}

Unfinished == {i \in 1 .. Len(window) :
                 Divides(window[i].op) /\ i \notin Finished}
\* k uops retire, those of x are selected, batch is dispatched; cut is the
\* last uop a mispredicted branch leaves, None without a recovery.
Cycle(cut, k, x, batch, n) ==
    /\ \A i \in 1 .. k : i \in Finished /\ Kept(cut, i)
    /\ LET last == IF cut = None THEN Len(window) ELSE cut
           after == [i \in 1 .. last |-> Moved(cut, x, k, i)]
           new == [j \in 1 .. Len(batch) |-> Reread(batch[j], k)]
       IN  window' = SubSeq(after, k + 1, last) \o new
    /\ Reservation(cut, x)
    /\ recovering' = (cut # None)
    /\ DivStep(cut, k, n)
    /\ MulStep(cut, k)
    /\ exposed' = \/ \E i \in In("operand") :
                        cut # None /\ i <= cut /\ Divides(window[i].op)
                  \/ exposed /\ Unfinished # {}

RunCycle ==
    \E batch \in Batches(None), x \in Selections(None),
       n \in Iterations(None), k \in 0 .. 2 :
          k <= Len(window) /\ Cycle(None, k, x, batch, n)
RecoveryCycle ==
    /\ RECOVERY
    /\ \E cut \in 0 .. Len(window) : \E k \in 0 .. 2, n \in Iterations(cut) :
          k <= cut /\ Cycle(cut, k, {}, <<>>, n)

IdleDiv == [state |-> "idle", iter |-> 0, busy |-> FALSE, done |-> FALSE,
            active |-> FALSE, pending |-> FALSE, wen |-> FALSE, uop |-> None]
\* A trap redirects once the backend is empty, and kills what the MDU holds.
TrapFlush ==
    /\ RECOVERY /\ window = <<>>
    /\ div' = IdleDiv /\ mul' = [k \in 0 .. 3 |-> None]
    /\ available' = TRUE /\ reserved' = FALSE /\ busy_seen' = FALSE
    /\ recovering' = FALSE /\ exposed' = FALSE /\ UNCHANGED window

Init ==
    /\ window = <<>> /\ available = TRUE /\ reserved = FALSE
    /\ busy_seen = FALSE /\ recovering = FALSE
    /\ div = IdleDiv /\ mul = [k \in 0 .. 3 |-> None]
    /\ exposed = FALSE
Next == RunCycle \/ RecoveryCycle \/ TrapFlush
Spec == Init /\ [][Next]_vars
-----------------------------------------------------------------------------
\* The registers keep their shape, and a name is that of a uop in flight.
TypeOK ==
    LET MaybeUop == 1 .. Len(window) \cup {None, Ghost}
    IN  /\ Len(window) <= WINDOW
        /\ \A i \in 1 .. Len(window) :
              window[i] \in [op : Ops, src : 1 .. i - 1 \cup {None},
                             stage : Stages, ready : BOOLEAN, fresh : BOOLEAN]
        /\ {available, reserved, busy_seen, recovering, exposed} \subseteq BOOLEAN
        /\ div.iter \in 0 .. ITERS /\ div.uop \in MaybeUop
        /\ mul \in [0 .. 3 -> MaybeUop]

\* A division that reaches EX finds the divider free, as the assertion "P1
\* issued DIV without a local reservation" says: otherwise it is dropped and
\* never completes (ydrasil_ex_block.sv:184-202).
DividerReserved ==
    \A i \in In("ex") : Divides(window[i].op) => div_available
\* It does so unless a recovery has met a division in the Operand register
\* (ydrasil_issue_stage.sv:1333-1336): a division that is selected, squashed
\* or unseen for a cycle never lets a second one through otherwise.
ReservationHolds == ~exposed => DividerReserved

\* The uops in Operand that read a result of op.
Readers(op) == {i \in In("operand") : /\ window[i].src # None
                                       /\ window[window[i].src].op = op}
\* A woken reader of a multiplication finds its operand when it reaches
\* Operand, also when a recovery holds it there: on the registered completion
\* bus or in the value file
\* (ydrasil_ex_block.sv:279-303, ydrasil_issue_source_resolver.sv:96-115).
MulOperandPresent ==
    \A i \in Readers("mul") : window[i].src \in Finished
\* The same for a division: its readers are woken only once its result is on
\* the completion boundary, as ydrasil_ex_block.sv:281-283 says.
DivOperandPresent ==
    \A i \in Readers("div") : window[i].src \in Finished
\* What holds of a division: a reader woken by it finds its operand, or the
\* quotient is ready and a multiplication has just taken the result port.
QuotientNotOutrun ==
    \A i \in Readers("div") :
        \/ window[i].src \in Finished
        \/ div.pending /\ div.uop = window[i].src

\* No wakeup is lost: a reader whose operand has arrived is awake, although
\* one wakeup port serves two units, the reader may have been dispatched in
\* the very cycle of the wakeup, and a recovery may have come between
\* (ydrasil_issue_stage.sv:2523-2546, 2596-2617).
WakeupNotLost ==
    \A i \in In("rs") :
        ~window[i].fresh /\ window[i].src \in In("resident")
            => window[i].ready

\* A result on the port belongs to a uop that waits for it, or to a squashed
\* one: nothing completes twice (ydrasil_ex_block.sv:187-191, 273-277).
ResultAwaited == Result \in In("mdu") \cup {None, Ghost}

FairSpec == Spec /\ WF_vars(RunCycle)
\* A reservation is always given back, although the divider is seen through
\* a register and may finish in one cycle: divisions are never shut out for
\* good (ydrasil_issue_stage.sv:1375-1386).
ReservationReturns == reserved ~> ~reserved

\* The unit as a whole: well-formed registers, one division at a time but for
\* the recovery above, and no reader ahead of an unfinished quotient.
MduInv == TypeOK /\ ReservationHolds /\ QuotientNotOutrun
=============================================================================
