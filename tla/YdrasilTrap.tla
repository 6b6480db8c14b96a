---------------------------- MODULE YdrasilTrap ----------------------------
(***************************************************************************)
(* Trap entry and return: ydrasil_exception_ctrl.sv with the sampling      *)
(* registers of ydrasil_exception_stage.sv, the trap CSRs of               *)
(* ydrasil_registers_csr.sv and the EX register in front of their write    *)
(* port.                                                                   *)
(*                                                                         *)
(* One step is one clock edge.  The backend is a window of instructions in *)
(* program order that execute out of order, except that a serial one       *)
(* executes only at the head; YdrasilCtrl models it in full.  The window   *)
(* is bounded by WINDOW and PCs wrap at PCS (both are bounds of the model, *)
(* not of the code).                                                       *)
(***************************************************************************)
EXTENDS Integers, Sequences, FiniteSets

CONSTANTS
    PCS,        \* number of instruction addresses
    WINDOW,     \* instructions in flight
    Ops,        \* operations Decode may present, a subset of AllOps
    Irqs,       \* interrupt lines in use, a subset of AllIrqs
    None

\* CSR instructions: mask and unmask write mstatus.MIE, disable and enable
\* write mie.
CsrOps == {"mask", "unmask", "disable", "enable"}
SysOps == {"ecall", "ebreak", "illegal", "mret"}
AllOps == {"plain", "branch"} \cup CsrOps \cup SysOps
AllIrqs == {"mei", "mti", "msi"}
Pc == 0 .. PCS - 1
Vector == 0     \* mtvec, direct mode

States == {"idle", "drain", "write_mepc", "write_mstatus", "write_mcause",
           "write_mtval", "redirect", "mret_status", "mret_redirect"}
Causes == Irqs \cup {"ecall", "ebreak", "illegal"}
Status == [mie : BOOLEAN, mpie : BOOLEAN]
\* What the write port can carry.
CsrWrites == [reg : {"mstatus"}, val : Status]
             \cup [reg : {"mie"}, val : SUBSET Irqs]
             \cup [reg : {"mepc"}, val : Pc]
             \cup [reg : {"mcause"}, val : Causes]

ASSUME TrapAssumption ==
    /\ PCS \in Nat /\ PCS >= 2
    /\ WINDOW \in Nat /\ WINDOW >= 1
    /\ Ops \subseteq AllOps /\ Irqs \subseteq AllIrqs
    /\ None \notin Pc /\ None \notin CsrWrites

VARIABLES
    state, cause, epc, is_interrupt, drain_armed,   \* exception_ctrl
    backend_idle, async_pc,                         \* exception_stage
    mstatus, mie, mepc, mcause,                     \* registers_csr
    csr_write,      \* ex_csr_wen/waddr/wdata_ff: a write on its way
    irq             \* the interrupt lines

VARIABLES
    window,         \* instructions in flight: pc, op, stage, next pc
    serial_pending,
    bru,            \* target of a redirect in the BRU register
    resume_pc,      \* oldest instruction that has not entered the backend
    arch_pc         \* next instruction in program order after the last retired

ctrl == <<state, cause, epc, is_interrupt, drain_armed, backend_idle, async_pc>>
csrs == <<mstatus, mie, mepc, mcause, csr_write>>
core == <<window, serial_pending, bru, resume_pc, arch_pc>>
vars == <<ctrl, csrs, irq, core>>

Serial(op) == op \in CsrOps \cup SysOps
NextPc(pc) == (pc + 1) % PCS
InStage(st) == {i \in 1 .. Len(window) : window[i].stage = st}

(***************************************************************************)
(* The trap controller.                                                    *)
(***************************************************************************)
trap_stall == state # "idle"
Redirecting == state \in {"redirect", "mret_redirect"}
RedirectTarget == IF state = "mret_redirect" THEN mepc ELSE Vector

\* The SYS or illegal token in EX, and the interrupt the CSRs let through.
exception_req == {i \in InStage("ex") : window[i].op \in SysOps /\ bru = None}
irq_pending == IF mstatus.mie THEN mie \cap irq ELSE {}
irq_cause == IF "mei" \in irq_pending THEN "mei"
             ELSE IF "mti" \in irq_pending THEN "mti" ELSE "msi"

Accept ==
    /\ state = "idle"
    /\ drain_armed' = FALSE
    /\ IF exception_req # {} THEN
          LET req == window[CHOOSE i \in exception_req : TRUE]
          IN  IF req.op = "mret"
              THEN /\ state' = "mret_status"
                   /\ UNCHANGED <<cause, epc, is_interrupt>>
              ELSE /\ state' = "drain" /\ cause' = req.op
                   /\ epc' = req.pc /\ is_interrupt' = FALSE
       ELSE IF irq_pending # {} THEN
          /\ state' = "drain" /\ cause' = irq_cause
          /\ is_interrupt' = TRUE /\ UNCHANGED epc
       ELSE UNCHANGED <<state, cause, epc, is_interrupt>>
\* Slip: the drain trusts a sample taken before dispatch stopped.
DrainUnarmed ==
    /\ state = "drain"
    /\ drain_armed' = TRUE
    /\ IF backend_idle
       THEN /\ state' = "write_mepc"
            /\ epc' = IF is_interrupt THEN async_pc ELSE epc
       ELSE UNCHANGED <<state, epc>>
    /\ UNCHANGED <<cause, is_interrupt>>
\* Slip: the drain waits for the interrupt line to stay up.
DrainNeedsIrq ==
    /\ state = "drain"
    /\ drain_armed' = TRUE
    /\ IF drain_armed /\ backend_idle /\ (is_interrupt => cause \in irq)
       THEN /\ state' = "write_mepc"
            /\ epc' = IF is_interrupt THEN async_pc ELSE epc
       ELSE UNCHANGED <<state, epc>>
    /\ UNCHANGED <<cause, is_interrupt>>
\* Slip: an interrupt keeps the EPC of the trap before it.
DrainKeepsEpc ==
    /\ state = "drain"
    /\ drain_armed' = TRUE
    /\ state' = IF drain_armed /\ backend_idle THEN "write_mepc" ELSE state
    /\ UNCHANGED <<cause, epc, is_interrupt>>
Drain ==
    /\ state = "drain"
    /\ drain_armed' = TRUE
    /\ IF drain_armed /\ backend_idle
       THEN /\ state' = "write_mepc"
            /\ epc' = IF is_interrupt THEN async_pc ELSE epc
       ELSE UNCHANGED <<state, epc>>
    /\ UNCHANGED <<cause, is_interrupt>>
Successor == [write_mepc |-> "write_mstatus", write_mstatus |-> "write_mcause",
              write_mcause |-> IF cause = "illegal" THEN "write_mtval"
                               ELSE "redirect",
              write_mtval |-> "redirect", redirect |-> "idle",
              mret_status |-> "mret_redirect", mret_redirect |-> "idle"]
Sequence ==
    /\ state \notin {"idle", "drain"}
    /\ state' = Successor[state]
    /\ UNCHANGED <<cause, epc, is_interrupt, drain_armed>>
ControllerStep == Accept \/ Drain \/ Sequence

BackendIdle == window = <<>> /\ bru = None
SampleStep(lsu_idle) ==
    /\ backend_idle' = (lsu_idle /\ BackendIdle)
    /\ async_pc' = IF InStage("ex") # {}
                   THEN NextPc(window[CHOOSE i \in InStage("ex") : TRUE].pc)
                   ELSE resume_pc

(***************************************************************************)
(* The CSRs.  One write port: an instruction's write beats the trap's.     *)
(***************************************************************************)
InstructionWrite(op) ==
    CASE op = "mask" -> [reg |-> "mstatus",
                         val |-> [mstatus EXCEPT !.mie = FALSE]]
      [] op = "unmask" -> [reg |-> "mstatus",
                           val |-> [mstatus EXCEPT !.mie = TRUE]]
      [] op = "disable" -> [reg |-> "mie", val |-> {}]
      [] op = "enable" -> [reg |-> "mie", val |-> Irqs]
TrapWrite ==
    CASE state = "write_mepc" -> [reg |-> "mepc", val |-> epc]
      [] state = "write_mstatus" ->
            [reg |-> "mstatus", val |-> [mie |-> FALSE,
                                         mpie |-> mstatus.mie]]
      [] state = "write_mcause" -> [reg |-> "mcause", val |-> cause]
      [] state = "mret_status" ->
            [reg |-> "mstatus", val |-> [mie |-> mstatus.mpie,
                                         mpie |-> TRUE]]
      [] OTHER -> None
Write == IF csr_write # None THEN csr_write ELSE TrapWrite
Written(reg, old) == IF Write # None /\ Write.reg = reg THEN Write.val ELSE old
CsrStep ==
    /\ mstatus' = Written("mstatus", mstatus)
    /\ mie' = Written("mie", mie)
    /\ mepc' = Written("mepc", mepc)
    /\ mcause' = Written("mcause", mcause)
    /\ csr_write' =
          IF ~Redirecting /\ \E i \in InStage("ex") : window[i].op \in CsrOps
          THEN InstructionWrite(
                 window[CHOOSE i \in InStage("ex") :
                          window[i].op \in CsrOps].op)
          ELSE None

(***************************************************************************)
(* The backend, as far as a trap can tell.                                 *)
(***************************************************************************)
\* What the stages of the instructions become: the waiting ones of x enter
\* EX; those in EX are done, a branch after resolving, if mispredicted
\* towards target.
Advance(x, target) ==
    [i \in 1 .. Len(window) |->
        LET w == window[i]
        IN  CASE w.stage = "wait" /\ i \in x -> [w EXCEPT !.stage = "ex"]
              [] w.stage = "ex" ->
                    IF w.op = "branch" /\ target # None
                    THEN [w EXCEPT !.stage = "resolving", !.next = target]
                    ELSE [w EXCEPT !.stage = "done"]
              [] w.stage = "resolving" -> [w EXCEPT !.stage = "done"]
              [] OTHER -> w]
Selectable(i) == /\ window[i].stage = "wait"
                 /\ Serial(window[i].op) => i = 1
TwoLanes(x) == /\ Cardinality(x) <= 2
               /\ \A i, j \in x : i # j => "plain" \in {window[i].op, window[j].op}
Retirable(k) == \A i \in 1 .. k : window[i].stage \in {"done", "resolving"}
\* A redirect of the BRU register cuts off what follows its branch.
Cut == IF bru = None \/ InStage("resolving") = {} THEN Len(window)
       ELSE CHOOSE i \in InStage("resolving") : TRUE
BranchInEx == \E i \in InStage("ex") : window[i].op = "branch" /\ i <= Cut
CanDispatch == /\ ~trap_stall /\ ~serial_pending /\ bru = None
               /\ Len(window) < WINDOW
Entry(op) == [pc |-> resume_pc, op |-> op, stage |-> "wait",
              next |-> NextPc(resume_pc)]

\* k instructions retire, those of x enter EX, alloc is dispatched.
BackendStep(k, x, target, alloc) ==
    /\ Retirable(k) /\ k <= Cut
    /\ target # None => BranchInEx
    /\ alloc # <<>> => CanDispatch
    /\ window' = SubSeq(Advance(x, target), k + 1, Cut) \o alloc
    /\ arch_pc' = IF k = 0 THEN arch_pc ELSE window[k].next
    /\ resume_pc' = IF bru # None THEN bru
                    ELSE IF alloc # <<>> THEN NextPc(resume_pc)
                    ELSE resume_pc
    /\ bru' = target
    /\ serial_pending' =
          IF bru # None \/ \E i \in InStage("ex") : window[i].op \in CsrOps
          THEN FALSE
          ELSE serial_pending \/ (alloc # <<>> /\ Serial(alloc[1].op))

(***************************************************************************)
(* One clock edge.                                                         *)
(***************************************************************************)
RunCycle ==
    /\ ~Redirecting
    /\ ControllerStep
    /\ \E lsu_idle \in BOOLEAN : SampleStep(lsu_idle)
    /\ CsrStep
    /\ \E k \in 0 .. 2, x \in SUBSET {i \in 1 .. Len(window) : Selectable(i)},
          target \in Pc \cup {None},
          alloc \in {<<>>} \cup {<<Entry(op)>> : op \in Ops} :
            k <= Len(window) /\ TwoLanes(x)
              /\ BackendStep(k, x, target, alloc)
    /\ UNCHANGED irq
\* trap_ctrl_o.redirect: flush, and send the target through the BRU register.
RedirectCycle ==
    /\ Redirecting
    /\ ControllerStep
    /\ \E lsu_idle \in BOOLEAN : SampleStep(lsu_idle)
    /\ CsrStep
    /\ window' = <<>> /\ serial_pending' = FALSE
    /\ bru' = RedirectTarget /\ arch_pc' = RedirectTarget
    /\ UNCHANGED <<resume_pc, irq>>
\* A device changes its interrupt line.
IrqChange == /\ \E i \in Irqs : irq' = IF i \in irq THEN irq \ {i}
                                        ELSE irq \cup {i}
             /\ UNCHANGED <<ctrl, csrs, core>>

Init ==
    /\ state = "idle" /\ cause = "ebreak" /\ epc = 0
    /\ is_interrupt = FALSE /\ drain_armed = FALSE
    /\ backend_idle = FALSE /\ async_pc = 0
    /\ mstatus = [mie |-> FALSE, mpie |-> FALSE] /\ mie = {}
    /\ mepc = 0 /\ mcause = "ebreak" /\ csr_write = None
    /\ irq = {}
    /\ window = <<>> /\ serial_pending = FALSE /\ bru = None
    /\ resume_pc = 0 /\ arch_pc = 0

Next == RunCycle \/ RedirectCycle \/ IrqChange
Spec == Init /\ [][Next]_vars
-----------------------------------------------------------------------------
Entering == state \in {"write_mepc", "write_mstatus", "write_mcause",
                       "write_mtval", "redirect"}

\* The controller's registers, the CSRs and the window keep their shape.
TypeOK ==
    /\ state \in States /\ cause \in Causes /\ epc \in Pc
    /\ is_interrupt \in BOOLEAN /\ drain_armed \in BOOLEAN
    /\ backend_idle \in BOOLEAN /\ async_pc \in Pc
    /\ mstatus \in Status /\ mie \subseteq Irqs
    /\ mepc \in Pc /\ mcause \in Causes /\ irq \subseteq Irqs
    /\ Len(window) <= WINDOW /\ serial_pending \in BOOLEAN
    /\ bru \in Pc \cup {None} /\ resume_pc \in Pc /\ arch_pc \in Pc

\* The trap CSRs are written only once everything in flight has retired and
\* no instruction's CSR write is on its way: the idle sample is one cycle old
\* but never stale, and no trap write loses the port
\* (exception_stage.sv:47-61, exception_ctrl.sv:134-141, registers_csr.sv:126-131).
DrainedAtEntry ==
    Entering => window = <<>> /\ csr_write = None /\ bru = None

\* An interrupt resumes at the instruction after the last one retired, also
\* when a branch was mispredicted or an earlier trap returned on the way; a
\* synchronous trap names the last instruction retired
\* (exception_stage.sv:45-61).
MepcIsResumePoint ==
    state = "write_mepc" =>
        arch_pc = IF is_interrupt THEN epc ELSE NextPc(epc)

\* When the redirect leaves, all of the entry's CSR writes have landed: MIE
\* is clear, MEPC and MCAUSE describe this trap (exception_ctrl.sv:66-93).
EntryComplete ==
    state = "redirect" => ~mstatus.mie /\ mepc = epc /\ mcause = cause

\* MSTATUS.MIE and the MIE bit gate the acceptance of an interrupt
\* (dv/APB_INTERRUPT_TEST_PLAN.md:63).
MaskedNeverTaken ==
    state = "write_mepc" /\ is_interrupt => mstatus.mie /\ cause \in mie

\* An ecall, ebreak, illegal instruction or mret that executes is taken: the
\* controller starts its trap or its return (exception_ctrl.sv:117-127).
SysTaken ==
    [][\A i \in exception_req :
          IF window[i].op = "mret" THEN state' = "mret_status"
          ELSE state' = "drain" /\ ~is_interrupt' /\ epc' = window[i].pc]_core

(***************************************************************************)
(* Liveness.  The clock runs, the oldest instruction executes and retires, *)
(* and the LSU becomes idle.                                               *)
(***************************************************************************)
HeadMoves == /\ RunCycle /\ window # <<>>
             /\ window' = <<>> \/ window'[1] # window[1]
LsuIdles == RunCycle /\ backend_idle' = BackendIdle
FairSpec == /\ Spec
            /\ WF_vars(RunCycle \/ RedirectCycle)
            /\ SF_vars(HeadMoves) /\ SF_vars(LsuIdles)
\* Every trap entry and return finishes: the drain never waits for ever
\* (exception_ctrl.sv:108-153).
TrapCompletes == state # "idle" ~> state = "idle"

\* Trap entry as a whole: well-formed registers, a drained backend whenever a
\* trap CSR is written, and all of them written when fetch is redirected.
TrapInv == TypeOK /\ DrainedAtEntry /\ EntryComplete
=============================================================================
