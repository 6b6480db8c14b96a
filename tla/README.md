# Ydrasil: a TLA+ verification project

Ydrasil is a two-wide, out-of-order RV32 core in SystemVerilog
(`hw/ip/ydrasil_core`), an SoC around it (an AXI-lite/APB bus, CLINT, PLIC,
UART, SPI, I2C, GPIO) and a board support package for RT-Thread. The models
are about the part where correctness depends on many things happening in one
clock cycle: the reorder buffer and renaming, traps, the shared
multiply/divide unit, the reservation stations, the fetch queue and the bus that
crosses between two clocks; and about the part where hardware, interrupt
handlers and threads share state without a lock: the console input and the
system tick.

In the hardware models **one step is one clock edge**. A register of the RTL is
a variable under the same name (without its `_q`), a wire is an operator, and a
non-blocking assignment is the primed variable. Inputs that come from parts not
modelled are chosen by `\E` from the values those parts can drive.

## 1. Inventory

| Component | State | Operations | Modelled in |
|---|---|---|---|
| Reorder buffer and RAT, `ydrasil_ctrl.sv` | per producer slot: valid, done, rd, epoch; head, tail, count; latest id per register; rebuild cursor; serial flag; branch due token | allocate 0-2, complete from 5 sources, retire 0-2, recover on a branch or a fence.i, rebuild the RAT, flush on a trap | `YdrasilCtrl`, `YdrasilRob` |
| Trap controller and CSRs, `ydrasil_exception_{ctrl,stage}.sv`, `ydrasil_registers_csr.sv` | nine-state FSM, cause, EPC, sampled idle bit and resume PC, mstatus, mie, mepc, mcause | accept, drain, write CSRs one at a time, redirect, mret | `YdrasilTrap` |
| MDU, `ydrasil_ex_block.sv`, `ydrasil_div.sv`, `ydrasil_mul.sv`, and the MDU part of `ydrasil_issue_stage.sv` | divider FSM, active/pending, multiplier pipeline, reservation, wakeup bits | reserve, start, iterate, deliver on one port, wake readers, recover | `YdrasilMdu` |
| MMIO path: the transaction registers of `ydrasil_load_store_unit.sv`, `ydrasil_axi_lite_master.sv`, `ydrasil_axi_to_apb.sv`, `ydrasil_cdc_sync.sv` | LSU request and result registers, master and bridge FSMs in the CPU clock, APB FSM in its own, request and response registers, four toggles, two synchronisers | launch, accept, cross, access, cross back, answer, complete, recover | `YdrasilMmio`, `YdrasilPort` |
| Issue stage, `ydrasil_issue_stage.sv`, valid bits of `ydrasil_value_file.sv` | per entry of three banks: uop, source tags, ready bits, ordering mask; credits, release and resync counters; issued mask, wakeup tokens; recovery window | dispatch 0-2, wake, select up to two, release, drop tags at retirement, recover, flush | `YdrasilIssue` |
| Fetch stage and queue, `ydrasil_if_stage.sv` | PC, outstanding request, pending redirect; count, two registers, ring with head and tail | request one or two words, enqueue, hand to Decode, correct a prediction, redirect, invalidate | `YdrasilFetch` |
| Timer, `ydrasil_clint.sv` and `drv_mtime.c` | 64-bit mtime and mtimecmp; what the driver has read | count, read in halves, write in three stores, serve the tick | `YdrasilTick` |
| Console input: receive side of `ydrasil_apb_uart.sv`, `ydrasil_plic.sv`, `drv_plic.c`, `drv_uart.c`, and `finsh_getchar` with its semaphore | FIFO, pending and enable bit, ring, semaphore count and waiter | receive, claim, drain, complete, indicate, read, wait | `YdrasilConsole`, `YdrasilStream` |
| Load/store unit, the rest | request queue, store buffer, DTCM load pipeline | issue, forward, commit, drain | planned: `YdrasilLsu` |
| Division arithmetic, `ydrasil_div.sv` | quotient, remainder, shift | non-restoring iterations | planned: `YdrasilDiv` |
| SPI, I2C, GPIO, UART transmitter, sensor application | FIFOs, shift engines | transfer | planned |
| Branch predictor | BTB, BHT | predict, train | any prediction is allowed |
| Decode, ALU, value file data | combinational or plain storage | | abstracted to choices |
| SoC glue, board tops, scripts, RT-Thread, CoreMark, riscv-dv, FPnew | | | not modelled: wiring, vendor IP or vendored code |

How they interact. Decode pushes up to two uops a cycle into the issue stage
and, in the same cycle, Ctrl allocates a producer id (slot and a one-bit epoch)
for each. The issue stage selects up to two uops, which pass the Operand
register and execute; completion buses, due tokens and the BRU result register
report back to Ctrl under producer ids. A mispredicted branch, a fence.i and the
trap controller redirect fetch and cut the reorder buffer. The trap controller
stalls dispatch, waits until a sampled copy of the backend is idle, writes the
CSRs through the port the CSR instructions use, and redirects. The LSU hands an
MMIO access to the AXI master and holds the request until the answer. The fetch
stage keeps one request outstanding and feeds Decode through a queue; a
redirect empties it. The CLINT and the PLIC raise the interrupt lines the trap
controller samples; the handlers that serve them fill a ring and release a
semaphore on which the shell's thread waits.

What is hard here: several events of one cycle that are computed by separate
expressions and must agree (a recovery, two commits and a rebuild); values seen
through one or two registers (idle samples, divider availability, credits,
synchronised toggles); identities that are reused (slot and epoch); a shared
port with an order of precedence; long-latency work that outlives its uop; a
wakeup of one cycle that must not be missed; and, in software, wide registers
accessed in halves, and a ring, a pending bit and a semaphore that change between
any two instructions of a thread. The
list of hazards, with file and line and the property that covers each, is in
`PROJECT.json`.

## 2. Plan

1. `YdrasilCtrl` with `YdrasilRob` as its abstract specification, and
   `YdrasilCtrlProofs`. *Done.*
2. `YdrasilTrap`. *Done.* 3. `YdrasilMdu`. *Done.*
4. `YdrasilMmio` with `YdrasilPort` as its abstract specification. *Done.*
5. `YdrasilIssue`: stations, ordering, wakeup, credits, recovery, and the reuse
   of a source tag while it waits. *Done.*
6. `YdrasilFetch`: the request, the fetch queue and the redirects. *Done.*
7. `YdrasilConsole` with `YdrasilStream` as its abstract specification, and
   `YdrasilTick`: the interrupt sources with the drivers that serve them. *Done.*
8. `YdrasilLsu`: the request queue with its age repair, store forwarding and
   commit. `YdrasilDiv`: non-restoring division against the RISC-V definition.
   SPI and I2C engines with their drivers and the sensor application.
9. Proofs of the safety invariants and of the refinements, one module of proofs
   per component. *Done* for all eight components.

## 3. Modules and the code they model

`PROJECT.json` maps each definition to its lines. A comment that begins with
`Slip:` marks the definition after it as a deliberately wrong variant: no
specification uses it, it exists to show that a property notices that mistake.

**`YdrasilCtrl`** (`ydrasil_ctrl.sv`, with what feeds it). Variables
`producer_valid`, `producer_done`, `producer_epoch`, `queue_head`,
`queue_tail`, `queue_count`, `latest`, `recovering`, `rebuild_ptr`,
`rebuild_remaining`, `producer_rd`, `serial_pending`,
`branch_retire_due` are the registers, `trap_stall` the trap controller's hold; `bru` is the BRU's EX2
register and `mdu` the divider's uop. `executed`, `wrong` and `uop` are history:
what each slot really holds, whether it has run, and whether it was fetched
behind a branch that was mispredicted. A cycle is one action chosen by what
happens in it: `RunCycle`, `BranchRecoveryCycle`, `FenceCycle`, `FlushCycle`
(the redirect register in the cycle after a
trap redirect) and `TrapCycle`. All of them go through
`Cycle`, which computes every register from the same allocations, executions
and completions, because in the RTL these are separate expressions over one
cycle's inputs. What Decode presents, which ready uops execute, when a division
ends and whether a branch was mispredicted are choices. The PC, the result class
and the debug shadows are left out. So are the registered retire packets, which
repeat `Commit0` and `Commit1` a cycle later: nothing in `ydrasil_ctrl.sv` reads
them, but the reservation stations do, and `YdrasilIssue` has them.

**`YdrasilRob`** is the promise: a bounded queue that takes uops at the tail,
retires at most two from the front, and on a mispredicted branch or a fence.i
cuts everything behind it. `RobView` is the refinement mapping.

**`YdrasilTrap`** (`ydrasil_exception_ctrl.sv`, `_stage.sv`, the trap CSRs).
`state` is the nine-state FSM; `backend_idle` and `async_pc` are the sampling
registers of the stage; `csr_write` the EX register in front of the CSR write
port, which an instruction shares with the controller. The backend is a short
window of instructions in program order with their stage. `arch_pc` is history:
the next instruction in program order. `RunCycle`, `RedirectCycle` and
`IrqChange` (the interrupt lines, an input from outside) are the actions.
`mtval` and the counters are left out; `mtvec` is a constant in direct mode.

**`YdrasilMdu`** (`ydrasil_ex_block.sv`, control of `ydrasil_div.sv` and
`ydrasil_mul.sv`, and the divider reservation, selection and wakeup of
`ydrasil_issue_stage.sv`). A uop is named by its position in the window. One
that is squashed inside the MDU is a `Ghost`: its result is assumed to match
nothing, and whether that is so is the question `YdrasilCtrl` asks. `exposed` is
history: a recovery found a division in Operand and some division has been
under way since. `RunCycle`, `RecoveryCycle` and `TrapFlush` are the actions.

**`YdrasilMmio`** (MMIO registers of `ydrasil_load_store_unit.sv`,
`ydrasil_axi_lite_master.sv`, `ydrasil_axi_to_apb.sv`, `ydrasil_cdc_sync.sv`).
`AxiEdge`, `ApbEdge` and `BothEdges` are the edges of two unrelated clocks;
metastability is the choice of which edge comes first, so the first flop catches
or misses a change. Address, strobes and protection are one field. `asks`,
`waiting`, `got` and `device` are history. The bridge can collect the two halves
of a write in either order; this master sends both in one cycle, so
`write_collect` stays unused. A trap flush of the LSU is left out: the
controller waits for the LSU to be idle (`YdrasilTrap`).

**`YdrasilPort`** is the bus's promise: `Ask`, `Perform`, `Answer`, each once.

**`YdrasilIssue`** (`ydrasil_issue_stage.sv`, `ydrasil_value_file.sv`). `rs` is
the array of station entries; `issued`, `token`, `alloc`, `credit`, `release`,
`resync`, `recovery` and `head_q` are the registers around it (`issued_slot_mask_q`,
the select wakeup ids, the allocation wakeup, the credits of each bank,
`credit_resync_q`, the recovery window and `rob_head_select_q`). `value` and
`value_alloc` are the valid and epoch bits of the value file. The reorder buffer
appears as a window of slots with an epoch and a `stage`; `YdrasilCtrl` has it in
full. `retire` is the registered retire packet: an entry learns of a commit one
cycle after the slot was freed, when the slot may already be allocated again, and
a uop dispatched in the cycle of the commit still takes the tag along. `RunCycle`
is a clock with any dispatch the credits allow, any LSU credit, and any set of
completions the lanes have room for (`Finishes`: two execution lanes, one of them
with the branch unit, and the LSU); `RecoveryCycle` is the same with a branch that
resolves as mispredicted, applied by the entries one clock later, with whatever
else completes or is launched in either of the two clocks; `TrapCycle` the flush of
the drained backend. A load's DTCM read fires (`Fires`), announces itself to its
readers (`LaunchIds`) and has its response in the next cycle (`stage` is "resp").
A read that fires in the clock in which the LSU applies a recovery is cancelled
("lost") and fires again. A uop has one source and all uops share one register, so
that dependences are as dense as they can be; for a store it is the address, since
selection does not wait for the data. Multiply and divide ordering is in
`YdrasilMdu`, serial uops in `YdrasilCtrl`. `REPLACE` is the option
`ENABLE_P0_SAME_CYCLE_REPLACE`, off by default.

**`YdrasilFetch`** (`ydrasil_if_stage.sv`). `pc`, `mem_req`, `pending_redirect`
are the fetch registers, `count`, `payload0`, `payload1`, `back`, `back_head`,
`back_tail` the queue. `RunCycle` is a clock without a redirect, with any answer of
the predictor and of the L0 table; `JumpCycle` a resolved branch or a trap,
`InvalidateCycle` a fence.i. An entry keeps its address and where its prediction
goes; instruction words are left out. `expect` is history: the address that
follows the last instruction taken by Decode, as predicted.

**`YdrasilConsole`** (`ydrasil_apb_uart.sv`, `ydrasil_plic.sv`, `drv_plic.c`,
`drv_uart.c`, `shell.c`, `ipc.c`). Three parties interleave: the hardware
(`Receive`, `PlicClock`, `IrqSync`), the handler, one register access a step
(`TrapEntry`, `Claim`, `UartLsr`, `UartRbr`, `Complete`) and the start-up code and
the shell (`PlicInit` ... `SetRxIndicate`, `ReadCopy`, `ReadAdvance`, `SemTake`,
`Schedule`, `Command`). The shell's steps wait while a handler runs; a handler is
not interrupted. What the kernel does with interrupts masked is one step. UART0 is
the only source with a handler in this image and so the only one enabled. A
register access is atomic here: `YdrasilMmio` is about how it gets to the device.
`got` is history.

**`YdrasilStream`** is the promise to the shell: an in-order subsequence of what
was sent, with losses and one flush at start-up. `Held`, the ring followed by the
FIFO, is the refinement mapping.

**`YdrasilTick`** (`ydrasil_clint.sv`, `drv_mtime.c`). `mtime` and `mtimecmp` are
the two registers; `driver` is the next access of the driver, `high_before`,
`low` and `value` its locals. `Clock` may happen between any two accesses.
`WORD` is 2^32. The line is taken to have settled when the handler returns
(`mret` comes many cycles after the last store). `deadline` and `read_start` are
history.

`MCCtrl`, `MCTrap`, `MCMdu`, `MCMmio`, `MCIssue`, `MCFetch`, `MCConsole` and
`MCTick` give the instances for TLC. `YdrasilCtrlProofs`, `YdrasilTrapProofs`,
`YdrasilMduProofs`, `YdrasilMmioProofs`, `YdrasilIssueProofs`, `YdrasilFetchProofs`,
`YdrasilConsoleProofs` and `YdrasilTickProofs` hold the theorems of section 6.

## 4. Runs

| Run | Instance | States | What it shows |
|---|---|---|---|
| `ctrl_safe` | 3 slots, 2 registers, every kind of uop, divider up to 3 cycles | about 290,000 | window, alias table, renamed sources, serial flag and retirement are exact under any meeting of recovery, two commits, rebuild and trap; implements `YdrasilRob` |
| `ctrl_live` | 3 slots, 1 register, what can hold dispatch | about 73,000 | dispatch becomes ready again and again |
| `ctrl_stale` | divider up to 9 cycles | violation | finding F1 |
| `trap_entry` | 3 addresses, 2 in flight, one line | about 111,000 | the backend is empty when the trap CSRs are written, MEPC is the resume point, entries are complete and always finish |
| `trap_lost` | as `trap_entry`, 2 addresses | violation | finding F3 |
| `mdu_port` | 3 uops, quotients of up to 1 iteration, recoveries | about 109,000 | results, wakeups and the reservation, see below |
| `mmio_port` | 2 addresses, 2 data words | about 27,000 | one access per request, its own answer, still buses, every request answered |
| `mmio_once` | the same | violation | findings F6, F7 |
| `issue_order` | 3 slots, banks of 2, 2 and 1, four kinds of uop | about 257,000 | stations, ordering, tags, wakeups, selection by age and credits are exact, and a reader selected on a load's launch finds its operand, under dispatch of two, several completions, slot reuse and recovery |
| `fetch_stream` | 4 addresses, two of them in data memory, queue of 6 | about 61,000 | Decode gets the predicted path without gap or repetition, the resume address is right at any moment, fetch goes on |
| `console_input` | FIFO of 2, ring of 4, 2 dispatches, 5 bytes | about 47,000 | implements `YdrasilStream`; loses only at a limit; no lost interrupt, no lost wakeup |
| `tick_timer` | halves of base 5, 3 cycles a tick, 16 cycles | about 19,000 | no torn read, no interrupt from a half-written compare, no early and no lost tick |

An invariant that speaks for a whole component (`TrapInv`, `MduInv`, `MmioInv`,
`StationInv`, `FetchInv`, `ConsoleInv`, `TickInv`, and `IndInv` of the reorder
buffer) is the conjunction of its type invariant and of named parts that stand
beside it in the module. In `MduInv`, `QuotientNotOutrun` and `ReservationHolds`
are what remains true of two promises that observations F4 and F5 break: a reader
may outrun a finished quotient by the wait for the port, never the division
itself, and two divisions are under way only after a recovery that found one of
them in Operand. `WakeupExact` says both that a source is not ready too early and
that a completion is never missed.

`tick_timer` runs without deadlock check: the bounded counter ends there. In every
other run a clock step is always possible.

In `ctrl_safe` a division is over before its slot can be allocated twice more, so
a squashed division's result never matches a later uop. That is an effect of the
bound and not checked as a property: with the length of the real divider it is
false (`ctrl_stale`, F1). What `ctrl_safe` shows of `RetireOnlyExecuted` and
`IndInv` is to be read with that, and the proofs of section 6 make it a hypothesis.

*Why the bounds are enough.* Three slots are the smallest ring in which head,
tail and a branch between them differ, a rebuild of two slots a cycle takes two
cycles, the pointers wrap at a size that is not a power of two (like the code's
`PRODUCER_NUM`), and two commits leave one slot. `IndInv` and the ring are also
proved for every size. Two registers let two writers of one and a writer of
another overlap. Two instructions in flight are a pair in which either may be
the one that traps or redirects; three addresses keep the resume point, its
successor and a branch target apart. Three uops in the MDU window are a division,
a multiplication that takes the port from it and the reader of either. The bus
holds one transaction at a time; two addresses and two words tell an access from
the one before it. In the issue stage three slots let a producer retire, its slot
be reused in the other epoch and its reader still wait; two entries in the ALU
and memory banks allow two selections and an order between two uops, and the one
entry for branches makes a bank full while its release is still in a register.
A fetch queue of 6 has both registers and a ring of 4 that wraps at a size
other than the code's, and pairs, single words and a target in the middle of a
pair. Five bytes overfill a FIFO of 2 and a ring that holds 3, with the dispatch
limit reached and the semaphore at its maximum. Halves of base 5 wrap three times
within 16 cycles, at values that are not multiples of the tick. No run restricts
the state space by a constraint.

## 5. Fairness

- Every model: the clock does not stop (`WF` of the cycle). In `YdrasilMmio`
  both clocks run, and a peripheral ends its wait states (`ApbStep(TRUE)`); all
  peripherals of the SoC answer in bounded time.
- `YdrasilCtrl`: the uop at the ROB head is executed in the end
  (`SF(HeadExecutes)`: selection prefers the oldest ready uop, and its operands
  come from retired ones) and the trap controller, once it stalls, redirects
  (`WF(TrapCycle)`; `TrapCompletes` is the property of `YdrasilTrap` behind it).
  The first assumption excludes the lost division of F4.
- `YdrasilTrap`: the oldest instruction moves and the LSU becomes idle.
  Strong fairness, because the sampled idle bit and the lines can toggle.
- `YdrasilMdu`: the clock only; recoveries are not assumed to end.
- `YdrasilFetch`: the clock. `FetchProgress` is about the times after the last
  redirect; the predictor and the L0 table may disagree for ever.
- `YdrasilConsole`: the PLIC's clock and the synchroniser run, a handler once
  entered goes on, and start-up and shell are scheduled. The main thread has
  the higher priority and returns (`applications/main.c`); nothing else runs above
  the shell for ever. Nothing is
  assumed of the line.
- `YdrasilTick`: a pending timer interrupt is taken and the driver goes on. The
  counter is not assumed to be slow: any number of clocks may pass between two
  accesses.
- `YdrasilIssue` states safety only; that the uop at the head is selected in the
  end is the assumption named above, which its `WakeupExact`, `OrderExact` and
  `CreditExact` support.

## 6. Proofs

Each module of proofs begins with the inductive invariant of its component, a
conjunction of named parts, and ends with the theorems. In between there is one
lemma for each part and kind of step, and before those the facts about the data:
rings, sequences, and what one clock edge does to the window. Every inductive
invariant was first checked with TLC on the instance of the component's run.

Nothing is assumed but the properties of the constants, which each module states
in its `ASSUME`: sizes are positive (the ROB has at least two slots, the fetch
queue an even depth of at least four), the address space is even because words
are fetched in pairs, the timer's horizon ends before its last high half, and a
value that stands for "nothing" is not one of the values it is told apart from.
TLC evaluates them in every run.

| Theorem | Property | Holds for every |
|---|---|---|
| `Inductive`, `TypeCorrect`, `RingCorrect`, `BranchFound`, `NoUnderflow` | `IndInv`, `TypeOK`, `RingInv`, `ResolvingBranchInRob`, `RecoveryNoUnderflow` | number of slots, registers, uops, divider latency, under H |
| `RetirementSound` | `RetireOnlyExecuted` | the same, for the programs that squash no division |
| `RatExact`, `RenameCorrect`, `WrongPathStops`, `SerialExact`, `CtrlIsRob` | `RatInv`, `RenameSound`, `WrongPathNeverRetires`, `SerialInv`, `ImplementsRob` | the same, under H |
| `TrapSafe`, `TrapResumes` | `TrapInv`, `MepcIsResumePoint` | window, address space, set of operations and of interrupt lines |
| `MduSafe`, `MulOperands`, `WakeupKept`, `ResultsAwaited` | `MduInv`, `MulOperandPresent`, `WakeupNotLost`, `ResultAwaited` | window, length of a division, mix of uops, with and without recoveries |
| `MmioSafe`, `MmioCrossing`, `MmioIsPort` | `MmioInv`, `CrossingStable`, `ImplementsPort` | addresses and data, and every interleaving of the clocks |
| `IssueInductive`, `StationsSafe`, `OrderSafe`, `TagsLive`, `WakeupSafe`, `OperandSafe`, `OldestFirst`, `CreditsExact` | `StationInv`, `OrderExact`, `TagLive`, `WakeupExact`, `OperandInTime`, `P0Oldest`, `CreditExact` | number of slots, bank sizes, set of uops, with `REPLACE` off |
| `FetchSafe`, `FetchInOrder`, `FetchResumes` | `FetchInv`, `StreamInOrder`, `ResumeIsNext` | queue depth, address space, data memory and targets |
| `ConsoleSafe`, `ConsoleIsStream`, `ConsoleLosses` | `ConsoleInv`, `ImplementsStream`, `LossOnlyAtLimit` | FIFO, ring, dispatch limit, semaphore maximum, number of bytes |
| `TickSafe`, `TickNeverAhead` | `TickInv`, `TickNotAhead` | word size, tick length, horizon |

**The hypothesis H.** Most theorems of the reorder buffer have the form
`Spec /\ []SquashedResultRejected => []...`. H is the comment of
`ydrasil_ex_block.sv:122-124`. It cannot be dropped: F1 shows it false for a
long divider, and with it false a uop retires that never ran. What can be said
without it is said of programs instead of behaviours: `SquashesNoDivision` holds
of a set of uops that has no division, or neither a misprediction nor a fence.i.
For these `SquashedNever` proves H, and `RetirementSound` that a uop retires on its
own result or resolution only.

**Reorder buffer** (`YdrasilCtrlProofs`). `RingInv`
(valid bits are exactly the window from head to tail) is not inductive alone: a
recovery must find its branch inside the window, which is
`ResolvingBranchInRob`; that needs a branch in the BRU register not to retire
first, hence `DoneIsOwn` (a done bit means the occupant executed) and
`DueIsResolving` (the branch due token names the branch in the BRU register). A
fence.i is the youngest (`SerialIsYoungest`), so its recovery removes nothing.
The redirect a trap leaves behind names no branch and finds the window empty
(`FlushWhenEmpty`). `MduWaits` says a division that has not been squashed still
waits in its slot. `IndInv` is the conjunction.

`RecoveryInv` adds what a recovery and the rebuild of the alias table need. The
rebuild cursor starts at the head and two uops a cycle may retire while it moves
two a cycle, so it must be shown never to fall behind the head (`RebuildInv`);
then `MappedInv` says that the table holds the youngest of the writers already
passed. `WrongInv` says that whatever was fetched behind a misleading branch has
that branch before it, unexecuted: a wrong uop is therefore never at the head,
and it is not the second to retire either, because a branch that has not executed
retires only on its due token, in the cycle of its redirect, which closes the
second commit port. The refinement then has one lemma per kind of
cycle: the queue of `YdrasilRob` is the window read through the ring, a cycle
drops its first `CommitCount` entries and either appends what was allocated or
cuts behind the branch.

**Trap entry** (`YdrasilTrapProofs`). The controller decides on samples that are
a cycle old. `PathInv` says that the window is a stretch of the program, from
`arch_pc` up to where dispatch resumes, also when a branch redirects inside it;
`DrainInv` that an idle sample taken with dispatch stopped still holds, and that
a synchronous trap has only its own instruction before it; `SerialInv` that a
system instruction executes alone at the head; `EntryInv` that the CSR writes of
an entry land one after the other and are not overtaken by one of an instruction.

**Multiply and divide** (`YdrasilMduProofs`). `NameInv`: the names in the
divider and in the four multiplier stages are those of uops that wait for them,
each once, so the result port never completes a uop twice. `ReadInv`: a reader is
ready only if its operand has finished or is the quotient that waits for the
port. `ReserveInv`: while `exposed` is false a division on its way holds the
reservation, and one that may be selected finds the divider free, although
`available` is a registered copy and the reservation is given back on a copy of
that. `DivInv` relates the divider's state to the registers of `ex_block`. The
wakeup has three sources, announced, completing and resident on the first look;
`AnnouncedArrives` shows that what is announced is there a cycle later.

**Bus** (`YdrasilMmioProofs`). A request is a wave through eight toggles, the two
synchronisers included: a toggle that differs from the last has been passed, and
so have all before it (`ChainInv`). `PairInv` keeps the FSMs of master and bridge
together, `CarryInv` says which registers hold the request and the response at
each place of the wave. From these, that a bus which crosses is still while it can
be sampled, and the steps of `YdrasilPort`.

**Issue stage** (`YdrasilIssueProofs`). All theorems are for the default
configuration, `~REPLACE`; F8 shows that with the option on `OrderExact` is false.
A cycle that starts a recovery dispatches and selects nothing, so both kinds of
cycle are one `Moved(d, P, fin, fire, keep, rc)`: `d` is dispatched, the entries
`P` are selected, the uops in the set `fin` finish, the load in `fire` is
launched, `rc` uops retire and the slots outside `keep` are squashed; `RunMoves`
and `RecMoves` show this once, and every part of the invariant is then proved for
a move. The order is the plan's. *Occupancy*: credits never exceed the free
entries (`CreditInv`), so `TargetIs` finds an entry for each accepted uop, and
`EntryInv` keeps live entries and waiting slots in bijection; `FreeNext` counts
the free entries after an edge, which is the credit just rebased plus the
releases. *Tags and wakeup*: `TagLive` and `WakeupExact` are not inductive without
knowing whose ids are under way: `TokenInv` and `DueInv` (early and ALU results
belong to their slots), `RetireInv` (the slots of the last commits are free and
their epochs unchanged, so that nobody has taken them yet), `AllocInv` (the
entries about to look up the value file) and `ValueInv` (the value file holds the
value of a live slot exactly when the slot is done or its result arrives now, and
nothing is believed of a slot just allocated). A lookup can therefore not be
answered by an earlier use of the slot (`LookupIs`). `OperandSafe` follows from
`WakeupExact` and from what fires: a cancelled read is the next to fire.
*Ordering*: what an entry keeps in its mask after a step is its blocked set minus
the selection, and everything older than a survivor of a recovery survives.
`WaitsFor` stays within one bank, so the mask of a new entry misses nothing.
*Age*: `HeadInv` says that measured from last cycle's head the window does not
wrap; a recovery clears that register, but selects nothing in the cycle in which
it could be wrong (`AgeFromLastHead`).

**Fetch** (`YdrasilFetchProofs`). The two registers and the ring, read in order,
are one chain of predictions from `expect` on (`ChainInv`); the outstanding
request, or the next one, continues it (`RequestInv`); `PointersInv` and
`QueueFits` say where the ring's pointers are and that what was requested fits.

**Console** (`YdrasilConsoleProofs`). `WakeInv` is the lost-wakeup argument:
between its look at the ring and the end of `rt_sem_take`, a byte that arrives has
raised the semaphore or the handler that brought it is still to do so. `ByteInv`
says that the byte `uart_read` has copied is still the oldest when it moves the
tail. In the refinement every step accepts, refuses, flushes, drops or delivers
one byte, or leaves the bytes held as they are (`HeldStep`).

**Timer** (`YdrasilTickProofs`). `ReadInv`: equal high halves before and after
enclose a low half that belongs to them. `WriteInv`: a compare value that is half
written lies beyond the horizon. `PaceInv`: the handler runs only when its tick is
due and asks for the next one a tick later than a time it has read.

*Only model-checked.* Liveness (`DispatchReadyRecurs`, `TrapCompletes`,
`ReservationReturns`, `Answered`, `FetchProgress`, `InputReachesShell`,
`TickServed`) is beyond the prover. `SquashedResultRejected` is false in general
and stays a hypothesis. Nothing is proved of the issue stage with
`ENABLE_P0_SAME_CYCLE_REPLACE`.

## 7. Findings

- **F1** (`ctrl_stale`) A squashed division runs on; the epoch of its slot has
  one bit, so after two reallocations its result completes another uop.
- **F3** (`trap_lost`) An ecall, mret or illegal instruction that executes while
  an interrupt drains the backend retires without effect, and MEPC points past it.
- **F6** (`mmio_once`) A response that arrives in the cycle a recovery is applied
  is not taken, and the request, still valid, is performed again.
- **F7** (`mmio_once`) In that cycle a buffered MMIO result is cleared even when a
  surviving DTCM response keeps it off the completion bus. That load never
  completes.

*Further observations.* Each of these has a configuration of its own beside the
runs, in which TLC reports the violation.

- **F2** (`MCTrap_masked.cfg`, `MaskedNeverTaken`) An interrupt accepted just
  before an instruction in flight masks it is taken after that instruction has
  retired. `hw/ip/ydrasil_core/dv/APB_INTERRUPT_TEST_PLAN.md:63`: "MSTATUS.MIE and
  individual MIE bits both gate acceptance".
- **F4** (`MCMdu_lost.cfg`, `DividerReserved`) A recovery resets the divider
  reservation although it keeps a division in Operand; the next division meets a
  busy divider and is dropped, against the assertion of
  `ydrasil_ex_block.sv:197-202`.
- **F5** (`MCMdu_early.cfg`, `DivOperandPresent`) A reader is woken when the divider
  is done, but a multiplication can take the port in the next cycle; the reader is
  in Operand first. The comment of `ydrasil_ex_block.sv:281-283` says otherwise.
- **F8** (`MCIssue_replace.cfg`, `OrderExact`) With the option
  `ENABLE_P0_SAME_CYCLE_REPLACE` a pair's first uop may go to an entry that is
  selected in the same cycle. The old occupant's release token then clears the
  second uop's mask bit for the new one, and a load may pass the older store of its
  pair. The credits count that entry twice as well. The option is off by default.
- **F9** (`MCIssue_launch.cfg`, `ReadyAtResponse`) The comment of
  `ydrasil_issue_stage.sv:541-543` says a DTCM launch token is "deliberately absent"
  from selection; lines 600-609 include it. The two differ when a load is launched
  while the LSU applies a recovery: the read is cancelled, and its reader is selected
  although there is no response. No wrong operand comes of it, because the read fires
  again in the cycle of that selection and responds when the operand is captured
  (`OperandInTime`).

## 8. Not modelled

Decode, the ALU, bit manipulation and the values in the register and value files
(combinational or plain storage; results are identities here). The predictor and
the L0 target table: any prediction is allowed. In the issue stage the bypass
lanes and the direct allocation path. The
rest of the LSU, the divider's arithmetic, the UART transmitter, SPI, I2C, GPIO and
the applications are the plan of section 2. MSIP, the PLIC's forced bits and its
choice among several sources (software enables one). SoC wiring, board tops and
scripts.

Of the C code in the repository nearly all is vendored: two releases of RT-Thread
with their drivers for other boards, CoreMark and generated register headers.
The system's own logic is SystemVerilog, and the C that belongs to it is the board
support package. RT-Thread is modelled where the drivers meet it (the semaphore of
the shell, `finsh_getchar`, the tick count) and not otherwise: its scheduler,
timers and IPC have their own upstream, and of the rest of the C little runs
concurrently with anything.
