--------------------------- MODULE YdrasilConsole ---------------------------
(***************************************************************************)
(* The console input path, from the serial line to the shell:              *)
(*   the receive FIFO of ydrasil_apb_uart.sv, the source's bit in          *)
(*   ydrasil_plic.sv and the interrupt synchroniser of the CPU,            *)
(*   mext_isr of drv_plic.c and uart0_irq, uart_read and the start-up code *)
(*   of drv_uart.c, finsh_getchar and finsh_rx_ind of shell.c, and         *)
(*   rt_sem_take and rt_sem_release as the shell uses them.                *)
(*                                                                         *)
(* The hardware, the interrupt handler and the shell interleave: a step is *)
(* one clock of the PLIC, one register access of a handler, or one access  *)
(* of the shell to the ring.  A handler is not interrupted; the shell is,  *)
(* except where the kernel masks interrupts, which is one step.  Bytes are *)
(* named by their position on the line.  UART0 is the only source with a   *)
(* handler, so the only one ever enabled; the others never show in a claim.*)
(***************************************************************************)
EXTENDS Naturals, Sequences

CONSTANTS
    FIFO_DEPTH, UART_RX_BUFFER_SIZE,
    DISPATCH_MAX,       \* YDRASIL_IRQ_COUNT * 2
    SEM_VALUE_MAX,      \* RT_SEM_VALUE_MAX
    MaxBytes            \* bound: bytes the line brings

ASSUME ConsoleAssumption ==
    /\ FIFO_DEPTH \in Nat \ {0} /\ UART_RX_BUFFER_SIZE \in Nat \ {0}
    /\ DISPATCH_MAX \in Nat \ {0} /\ SEM_VALUE_MAX \in Nat \ {0}
    /\ MaxBytes \in Nat

Slots == 0..UART_RX_BUFFER_SIZE - 1
NextSlot(i) == (i + 1) % UART_RX_BUFFER_SIZE

VARIABLES
    sent,           \* bytes the line has brought
    fifo, ier,      \* UART: receive FIFO, receive interrupt enable
    pending, enable,\* PLIC: bits of UART0
    irq,            \* the PLIC output as the CPU sees it
    mie,            \* MSTATUS.MIE of the thread code
    isr,            \* next step of the interrupt handler, "none" outside
    dispatch_count, received,
    rx_buffer, rx_head, rx_tail,
    rx_indicate,    \* the shell's call-back is installed
    sem_value, sem_waiting,
    shell,          \* next step of the start-up code and then of the shell
    ch,             \* the byte uart_read has copied
    got             \* history: what finsh_getchar has returned

hw == <<fifo, ier, pending, enable, irq>>
ring == <<rx_buffer, rx_head, rx_tail>>
sem == <<sem_value, sem_waiting>>
handler == <<isr, dispatch_count, received>>
vars == <<sent, hw, ring, sem, handler, mie, rx_indicate, shell, ch, got>>

Init ==
    /\ sent = 0 /\ fifo = <<>> /\ ier = FALSE
    /\ pending = FALSE /\ enable = FALSE /\ irq = FALSE /\ mie = FALSE
    /\ isr = "none" /\ dispatch_count = 0 /\ received = FALSE
    /\ rx_buffer = [i \in Slots |-> 0] /\ rx_head = 0 /\ rx_tail = 0
    /\ rx_indicate = FALSE /\ sem_value = 0 /\ sem_waiting = FALSE
    /\ shell = "plic_init" /\ ch = 0 /\ got = <<>>

(***************************************************************************)
(* Hardware.  The FIFO takes a byte at the end of its stop bit, or drops   *)
(* it when it is full.  The interrupt is a level, which every clock of the *)
(* PLIC adds to the pending bit.                                           *)
(***************************************************************************)
Receive ==
    /\ sent < MaxBytes
    /\ sent' = sent + 1
    /\ fifo' = IF Len(fifo) < FIFO_DEPTH THEN Append(fifo, sent + 1) ELSE fifo
    /\ UNCHANGED <<ier, pending, enable, irq, ring, sem, handler, mie,
                   rx_indicate, shell, ch, got>>

\* Slip: a trigger level of more than one byte.
rx_irq_late == ier /\ Len(fifo) >= FIFO_DEPTH
rx_irq == ier /\ fifo # <<>>

PlicClock ==
    /\ pending' = (pending \/ rx_irq)
    /\ UNCHANGED <<sent, fifo, ier, enable, irq, ring, sem, handler, mie,
                   rx_indicate, shell, ch, got>>

irq_o == pending /\ enable
IrqSync ==
    /\ irq' = irq_o
    /\ UNCHANGED <<sent, fifo, ier, pending, enable, ring, sem, handler, mie,
                   rx_indicate, shell, ch, got>>

(***************************************************************************)
(* The external interrupt.                                                 *)
(***************************************************************************)
TrapEntry ==
    /\ mie /\ irq /\ isr = "none"
    /\ isr' = "claim" /\ dispatch_count' = 0
    /\ UNCHANGED <<sent, hw, ring, sem, received, mie, rx_indicate, shell,
                   ch, got>>

\* The read of PLIC_CLAIM clears the bit it returns, also when the count
\* then ends the loop.
Claim ==
    /\ isr = "claim"
    /\ pending' = (pending /\ ~irq_o)
    /\ IF irq_o /\ dispatch_count < DISPATCH_MAX
       THEN isr' = "lsr" /\ received' = FALSE
       ELSE isr' = "none" /\ UNCHANGED received
    /\ UNCHANGED <<sent, fifo, ier, enable, irq, ring, sem, dispatch_count,
                   mie, rx_indicate, shell, ch, got>>

\* Slip: a release that finds a waiter raises the count only.
ReleaseForgets ==
    /\ sem_value' = IF sem_value < SEM_VALUE_MAX THEN sem_value + 1
                    ELSE sem_value
    /\ UNCHANGED sem_waiting
\* rt_sem_release: hand the count to the waiter, else raise it to its limit.
Release ==
    IF sem_waiting THEN sem_waiting' = FALSE /\ UNCHANGED sem_value
    ELSE /\ sem_value' = IF sem_value < SEM_VALUE_MAX THEN sem_value + 1
                         ELSE sem_value
         /\ UNCHANGED sem_waiting

\* The loop test of uart0_irq and, when it ends, the call-back.
UartLsr ==
    /\ isr = "lsr"
    /\ IF fifo # <<>> THEN isr' = "rbr" /\ UNCHANGED sem
       ELSE /\ isr' = "complete"
            /\ IF received /\ rx_indicate THEN Release ELSE UNCHANGED sem
    /\ UNCHANGED <<sent, hw, ring, dispatch_count, received, mie,
                   rx_indicate, shell, ch, got>>

\* Slip: the ring may be filled to the last slot.
RingAlways == TRUE
\* Slip: one slot more is kept free.
RingKeepsTwo == NextSlot(NextSlot(rx_head)) # rx_tail
RingHasRoom == NextSlot(rx_head) # rx_tail

UartRbr ==
    /\ isr = "rbr"
    /\ fifo' = Tail(fifo)
    /\ IF RingHasRoom
       THEN /\ rx_buffer' = [rx_buffer EXCEPT ![rx_head] = Head(fifo)]
            /\ rx_head' = NextSlot(rx_head)
            /\ received' = TRUE
       ELSE UNCHANGED <<rx_buffer, rx_head, received>>
    /\ isr' = "lsr"
    /\ UNCHANGED <<sent, ier, pending, enable, irq, rx_tail, sem,
                   dispatch_count, mie, rx_indicate, shell, ch, got>>

\* The write of PLIC_CLAIM clears the bit once more.
Complete ==
    /\ isr = "complete"
    /\ pending' = FALSE
    /\ dispatch_count' = dispatch_count + 1
    /\ isr' = "claim"
    /\ UNCHANGED <<sent, fifo, ier, enable, irq, ring, sem, received, mie,
                   rx_indicate, shell, ch, got>>

(***************************************************************************)
(* Start-up: rt_hw_board_init with interrupts off, the scheduler's first   *)
(* thread, then the shell's finsh_set_device.  The drain loop of           *)
(* ydrasil_plic_init sees claim 0, since nothing is enabled, and stops.    *)
(***************************************************************************)
PlicInit ==
    /\ shell = "plic_init" /\ shell' = "uart_init"
    /\ enable' = FALSE
    /\ UNCHANGED <<sent, fifo, ier, pending, irq, ring, sem, handler, mie,
                   rx_indicate, ch, got>>

UartInit ==
    /\ shell = "uart_init" /\ shell' = "plic_register"
    /\ rx_head' = 0 /\ rx_tail' = 0
    /\ fifo' = <<>> /\ ier' = TRUE
    /\ UNCHANGED <<sent, pending, enable, irq, rx_buffer, sem, handler, mie,
                   rx_indicate, ch, got>>

PlicRegister ==
    /\ shell = "plic_register" /\ shell' = "start"
    /\ enable' = TRUE
    /\ UNCHANGED <<sent, fifo, ier, pending, irq, ring, sem, handler, mie,
                   rx_indicate, ch, got>>

StartScheduler ==
    /\ shell = "start" /\ shell' = "open"
    /\ mie' = TRUE
    /\ UNCHANGED <<sent, hw, ring, sem, handler, rx_indicate, ch, got>>

UartOpen ==
    /\ shell = "open" /\ isr = "none" /\ shell' = "indicate"
    /\ ier' = TRUE
    /\ UNCHANGED <<sent, fifo, pending, enable, irq, ring, sem, handler, mie,
                   rx_indicate, ch, got>>

SetRxIndicate ==
    /\ shell = "indicate" /\ isr = "none" /\ shell' = "read"
    /\ rx_indicate' = TRUE
    /\ UNCHANGED <<sent, hw, ring, sem, handler, mie, ch, got>>

(***************************************************************************)
(* finsh_getchar: read one byte, and wait on the semaphore if there is     *)
(* none.  Between the steps the interrupt may come.                        *)
(***************************************************************************)
ReadCopy ==
    /\ shell = "read" /\ isr = "none"
    /\ IF rx_tail # rx_head
       THEN shell' = "advance" /\ ch' = rx_buffer[rx_tail]
       ELSE shell' = "take" /\ UNCHANGED ch
    /\ UNCHANGED <<sent, hw, ring, sem, handler, mie, rx_indicate, got>>

ReadAdvance ==
    /\ shell = "advance" /\ isr = "none"
    /\ rx_tail' = NextSlot(rx_tail)
    /\ got' = Append(got, ch)
    /\ shell' = "command"
    /\ UNCHANGED <<sent, hw, rx_buffer, rx_head, sem, handler, mie,
                   rx_indicate, ch>>

\* rt_sem_take to the end of its masked section.
SemTake ==
    /\ shell = "take" /\ isr = "none"
    /\ IF sem_value > 0
       THEN sem_value' = sem_value - 1 /\ shell' = "read"
            /\ UNCHANGED sem_waiting
       ELSE sem_waiting' = TRUE /\ shell' = "schedule" /\ UNCHANGED sem_value
    /\ UNCHANGED <<sent, hw, ring, handler, mie, rx_indicate, ch, got>>

\* rt_schedule in rt_sem_take comes back once a release has made the
\* thread ready, which may be before it is called.
Schedule ==
    /\ shell = "schedule" /\ isr = "none" /\ ~sem_waiting
    /\ shell' = "read"
    /\ UNCHANGED <<sent, hw, ring, sem, handler, mie, rx_indicate, ch, got>>

\* What the shell does with the byte; it takes as long as it takes.
Command ==
    /\ shell = "command" /\ isr = "none"
    /\ shell' = "read"
    /\ UNCHANGED <<sent, hw, ring, sem, handler, mie, rx_indicate, ch, got>>

Handler == TrapEntry \/ Claim \/ UartLsr \/ UartRbr \/ Complete
Startup == \/ PlicInit \/ UartInit \/ PlicRegister \/ StartScheduler
           \/ UartOpen \/ SetRxIndicate
Shell == ReadCopy \/ ReadAdvance \/ SemTake \/ Schedule \/ Command

Next == Receive \/ PlicClock \/ IrqSync \/ Handler \/ Startup \/ Shell

(***************************************************************************)
(* Fairness: clocks run, a handler once entered goes on, and the shell is  *)
(* scheduled: nothing of higher priority runs for ever in this image.      *)
(***************************************************************************)
Fairness ==
    /\ WF_vars(PlicClock) /\ WF_vars(IrqSync)
    /\ WF_vars(Handler) /\ WF_vars(Startup) /\ WF_vars(Shell)

Spec == Init /\ [][Next]_vars
FairSpec == Spec /\ Fairness

(***************************************************************************)
(* Properties.                                                             *)
(***************************************************************************)
Bytes == 1..MaxBytes
Steps == {"none", "claim", "lsr", "rbr", "complete"}
ShellSteps == {"plic_init", "uart_init", "plic_register", "start", "open",
               "indicate", "read", "advance", "take", "schedule", "command"}

\* Types; the FIFO and the count of the semaphore keep to their limits.
TypeOK ==
    /\ sent \in 0..MaxBytes
    /\ fifo \in Seq(Bytes) /\ Len(fifo) <= FIFO_DEPTH
    /\ {ier, pending, enable, irq, mie, received, rx_indicate, sem_waiting}
         \subseteq BOOLEAN
    /\ isr \in Steps /\ dispatch_count \in 0..DISPATCH_MAX
    /\ rx_buffer \in [Slots -> 0..MaxBytes]
    /\ rx_head \in Slots /\ rx_tail \in Slots
    /\ sem_value \in 0..SEM_VALUE_MAX
    /\ shell \in ShellSteps /\ ch \in 0..MaxBytes /\ got \in Seq(Bytes)

RingLen == (rx_head + UART_RX_BUFFER_SIZE - rx_tail) % UART_RX_BUFFER_SIZE
RingContent ==
    [i \in 1..RingLen |->
        rx_buffer[(rx_tail + i - 1) % UART_RX_BUFFER_SIZE]]
Held == RingContent \o fifo

Stream == INSTANCE YdrasilStream WITH held <- Held

\* The FIFO, the ring filled by uart0_irq and emptied by uart_read without
\* a lock, and finsh_getchar are together an order-preserving stream: the
\* slot uart_read copies is not overwritten before it moves the tail.
ImplementsStream == Stream!Spec

\* uart0_irq drops a byte only when the ring really holds all it can, the
\* FIFO only when it is full; nothing else but uart_init loses a byte.
LossOnlyAtLimit ==
    [][Len(got') + Len(Held') < Len(got) + Len(Held) + (sent' - sent) =>
          \/ shell = "uart_init"
          \/ sent' # sent /\ Len(fifo) = FIFO_DEPTH
          \/ isr = "rbr" /\ Len(RingContent) = UART_RX_BUFFER_SIZE - 1]_vars

\* No lost wakeup: the shell does not sleep in rt_sem_take on a ring that
\* has bytes, unless the handler that put them there has yet to release.
NoLostWakeup ==
    sem_waiting /\ RingLen > 0 => isr \in {"lsr", "rbr"} /\ received

\* A byte in the FIFO is fetched by the handler, and a byte in the ring
\* reaches the shell: no interrupt is lost between claim, completion and
\* the level of the source, none at the dispatch limit of mext_isr.
InputReachesShell ==
    \A n \in Bytes :
        /\ (\E i \in DOMAIN fifo : fifo[i] = n) ~>
              ~(\E i \in DOMAIN fifo : fifo[i] = n)
        /\ (\E i \in 1..RingLen : RingContent[i] = n) ~>
              (\E i \in DOMAIN got : got[i] = n)

\* The receive path as a whole: FIFO, ring and semaphore within their limits,
\* and no thread asleep on input that nobody is about to announce.
ConsoleInv == TypeOK /\ NoLostWakeup
=============================================================================
