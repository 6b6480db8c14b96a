---------------------------- MODULE YdrasilTick ----------------------------
(***************************************************************************)
(* The system tick: ydrasil_clint.sv with its 64-bit counter and compare   *)
(* value, reached in 32-bit halves, and the driver drv_mtime.c: mtime_read,*)
(* mtimecmp_write, mtime_isr and ydrasil_tick_init.  Between any two       *)
(* register accesses of the driver the counter may run on.                 *)
(* WORD stands for 2^32: a value is hi * WORD + lo.                        *)
(***************************************************************************)
EXTENDS Naturals

CONSTANTS
    WORD, tick_cycles,
    MaxTime         \* bound: the counter's last value

\* The counter stays off the top half-word, where it would take 2^64 clocks
\* to come.
ASSUME TickAssumption ==
    /\ WORD \in Nat \ {0, 1} /\ tick_cycles \in Nat \ {0}
    /\ MaxTime \in Nat /\ MaxTime + tick_cycles < WORD * (WORD - 1)

VARIABLES
    mtime, mtimecmp,
    driver,         \* next step of the driver, "idle" outside it
    mtie,           \* MIE.MTIE
    high_before, low, value,
    rt_tick,
    deadline,       \* history: the value last written in full
    read_start      \* history: the counter when mtime_read began

clint == <<mtime, mtimecmp>>
tick_vars == <<clint, driver, mtie, high_before, low, value, rt_tick,
               deadline, read_start>>

Hi(v) == v \div WORD
Lo(v) == v % WORD
Join(hi, lo) == hi * WORD + lo

TickInit ==
    /\ mtime = 0 /\ mtimecmp = WORD * WORD - 1
    /\ driver = "high_before" /\ mtie = FALSE
    /\ high_before = 0 /\ low = 0 /\ value = 0 /\ rt_tick = 0
    /\ deadline = WORD * WORD - 1 /\ read_start = 0

timer_irq == mtime >= mtimecmp

Clock ==
    /\ mtime < MaxTime /\ mtime' = mtime + 1
    /\ UNCHANGED <<mtimecmp, driver, mtie, high_before, low, value, rt_tick,
                   deadline, read_start>>

\* Entry of mtime_isr.
TimerEntry ==
    /\ driver = "idle" /\ mtie /\ timer_irq
    /\ driver' = "high_before"
    /\ UNCHANGED <<clint, mtie, high_before, low, value, rt_tick, deadline,
                   read_start>>

ReadHighBefore ==
    /\ driver = "high_before" /\ driver' = "low"
    /\ high_before' = Hi(mtime) /\ read_start' = mtime
    /\ UNCHANGED <<clint, mtie, low, value, rt_tick, deadline>>

ReadLow ==
    /\ driver = "low" /\ driver' = "high_after"
    /\ low' = Lo(mtime)
    /\ UNCHANGED <<clint, mtie, high_before, value, rt_tick, deadline,
                   read_start>>

\* Slip: the halves are taken without looking at the high half again.
ReadOnce ==
    /\ driver = "high_after" /\ driver' = "cmp_max"
    /\ value' = Join(high_before, low) + tick_cycles
    /\ UNCHANGED <<clint, mtie, high_before, low, rt_tick, deadline,
                   read_start>>
ReadHighAfter ==
    /\ driver = "high_after"
    /\ IF high_before = Hi(mtime)
       THEN /\ driver' = "cmp_max"
            /\ value' = Join(Hi(mtime), low) + tick_cycles
       ELSE driver' = "high_before" /\ UNCHANGED value
    /\ UNCHANGED <<clint, mtie, high_before, low, rt_tick, deadline,
                   read_start>>

\* Slip: the low half first, against the old high half.
CompareNoMax ==
    /\ driver = "cmp_max" /\ driver' = "cmp_low"
    /\ UNCHANGED <<mtime, mtimecmp, mtie, high_before, low, value, rt_tick,
                   deadline, read_start>>
CompareMax ==
    /\ driver = "cmp_max" /\ driver' = "cmp_low"
    /\ mtimecmp' = Join(WORD - 1, Lo(mtimecmp))
    /\ UNCHANGED <<mtime, mtie, high_before, low, value, rt_tick, deadline,
                   read_start>>

CompareLow ==
    /\ driver = "cmp_low" /\ driver' = "cmp_high"
    /\ mtimecmp' = Join(Hi(mtimecmp), Lo(value))
    /\ UNCHANGED <<mtime, mtie, high_before, low, value, rt_tick, deadline,
                   read_start>>

\* Slip: the high half is left at its maximum.
CompareHighForgotten ==
    /\ driver = "cmp_high"
    /\ deadline' = value
    /\ IF mtie THEN driver' = "tick" /\ UNCHANGED mtie
       ELSE driver' = "idle" /\ mtie' = TRUE
    /\ UNCHANGED <<clint, high_before, low, value, rt_tick, read_start>>
\* The last store; in ydrasil_tick_init the interrupt is enabled next.
CompareHigh ==
    /\ driver = "cmp_high"
    /\ mtimecmp' = Join(Hi(value), Lo(mtimecmp))
    /\ deadline' = value
    /\ IF mtie THEN driver' = "tick" /\ UNCHANGED mtie
       ELSE driver' = "idle" /\ mtie' = TRUE
    /\ UNCHANGED <<mtime, high_before, low, value, rt_tick, read_start>>

\* rt_tick_increase and the return from the handler.
TickIncrease ==
    /\ driver = "tick" /\ driver' = "idle"
    /\ rt_tick' = rt_tick + 1
    /\ UNCHANGED <<clint, mtie, high_before, low, value, deadline, read_start>>

DriverStep == \/ ReadHighBefore \/ ReadLow \/ ReadHighAfter
              \/ CompareMax \/ CompareLow \/ CompareHigh \/ TickIncrease
TickNext == Clock \/ TimerEntry \/ DriverStep

TickSpec == TickInit /\ [][TickNext]_tick_vars
            /\ WF_tick_vars(TimerEntry) /\ WF_tick_vars(DriverStep)

(***************************************************************************)
(* Properties.                                                             *)
(***************************************************************************)
Times == 0..WORD * WORD - 1
DriverSteps == {"idle", "high_before", "low", "high_after",
                "cmp_max", "cmp_low", "cmp_high", "tick"}

\* Types.
TickTypeOK ==
    /\ mtime \in 0..MaxTime /\ mtimecmp \in Times
    /\ driver \in DriverSteps /\ mtie \in BOOLEAN
    /\ high_before \in 0..WORD - 1 /\ low \in 0..WORD - 1
    /\ value \in Times /\ rt_tick \in 0..MaxTime
    /\ deadline \in Times /\ read_start \in 0..MaxTime

\* mtime_read returns a value the counter had while it ran, also when the
\* low half wraps between its accesses.
ReadIsATime ==
    driver = "cmp_max" =>
        value - tick_cycles >= read_start /\ value - tick_cycles <= mtime

\* While mtimecmp_write is between its stores the interrupt line stays low,
\* whatever halves the compare value is made of.
QuietWhileWriting == driver \in {"cmp_low", "cmp_high"} => ~timer_irq

\* The tick is never ahead of the time: a store of one half, or a torn read,
\* never brings a tick before tick_cycles have passed since the last.
TickNotAhead ==
    /\ rt_tick * tick_cycles <= mtime
    /\ driver = "idle" => (rt_tick + 1) * tick_cycles <= deadline

\* Once the time is there, the tick is counted.
TickServed ==
    \A n \in 0..MaxTime :
        (driver = "idle" /\ rt_tick = n /\ mtime >= deadline) ~> rt_tick > n

\* The driver as a whole: halves and values keep their width, what mtime_read
\* returns is a time of its own interval, and no compare value that is half
\* old and half new raises the interrupt.
TickInv == TickTypeOK /\ ReadIsATime /\ QuietWhileWriting
=============================================================================
