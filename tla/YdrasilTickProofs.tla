------------------------- MODULE YdrasilTickProofs -------------------------
(***************************************************************************)
(* Proofs about the system tick, for every width of the half-word, every   *)
(* tick length and every last value of the counter: a 64-bit value read or *)
(* written in halves beside a running counter is never seen torn.          *)
(***************************************************************************)
EXTENDS YdrasilTick, TLAPS

(***************************************************************************)
(* Halves.                                                                 *)
(***************************************************************************)

\* A quotient and a remainder are the only ones.
LEMMA DivUnique ==
    ASSUME NEW w \in Nat \ {0}, NEW q \in Nat, NEW q2 \in Nat,
           NEW r \in 0..w - 1, NEW r2 \in 0..w - 1,
           q * w + r = q2 * w + r2
    PROVE  q = q2 /\ r = r2
<1>1. CASE q < q2
  <2>1. q2 >= q + 1 BY <1>1
  <2>2. q2 * w >= (q + 1) * w BY <2>1, SMT
  <2>3. (q + 1) * w = q * w + w BY SMT
  <2>4. q * w \in Nat /\ q2 * w \in Nat BY SMT
  <2> QED BY <2>2, <2>3, <2>4
<1>2. CASE q2 < q
  <2>1. q >= q2 + 1 BY <1>2
  <2>2. q * w >= (q2 + 1) * w BY <2>1, SMT
  <2>3. (q2 + 1) * w = q2 * w + w BY SMT
  <2>4. q * w \in Nat /\ q2 * w \in Nat BY SMT
  <2> QED BY <2>2, <2>3, <2>4
<1>3. CASE q = q2 BY <1>3, SMT
<1> QED BY <1>1, <1>2, <1>3

\* A value is its two halves, and the low half fits its register.
LEMMA Halves ==
    ASSUME NEW v \in Nat
    PROVE  /\ Hi(v) \in Nat /\ Lo(v) \in 0..WORD - 1
           /\ v = Join(Hi(v), Lo(v))
<1>1. WORD \in Nat \ {0} BY TickAssumption
<1>2. v % WORD \in 0..WORD - 1 BY <1>1, SMT
<1>3. v \div WORD \in Nat BY <1>1, SMT
<1>4. v = (v \div WORD) * WORD + (v % WORD) BY <1>1, SMT
<1> QED BY <1>2, <1>3, <1>4 DEF Hi, Lo, Join

\* A value put together from halves is in range and gives them back.
LEMMA Joined ==
    ASSUME NEW hi \in Nat, NEW lo \in 0..WORD - 1
    PROVE  Join(hi, lo) \in Nat /\ Hi(Join(hi, lo)) = hi /\ Lo(Join(hi, lo)) = lo
<1> DEFINE v == Join(hi, lo)
<1>1. WORD \in Nat \ {0} BY TickAssumption
<1>2. v \in Nat BY <1>1, SMT DEF Join
<1>3. /\ Hi(v) \in Nat /\ Lo(v) \in 0..WORD - 1
      /\ v = Hi(v) * WORD + Lo(v)
  BY <1>2, Halves DEF Join
<1>4. v = hi * WORD + lo BY DEF Join
<1>5. Hi(v) = hi /\ Lo(v) = lo
  <2> HIDE DEF v
  <2> QED BY <1>1, <1>3, <1>4, DivUnique
<1> QED BY <1>2, <1>5

\* The high half grows with the value.
LEMMA HighMonotone ==
    ASSUME NEW a \in Nat, NEW b \in Nat, a <= b
    PROVE  Hi(a) <= Hi(b)
<1>1. WORD \in Nat \ {0} BY TickAssumption
<1>2. /\ Hi(a) \in Nat /\ Lo(a) \in 0..WORD - 1 /\ a = Hi(a) * WORD + Lo(a)
      /\ Hi(b) \in Nat /\ Lo(b) \in 0..WORD - 1 /\ b = Hi(b) * WORD + Lo(b)
  BY Halves DEF Join
<1>3. SUFFICES ASSUME Hi(a) >= Hi(b) + 1 PROVE FALSE BY <1>2
<1>4. Hi(a) * WORD >= (Hi(b) + 1) * WORD BY <1>1, <1>2, <1>3, SMT
<1>5. (Hi(b) + 1) * WORD = Hi(b) * WORD + WORD BY <1>1, <1>2, SMT
<1>6. Hi(a) * WORD \in Nat /\ Hi(b) * WORD \in Nat BY <1>1, <1>2, SMT
<1> QED BY <1>1, <1>2, <1>4, <1>5, <1>6

\* The high half of a 64-bit value fits its register.
LEMMA HighFits ==
    ASSUME NEW v \in Times
    PROVE  Hi(v) \in 0..WORD - 1
<1>1. WORD \in Nat \ {0} BY TickAssumption
<1>2. v \in Nat /\ v < WORD * WORD BY <1>1, SMT DEF Times
<1>3. Hi(v) \in Nat /\ Lo(v) \in Nat /\ v = Hi(v) * WORD + Lo(v)
  BY <1>1, <1>2, Halves, SMT DEF Join
<1>4. SUFFICES ASSUME Hi(v) >= WORD PROVE FALSE BY <1>1, <1>3
<1>5. Hi(v) * WORD >= WORD * WORD BY <1>1, <1>3, <1>4, SMT
<1>6. Hi(v) * WORD \in Nat /\ WORD * WORD \in Nat BY <1>1, <1>3, SMT
<1> QED BY <1>2, <1>3, <1>5, <1>6

\* Two register halves make a 64-bit value.
LEMMA JoinFits ==
    ASSUME NEW hi \in 0..WORD - 1, NEW lo \in 0..WORD - 1
    PROVE  Join(hi, lo) \in Times
<1>1. WORD \in Nat \ {0} BY TickAssumption
<1>2. hi * WORD <= (WORD - 1) * WORD BY <1>1, SMT
<1>3. (WORD - 1) * WORD = WORD * WORD - WORD BY <1>1, SMT
<1>4. hi * WORD \in Nat /\ WORD * WORD \in Nat BY <1>1, SMT
<1> QED BY <1>1, <1>2, <1>3, <1>4 DEF Join, Times

\* The counter is below any value whose high half is all ones.
LEMMA CounterBelowMax ==
    ASSUME NEW lo \in 0..WORD - 1, NEW t \in 0..MaxTime
    PROVE  t < Join(WORD - 1, lo)
<1>1. /\ WORD \in Nat \ {0} /\ MaxTime \in Nat /\ tick_cycles \in Nat
      /\ MaxTime + tick_cycles < WORD * (WORD - 1)
  BY TickAssumption
<1>2. WORD * (WORD - 1) = (WORD - 1) * WORD /\ (WORD - 1) * WORD \in Nat
  BY <1>1, SMT
<1> QED BY <1>1, <1>2 DEF Join

(***************************************************************************)
(* The inductive invariant.                                                *)
(***************************************************************************)
Writing == {"cmp_max", "cmp_low", "cmp_high"}

\* Ticks due when the handler that is running, if one is, will have ended.
Due == IF mtie THEN rt_tick + 1 ELSE rt_tick

\* What mtime_read knows between its loads: the high half is that of its
\* first load, the low half that of a later time.
ReadInv ==
    /\ driver \in {"low", "high_after"} =>
          read_start <= mtime /\ high_before = Hi(read_start)
    /\ driver = "high_after" => \E t \in read_start..mtime : low = Lo(t)

\* What mtimecmp_write has stored so far.
WriteInv ==
    /\ driver \in {"cmp_low", "cmp_high"} => Hi(mtimecmp) = WORD - 1
    /\ driver = "cmp_high" => Lo(mtimecmp) = Lo(value)
    /\ driver \in {"idle", "tick"} => mtimecmp = deadline

\* How far the tick count and the deadline are from the counter: the handler
\* runs only when its tick is due, and asks for the next one a tick later
\* than a time it has read.
PaceInv ==
    /\ driver \in {"idle", "tick"} => mtie
    /\ rt_tick * tick_cycles <= mtime
    /\ driver # "idle" => Due * tick_cycles <= mtime
    /\ driver \in {"low", "high_after"} => Due * tick_cycles <= read_start
    /\ driver \in Writing => (Due + 1) * tick_cycles <= value
    /\ driver = "tick" => (rt_tick + 2) * tick_cycles <= deadline
    /\ driver = "idle" => (rt_tick + 1) * tick_cycles <= deadline

TickInd == TickTypeOK /\ ReadIsATime /\ ReadInv /\ WriteInv /\ PaceInv

\* The multiples of the tick length that the proofs use.
LEMMA Multiples ==
    ASSUME NEW n \in Nat
    PROVE  /\ n * tick_cycles \in Nat /\ n <= n * tick_cycles
           /\ (n + 1) * tick_cycles = n * tick_cycles + tick_cycles
           /\ (n + 2) * tick_cycles = n * tick_cycles + 2 * tick_cycles
<1>1. tick_cycles \in Nat \ {0} BY TickAssumption
<1>2. n * tick_cycles \in Nat BY <1>1, SMT
<1>3. n <= n * tick_cycles BY <1>1, SMT
<1>4. (n + 1) * tick_cycles = n * tick_cycles + tick_cycles BY <1>1, SMT
<1>5. (n + 2) * tick_cycles = n * tick_cycles + 2 * tick_cycles BY <1>1, SMT
<1> QED BY <1>2, <1>3, <1>4, <1>5

\* The constants as the proofs of the actions use them.
LEMMA Widths ==
    /\ WORD \in Nat /\ WORD >= 2 /\ tick_cycles \in Nat /\ tick_cycles >= 1
    /\ MaxTime \in Nat /\ WORD * WORD \in Nat
    /\ MaxTime + tick_cycles < WORD * WORD - 1
<1>1. /\ WORD \in Nat \ {0, 1} /\ tick_cycles \in Nat \ {0}
      /\ MaxTime \in Nat /\ MaxTime + tick_cycles < WORD * (WORD - 1)
  BY TickAssumption
<1>2. WORD * (WORD - 1) = WORD * WORD - WORD /\ WORD * WORD \in Nat
  BY <1>1, SMT
<1> QED BY <1>1, <1>2

\* ReadHighAfter finds the high half unchanged: what it puts together is the
\* time at which the low half was read.
LEMMA ReadJoins ==
    ASSUME NEW s \in Nat, NEW m \in Nat, NEW t \in s..m, Hi(s) = Hi(m)
    PROVE  Join(Hi(m), Lo(t)) = t
<1>1. t \in Nat /\ s <= t /\ t <= m OBVIOUS
<1>2. Hi(s) <= Hi(t) /\ Hi(t) <= Hi(m) BY <1>1, HighMonotone
<1>3. Hi(t) \in Nat /\ Hi(m) \in Nat /\ t = Join(Hi(t), Lo(t))
  BY <1>1, Halves
<1>4. Hi(t) = Hi(m) BY <1>2, <1>3
<1> QED BY <1>3, <1>4

\* Reset establishes the invariant.
LEMMA TickInitInd == TickInit => TickInd
<1> SUFFICES ASSUME TickInit PROVE TickInd OBVIOUS
<1>1. TickTypeOK
  <2>1. WORD * WORD - 1 \in Times /\ 0 \in Times BY Widths DEF Times
  <2>2. 0 \in 0..MaxTime /\ 0 \in 0..WORD - 1 BY Widths
  <2> QED BY <2>1, <2>2, Zenon DEF TickInit, TickTypeOK, DriverSteps
<1>2. Due * tick_cycles = 0 /\ rt_tick * tick_cycles = 0
  <2>1. Due = 0 /\ rt_tick = 0 BY DEF TickInit, Due
  <2>2. 0 * tick_cycles = 0 BY Widths, SMT
  <2> QED BY <2>1, <2>2
<1>3. PaceInv BY <1>2, Widths DEF TickInit, PaceInv, Writing
<1> QED BY <1>1, <1>3 DEF TickInit, TickInd, ReadIsATime, ReadInv, WriteInv

\* Each action keeps the invariant.
LEMMA ClockInd == TickInd /\ Clock => TickInd'
<1> SUFFICES ASSUME TickInd, Clock PROVE TickInd' OBVIOUS
<1> USE Widths DEF TickInd, Clock
<1>1. TickTypeOK' BY DEF TickTypeOK
<1>2. ReadIsATime' BY DEF TickTypeOK, ReadIsATime, Times
<1>3. ReadInv'
  <2>1. ASSUME driver = "high_after"
        PROVE  \E t \in read_start..mtime + 1 : low = Lo(t)
    <3>1. PICK t \in read_start..mtime : low = Lo(t) BY <2>1 DEF ReadInv
    <3>2. t \in read_start..mtime + 1 BY <3>1 DEF TickTypeOK
    <3> QED BY <3>1, <3>2
  <2> QED BY <2>1 DEF ReadInv, TickTypeOK, Hi, Lo
<1>4. WriteInv' BY DEF WriteInv, Hi, Lo
<1>5. PaceInv'
  <2>1. rt_tick * tick_cycles \in Nat /\ Due \in Nat /\ Due * tick_cycles \in Nat
    BY Multiples DEF TickTypeOK, Due
  <2>2. Due' = Due BY DEF Due
  <2> QED BY <2>1, <2>2 DEF PaceInv, TickTypeOK
<1> QED BY <1>1, <1>2, <1>3, <1>4, <1>5

\* Entering the handler keeps the invariant.
LEMMA TimerEntryInd == TickInd /\ TimerEntry => TickInd'
<1> SUFFICES ASSUME TickInd, TimerEntry PROVE TickInd' OBVIOUS
<1> USE Widths DEF TickInd, TimerEntry, clint
<1>1. TickTypeOK' BY DEF TickTypeOK, DriverSteps
<1>2. ReadIsATime' /\ ReadInv' /\ WriteInv'
  BY DEF ReadIsATime, ReadInv, WriteInv
<1>3. PaceInv'
  <2>1. (rt_tick + 1) * tick_cycles <= mtime
    <3>1. (rt_tick + 1) * tick_cycles \in Nat BY Multiples DEF TickTypeOK
    <3> QED BY <3>1 DEF PaceInv, WriteInv, timer_irq, TickTypeOK, Times
  <2>2. Due' = rt_tick + 1 BY DEF Due
  <2> QED BY <2>1, <2>2 DEF PaceInv, Writing
<1> QED BY <1>1, <1>2, <1>3

\* The first read of the high half keeps the invariant.
LEMMA ReadHighBeforeInd == TickInd /\ ReadHighBefore => TickInd'
<1> SUFFICES ASSUME TickInd, ReadHighBefore PROVE TickInd' OBVIOUS
<1> USE Widths DEF TickInd, ReadHighBefore, clint
<1>1. Hi(mtime) \in 0..WORD - 1 BY HighFits DEF TickTypeOK, Times
<1>2. TickTypeOK' BY <1>1 DEF TickTypeOK, DriverSteps
<1>3. ReadIsATime' /\ WriteInv' BY DEF ReadIsATime, WriteInv
<1>4. ReadInv'
  <2>1. mtime' <= mtime BY DEF TickTypeOK
  <2> QED BY <2>1 DEF ReadInv, Hi
<1>5. PaceInv' BY DEF PaceInv, Writing, Due
<1> QED BY <1>2, <1>3, <1>4, <1>5

\* The read of the low half keeps the invariant.
LEMMA ReadLowInd == TickInd /\ ReadLow => TickInd'
<1> SUFFICES ASSUME TickInd, ReadLow PROVE TickInd' OBVIOUS
<1> USE Widths DEF TickInd, ReadLow, clint
<1>1. Lo(mtime) \in 0..WORD - 1 BY Halves DEF TickTypeOK
<1>2. TickTypeOK' BY <1>1 DEF TickTypeOK, DriverSteps
<1>3. ReadIsATime' /\ WriteInv' BY DEF ReadIsATime, WriteInv
<1>4. ReadInv'
  <2>1. read_start <= mtime /\ high_before = Hi(read_start) BY DEF ReadInv
  <2>2. mtime \in read_start..mtime BY <2>1 DEF TickTypeOK
  <2> QED BY <2>1, <2>2 DEF ReadInv, Hi, Lo
<1>5. PaceInv' BY DEF PaceInv, Writing, Due
<1> QED BY <1>2, <1>3, <1>4, <1>5

\* The second read of the high half keeps the invariant: equal halves
\* enclose a low half that belongs to them.
LEMMA ReadHighAfterInd == TickInd /\ ReadHighAfter => TickInd'
<1> SUFFICES ASSUME TickInd, ReadHighAfter PROVE TickInd' OBVIOUS
<1> USE Widths DEF TickInd, clint
<1>1. CASE high_before # Hi(mtime)
  <2>1. TickTypeOK' BY <1>1 DEF ReadHighAfter, TickTypeOK, DriverSteps
  <2>2. ReadIsATime' /\ ReadInv' /\ WriteInv'
    BY <1>1 DEF ReadHighAfter, ReadIsATime, ReadInv, WriteInv
  <2>3. PaceInv' BY <1>1 DEF ReadHighAfter, PaceInv, Writing, Due
  <2> QED BY <2>1, <2>2, <2>3
<1>2. CASE high_before = Hi(mtime)
  <2>1. /\ driver = "high_after" /\ driver' = "cmp_max"
        /\ value' = Join(Hi(mtime), low) + tick_cycles
        /\ UNCHANGED <<clint, mtie, high_before, low, rt_tick, deadline,
                       read_start>>
    BY <1>2 DEF ReadHighAfter
  <2>2. PICK t \in read_start..mtime : low = Lo(t) BY <2>1 DEF ReadInv
  <2>3. value' = t + tick_cycles
    BY <1>2, <2>1, <2>2, ReadJoins DEF ReadInv, TickTypeOK
  <2>4. TickTypeOK'
    BY <2>1, <2>2, <2>3 DEF TickTypeOK, DriverSteps, Times
  <2>5. ReadIsATime' BY <2>1, <2>2, <2>3 DEF ReadIsATime, TickTypeOK
  <2>6. ReadInv' /\ WriteInv' BY <2>1 DEF ReadInv, WriteInv
  <2>7. PaceInv'
    <3>1. Due \in Nat BY DEF Due, TickTypeOK
    <3>2. Due * tick_cycles \in Nat
          /\ (Due + 1) * tick_cycles = Due * tick_cycles + tick_cycles
      BY <3>1, Multiples
    <3>3. (Due + 1) * tick_cycles <= value'
      BY <2>1, <2>2, <2>3, <3>2 DEF PaceInv, TickTypeOK
    <3>4. Due' = Due BY <2>1 DEF Due
    <3> QED BY <2>1, <3>3, <3>4 DEF PaceInv
  <2> QED BY <2>4, <2>5, <2>6, <2>7
<1> QED BY <1>1, <1>2

\* Writing all ones into the high half of the compare register keeps the
\* invariant.
LEMMA CompareMaxInd == TickInd /\ CompareMax => TickInd'
<1> SUFFICES ASSUME TickInd, CompareMax PROVE TickInd' OBVIOUS
<1> USE Widths DEF TickInd, CompareMax
<1>1. WORD - 1 \in 0..WORD - 1 /\ Lo(mtimecmp) \in 0..WORD - 1
  BY Halves DEF TickTypeOK, Times
<1>2. mtimecmp' \in Times BY <1>1, JoinFits
<1>3. TickTypeOK' BY <1>2 DEF TickTypeOK, DriverSteps
<1>4. Hi(mtimecmp') = WORD - 1 BY <1>1, Joined
<1>5. ReadIsATime' /\ ReadInv' BY DEF ReadIsATime, ReadInv
<1>6. WriteInv' BY <1>4 DEF WriteInv, Hi
<1>7. PaceInv' BY DEF PaceInv, Writing, Due
<1> QED BY <1>3, <1>5, <1>6, <1>7

\* Writing the low half of the deadline keeps the invariant.
LEMMA CompareLowInd == TickInd /\ CompareLow => TickInd'
<1> SUFFICES ASSUME TickInd, CompareLow PROVE TickInd' OBVIOUS
<1> USE Widths DEF TickInd, CompareLow
<1>1. WORD - 1 \in 0..WORD - 1 /\ Lo(value) \in 0..WORD - 1
  BY Halves DEF TickTypeOK, Times
<1>2. mtimecmp' = Join(WORD - 1, Lo(value)) BY DEF WriteInv
<1>3. mtimecmp' \in Times BY <1>1, <1>2, JoinFits
<1>4. TickTypeOK' BY <1>3 DEF TickTypeOK, DriverSteps
<1>5. Hi(mtimecmp') = WORD - 1 /\ Lo(mtimecmp') = Lo(value)
  BY <1>1, <1>2, Joined
<1>6. ReadIsATime' /\ ReadInv' BY DEF ReadIsATime, ReadInv
<1>7. WriteInv' BY <1>5 DEF WriteInv, Hi, Lo
<1>8. PaceInv' BY DEF PaceInv, Writing, Due
<1> QED BY <1>4, <1>6, <1>7, <1>8

\* The store that completes the deadline keeps the invariant.
LEMMA CompareHighInd == TickInd /\ CompareHigh => TickInd'
<1> SUFFICES ASSUME TickInd, CompareHigh PROVE TickInd' OBVIOUS
<1> USE Widths DEF TickInd, CompareHigh
<1>1. mtimecmp' = value
  BY Halves DEF WriteInv, TickTypeOK, Times
<1>2. TickTypeOK' BY <1>1 DEF TickTypeOK, DriverSteps
<1>3. ReadIsATime' /\ ReadInv' /\ WriteInv'
  BY <1>1 DEF ReadIsATime, ReadInv, WriteInv
<1>4. PaceInv'
  <2>1. CASE mtie
    <3>1. Due = rt_tick + 1 /\ Due' = rt_tick + 1 BY <2>1 DEF Due
    <3>2. Due + 1 = rt_tick + 2 BY <3>1 DEF TickTypeOK
    <3> QED BY <2>1, <3>1, <3>2 DEF PaceInv, Writing
  <2>2. CASE ~mtie
    <3>1. Due = rt_tick BY <2>2 DEF Due
    <3> QED BY <2>2, <3>1 DEF PaceInv, Writing
  <2> QED BY <2>1, <2>2
<1> QED BY <1>2, <1>3, <1>4

\* Counting the tick keeps the invariant.
LEMMA TickIncreaseInd == TickInd /\ TickIncrease => TickInd'
<1> SUFFICES ASSUME TickInd, TickIncrease PROVE TickInd' OBVIOUS
<1> USE Widths DEF TickInd, TickIncrease, clint
<1>1. mtie /\ Due = rt_tick + 1 BY DEF PaceInv, Due
<1>2. rt_tick' \in Nat /\ rt_tick' * tick_cycles <= mtime
  BY <1>1 DEF PaceInv, TickTypeOK
<1>3. rt_tick' <= MaxTime
  <2>1. rt_tick' * tick_cycles \in Nat /\ rt_tick' <= rt_tick' * tick_cycles
    BY <1>2, Multiples
  <2> QED BY <1>2, <2>1 DEF TickTypeOK
<1>4. TickTypeOK' BY <1>2, <1>3 DEF TickTypeOK, DriverSteps
<1>5. ReadIsATime' /\ ReadInv' BY DEF ReadIsATime, ReadInv
<1>6. WriteInv' BY DEF WriteInv
<1>7. PaceInv'
  <2>1. rt_tick' + 1 = rt_tick + 2 BY DEF TickTypeOK
  <2> QED BY <1>1, <1>2, <2>1 DEF PaceInv, Writing
<1> QED BY <1>4, <1>5, <1>6, <1>7

\* Every step keeps the invariant.
LEMMA TickNextInd == TickInd /\ [TickNext]_tick_vars => TickInd'
<1> SUFFICES ASSUME TickInd, [TickNext]_tick_vars PROVE TickInd' OBVIOUS
<1>1. CASE UNCHANGED tick_vars
  BY <1>1 DEF tick_vars, clint, TickInd, TickTypeOK, ReadIsATime, ReadInv,
              WriteInv, PaceInv, Due, Hi, Lo
<1>2. CASE DriverStep
  BY <1>2, ReadHighBeforeInd, ReadLowInd, ReadHighAfterInd, CompareMaxInd,
     CompareLowInd, CompareHighInd, TickIncreaseInd DEF DriverStep
<1> QED BY <1>1, <1>2, ClockInd, TimerEntryInd DEF TickNext

\* Every reachable state of the driver and the CLINT satisfies the invariant.
THEOREM TickInductive == TickSpec => []TickInd
BY TickInitInd, TickNextInd, PTL DEF TickSpec

\* mtime_read returns a time of its own interval even when the low half wraps
\* between its loads, mtimecmp_write raises no interrupt between its stores,
\* and halves, values and the tick count keep their width.
THEOREM TickSafe == TickSpec => []TickInv
<1>1. TickInd => TickInv
  <2> SUFFICES ASSUME TickInd PROVE TickInv OBVIOUS
  <2>1. QuietWhileWriting
    <3> SUFFICES ASSUME driver \in {"cmp_low", "cmp_high"}
                 PROVE  mtime < mtimecmp
      BY Widths DEF QuietWhileWriting, timer_irq, TickInd, TickTypeOK, Times
    <3>1. Hi(mtimecmp) = WORD - 1 BY DEF TickInd, WriteInv
    <3>2. Lo(mtimecmp) \in 0..WORD - 1
          /\ mtimecmp = Join(WORD - 1, Lo(mtimecmp))
      BY <3>1, Widths, Halves DEF TickInd, TickTypeOK, Times
    <3> QED BY <3>2, CounterBelowMax DEF TickInd, TickTypeOK
  <2> QED BY <2>1 DEF TickInv, TickInd
<1> QED BY <1>1, TickInductive, PTL

\* rt_tick never runs ahead of the counter, and while the driver is idle the
\* next tick is at least a tick length after the last one counted: neither a
\* torn read in mtime_read nor a half-written compare value gives one early.
THEOREM TickNeverAhead == TickSpec => []TickNotAhead
<1>1. TickInd => TickNotAhead BY DEF TickInd, PaceInv, TickNotAhead
<1> QED BY <1>1, TickInductive, PTL

=============================================================================
