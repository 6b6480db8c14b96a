------------------------ MODULE YdrasilConsoleProofs ------------------------
(***************************************************************************)
(* Proofs about the console input path, for every FIFO depth, ring size,   *)
(* dispatch limit and semaphore limit: the path is an order-preserving     *)
(* stream, it loses bytes only at its limits, and it loses no wakeup.      *)
(***************************************************************************)
EXTENDS YdrasilConsole, SequenceTheorems, TLAPS

N == UART_RX_BUFFER_SIZE

(***************************************************************************)
(* The ring.                                                               *)
(***************************************************************************)

\* A sum of two positions needs at most one turn around the ring.
LEMMA RingMod ==
    ASSUME NEW x \in 0..2 * N - 1
    PROVE  x % N = IF x < N THEN x ELSE x - N
<1>1. N \in Nat \ {0} BY ConsoleAssumption DEF N
<1>2. x % N \in 0..N - 1 /\ x \div N \in Nat BY <1>1, SMT
<1>3. x = (x \div N) * N + (x % N) BY <1>1, SMT
<1>4. CASE x \div N = 0 BY <1>1, <1>2, <1>3, <1>4, SMT
<1>5. CASE x \div N = 1 BY <1>1, <1>2, <1>3, <1>5, SMT
<1>6. CASE x \div N >= 2
  <2>1. (x \div N) * N >= 2 * N BY <1>1, <1>2, <1>6, SMT
  <2>2. (x \div N) * N \in Nat BY <1>1, <1>2, SMT
  <2> QED BY <1>1, <1>2, <1>3, <2>1, <2>2
<1> QED BY <1>2, <1>4, <1>5, <1>6

\* The distance from the tail to the head, and the next slot.
LEMMA RingDistance ==
    ASSUME NEW h \in Slots, NEW t \in Slots
    PROVE  /\ (h + N - t) % N = IF h >= t THEN h - t ELSE h + N - t
           /\ (h + N - t) % N \in 0..N - 1
<1>1. N \in Nat \ {0} BY ConsoleAssumption DEF N
<1>2. h + N - t \in 0..2 * N - 1 BY <1>1 DEF Slots, N
<1>3. h \in 0..N - 1 /\ t \in 0..N - 1 BY DEF Slots, N
<1>4. (h + N - t) % N = IF h + N - t < N THEN h + N - t ELSE h + N - t - N
  BY <1>1, <1>2, <1>3, RingMod
<1> QED BY <1>1, <1>3, <1>4

\* The next slot of the ring, without the remainder.
LEMMA NextSlotIs ==
    ASSUME NEW i \in Slots
    PROVE  /\ NextSlot(i) = IF i = N - 1 THEN 0 ELSE i + 1
           /\ NextSlot(i) \in Slots
<1>1. N \in Nat \ {0} BY ConsoleAssumption DEF N
<1>2. i \in 0..N - 1 BY DEF Slots, N
<1>3. i + 1 \in 0..2 * N - 1 BY <1>1, <1>2
<1>4. (i + 1) % N = IF i + 1 < N THEN i + 1 ELSE i + 1 - N
  BY <1>1, <1>2, <1>3, RingMod
<1> QED BY <1>1, <1>2, <1>4 DEF NextSlot, Slots, N

\* What the ring holds, oldest first, as a function of its registers.
Span(h, t) == (h + N - t) % N
At(t, i) == (t + i - 1) % N
Content(buf, h, t) == [i \in 1..Span(h, t) |-> buf[At(t, i)]]

\* The model's ring content is the content between its two pointers.
LEMMA RingIsContent ==
    RingLen = Span(rx_head, rx_tail)
    /\ RingContent = Content(rx_buffer, rx_head, rx_tail)
BY DEF RingLen, RingContent, Span, Content, At, N

\* Where the head is from the tail, and where the i-th byte is.
LEMMA SpanIs ==
    ASSUME NEW h \in Slots, NEW t \in Slots
    PROVE  /\ Span(h, t) = IF h >= t THEN h - t ELSE h + N - t
           /\ Span(h, t) \in 0..N - 1
BY RingDistance DEF Span

\* The slot of the i-th byte, without the remainder.
LEMMA AtIs ==
    ASSUME NEW t \in Slots, NEW i \in 1..N
    PROVE  /\ At(t, i) = IF t + i - 1 < N THEN t + i - 1 ELSE t + i - 1 - N
           /\ At(t, i) \in Slots
<1>1. N \in Nat \ {0} BY ConsoleAssumption DEF N
<1>2. t \in 0..N - 1 BY DEF Slots, N
<1>3. t + i - 1 \in 0..2 * N - 1 BY <1>1, <1>2
<1>4. (t + i - 1) % N = IF t + i - 1 < N THEN t + i - 1 ELSE t + i - 1 - N
  BY <1>1, <1>2, <1>3, RingMod
<1> QED BY <1>1, <1>2, <1>4 DEF At, Slots, N

\* A sequence is a function on an initial segment.
LEMMA FunctionIsSeq ==
    ASSUME NEW S, NEW n \in Nat, NEW f \in [1..n -> S]
    PROVE  f \in Seq(S) /\ Len(f) = n
OBVIOUS

\* uart0_irq with room: one byte more, at the end, and nothing overwritten.
LEMMA RingFilled ==
    ASSUME NEW buf \in [Slots -> 0..MaxBytes], NEW h \in Slots,
           NEW t \in Slots, NEW b \in Bytes, NextSlot(h) # t,
           Content(buf, h, t) \in Seq(Bytes)
    PROVE  Content([buf EXCEPT ![h] = b], NextSlot(h), t)
              = Append(Content(buf, h, t), b)
<1> DEFINE h2 == NextSlot(h)
           n == Span(h, t)
           old == Content(buf, h, t)
           buf2 == [buf EXCEPT ![h] = b]
           new == Content(buf2, h2, t)
<1>1. N \in Nat \ {0} /\ h \in 0..N - 1 /\ t \in 0..N - 1
  BY ConsoleAssumption DEF N, Slots
<1>2. n = (IF h >= t THEN h - t ELSE h + N - t) /\ n \in 0..N - 1
  BY SpanIs
<1>3. h2 \in Slots /\ h2 = (IF h = N - 1 THEN 0 ELSE h + 1) /\ h2 # t
  BY NextSlotIs
<1>4. \A j \in Slots : buf2[j] = IF j = h THEN b ELSE buf[j]
  OBVIOUS
<1>5. old \in Seq(Bytes) OBVIOUS
<1> HIDE DEF h2, buf2
<1>6. Span(h2, t) = n + 1 /\ n + 1 <= N - 1
  <2>1. Span(h2, t) = (IF h2 >= t THEN h2 - t ELSE h2 + N - t)
        /\ Span(h2, t) \in 0..N - 1
    BY <1>3, SpanIs
  <2> HIDE DEF n
  <2> QED BY <1>1, <1>2, <1>3, <2>1
<1>7. old = [i \in 1..n |-> buf[At(t, i)]] BY DEF Content
<1>8. new = [i \in 1..n + 1 |-> buf2[At(t, i)]] BY <1>6 DEF Content
<1> HIDE DEF n, old, new
<1>9. Len(old) = n
  <2>1. DOMAIN old = 1..Len(old) /\ Len(old) \in Nat BY <1>5, LenProperties
  <2> QED BY <1>2, <1>7, <2>1
<1>10. ASSUME NEW i \in 1..n
       PROVE  i \in 1..n + 1 /\ new[i] = old[i] /\ old[i] \in Bytes
  <2>1. i \in 1..n + 1 /\ i \in 1..N BY <1>1, <1>2
  <2>2. /\ At(t, i) = IF t + i - 1 < N THEN t + i - 1 ELSE t + i - 1 - N
        /\ At(t, i) \in Slots
    BY <2>1, AtIs
  <2>3. At(t, i) # h BY <1>1, <1>2, <2>2
  <2>4. old[i] \in Bytes BY <1>5, <1>9, ElementOfSeq
  <2>5. new[i] = buf2[At(t, i)] /\ old[i] = buf[At(t, i)]
    BY <2>1, <1>7, <1>8
  <2> QED BY <2>1, <2>2, <2>3, <2>4, <2>5, <1>4
<1>11. new[n + 1] = b
  <2>1. n + 1 \in 1..n + 1 /\ n + 1 \in 1..N BY <1>1, <1>2, <1>6
  <2>2. /\ At(t, n + 1) = IF t + (n + 1) - 1 < N THEN t + (n + 1) - 1
                          ELSE t + (n + 1) - 1 - N
        /\ At(t, n + 1) \in Slots
    BY <2>1, AtIs
  <2>3. At(t, n + 1) = h BY <1>1, <1>2, <1>6, <2>2
  <2>4. new[n + 1] = buf2[At(t, n + 1)] BY <2>1, <1>8
  <2> QED BY <2>2, <2>3, <2>4, <1>4
<1>12. new \in Seq(Bytes) /\ Len(new) = n + 1
  <2>1. ASSUME NEW i \in 1..n + 1 PROVE new[i] \in Bytes
    <3>1. i \in 1..n \/ i = n + 1 BY <1>2
    <3> QED BY <3>1, <1>10, <1>11
  <2>2. new \in [1..n + 1 -> Bytes] BY <2>1, <1>8
  <2>3. n + 1 \in Nat BY <1>2
  <2> QED BY <2>2, <2>3, FunctionIsSeq
<1>13. /\ Append(old, b) \in Seq(Bytes) /\ Len(Append(old, b)) = n + 1
       /\ \A i \in 1..n : Append(old, b)[i] = old[i]
       /\ Append(old, b)[n + 1] = b
  BY <1>5, <1>9, AppendProperties
<1>14. ASSUME NEW i \in 1..Len(new) PROVE new[i] = Append(old, b)[i]
  <2>1. i \in 1..n \/ i = n + 1 BY <1>2, <1>12
  <2> QED BY <2>1, <1>10, <1>11, <1>13
<1>15. new = Append(old, b) BY <1>12, <1>13, <1>14, SeqEqual
<1> QED BY <1>15 DEF new, old, buf2, h2

\* uart_read moves the tail: the oldest byte is gone, and no other.
LEMMA RingEmptied ==
    ASSUME NEW buf \in [Slots -> 0..MaxBytes], NEW h \in Slots,
           NEW t \in Slots, h # t, Content(buf, h, t) \in Seq(Bytes)
    PROVE  /\ Content(buf, h, t) # <<>>
           /\ Head(Content(buf, h, t)) = buf[t]
           /\ Content(buf, h, NextSlot(t)) = Tail(Content(buf, h, t))
<1> DEFINE t2 == NextSlot(t)
           n == Span(h, t)
           old == Content(buf, h, t)
           new == Content(buf, h, t2)
<1>1. N \in Nat \ {0} /\ h \in 0..N - 1 /\ t \in 0..N - 1
  BY ConsoleAssumption DEF N, Slots
<1>2. n = (IF h >= t THEN h - t ELSE h + N - t) /\ n \in 0..N - 1
  BY SpanIs
<1>3. t2 \in Slots /\ t2 = (IF t = N - 1 THEN 0 ELSE t + 1)
  BY NextSlotIs
<1>4. old \in Seq(Bytes) OBVIOUS
<1> HIDE DEF t2
<1>5. Span(h, t2) = n - 1 /\ n >= 1
  <2>1. Span(h, t2) = (IF h >= t2 THEN h - t2 ELSE h + N - t2)
    BY <1>3, SpanIs
  <2> HIDE DEF n
  <2> QED BY <1>1, <1>2, <1>3, <2>1
<1>6. old = [i \in 1..n |-> buf[At(t, i)]] BY DEF Content
<1>7. new = [i \in 1..n - 1 |-> buf[At(t2, i)]] BY <1>5 DEF Content
<1> HIDE DEF n, old, new
<1>8. Len(old) = n
  <2>1. DOMAIN old = 1..Len(old) /\ Len(old) \in Nat BY <1>4, LenProperties
  <2> QED BY <1>2, <1>6, <2>1
<1>9. old # <<>> /\ Len(Tail(old)) = n - 1 /\ Tail(old) \in Seq(Bytes)
      /\ \A i \in 1..n - 1 : Tail(old)[i] = old[i + 1]
  <2>1. old # <<>> BY <1>5, <1>8, EmptySeq
  <2> QED BY <1>4, <1>8, <2>1, HeadTailProperties
<1>10. Head(old) = buf[t]
  <2>1. 1 \in 1..n /\ 1 \in 1..N BY <1>1, <1>2, <1>5
  <2>2. At(t, 1) = IF t + 1 - 1 < N THEN t + 1 - 1 ELSE t + 1 - 1 - N
    BY <2>1, AtIs
  <2>3. At(t, 1) = t BY <1>1, <2>2
  <2>4. Head(old) = old[1] BY <1>4, <1>9
  <2>5. old[1] = buf[At(t, 1)] BY <1>6, <2>1
  <2> QED BY <2>3, <2>4, <2>5
<1>11. ASSUME NEW i \in 1..n - 1
       PROVE  new[i] = old[i + 1] /\ old[i + 1] \in Bytes
  <2>1. i + 1 \in 1..n /\ i + 1 \in 1..N /\ i \in 1..N BY <1>1, <1>2
  <2>2. At(t, i + 1) = IF t + (i + 1) - 1 < N THEN t + (i + 1) - 1
                       ELSE t + (i + 1) - 1 - N
    BY <2>1, AtIs
  <2>3. At(t2, i) = IF t2 + i - 1 < N THEN t2 + i - 1 ELSE t2 + i - 1 - N
    BY <1>3, <2>1, AtIs
  <2>4. At(t2, i) = At(t, i + 1)
    BY <1>1, <1>2, <1>3, <2>1, <2>2, <2>3
  <2>5. old[i + 1] \in Bytes BY <2>1, <1>4, <1>8, ElementOfSeq
  <2>6. old[i + 1] = buf[At(t, i + 1)] BY <2>1, <1>6
  <2>7. new[i] = buf[At(t2, i)] BY <1>7
  <2> QED BY <2>4, <2>5, <2>6, <2>7
<1>12. new \in Seq(Bytes) /\ Len(new) = n - 1
  <2>1. new \in [1..n - 1 -> Bytes] BY <1>7, <1>11
  <2>2. n - 1 \in Nat BY <1>2, <1>5
  <2> QED BY <2>1, <2>2, FunctionIsSeq
<1>13. \A i \in 1..Len(new) : new[i] = Tail(old)[i]
  BY <1>9, <1>11, <1>12
<1>14. new = Tail(old) BY <1>9, <1>12, <1>13, SeqEqual
<1> QED BY <1>9, <1>10, <1>14 DEF new, old, t2

(***************************************************************************)
(* The inductive invariant.                                                *)
(***************************************************************************)
BoardInit == {"plic_init", "uart_init", "plic_register", "start"}
Opening == BoardInit \cup {"open", "indicate"}

\* Flags are Booleans, and the rest of the types.
FlagsOK == {ier, pending, enable, irq, mie, received, rx_indicate, sem_waiting}
             \subseteq BOOLEAN
NumbersOK ==
    /\ sent \in 0..MaxBytes
    /\ fifo \in Seq(Bytes) /\ Len(fifo) <= FIFO_DEPTH
    /\ isr \in Steps /\ dispatch_count \in 0..DISPATCH_MAX
    /\ rx_buffer \in [Slots -> 0..MaxBytes]
    /\ rx_head \in Slots /\ rx_tail \in Slots
    /\ sem_value \in 0..SEM_VALUE_MAX
    /\ shell \in ShellSteps /\ ch \in 0..MaxBytes /\ got \in Seq(Bytes)

\* Start-up: no interrupt before the scheduler runs, nothing read before the
\* shell does, and the call-back installed from its first read on.
StartInv ==
    /\ shell \in BoardInit => ~mie /\ isr = "none"
    /\ shell \in Opening => got = <<>>
    /\ shell \notin Opening => rx_indicate

\* The handler: it reads the receive register only with a byte there, and
\* has an iteration left whenever it dispatches.
HandlerInv ==
    /\ isr = "rbr" => fifo # <<>>
    /\ isr \in {"lsr", "rbr", "complete"} => dispatch_count < DISPATCH_MAX

\* The wakeup: between its look at the ring and the end of rt_sem_take, a
\* byte that arrives has raised the semaphore, or the handler that brought
\* it is still to do so.
Announcing == isr \in {"lsr", "rbr"} /\ received
WakeInv ==
    /\ sem_waiting => shell = "schedule"
    /\ shell = "take" /\ rx_head # rx_tail => sem_value > 0 \/ Announcing
    /\ sem_waiting /\ rx_head # rx_tail => Announcing

\* The ring holds bytes of the line, and uart_read holds the oldest of them
\* between its copy and its move of the tail.
ByteInv ==
    /\ RingContent \in Seq(Bytes)
    /\ shell = "advance" => rx_head # rx_tail /\ ch = rx_buffer[rx_tail]

ConsoleInd ==
    FlagsOK /\ NumbersOK /\ StartInv /\ HandlerInv /\ WakeInv /\ ByteInv

\* The sizes are positive, and slots and bytes are intervals.
LEMMA Sizes ==
    /\ N \in Nat \ {0} /\ FIFO_DEPTH \in Nat \ {0}
    /\ DISPATCH_MAX \in Nat \ {0} /\ SEM_VALUE_MAX \in Nat \ {0}
    /\ MaxBytes \in Nat /\ Slots = 0..N - 1 /\ Bytes = 1..MaxBytes
BY ConsoleAssumption DEF N, Slots, Bytes

\* Reset establishes the invariant.
LEMMA ConsoleInitInd == Init => ConsoleInd
<1> SUFFICES ASSUME Init PROVE ConsoleInd OBVIOUS
<1>1. FlagsOK BY Zenon DEF Init, FlagsOK
<1>2. NumbersOK
  <2>1. <<>> \in Seq(Bytes) /\ Len(<<>>) = 0 BY EmptySeq
  <2>2. 0 \in Slots /\ rx_buffer \in [Slots -> 0..MaxBytes] BY Sizes DEF Init
  <2> QED BY <2>1, <2>2, Sizes DEF Init, NumbersOK, Steps, ShellSteps
<1>3. StartInv BY DEF Init, StartInv, BoardInit, Opening
<1>4. HandlerInv BY DEF Init, HandlerInv
<1>5. WakeInv BY DEF Init, WakeInv
<1>6. ByteInv
  <2>1. 0 \in Slots BY Sizes
  <2>2. Span(0, 0) = 0 BY <2>1, SpanIs
  <2>3. RingContent = Content(rx_buffer, 0, 0) BY RingIsContent DEF Init
  <2>4. RingContent \in [1..0 -> Bytes] BY <2>2, <2>3 DEF Content
  <2>5. RingContent \in Seq(Bytes) BY <2>4, FunctionIsSeq
  <2> QED BY <2>5 DEF Init, ByteInv
<1> QED BY <1>1, <1>2, <1>3, <1>4, <1>5, <1>6 DEF ConsoleInd

\* The flags stay Booleans.
LEMMA FlagsStep == FlagsOK /\ [Next]_vars => FlagsOK'
<1> SUFFICES ASSUME FlagsOK, [Next]_vars PROVE FlagsOK' OBVIOUS
<1> USE DEF FlagsOK, hw, ring, sem, handler
<1>1. CASE Receive BY <1>1, Zenon DEF Receive
<1>2. CASE PlicClock BY <1>2, Zenon DEF PlicClock
<1>3. CASE IrqSync BY <1>3, Zenon DEF IrqSync, irq_o
<1>4. CASE TrapEntry BY <1>4, Zenon DEF TrapEntry
<1>5. CASE Claim BY <1>5, Zenon DEF Claim
<1>6. CASE UartLsr BY <1>6, Zenon DEF UartLsr, Release
<1>7. CASE UartRbr BY <1>7, Zenon DEF UartRbr
<1>8. CASE Complete BY <1>8, Zenon DEF Complete
<1>9. CASE Startup
  BY <1>9, Zenon DEF Startup, PlicInit, UartInit, PlicRegister,
     StartScheduler, UartOpen, SetRxIndicate
<1>10. CASE Shell
  BY <1>10, Zenon DEF Shell, ReadCopy, ReadAdvance, SemTake, Schedule, Command
<1>11. CASE UNCHANGED vars BY <1>11, Zenon DEF vars
<1> QED BY <1>1, <1>2, <1>3, <1>4, <1>5, <1>6, <1>7, <1>8, <1>9, <1>10, <1>11
        DEF Next, Handler

\* Start-up and the handler's own conditions.
LEMMA StartStep == ConsoleInd /\ [Next]_vars => StartInv'
<1> SUFFICES ASSUME ConsoleInd, [Next]_vars PROVE StartInv' OBVIOUS
<1> USE DEF ConsoleInd, StartInv, BoardInit, Opening, hw, ring, sem, handler
<1>1. CASE Receive BY <1>1 DEF Receive
<1>2. CASE PlicClock \/ IrqSync BY <1>2 DEF PlicClock, IrqSync
<1>3. CASE Handler
  BY <1>3 DEF Handler, TrapEntry, Claim, UartLsr, UartRbr, Complete
<1>4. CASE Startup
  BY <1>4 DEF Startup, PlicInit, UartInit, PlicRegister, StartScheduler,
              UartOpen, SetRxIndicate
<1>5. CASE Shell
  BY <1>5 DEF Shell, ReadCopy, ReadAdvance, SemTake, Schedule, Command
<1>6. CASE UNCHANGED vars BY <1>6 DEF vars
<1> QED BY <1>1, <1>2, <1>3, <1>4, <1>5, <1>6 DEF Next

\* Every step keeps the handler within its limit, and at the data register
\* only with a byte to read.
LEMMA HandlerStep == ConsoleInd /\ [Next]_vars => HandlerInv'
<1> SUFFICES ASSUME ConsoleInd, [Next]_vars PROVE HandlerInv' OBVIOUS
<1> USE DEF ConsoleInd, HandlerInv, hw, ring, sem, handler
<1>1. CASE Receive
  <2>1. isr = "rbr" => fifo' # <<>>
    <3>1. fifo \in Seq(Bytes) /\ sent + 1 \in Bytes
      BY <1>1, Sizes DEF Receive, NumbersOK
    <3>2. Append(fifo, sent + 1) # <<>> BY <3>1, AppendProperties
    <3> QED BY <1>1, <3>2 DEF Receive
  <2> QED BY <1>1, <2>1 DEF Receive
<1>2. CASE PlicClock \/ IrqSync BY <1>2 DEF PlicClock, IrqSync
<1>3. CASE TrapEntry BY <1>3 DEF TrapEntry
<1>4. CASE Claim BY <1>4 DEF Claim
<1>5. CASE UartLsr BY <1>5 DEF UartLsr
<1>6. CASE UartRbr BY <1>6 DEF UartRbr
<1>7. CASE Complete BY <1>7 DEF Complete
<1>8. CASE Startup
  BY <1>8 DEF Startup, PlicInit, UartInit, PlicRegister, StartScheduler,
              UartOpen, SetRxIndicate, StartInv, BoardInit
<1>9. CASE Shell
  BY <1>9 DEF Shell, ReadCopy, ReadAdvance, SemTake, Schedule, Command
<1>10. CASE UNCHANGED vars BY <1>10 DEF vars
<1> QED BY <1>1, <1>2, <1>3, <1>4, <1>5, <1>6, <1>7, <1>8, <1>9, <1>10
        DEF Next, Handler

\* No wakeup is lost between the shell's look at the ring and its sleep.
LEMMA WakeStep == ConsoleInd /\ [Next]_vars => WakeInv'
<1> SUFFICES ASSUME ConsoleInd, [Next]_vars PROVE WakeInv' OBVIOUS
<1> USE DEF ConsoleInd, WakeInv, Announcing, hw, ring, sem, handler
<1>1. CASE Receive BY <1>1 DEF Receive
<1>2. CASE PlicClock \/ IrqSync BY <1>2 DEF PlicClock, IrqSync
<1>3. CASE TrapEntry BY <1>3 DEF TrapEntry
<1>4. CASE Claim BY <1>4 DEF Claim
<1>5. CASE UartLsr
  <2>1. CASE fifo # <<>> BY <1>5, <2>1 DEF UartLsr
  <2>2. CASE fifo = <<>> /\ received /\ rx_indicate
    BY <1>5, <2>2, Sizes DEF UartLsr, Release, NumbersOK
  <2>3. CASE fifo = <<>> /\ ~(received /\ rx_indicate)
    BY <1>5, <2>3 DEF UartLsr, StartInv, BoardInit, Opening
  <2> QED BY <2>1, <2>2, <2>3
<1>6. CASE UartRbr BY <1>6 DEF UartRbr
<1>7. CASE Complete BY <1>7 DEF Complete
<1>8. CASE Startup
  BY <1>8 DEF Startup, PlicInit, UartInit, PlicRegister, StartScheduler,
              UartOpen, SetRxIndicate
<1>9. CASE ReadCopy BY <1>9 DEF ReadCopy
<1>10. CASE ReadAdvance BY <1>10 DEF ReadAdvance
<1>11. CASE SemTake BY <1>11 DEF SemTake
<1>12. CASE Schedule \/ Command BY <1>12 DEF Schedule, Command
<1>13. CASE UNCHANGED vars BY <1>13 DEF vars
<1> QED BY <1>1, <1>2, <1>3, <1>4, <1>5, <1>6, <1>7, <1>8, <1>9, <1>10, <1>11,
           <1>12, <1>13 DEF Next, Handler, Shell

\* What the two sides do to the ring: the handler appends, the shell takes
\* from the front, and neither disturbs the other.
LEMMA RbrContent ==
    ASSUME ConsoleInd, UartRbr
    PROVE  /\ fifo # <<>> /\ fifo' = Tail(fifo) /\ Head(fifo) \in Bytes
           /\ RingHasRoom => RingContent' = Append(RingContent, Head(fifo))
           /\ ~RingHasRoom => RingContent' = RingContent
<1>1. fifo # <<>> /\ fifo' = Tail(fifo) BY DEF ConsoleInd, HandlerInv, UartRbr
<1>2. Head(fifo) \in Bytes
  BY <1>1, HeadTailProperties DEF ConsoleInd, NumbersOK
<1>3. ASSUME RingHasRoom PROVE RingContent' = Append(RingContent, Head(fifo))
  <2>1. RingContent' = Content([rx_buffer EXCEPT ![rx_head] = Head(fifo)],
                               NextSlot(rx_head), rx_tail)
    BY <1>3 DEF UartRbr, RingContent, RingLen, Content, Span, At, N
  <2>2. RingContent = Content(rx_buffer, rx_head, rx_tail) BY RingIsContent
  <2>3. NextSlot(rx_head) # rx_tail BY <1>3 DEF RingHasRoom
  <2> QED BY <1>2, <2>1, <2>2, <2>3, RingFilled
        DEF ConsoleInd, NumbersOK, ByteInv
<1>4. ASSUME ~RingHasRoom PROVE RingContent' = RingContent
  BY <1>4 DEF UartRbr, RingContent, RingLen
<1> QED BY <1>1, <1>2, <1>3, <1>4

\* Moving the tail takes the first byte, the one that was copied.
LEMMA AdvanceContent ==
    ASSUME ConsoleInd, ReadAdvance
    PROVE  /\ RingContent # <<>> /\ ch = Head(RingContent)
           /\ RingContent' = Tail(RingContent)
<1>1. rx_head # rx_tail /\ ch = rx_buffer[rx_tail]
  BY DEF ConsoleInd, ByteInv, ReadAdvance
<1>2. RingContent' = Content(rx_buffer, rx_head, NextSlot(rx_tail))
  BY DEF ReadAdvance, RingContent, RingLen, Content, Span, At, N
<1>3. RingContent = Content(rx_buffer, rx_head, rx_tail) BY RingIsContent
<1> QED BY <1>1, <1>2, <1>3, RingEmptied DEF ConsoleInd, NumbersOK, ByteInv

\* uart_init empties the ring.
LEMMA InitContent ==
    ASSUME UartInit
    PROVE  RingContent' = <<>> /\ fifo' = <<>>
<1>1. 0 \in Slots BY Sizes
<1>2. Span(0, 0) = 0 BY <1>1, SpanIs
<1>3. RingContent' = Content(rx_buffer, 0, 0)
  BY DEF UartInit, RingContent, RingLen, Content, Span, At, N
<1>4. Content(rx_buffer, 0, 0) = <<>> BY <1>2 DEF Content
<1> QED BY <1>3, <1>4 DEF UartInit

\* Every other step leaves the ring as it is.
LEMMA RingKept ==
    ASSUME [Next]_vars, ~UartRbr, ~ReadAdvance, ~UartInit
    PROVE  UNCHANGED ring /\ RingContent' = RingContent
<1>1. UNCHANGED ring
  <2> USE DEF hw, handler
  <2>1. CASE Receive \/ PlicClock \/ IrqSync
    BY <2>1 DEF Receive, PlicClock, IrqSync
  <2>2. CASE Handler
    BY <2>2 DEF Handler, TrapEntry, Claim, UartLsr, Complete
  <2>3. CASE Startup
    BY <2>3 DEF Startup, PlicInit, PlicRegister, StartScheduler, UartOpen,
                SetRxIndicate
  <2>4. CASE Shell BY <2>4 DEF Shell, ReadCopy, SemTake, Schedule, Command
  <2>5. CASE UNCHANGED vars BY <2>5 DEF vars
  <2> QED BY <2>1, <2>2, <2>3, <2>4, <2>5 DEF Next
<1> QED BY <1>1 DEF ring, RingContent, RingLen

\* Every step keeps the counters and pointers in range.
LEMMA NumbersStep == ConsoleInd /\ [Next]_vars => NumbersOK'
<1> SUFFICES ASSUME ConsoleInd, [Next]_vars PROVE NumbersOK' OBVIOUS
<1> USE Sizes DEF ConsoleInd, NumbersOK, Steps, ShellSteps, hw, ring, sem,
                  handler
<1>1. CASE Receive
  <2>1. sent + 1 \in Bytes /\ sent + 1 \in 0..MaxBytes BY <1>1 DEF Receive
  <2>2. Append(fifo, sent + 1) \in Seq(Bytes)
        /\ Len(Append(fifo, sent + 1)) = Len(fifo) + 1
    BY <2>1, AppendProperties
  <2>3. Len(fifo) \in Nat BY LenProperties
  <2>4. fifo' \in Seq(Bytes) /\ Len(fifo') <= FIFO_DEPTH
    <3>1. CASE Len(fifo) < FIFO_DEPTH
      <4>1. fifo' = Append(fifo, sent + 1) BY <1>1, <3>1 DEF Receive
      <4> QED BY <3>1, <4>1, <2>2, <2>3
    <3>2. CASE ~(Len(fifo) < FIFO_DEPTH)
      <4>1. fifo' = fifo BY <1>1, <3>2 DEF Receive
      <4> QED BY <4>1
    <3> QED BY <3>1, <3>2
  <2> QED BY <1>1, <2>1, <2>4 DEF Receive
<1>2. CASE PlicClock \/ IrqSync BY <1>2 DEF PlicClock, IrqSync
<1>3. CASE TrapEntry BY <1>3 DEF TrapEntry
<1>4. CASE Claim BY <1>4 DEF Claim
<1>5. CASE UartLsr BY <1>5, SMTT(30) DEF UartLsr, Release
<1>6. CASE UartRbr
  <2>1. fifo # <<>> /\ fifo' = Tail(fifo) /\ Head(fifo) \in Bytes
    BY <1>6, RbrContent
  <2>2. fifo' \in Seq(Bytes) /\ Len(fifo') = Len(fifo) - 1
    BY <2>1, HeadTailProperties
  <2>3. Len(fifo) \in Nat BY LenProperties
  <2>4. NextSlot(rx_head) \in Slots BY NextSlotIs
  <2>5. rx_buffer' \in [Slots -> 0..MaxBytes] /\ rx_head' \in Slots
    <3>1. CASE RingHasRoom
      <4>1. Head(fifo) \in 0..MaxBytes BY <2>1
      <4>2. /\ rx_buffer' = [rx_buffer EXCEPT ![rx_head] = Head(fifo)]
            /\ rx_head' = NextSlot(rx_head)
        BY <1>6, <3>1 DEF UartRbr
      <4> QED BY <4>1, <4>2, <2>4
    <3>2. CASE ~RingHasRoom BY <1>6, <3>2 DEF UartRbr
    <3> QED BY <3>1, <3>2
  <2>6. Len(fifo') <= FIFO_DEPTH BY <2>2, <2>3
  <2>7. /\ isr' \in Steps
        /\ UNCHANGED <<sent, dispatch_count, rx_tail, sem_value, shell, ch, got>>
    BY <1>6 DEF UartRbr
  <2> QED BY <2>2, <2>5, <2>6, <2>7
<1>7. CASE Complete BY <1>7 DEF Complete, HandlerInv
<1>8. CASE Startup
  <2>1. 0 \in Slots OBVIOUS
  <2>2. <<>> \in Seq(Bytes) /\ Len(<<>>) = 0 BY EmptySeq
  <2>3. CASE UartInit BY <2>1, <2>2, <2>3 DEF UartInit
  <2>4. CASE ~UartInit
    BY <1>8, <2>4 DEF Startup, PlicInit, PlicRegister, StartScheduler,
                      UartOpen, SetRxIndicate
  <2> QED BY <2>3, <2>4
<1>9. CASE ReadCopy BY <1>9 DEF ReadCopy
<1>10. CASE ReadAdvance
  <2>1. ch \in Bytes
    BY <1>10, AdvanceContent, HeadTailProperties DEF ByteInv
  <2>2. Append(got, ch) \in Seq(Bytes) BY <2>1, AppendProperties
  <2>3. NextSlot(rx_tail) \in Slots BY NextSlotIs
  <2> QED BY <1>10, <2>2, <2>3 DEF ReadAdvance
<1>11. CASE SemTake BY <1>11 DEF SemTake
<1>12. CASE Schedule \/ Command BY <1>12 DEF Schedule, Command
<1>13. CASE UNCHANGED vars BY <1>13 DEF vars
<1> QED BY <1>1, <1>2, <1>3, <1>4, <1>5, <1>6, <1>7, <1>8, <1>9, <1>10, <1>11,
           <1>12, <1>13 DEF Next, Handler, Shell

\* Every step keeps the byte that the reader has copied at the front.
LEMMA ByteStep == ConsoleInd /\ [Next]_vars => ByteInv'
<1> SUFFICES ASSUME ConsoleInd, [Next]_vars PROVE ByteInv' OBVIOUS
<1> USE DEF ConsoleInd
<1>1. RingContent' \in Seq(Bytes)
  <2>1. CASE UartRbr
    <3>1. RingContent \in Seq(Bytes) /\ Head(fifo) \in Bytes
      BY <2>1, RbrContent DEF ByteInv
    <3>2. Append(RingContent, Head(fifo)) \in Seq(Bytes)
      BY <3>1, AppendProperties
    <3> QED BY <2>1, <3>1, <3>2, RbrContent
  <2>2. CASE ReadAdvance
    BY <2>2, AdvanceContent, HeadTailProperties DEF ByteInv
  <2>3. CASE UartInit BY <2>3, InitContent, EmptySeq
  <2>4. CASE ~UartRbr /\ ~ReadAdvance /\ ~UartInit
    BY <2>4, RingKept DEF ByteInv
  <2> QED BY <2>1, <2>2, <2>3, <2>4
<1>2. ASSUME shell' = "advance"
      PROVE  rx_head' # rx_tail' /\ ch' = rx_buffer'[rx_tail']
  <2> USE <1>2 DEF ByteInv, hw, ring, sem, handler
  <2>1. CASE Receive \/ PlicClock \/ IrqSync
    BY <2>1 DEF Receive, PlicClock, IrqSync
  <2>2. CASE TrapEntry \/ Claim \/ UartLsr \/ Complete
    BY <2>2 DEF TrapEntry, Claim, UartLsr, Complete
  <2>3. CASE UartRbr
    <3>1. CASE RingHasRoom
      <4>1. rx_head' = NextSlot(rx_head) /\ rx_tail' = rx_tail
            /\ rx_buffer' = [rx_buffer EXCEPT ![rx_head] = Head(fifo)]
            /\ ch' = ch /\ shell = "advance"
        BY <2>3, <3>1 DEF UartRbr
      <4>2. rx_tail \in Slots /\ rx_buffer \in [Slots -> 0..MaxBytes]
        BY DEF NumbersOK
      <4> QED BY <3>1, <4>1, <4>2 DEF RingHasRoom
    <3>2. CASE ~RingHasRoom BY <2>3, <3>2 DEF UartRbr
    <3> QED BY <3>1, <3>2
  <2>4. CASE Startup
    BY <2>4 DEF Startup, PlicInit, UartInit, PlicRegister, StartScheduler,
                UartOpen, SetRxIndicate
  <2>5. CASE Shell
    BY <2>5 DEF Shell, ReadCopy, ReadAdvance, SemTake, Schedule, Command
  <2>6. CASE UNCHANGED vars BY <2>6 DEF vars
  <2> QED BY <2>1, <2>2, <2>3, <2>4, <2>5, <2>6 DEF Next, Handler
<1> QED BY <1>1, <1>2 DEF ByteInv

\* Every reachable state of the receive path satisfies the invariant.
THEOREM ConsoleInductive == Spec => []ConsoleInd
<1>1. ConsoleInd /\ [Next]_vars => ConsoleInd'
  BY FlagsStep, NumbersStep, StartStep, HandlerStep, WakeStep, ByteStep
     DEF ConsoleInd
<1> QED BY <1>1, ConsoleInitInd, PTL DEF Spec

\* FIFO, ring and semaphore keep to their limits, and the shell never sleeps
\* in rt_sem_take on a ring that has bytes, unless the handler that put them
\* there is still to release the semaphore.
THEOREM ConsoleSafe == Spec => []ConsoleInv
<1>1. ConsoleInd => ConsoleInv
  <2> SUFFICES ASSUME ConsoleInd PROVE ConsoleInv OBVIOUS
  <2>1. TypeOK BY Zenon DEF ConsoleInd, FlagsOK, NumbersOK, TypeOK
  <2>2. RingLen > 0 => rx_head # rx_tail
    <3>1. rx_head \in Slots /\ rx_tail \in Slots BY DEF ConsoleInd, NumbersOK
    <3>2. Span(rx_head, rx_tail) = IF rx_head >= rx_tail THEN rx_head - rx_tail
                                   ELSE rx_head + N - rx_tail
      BY <3>1, SpanIs
    <3> QED BY <3>1, <3>2, RingIsContent, Sizes
  <2> QED BY <2>1, <2>2
        DEF ConsoleInv, ConsoleInd, WakeInv, Announcing, NoLostWakeup
<1> QED BY <1>1, ConsoleInductive, PTL

(***************************************************************************)
(* The stream.  Held is the ring followed by the FIFO; the lemmas say what *)
(* an operation on one of two sequences does to their concatenation.       *)
(***************************************************************************)
LEMMA AppendAfter ==
    ASSUME NEW S, NEW s \in Seq(S), NEW t \in Seq(S), NEW e \in S
    PROVE  s \o Append(t, e) = Append(s \o t, e)
<1>1. Append(t, e) = t \o <<e>> BY AppendIsConcat
<1>2. s \o t \in Seq(S) /\ <<e>> \in Seq(S) BY ConcatProperties
<1>3. Append(s \o t, e) = (s \o t) \o <<e>> BY <1>2, AppendIsConcat
<1> QED BY <1>1, <1>2, <1>3, ConcatAssociative

\* An element that moves from the head of one sequence to the end of the
\* sequence before it leaves their concatenation as it was.
LEMMA MoveAcross ==
    ASSUME NEW S, NEW s \in Seq(S), NEW t \in Seq(S), t # <<>>
    PROVE  Append(s, Head(t)) \o Tail(t) = s \o t
<1>1. /\ Head(t) \in S /\ Tail(t) \in Seq(S) /\ Len(Tail(t)) = Len(t) - 1
      /\ \A i \in 1..Len(Tail(t)) : Tail(t)[i] = t[i + 1]
  BY HeadTailProperties
<1> DEFINE h == Head(t)
           u == Tail(t)
           a == Append(s, h)
<1>2. Head(t) = t[1] OBVIOUS
<1> HIDE DEF h, u
<1>3. /\ a \in Seq(S) /\ Len(a) = Len(s) + 1 /\ a[Len(s) + 1] = h
      /\ \A i \in 1..Len(s) : a[i] = s[i]
  BY <1>1, AppendProperties DEF h
<1> HIDE DEF a
<1>4. Len(s) \in Nat /\ Len(t) \in Nat /\ Len(u) = Len(t) - 1
  BY <1>1, LenProperties DEF u
<1>5. /\ a \o u \in Seq(S) /\ Len(a \o u) = Len(a) + Len(u)
      /\ \A i \in 1..Len(a) + Len(u) :
            (a \o u)[i] = IF i <= Len(a) THEN a[i] ELSE u[i - Len(a)]
  BY <1>1, <1>3, ConcatProperties DEF u
<1>6. /\ s \o t \in Seq(S) /\ Len(s \o t) = Len(s) + Len(t)
      /\ \A i \in 1..Len(s) + Len(t) :
            (s \o t)[i] = IF i <= Len(s) THEN s[i] ELSE t[i - Len(s)]
  BY ConcatProperties
<1>7. Len(a \o u) = Len(s \o t) BY <1>3, <1>4, <1>5, <1>6
<1>8. ASSUME NEW i \in 1..Len(a \o u) PROVE (a \o u)[i] = (s \o t)[i]
  <2>0. i \in 1..Len(a) + Len(u) /\ i \in 1..Len(s) + Len(t)
    BY <1>5, <1>6, <1>7
  <2>1. CASE i <= Len(s)
    <3>1. i <= Len(a) /\ i \in 1..Len(s) BY <2>0, <2>1, <1>3, <1>4
    <3> QED BY <2>0, <2>1, <3>1, <1>3, <1>5, <1>6
  <2>2. CASE i = Len(s) + 1
    <3>1. i <= Len(a) /\ ~(i <= Len(s)) /\ i - Len(s) = 1
      BY <2>2, <1>3, <1>4
    <3>2. (a \o u)[i] = h BY <2>0, <2>2, <3>1, <1>3, <1>5
    <3>3. (s \o t)[i] = t[1] BY <2>0, <3>1, <1>6
    <3> QED BY <3>2, <3>3, <1>2 DEF h
  <2>3. CASE i > Len(s) + 1
    <3>1. ~(i <= Len(a)) /\ ~(i <= Len(s)) BY <2>0, <2>3, <1>3, <1>4
    <3>2. i - Len(a) \in 1..Len(u) /\ (i - Len(a)) + 1 = i - Len(s)
      BY <2>0, <2>3, <1>3, <1>4
    <3>3. (a \o u)[i] = u[i - Len(a)] BY <2>0, <3>1, <1>5
    <3>4. u[i - Len(a)] = t[i - Len(s)] BY <3>2, <1>1 DEF u
    <3>5. (s \o t)[i] = t[i - Len(s)] BY <2>0, <3>1, <1>6
    <3> QED BY <3>3, <3>4, <3>5
  <2>4. i <= Len(s) \/ i = Len(s) + 1 \/ i > Len(s) + 1 BY <2>0, <1>4
  <2> QED BY <2>1, <2>2, <2>3, <2>4
<1>9. a \o u = s \o t BY <1>5, <1>6, <1>7, <1>8, SeqEqual
<1> QED BY <1>9 DEF a, u, h

\* The head of a concatenation is that of its first part.
LEMMA TakeFront ==
    ASSUME NEW S, NEW s \in Seq(S), NEW t \in Seq(S), s # <<>>
    PROVE  /\ s \o t # <<>> /\ Head(s \o t) = Head(s)
           /\ Tail(s \o t) = Tail(s) \o t
<1>1. /\ Head(s) \in S /\ Tail(s) \in Seq(S) /\ Len(Tail(s)) = Len(s) - 1
      /\ \A i \in 1..Len(Tail(s)) : Tail(s)[i] = s[i + 1]
  BY HeadTailProperties
<1>2. Len(s) \in Nat \ {0} /\ Len(t) \in Nat BY EmptySeq, LenProperties
<1>3. /\ s \o t \in Seq(S) /\ Len(s \o t) = Len(s) + Len(t)
      /\ \A i \in 1..Len(s) + Len(t) :
            (s \o t)[i] = IF i <= Len(s) THEN s[i] ELSE t[i - Len(s)]
  BY ConcatProperties
<1>4. s \o t # <<>> BY <1>2, <1>3, EmptySeq
<1>5. Head(s \o t) = Head(s)
  <2>1. Head(s) = s[1] /\ Head(s \o t) = (s \o t)[1] BY <1>3, <1>4
  <2>2. 1 \in 1..Len(s) + Len(t) /\ 1 <= Len(s) BY <1>2
  <2> QED BY <2>1, <2>2, <1>3
<1> DEFINE c == s \o t
           u == Tail(s)
<1>6. /\ Tail(c) \in Seq(S) /\ Len(Tail(c)) = Len(c) - 1
      /\ \A i \in 1..Len(Tail(c)) : Tail(c)[i] = c[i + 1]
  BY <1>3, <1>4, HeadTailProperties
<1>7. /\ u \o t \in Seq(S) /\ Len(u \o t) = Len(u) + Len(t)
      /\ \A i \in 1..Len(u) + Len(t) :
            (u \o t)[i] = IF i <= Len(u) THEN u[i] ELSE t[i - Len(u)]
  BY <1>1, ConcatProperties
<1>8. Len(u) = Len(s) - 1 /\ Len(c) = Len(s) + Len(t) BY <1>1, <1>3
<1>9. \A i \in 1..Len(u) : u[i] = s[i + 1] BY <1>1
<1>10. \A i \in 1..Len(s) + Len(t) :
          c[i] = IF i <= Len(s) THEN s[i] ELSE t[i - Len(s)]
  BY <1>3
<1> HIDE DEF c, u
<1>11. ASSUME NEW i \in 1..Len(Tail(c)) PROVE Tail(c)[i] = (u \o t)[i]
  <2>1. /\ i \in 1..Len(u) + Len(t) /\ i + 1 \in 1..Len(s) + Len(t)
    BY <1>2, <1>6, <1>8
  <2>2. CASE i <= Len(u)
    <3>1. i + 1 <= Len(s) /\ i \in 1..Len(u) BY <1>2, <1>8, <2>1, <2>2
    <3> QED BY <2>1, <2>2, <3>1, <1>6, <1>7, <1>9, <1>10
  <2>3. CASE ~(i <= Len(u))
    <3>1. ~(i + 1 <= Len(s)) /\ (i + 1) - Len(s) = i - Len(u)
      BY <1>2, <1>8, <2>1, <2>3
    <3>2. Tail(c)[i] = t[(i + 1) - Len(s)] BY <2>1, <3>1, <1>6, <1>10
    <3>3. (u \o t)[i] = t[i - Len(u)] BY <2>1, <2>3, <1>7
    <3> QED BY <3>1, <3>2, <3>3
  <2> QED BY <2>2, <2>3
<1>12. Len(Tail(c)) = Len(u \o t) BY <1>2, <1>6, <1>7, <1>8
<1>13. Tail(c) = u \o t BY <1>6, <1>7, <1>11, <1>12, SeqEqual
<1> QED BY <1>4, <1>5, <1>13 DEF c, u

\* Removing the i-th element joins what is before and after it.
LEMMA RemoveAtIs ==
    ASSUME NEW s, NEW i
    PROVE  Stream!RemoveAt(s, i)
              = SubSeq(s, 1, i - 1) \o SubSeq(s, i + 1, Len(s))
BY DEF Stream!RemoveAt

\* Losing the head of the FIFO is losing one byte of those held.
LEMMA DropSecondHead ==
    ASSUME NEW S, NEW s \in Seq(S), NEW t \in Seq(S), t # <<>>
    PROVE  /\ Len(s) + 1 \in 1..Len(s \o t)
           /\ Stream!RemoveAt(s \o t, Len(s) + 1) = s \o Tail(t)
<1> DEFINE c == s \o t
           u == Tail(t)
           n == Len(s)
           m == Len(t)
<1>1. n \in Nat /\ m \in Nat \ {0} BY LenProperties, EmptySeq
<1>2. /\ c \in Seq(S) /\ Len(c) = n + m
      /\ \A i \in 1..n + m : c[i] = IF i <= n THEN s[i] ELSE t[i - n]
  BY ConcatProperties
<1>3. /\ u \in Seq(S) /\ Len(u) = m - 1
      /\ \A i \in 1..Len(u) : u[i] = t[i + 1]
  BY HeadTailProperties
<1> HIDE DEF c, u
<1>4. SubSeq(c, 1, n) = s
  <2>1. ASSUME NEW i \in 1..n PROVE c[i] = s[i] /\ s[i] \in S
    <3>1. i \in 1..n + m /\ i <= n BY <1>1
    <3> QED BY <3>1, <1>2, ElementOfSeq
  <2>2. \A i \in 1..n : c[i] \in S BY <2>1
  <2>3. 1 \in Int /\ n \in Int BY <1>1
  <2>4. SubSeq(c, 1, n) \in Seq(S)
        /\ Len(SubSeq(c, 1, n)) = (IF 1 <= n THEN n - 1 + 1 ELSE 0)
        /\ \A i \in 1..n - 1 + 1 : SubSeq(c, 1, n)[i] = c[1 + i - 1]
    BY <2>2, <2>3, SubSeqProperties
  <2>5. Len(SubSeq(c, 1, n)) = Len(s) BY <1>1, <2>4
  <2>6. ASSUME NEW i \in 1..Len(SubSeq(c, 1, n))
        PROVE  SubSeq(c, 1, n)[i] = s[i]
    <3>1. i \in 1..n /\ i \in 1..n - 1 + 1 /\ 1 + i - 1 = i BY <1>1, <2>5
    <3> QED BY <3>1, <2>1, <2>4
  <2> QED BY <2>4, <2>5, <2>6, SeqEqual
<1>5. SubSeq(c, n + 1 + 1, Len(c)) = u
  <2> DEFINE b == n + 1 + 1
             e == n + m
  <2>1. b \in Int /\ e \in Int /\ b = n + 2 /\ e = n + m BY <1>1
  <2> HIDE DEF b, e
  <2>2. ASSUME NEW i \in b..e PROVE c[i] = t[i - n] /\ c[i] \in S
    <3>1. i \in 1..n + m /\ ~(i <= n) /\ i - n \in 1..m BY <1>1, <2>1
    <3> QED BY <3>1, <1>2, ElementOfSeq
  <2>3. /\ SubSeq(c, b, e) \in Seq(S)
        /\ Len(SubSeq(c, b, e)) = (IF b <= e THEN e - b + 1 ELSE 0)
        /\ \A i \in 1..e - b + 1 : SubSeq(c, b, e)[i] = c[b + i - 1]
    BY <2>1, <2>2, SubSeqProperties
  <2>4. Len(SubSeq(c, b, e)) = Len(u) BY <1>1, <1>3, <2>1, <2>3
  <2>5. ASSUME NEW i \in 1..Len(SubSeq(c, b, e))
        PROVE  SubSeq(c, b, e)[i] = u[i]
    <3>1. i \in 1..Len(u) /\ i \in 1..e - b + 1 /\ b + i - 1 \in b..e
          /\ (b + i - 1) - n = i + 1
      BY <1>1, <1>3, <2>1, <2>4
    <3>2. SubSeq(c, b, e)[i] = c[b + i - 1] BY <2>3, <3>1
    <3>3. c[b + i - 1] = t[i + 1] BY <2>2, <3>1
    <3>4. u[i] = t[i + 1] BY <1>3, <3>1
    <3> QED BY <3>2, <3>3, <3>4
  <2>6. SubSeq(c, b, e) = u BY <1>3, <2>3, <2>4, <2>5, SeqEqual
  <2> QED BY <2>6, <1>2 DEF b, e
<1>6. Stream!RemoveAt(c, n + 1) = s \o u
  <2> DEFINE k == n + 1
  <2>1. k - 1 = n /\ k + 1 = n + 1 + 1 BY <1>1
  <2>2. SubSeq(c, 1, k - 1) = s /\ SubSeq(c, k + 1, Len(c)) = u
    BY <1>4, <1>5, <2>1
  <2> HIDE DEF k, n
  <2>3. Stream!RemoveAt(c, k) = SubSeq(c, 1, k - 1) \o SubSeq(c, k + 1, Len(c))
    BY RemoveAtIs
  <2>4. Stream!RemoveAt(c, k) = s \o u BY <2>2, <2>3
  <2> QED BY <2>4 DEF k
<1>7. n + 1 \in 1..Len(c) BY <1>1, <1>2
<1> QED BY <1>6, <1>7 DEF c, u

\* What is held is a sequence of bytes, the ring's before the FIFO's.
LEMMA HeldSeq ==
    ASSUME ConsoleInd
    PROVE  /\ Held \in Seq(Bytes) /\ Held = RingContent \o fifo
           /\ RingContent \in Seq(Bytes) /\ fifo \in Seq(Bytes)
           /\ got \in Seq(Bytes)
           /\ Len(Held) \in Nat /\ Len(got) \in Nat /\ Len(fifo) \in Nat
<1>1. RingContent \in Seq(Bytes) /\ fifo \in Seq(Bytes) /\ got \in Seq(Bytes)
  BY DEF ConsoleInd, ByteInv, NumbersOK
<1>2. Held \in Seq(Bytes) BY <1>1, ConcatProperties DEF Held
<1> QED BY <1>1, <1>2, LenProperties DEF Held

\* A ring without room holds all it can.
LEMMA FullRing ==
    ASSUME ConsoleInd, ~RingHasRoom
    PROVE  Len(RingContent) = UART_RX_BUFFER_SIZE - 1
<1>1. rx_head \in Slots /\ rx_tail \in Slots BY DEF ConsoleInd, NumbersOK
<1>2. NextSlot(rx_head) = rx_tail BY DEF RingHasRoom
<1>3. NextSlot(rx_head) = IF rx_head = N - 1 THEN 0 ELSE rx_head + 1
  BY <1>1, NextSlotIs
<1>4. Span(rx_head, rx_tail) = (IF rx_head >= rx_tail THEN rx_head - rx_tail
                                ELSE rx_head + N - rx_tail)
      /\ Span(rx_head, rx_tail) \in 0..N - 1
  BY <1>1, SpanIs
<1>5. Span(rx_head, rx_tail) = N - 1 BY <1>1, <1>2, <1>3, <1>4, Sizes
<1>6. Len(RingContent) = Span(rx_head, rx_tail)
  <2>1. DOMAIN RingContent = 1..Span(rx_head, rx_tail)
    BY RingIsContent DEF Content
  <2>2. DOMAIN RingContent = 1..Len(RingContent) /\ Len(RingContent) \in Nat
    BY HeldSeq, LenProperties
  <2> QED BY <1>4, <2>1, <2>2, Sizes
<1> QED BY <1>5, <1>6 DEF N

\* What a step may do to the bytes on their way.
Accepts == /\ sent' = sent + 1 /\ got' = got
           /\ Held' = Append(Held, sent + 1)
Refuses == /\ sent' = sent + 1 /\ got' = got /\ Held' = Held
           /\ Len(fifo) = FIFO_DEPTH
Flushes == /\ shell = "uart_init" /\ got = <<>> /\ Held' = <<>>
           /\ sent' = sent /\ got' = got
Drops == /\ isr = "rbr" /\ Len(RingContent) = UART_RX_BUFFER_SIZE - 1
         /\ \E i \in 1..Len(Held) : Held' = Stream!RemoveAt(Held, i)
         /\ sent' = sent /\ got' = got
Delivers == /\ Held # <<>> /\ sent' = sent
            /\ got' = Append(got, Head(Held)) /\ Held' = Tail(Held)

\* Every step does one of five things to the bytes held, or nothing.
LEMMA HeldStep ==
    ASSUME ConsoleInd, [Next]_vars
    PROVE  \/ Accepts \/ Refuses \/ Flushes \/ Drops \/ Delivers
           \/ UNCHANGED <<sent, Held, got>>
<1>1. CASE Receive
  <2>1. RingContent' = RingContent
    BY <1>1 DEF Receive, ring, RingContent, RingLen
  <2>2. CASE Len(fifo) < FIFO_DEPTH
    <3>1. sent + 1 \in Bytes
      BY <1>1, Sizes DEF Receive, ConsoleInd, NumbersOK
    <3>2. RingContent \o Append(fifo, sent + 1)
             = Append(RingContent \o fifo, sent + 1)
      BY <3>1, HeldSeq, AppendAfter
    <3>3. fifo' = Append(fifo, sent + 1) BY <1>1, <2>2 DEF Receive
    <3> QED BY <1>1, <2>1, <3>2, <3>3 DEF Accepts, Receive, Held
  <2>3. CASE ~(Len(fifo) < FIFO_DEPTH)
    <3>1. Len(fifo) = FIFO_DEPTH
      BY <2>3, HeldSeq, Sizes DEF ConsoleInd, NumbersOK
    <3>2. fifo' = fifo BY <1>1, <2>3 DEF Receive
    <3> QED BY <1>1, <2>1, <3>1, <3>2 DEF Refuses, Receive, Held
  <2> QED BY <2>2, <2>3
<1>2. CASE UartRbr
  <2>1. fifo # <<>> /\ fifo' = Tail(fifo) BY <1>2, RbrContent
  <2>2. sent' = sent /\ got' = got /\ isr = "rbr" BY <1>2 DEF UartRbr
  <2>3. CASE RingHasRoom
    <3>1. RingContent' = Append(RingContent, Head(fifo))
      BY <1>2, <2>3, RbrContent
    <3>2. Append(RingContent, Head(fifo)) \o Tail(fifo) = RingContent \o fifo
      BY <2>1, HeldSeq, MoveAcross
    <3>3. Held' = Held BY <2>1, <3>1, <3>2 DEF Held
    <3> QED BY <2>2, <3>3
  <2>4. CASE ~RingHasRoom
    <3>1. RingContent' = RingContent BY <1>2, <2>4, RbrContent
    <3>2. /\ Len(RingContent) + 1 \in 1..Len(RingContent \o fifo)
          /\ Stream!RemoveAt(RingContent \o fifo, Len(RingContent) + 1)
                = RingContent \o Tail(fifo)
      BY <2>1, HeldSeq, DropSecondHead
    <3>3. \E i \in 1..Len(Held) : Held' = Stream!RemoveAt(Held, i)
      BY <2>1, <3>1, <3>2 DEF Held
    <3> QED BY <2>2, <2>4, <3>3, FullRing DEF Drops
  <2> QED BY <2>3, <2>4
<1>3. CASE ReadAdvance
  <2>1. /\ RingContent # <<>> /\ ch = Head(RingContent)
        /\ RingContent' = Tail(RingContent)
    BY <1>3, AdvanceContent
  <2>2. /\ RingContent \o fifo # <<>>
        /\ Head(RingContent \o fifo) = Head(RingContent)
        /\ Tail(RingContent \o fifo) = Tail(RingContent) \o fifo
    BY <2>1, HeldSeq, TakeFront
  <2>3. fifo' = fifo /\ sent' = sent /\ got' = Append(got, ch)
    BY <1>3 DEF ReadAdvance, hw
  <2> QED BY <2>1, <2>2, <2>3 DEF Delivers, Held
<1>4. CASE UartInit
  <2>1. RingContent' = <<>> /\ fifo' = <<>> BY <1>4, InitContent
  <2>2. Held' = <<>> BY <2>1, ConcatEmptySeq, EmptySeq DEF Held
  <2>3. got = <<>> /\ sent' = sent /\ got' = got /\ shell = "uart_init"
    BY <1>4 DEF UartInit, ConsoleInd, StartInv, BoardInit, Opening
  <2> QED BY <2>2, <2>3 DEF Flushes
<1>5. CASE ~Receive /\ ~UartRbr /\ ~ReadAdvance /\ ~UartInit
  <2>1. RingContent' = RingContent BY <1>5, RingKept
  <2>2. UNCHANGED <<sent, fifo, got>>
    <3> USE DEF hw, handler
    <3>1. CASE PlicClock \/ IrqSync BY <3>1 DEF PlicClock, IrqSync
    <3>2. CASE Handler
      BY <1>5, <3>2 DEF Handler, TrapEntry, Claim, UartLsr, Complete
    <3>3. CASE Startup
      BY <1>5, <3>3 DEF Startup, PlicInit, PlicRegister, StartScheduler,
                        UartOpen, SetRxIndicate
    <3>4. CASE Shell
      BY <1>5, <3>4 DEF Shell, ReadCopy, SemTake, Schedule, Command
    <3>5. CASE UNCHANGED vars BY <3>5 DEF vars
    <3> QED BY <1>5, <3>1, <3>2, <3>3, <3>4, <3>5 DEF Next
  <2> QED BY <2>1, <2>2 DEF Held
<1> QED BY <1>1, <1>2, <1>3, <1>4, <1>5

\* FIFO, ring, handler and shell together are an order-preserving stream:
\* what finsh_getchar returns are bytes of the line, in order and none twice,
\* although uart0_irq and uart_read share the ring without a lock.
THEOREM ConsoleIsStream == Spec => ImplementsStream
<1>1. Init => Stream!Init
  <2> SUFFICES ASSUME Init PROVE Stream!Init OBVIOUS
  <2>1. Span(0, 0) = 0 BY Sizes, SpanIs
  <2>2. RingContent = Content(rx_buffer, 0, 0) BY RingIsContent DEF Init
  <2>3. RingContent = <<>> BY <2>1, <2>2 DEF Content
  <2>4. Held = <<>> BY <2>3, ConcatEmptySeq, EmptySeq DEF Init, Held
  <2> QED BY <2>4 DEF Init, Stream!Init
<1>2. ConsoleInd /\ [Next]_vars => [Stream!Next]_<<sent, Held, got>>
  <2> SUFFICES ASSUME ConsoleInd, [Next]_vars
               PROVE  [Stream!Next]_<<sent, Held, got>>
    OBVIOUS
  <2>1. CASE Accepts BY <2>1 DEF Accepts, Stream!Next, Stream!Accept
  <2>2. CASE Refuses BY <2>2 DEF Refuses, Stream!Next, Stream!Refuse
  <2>3. CASE Flushes BY <2>3 DEF Flushes, Stream!Next, Stream!Flush
  <2>4. CASE Drops BY <2>4 DEF Drops, Stream!Next, Stream!Lose
  <2>5. CASE Delivers BY <2>5 DEF Delivers, Stream!Next, Stream!Deliver
  <2> QED BY <2>1, <2>2, <2>3, <2>4, <2>5, HeldStep
<1> QED BY <1>1, <1>2, ConsoleInductive, PTL
        DEF Spec, ImplementsStream, Stream!Spec

\* A byte is lost only where uart_init empties both buffers, where the FIFO
\* is full when one arrives, or where uart0_irq finds the ring full.
THEOREM ConsoleLosses == Spec => LossOnlyAtLimit
<1> DEFINE Loss == Len(got') + Len(Held') < Len(got) + Len(Held) + (sent' - sent)
           AtLimit == \/ shell = "uart_init"
                      \/ sent' # sent /\ Len(fifo) = FIFO_DEPTH
                      \/ /\ isr = "rbr"
                         /\ Len(RingContent) = UART_RX_BUFFER_SIZE - 1
<1>1. ConsoleInd /\ [Next]_vars => [Loss => AtLimit]_vars
  <2> SUFFICES ASSUME ConsoleInd, [Next]_vars, Loss PROVE AtLimit OBVIOUS
  <2>0. sent \in Nat BY DEF ConsoleInd, NumbersOK
  <2>1. CASE Accepts
    <3>1. sent + 1 \in Bytes \cup {sent + 1} /\ Bytes \subseteq Bytes \cup {sent + 1}
      OBVIOUS
    <3>2. Held \in Seq(Bytes \cup {sent + 1}) BY <3>1, HeldSeq, SeqMonotonic
    <3>3. Len(Held') = Len(Held) + 1
      BY <2>1, <3>1, <3>2, AppendProperties DEF Accepts
    <3> QED BY <2>0, <2>1, <3>3, HeldSeq DEF Accepts
  <2>2. CASE Refuses BY <2>0, <2>2 DEF Refuses
  <2>3. CASE Flushes BY <2>3 DEF Flushes
  <2>4. CASE Drops BY <2>4 DEF Drops
  <2>5. CASE Delivers
    <3>1. Head(Held) \in Bytes /\ Len(Held') = Len(Held) - 1
      BY <2>5, HeldSeq, HeadTailProperties DEF Delivers
    <3>2. Len(got') = Len(got) + 1
      BY <2>5, <3>1, HeldSeq, AppendProperties DEF Delivers
    <3> QED BY <2>0, <2>5, <3>1, <3>2, HeldSeq DEF Delivers
  <2>6. CASE UNCHANGED <<sent, Held, got>> BY <2>0, <2>6, HeldSeq
  <2> QED BY <2>1, <2>2, <2>3, <2>4, <2>5, <2>6, HeldStep
<1> QED BY <1>1, ConsoleInductive, PTL DEF Spec, LossOnlyAtLimit

=============================================================================
