------------------------- MODULE YdrasilFetchProofs -------------------------
(***************************************************************************)
(* Proofs about the fetch stage, for every address space, every queue      *)
(* depth and whatever the predictors say: Decode receives the predicted    *)
(* path word by word, and the address a trap would resume at is the one    *)
(* that follows the last word Decode took.                                 *)
(***************************************************************************)
EXTENDS YdrasilFetch, SequenceTheorems, TLAPS

(***************************************************************************)
(* Arithmetic modulo a size.                                               *)
(***************************************************************************)
LEMMA DivUnique ==
    ASSUME NEW w \in Nat \ {0}, NEW q \in Nat, NEW q2 \in Nat,
           NEW r \in 0 .. w - 1, NEW r2 \in 0 .. w - 1,
           q * w + r = q2 * w + r2
    PROVE  q = q2 /\ r = r2
<1>1. CASE q < q2
  <2>1. q2 * w >= (q + 1) * w BY <1>1, SMT
  <2>2. (q + 1) * w = q * w + w BY SMT
  <2>3. q * w \in Nat /\ q2 * w \in Nat BY SMT
  <2> QED BY <2>1, <2>2, <2>3
<1>2. CASE q2 < q
  <2>1. q * w >= (q2 + 1) * w BY <1>2, SMT
  <2>2. (q2 + 1) * w = q2 * w + w BY SMT
  <2>3. q * w \in Nat /\ q2 * w \in Nat BY SMT
  <2> QED BY <2>1, <2>2, <2>3
<1>3. CASE q = q2 BY <1>3, SMT
<1> QED BY <1>1, <1>2, <1>3

\* Quotient and remainder.
LEMMA ModIs ==
    ASSUME NEW w \in Nat \ {0}, NEW x \in Nat
    PROVE  /\ x % w \in 0 .. w - 1 /\ x \div w \in Nat
           /\ x = (x \div w) * w + (x % w)
<1>1. x % w \in 0 .. w - 1 BY SMT
<1>2. x \div w \in Nat BY SMT
<1>3. x = (x \div w) * w + (x % w) BY SMT
<1> QED BY <1>1, <1>2, <1>3

\* A remainder may be taken early.
LEMMA ModAdd ==
    ASSUME NEW w \in Nat \ {0}, NEW x \in Nat, NEW k \in Nat
    PROVE  ((x % w) + k) % w = (x + k) % w
<1> DEFINE r == x % w
           q == x \div w
           s == (r + k) % w
           u == (r + k) \div w
           s2 == (x + k) % w
           u2 == (x + k) \div w
<1>1. r \in 0 .. w - 1 /\ q \in Nat /\ x = q * w + r BY ModIs
<1>2. r + k \in Nat /\ x + k \in Nat BY <1>1
<1>3. s \in 0 .. w - 1 /\ u \in Nat /\ r + k = u * w + s BY <1>2, ModIs
<1>4. s2 \in 0 .. w - 1 /\ u2 \in Nat /\ x + k = u2 * w + s2 BY <1>2, ModIs
<1> HIDE DEF r, q, s, u, s2, u2
<1>5. q * w \in Nat /\ u * w \in Nat /\ u2 * w \in Nat
  BY <1>1, <1>3, <1>4, SMT
<1>6. (q + u) * w = q * w + u * w BY <1>1, <1>3, SMT
<1>7. (q + u) * w + s = u2 * w + s2
  <2>1. PICK a \in Nat, b \in Nat, c \in Nat :
            a = q * w /\ b = u * w /\ c = u2 * w
    BY <1>5
  <2>2. x = a + r /\ r + k = b + s /\ x + k = c + s2 BY <1>1, <1>3, <1>4, <2>1
  <2>3. r \in Nat /\ s \in Nat /\ s2 \in Nat BY <1>1, <1>3, <1>4
  <2>4. a + b + s = c + s2 BY <2>2, <2>3
  <2> QED BY <1>6, <2>1, <2>4
<1>8. q + u \in Nat BY <1>1, <1>3
<1>9. s = s2 BY <1>3, <1>4, <1>7, <1>8, DivUnique, SMTT(30)
<1> QED BY <1>9 DEF r, s, s2

\* Different distances below the size lead to different places.
LEMMA ModInjective ==
    ASSUME NEW w \in Nat \ {0}, NEW x \in 0 .. w - 1,
           NEW a \in 0 .. w - 1, NEW b \in 0 .. w - 1,
           (x + a) % w = (x + b) % w
    PROVE  a = b
<1> DEFINE s == (x + a) % w
           u == (x + a) \div w
           v == (x + b) \div w
<1>1. x + a \in Nat /\ x + b \in Nat OBVIOUS
<1>2. s \in 0 .. w - 1 /\ u \in Nat /\ x + a = u * w + s BY <1>1, ModIs
<1>3. v \in Nat /\ x + b = v * w + s BY <1>1, ModIs
<1> HIDE DEF s, u, v
<1>4. u * w \in Nat /\ v * w \in Nat BY <1>2, <1>3, SMT
<1>5. CASE u < v
  <2>1. v * w >= (u + 1) * w BY <1>2, <1>3, <1>5, SMT
  <2>2. (u + 1) * w = u * w + w BY <1>2, SMT
  <2> QED BY <1>2, <1>3, <1>4, <2>1, <2>2
<1>6. CASE v < u
  <2>1. u * w >= (v + 1) * w BY <1>2, <1>3, <1>6, SMT
  <2>2. (v + 1) * w = v * w + w BY <1>3, SMT
  <2> QED BY <1>2, <1>3, <1>4, <2>1, <2>2
<1>7. CASE u = v
  <2>1. u * w = v * w BY <1>7
  <2> QED BY <1>2, <1>3, <1>4, <2>1
<1> QED BY <1>2, <1>3, <1>5, <1>6, <1>7

\* The sizes, and the queue's ring in these terms.
LEMMA Sizes ==
    /\ PcCount \in Nat \ {0} /\ FETCHQ_DEPTH \in Nat /\ FETCHQ_DEPTH >= 4
    /\ BACK_DEPTH \in Nat \ {0} /\ BACK_DEPTH >= 2
    /\ FETCHQ_DEPTH = BACK_DEPTH + 2
BY FetchAssumption DEF BACK_DEPTH

\* Two moves in the ring are one move by the sum.
LEMMA RingAdd ==
    ASSUME NEW i \in 0 .. BACK_DEPTH - 1, NEW a \in Nat, NEW b \in Nat
    PROVE  /\ BackPlus(i, a) \in 0 .. BACK_DEPTH - 1
           /\ BackPlus(BackPlus(i, a), b) = BackPlus(i, a + b)
<1>1. BACK_DEPTH \in Nat \ {0} BY Sizes
<1>2. i + a \in Nat /\ (i + a) + b = i + (a + b) BY <1>1
<1>3. (i + a) % BACK_DEPTH \in 0 .. BACK_DEPTH - 1 BY <1>1, <1>2, ModIs
<1>4. (((i + a) % BACK_DEPTH) + b) % BACK_DEPTH = ((i + a) + b) % BACK_DEPTH
  BY <1>1, <1>2, ModAdd
<1> QED BY <1>2, <1>3, <1>4 DEF BackPlus

\* Different distances from one slot reach different slots.
LEMMA RingApart ==
    ASSUME NEW i \in 0 .. BACK_DEPTH - 1, NEW a \in 0 .. BACK_DEPTH - 1,
           NEW b \in 0 .. BACK_DEPTH - 1, a # b
    PROVE  BackPlus(i, a) # BackPlus(i, b)
BY Sizes, ModInjective DEF BackPlus

\* Two words on is one word on, twice.
LEMMA PlusIs ==
    ASSUME NEW a \in PCs
    PROVE  /\ Plus(a, 1) \in PCs /\ Plus(a, 2) \in PCs
           /\ Plus(Plus(a, 1), 1) = Plus(a, 2)
<1>1. PcCount \in Nat \ {0} /\ a \in Nat BY Sizes DEF PCs
<1>2. a + 1 \in Nat /\ a + 2 \in Nat /\ (a + 1) + 1 = a + 2 BY <1>1
<1>3. (a + 1) % PcCount \in 0 .. PcCount - 1
      /\ (a + 2) % PcCount \in 0 .. PcCount - 1
  BY <1>1, <1>2, ModIs
<1>4. (((a + 1) % PcCount) + 1) % PcCount = ((a + 1) + 1) % PcCount
  BY <1>1, <1>2, ModAdd
<1> QED BY <1>2, <1>3, <1>4 DEF Plus, PCs

(***************************************************************************)
(* The inductive invariant.                                                *)
(***************************************************************************)

\* The i-th entry of the queue.
At(i) == IF i = 1 THEN payload0
         ELSE IF i = 2 THEN payload1 ELSE back[BackPlus(back_head, i - 3)]
InRegs == Least(2, count)

\* The ring is the queue without its two registers.
PointersInv == back_tail = BackPlus(back_head, count - InRegs)

\* The queue is the predicted path from expect on.
ChainInv == \A i \in 1 .. count :
                /\ At(i) \in Entries
                /\ At(i).pc = IF i = 1 THEN expect ELSE At(i - 1).next

\* Where that path goes on, and that the outstanding request, or else the
\* next one, is for that place.
PathEnd == IF count = 0 THEN expect ELSE At(count).next
RequestInv ==
    /\ mem_req.valid => mem_req.pc = PathEnd /\ fetch_addr = mem_req.next
    /\ ~mem_req.valid => fetch_addr = PathEnd

FetchInd == TypeOK /\ QueueFits /\ PointersInv /\ ChainInv /\ RequestInv

\* How far the head pointer moves.
LEMMA HeadMoves ==
    ASSUME count \in 0 .. FETCHQ_DEPTH, NEW pop \in 0 .. 2, NEW push \in 0 .. 2,
           pop <= count
    PROVE  /\ HeadAdvance(pop, push) \in Nat
           /\ HeadAdvance(pop, push) = Least(2, count - pop + push) - (InRegs - pop)
           /\ InRegs \in 0 .. 2 /\ pop <= InRegs
           /\ InRegs = IF count >= 2 THEN 2 ELSE count
           /\ Least(2, count - pop + push)
                 = IF count - pop + push >= 2 THEN 2 ELSE count - pop + push
<1>1. count \in Nat BY Sizes
<1> QED BY <1>1 DEF HeadAdvance, InRegs, Least

\* The count of the ring's entries: m and r of n and c are in the registers.
LEMMA RingCount ==
    ASSUME NEW c \in Nat, NEW pop \in 0 .. 2, NEW push \in 0 .. 2, pop <= c,
           NEW n \in Nat, n = c - pop + push,
           NEW r \in Nat, r = IF c >= 2 THEN 2 ELSE c,
           NEW m \in Nat, m = IF n >= 2 THEN 2 ELSE n,
           NEW a \in Nat, a = m - (r - pop)
    PROVE  c - r \in Nat /\ n - m \in Nat /\ a + (n - m) = (c - r) + push
OBVIOUS

\* The pointers stay together.
LEMMA PointersMove ==
    ASSUME TypeOK, PointersInv, NEW pop \in 0 .. 2, NEW push \in 0 .. 2,
           pop <= count, NEW p, QueueStep(pop, push, p)
    PROVE  PointersInv'
<1> DEFINE adv == HeadAdvance(pop, push)
           live == count - InRegs
           live2 == count' - InRegs'
<1>1. count \in Nat /\ count \in 0 .. FETCHQ_DEPTH BY Sizes DEF TypeOK
<1>2. /\ adv \in Nat /\ InRegs \in 0 .. 2 /\ pop <= InRegs
      /\ adv = Least(2, count - pop + push) - (InRegs - pop)
      /\ InRegs = IF count >= 2 THEN 2 ELSE count
      /\ Least(2, count - pop + push)
            = IF count - pop + push >= 2 THEN 2 ELSE count - pop + push
  BY <1>1, HeadMoves
<1>3. count' = count - pop + push BY DEF QueueStep
<1>4. InRegs' = Least(2, count - pop + push) BY <1>3 DEF InRegs
<1> HIDE DEF adv
<1>5. live \in Nat /\ live2 \in Nat /\ adv + live2 = live + push
  <2> DEFINE n == count'
             m == InRegs'
  <2>1. n \in Nat /\ n = count - pop + push BY <1>1, <1>3
  <2>2. m \in Nat /\ m = (IF n >= 2 THEN 2 ELSE n) /\ adv = m - (InRegs - pop)
    BY <1>2, <1>4, <2>1
  <2> HIDE DEF n, m
  <2>3. InRegs \in Nat BY <1>2
  <2>4. /\ count - InRegs \in Nat /\ n - m \in Nat
        /\ adv + (n - m) = (count - InRegs) + push
    BY <1>1, <1>2, <2>1, <2>2, <2>3, RingCount
  <2> QED BY <2>4 DEF n, m
<1> HIDE DEF live, live2
<1>6. back_head \in 0 .. BACK_DEPTH - 1 BY DEF TypeOK
<1>7. back_head' = BackPlus(back_head, adv) /\ back_tail' = BackPlus(back_tail, push)
  BY DEF QueueStep, adv
<1>8. back_tail = BackPlus(back_head, live) BY DEF PointersInv, live
<1>9. back_tail' = BackPlus(back_head, live + push)
  BY <1>5, <1>6, <1>7, <1>8, RingAdd
<1>10. BackPlus(back_head', live2) = BackPlus(back_head, adv + live2)
  BY <1>2, <1>5, <1>6, <1>7, RingAdd
<1>11. back_tail' = BackPlus(back_head', live2) BY <1>5, <1>9, <1>10
<1> QED BY <1>11 DEF PointersInv, live2

\* The queue drops what Decode takes at its front and gains the response, as
\* far as it counts, at its end; nothing in between changes.
LEMMA QueueMoves ==
    ASSUME TypeOK, PointersInv, NEW pop \in 0 .. 2, NEW push \in 0 .. 2,
           pop <= count, NEW p \in Seq(Entries), Len(p) <= 2, push <= Len(p),
           count + Len(p) <= FETCHQ_DEPTH, QueueStep(pop, push, p),
           NEW i \in 1 .. count'
    PROVE  At(i)' = IF i <= count - pop THEN At(i + pop)
                    ELSE p[i - (count - pop)]
<1> DEFINE adv == HeadAdvance(pop, push)
           live == count - InRegs
           rest == count - pop
<1>1. count \in Nat /\ count \in 0 .. FETCHQ_DEPTH /\ Len(p) \in Nat
  BY Sizes, LenProperties DEF TypeOK
<1>10. push = 2 => Len(p) = 2
  <2> DEFINE n == Len(p)
  <2>1. n \in Nat /\ n <= 2 /\ push <= n BY <1>1
  <2> HIDE DEF n
  <2>2. push = 2 => n = 2 BY <2>1
  <2> QED BY <2>2 DEF n
<1>2. /\ adv \in Nat /\ InRegs \in 0 .. 2 /\ pop <= InRegs
      /\ adv = Least(2, count - pop + push) - (InRegs - pop)
      /\ InRegs = IF count >= 2 THEN 2 ELSE count
      /\ Least(2, count - pop + push)
            = IF count - pop + push >= 2 THEN 2 ELSE count - pop + push
  BY <1>1, HeadMoves
<1>3. count' = count - pop + push /\ back_head' = BackPlus(back_head, adv)
  BY DEF QueueStep
<1>4. /\ back' = [j \in DOMAIN back |->
                    IF p # <<>> /\ j = back_tail THEN p[1]
                    ELSE IF Len(p) = 2 /\ j = BackPlus(back_tail, 1) THEN p[2]
                    ELSE back[j]]
      /\ payload0' =
            IF rest > 0 THEN <<payload0, payload1, Backing(0)>>[pop + 1]
            ELSE IF push > 0 THEN p[1] ELSE payload0
      /\ payload1' =
            IF rest > 1 THEN <<payload1, Backing(0), Backing(1)>>[pop + 1]
            ELSE IF rest = 1 /\ push > 0 THEN p[1]
            ELSE IF rest = 0 /\ Len(p) = 2 THEN p[2] ELSE payload1
  BY DEF QueueStep, PayloadStep
<1>5. Backing(0) = At(3) /\ Backing(1) = At(4)
  BY DEF Backing, At
<1>6. CASE i = 1
  <2>1. At(i)' = payload0' BY <1>6 DEF At
  <2>2. CASE rest > 0
    <3>1. payload0' = <<payload0, payload1, At(3)>>[pop + 1]
      BY <1>4, <1>5, <2>2
    <3>2. payload0' = At(1 + pop)
      <4>1. CASE pop = 0 BY <3>1, <4>1 DEF At
      <4>2. CASE pop = 1 BY <3>1, <4>2 DEF At
      <4>3. CASE pop = 2 BY <3>1, <4>3 DEF At
      <4> QED BY <4>1, <4>2, <4>3
    <3> QED BY <1>1, <1>6, <2>1, <2>2, <3>2
  <2>3. CASE ~(rest > 0)
    <3>1. rest = 0 /\ push > 0 BY <1>1, <1>3, <1>6, <2>3
    <3>2. payload0' = p[1] BY <1>4, <2>3, <3>1
    <3> QED BY <1>1, <1>6, <2>1, <3>1, <3>2
  <2> QED BY <2>2, <2>3
<1>7. CASE i = 2
  <2>1. At(i)' = payload1' BY <1>7 DEF At
  <2>2. CASE rest > 1
    <3>1. payload1' = <<payload1, At(3), At(4)>>[pop + 1]
      BY <1>4, <1>5, <2>2
    <3>2. payload1' = At(2 + pop)
      <4>1. CASE pop = 0 BY <3>1, <4>1 DEF At
      <4>2. CASE pop = 1 BY <3>1, <4>2 DEF At
      <4>3. CASE pop = 2 BY <3>1, <4>3 DEF At
      <4> QED BY <4>1, <4>2, <4>3
    <3> QED BY <1>1, <1>7, <2>1, <2>2, <3>2
  <2>3. CASE rest = 1
    <3>1. push > 0 BY <1>1, <1>3, <1>7, <2>3
    <3>2. payload1' = p[1] BY <1>4, <2>3, <3>1
    <3> QED BY <1>1, <1>7, <2>1, <2>3, <3>2
  <2>4. CASE rest = 0
    <3>1. push = 2 BY <1>1, <1>3, <1>7, <2>4
    <3>2. Len(p) = 2 BY <1>10, <3>1
    <3>3. payload1' = p[2] BY <1>4, <2>4, <3>2
    <3> QED BY <1>1, <1>7, <2>1, <2>4, <3>3
  <2> QED BY <1>1, <2>2, <2>3, <2>4
<1>8. CASE i >= 3
  <2> DEFINE off == adv + (i - 3)
             hd == back_head
  <2>1. hd \in 0 .. BACK_DEPTH - 1 BY DEF TypeOK
  <2>2. i \in Nat /\ i - 3 \in Nat /\ off \in Nat BY <1>1, <1>2, <1>3, <1>8
  <2>3. At(i)' = back'[BackPlus(back_head', i - 3)] BY <1>8 DEF At
  <2>4. BackPlus(back_head', i - 3) = BackPlus(hd, off)
    BY <1>2, <1>3, <2>1, <2>2, RingAdd
  <2> HIDE DEF adv, hd
  <2>5. BackPlus(hd, off) \in 0 .. BACK_DEPTH - 1 BY <2>1, <2>2, RingAdd
  <2>6. At(i)' = IF p # <<>> /\ BackPlus(hd, off) = back_tail THEN p[1]
                 ELSE IF Len(p) = 2 /\ BackPlus(hd, off) = BackPlus(back_tail, 1)
                      THEN p[2]
                 ELSE back[BackPlus(hd, off)]
    BY <1>4, <2>3, <2>4, <2>5 DEF TypeOK
  <2>7. live \in Nat /\ back_tail = BackPlus(hd, live)
        /\ BackPlus(back_tail, 1) = BackPlus(hd, live + 1)
    <3>1. live \in Nat BY <1>1, <1>2
    <3>2. back_tail = BackPlus(hd, live) BY DEF PointersInv, hd
    <3> HIDE DEF live
    <3> QED BY <2>1, <3>1, <3>2, RingAdd
  <2>8. p # <<>> <=> Len(p) > 0 BY <1>1, EmptySeq
  <2>9. CASE i <= rest
    <3>1. off = i + pop - 3 /\ off < live
      BY <1>1, <1>2, <1>3, <1>8, <2>9
    <3>2. At(i + pop) = back[BackPlus(hd, off)]
      BY <1>1, <1>8, <3>1, <2>2 DEF At, hd
    <3>3. p # <<>> => BackPlus(hd, off) # back_tail
      <4> SUFFICES ASSUME Len(p) > 0 PROVE BackPlus(hd, off) # back_tail
        BY <2>8
      <4>1. live \in 0 .. BACK_DEPTH - 1 /\ off \in 0 .. BACK_DEPTH - 1
        BY <1>1, <1>2, <1>8, <2>2, <2>9, <3>1, Sizes, SMTT(30)
      <4>2. off # live BY <2>2, <2>7, <3>1
      <4> HIDE DEF off, live
      <4> QED BY <2>1, <2>7, <4>1, <4>2, RingApart
    <3>4. Len(p) = 2 => BackPlus(hd, off) # BackPlus(back_tail, 1)
      <4> SUFFICES ASSUME Len(p) = 2
                   PROVE  BackPlus(hd, off) # BackPlus(back_tail, 1)
        OBVIOUS
      <4>1. live + 1 \in 0 .. BACK_DEPTH - 1 /\ off \in 0 .. BACK_DEPTH - 1
        BY <1>1, <1>2, <1>8, <2>2, <2>9, <3>1, Sizes
      <4>2. off # live + 1 BY <2>2, <2>7, <3>1
      <4> HIDE DEF off, live
      <4> QED BY <2>1, <2>7, <4>1, <4>2, RingApart
    <3> QED BY <2>6, <2>9, <3>2, <3>3, <3>4
  <2>10. CASE ~(i <= rest)
    <3>1. i - rest \in 1 .. 2 /\ i - rest <= push
      BY <1>1, <1>3, <2>2, <2>10
    <3>2. off = live + (i - rest) - 1
      BY <1>1, <1>2, <1>3, <1>8, <2>2, <2>10, SMTT(30)
    <3>3. CASE i - rest = 1
      <4>1. off = live /\ Len(p) > 0 BY <1>1, <2>7, <3>1, <3>2, <3>3
      <4>2. At(i)' = p[1] BY <2>6, <2>7, <2>8, <4>1
      <4> QED BY <2>10, <3>3, <4>2
    <3>4. CASE i - rest = 2
      <4>0. push = 2 BY <3>1, <3>4
      <4>1. off = live + 1 /\ Len(p) = 2 BY <1>10, <2>7, <3>2, <3>4, <4>0
      <4>2. BackPlus(hd, off) # back_tail
        <5>1. live \in 0 .. BACK_DEPTH - 1 /\ live + 1 \in 0 .. BACK_DEPTH - 1
              /\ live # live + 1
          BY <1>1, <1>2, <2>7, <4>1, Sizes
        <5> HIDE DEF live
        <5> QED BY <2>1, <2>7, <4>1, <5>1, RingApart
      <4>3. At(i)' = p[2] BY <2>6, <2>7, <4>1, <4>2
      <4> QED BY <2>10, <3>4, <4>3
    <3> QED BY <3>1, <3>3, <3>4
  <2> QED BY <2>9, <2>10
<1>9. i = 1 \/ i = 2 \/ i >= 3 BY <1>1, <1>3
<1> QED BY <1>6, <1>7, <1>8, <1>9

\* A response is one or two entries for the requested words; the part of it
\* that counts starts at the requested address, follows its predictions and
\* ends where predict_next_pc says.
LEMMA ResponseIs ==
    ASSUME TypeOK, NEW t0 \in Targets \cup {None}, NEW t1 \in Targets \cup {None},
           ~mem_req.two => t1 = None
    PROVE  LET p == Response(t0, t1)
               push == PushCount(t0)
           IN  /\ p \in Seq(Entries)
               /\ Len(p) = IF mem_req.valid THEN Lanes(mem_req) ELSE 0
               /\ Len(p) <= 2 /\ push \in 0 .. 2 /\ push <= Len(p)
               /\ push = 0 <=> ~mem_req.valid
               /\ push > 0 => /\ p[1].pc = mem_req.pc
                              /\ p[push].next = predict_next_pc(t0, t1)
               /\ push = 2 => p[2].pc = p[1].next
               /\ predict_next_pc(t0, t1) \in PCs
<1> DEFINE a == mem_req.pc
           first == [pc |-> a, next |-> NextOf(a, t0)]
           second == [pc |-> Plus(a, 1), next |-> NextOf(Plus(a, 1), t1)]
<1>1. a \in PCs /\ mem_req.valid \in BOOLEAN /\ mem_req.two \in BOOLEAN
  BY DEF TypeOK, Requests
<1>2. Targets \subseteq PCs /\ None \notin PCs BY FetchAssumption
<1>3. /\ Plus(a, 1) \in PCs /\ Plus(a, 2) \in PCs
      /\ Plus(Plus(a, 1), 1) = Plus(a, 2)
  BY <1>1, PlusIs
<1>4. Plus(Plus(a, 1), 1) \in PCs BY <1>3
<1> HIDE DEF a
<1>5. first \in Entries /\ second \in Entries
  BY <1>1, <1>2, <1>3, <1>4 DEF NextOf, Entries
<1>6. Response(t0, t1) = IF ~mem_req.valid THEN <<>>
                         ELSE IF mem_req.two THEN <<first, second>> ELSE <<first>>
  BY DEF Response, a
<1>7. predict_next_pc(t0, t1) = IF t0 # None THEN t0
                                ELSE IF mem_req.two /\ t1 # None THEN t1
                                ELSE Plus(a, Lanes(mem_req))
  BY DEF predict_next_pc, Sequential, a
<1>8. predict_next_pc(t0, t1) \in PCs
  BY <1>1, <1>2, <1>3, <1>7 DEF Lanes
<1>9. PushCount(t0) = IF ~mem_req.valid THEN 0
                      ELSE IF t0 # None THEN 1 ELSE Lanes(mem_req)
  BY DEF PushCount
<1>10. CASE ~mem_req.valid
  <2>1. Response(t0, t1) = <<>> /\ PushCount(t0) = 0 BY <1>6, <1>9, <1>10
  <2> QED BY <1>8, <1>10, <2>1
<1>11. CASE mem_req.valid /\ ~mem_req.two
  <2>1. Response(t0, t1) = <<first>> /\ PushCount(t0) = 1 /\ Lanes(mem_req) = 1
    BY <1>6, <1>9, <1>11 DEF Lanes
  <2>2. first.next = predict_next_pc(t0, t1)
    BY <1>7, <1>11, <2>1 DEF NextOf
  <2>3. first.pc = a OBVIOUS
  <2> HIDE DEF first
  <2>4. <<first>> \in Seq(Entries) /\ Len(<<first>>) = 1 /\ <<first>>[1] = first
    BY <1>5
  <2> QED BY <1>8, <1>11, <2>1, <2>2, <2>3, <2>4 DEF a
<1>12. CASE mem_req.valid /\ mem_req.two
  <2>1. Response(t0, t1) = <<first, second>> /\ Lanes(mem_req) = 2
        /\ PushCount(t0) = IF t0 # None THEN 1 ELSE 2
    BY <1>6, <1>9, <1>12 DEF Lanes
  <2>2. first.pc = a /\ second.pc = Plus(a, 1) OBVIOUS
  <2>3. t0 # None => first.next = predict_next_pc(t0, t1)
    BY <1>7, <2>1 DEF NextOf
  <2>4. t0 = None => /\ second.next = predict_next_pc(t0, t1)
                     /\ first.next = Plus(a, 1)
    BY <1>3, <1>7, <1>12, <2>1 DEF NextOf
  <2> HIDE DEF first, second
  <2>5. /\ <<first, second>> \in Seq(Entries) /\ Len(<<first, second>>) = 2
        /\ <<first, second>>[1] = first /\ <<first, second>>[2] = second
    BY <1>5
  <2>6. CASE t0 = None
    BY <1>8, <1>12, <2>1, <2>2, <2>4, <2>5, <2>6 DEF a
  <2>7. CASE t0 # None
    BY <1>8, <1>12, <2>1, <2>2, <2>3, <2>5, <2>7 DEF a
  <2> QED BY <2>6, <2>7
<1> QED BY <1>1, <1>10, <1>11, <1>12

\* Payload registers and ring keep to entries, or to what they had at reset.
LEMMA PayloadTypes ==
    ASSUME TypeOK, NEW pop \in 0 .. 2, NEW push \in 0 .. 2,
           NEW p \in Seq(Entries), Len(p) <= 2, push <= Len(p),
           PayloadStep(pop, push, p)
    PROVE  /\ {payload0', payload1'} \subseteq Entries \cup {None}
           /\ back' \in [0 .. BACK_DEPTH - 1 -> Entries \cup {None}]
<1> DEFINE E == Entries \cup {None}
           rest == count - pop
<1>1. Len(p) \in Nat BY LenProperties
<1>2. (Len(p) > 0 => p[1] \in E) /\ (Len(p) = 2 => p[2] \in E)
  BY <1>1, ElementOfSeq
<1>3. p # <<>> => Len(p) > 0 BY <1>1, EmptySeq
<1>4. /\ payload0 \in E /\ payload1 \in E
      /\ back \in [0 .. BACK_DEPTH - 1 -> E] /\ back_head \in 0 .. BACK_DEPTH - 1
  BY DEF TypeOK
<1>5. Backing(0) \in E /\ Backing(1) \in E
  <2>1. BackPlus(back_head, 0) \in 0 .. BACK_DEPTH - 1
        /\ BackPlus(back_head, 1) \in 0 .. BACK_DEPTH - 1
    BY <1>4, RingAdd
  <2> QED BY <1>4, <2>1 DEF Backing
<1>6. back' \in [0 .. BACK_DEPTH - 1 -> E]
  BY <1>2, <1>3, <1>4 DEF PayloadStep
<1>7. <<payload0, payload1, Backing(0)>>[pop + 1] \in E
      /\ <<payload1, Backing(0), Backing(1)>>[pop + 1] \in E
  <2>1. pop + 1 = 1 \/ pop + 1 = 2 \/ pop + 1 = 3 OBVIOUS
  <2> HIDE DEF E
  <2> QED BY <1>4, <1>5, <2>1
<1>8. push > 0 => Len(p) > 0 BY <1>1
<1>9. payload0' \in E BY <1>2, <1>4, <1>7, <1>8 DEF PayloadStep
<1>10. payload1' \in E BY <1>2, <1>4, <1>7, <1>8 DEF PayloadStep
<1> QED BY <1>6, <1>9, <1>10

\* Reset establishes the invariant.
LEMMA FetchInitInd == Init => FetchInd
<1> SUFFICES ASSUME Init PROVE FetchInd OBVIOUS
<1> USE Sizes
<1>1. 0 \in PCs /\ 0 \in 0 .. BACK_DEPTH - 1 /\ 0 \in 0 .. FETCHQ_DEPTH
  BY DEF PCs
<1>2. mem_req \in Requests BY <1>1 DEF Init, NoReq, Requests
<1>3. TypeOK BY <1>1, <1>2 DEF Init, TypeOK
<1>4. mem_req.valid = FALSE BY DEF Init, NoReq
<1>5. QueueFits BY <1>4 DEF Init, QueueFits
<1>6. PointersInv
  <2>1. count - InRegs = 0 BY DEF Init, InRegs, Least
  <2>2. BackPlus(0, 0) = 0 BY ModIs DEF BackPlus
  <2> QED BY <2>1, <2>2 DEF Init, PointersInv
<1>7. ChainInv BY DEF Init, ChainInv
<1>8. RequestInv BY <1>4 DEF Init, RequestInv, PathEnd, fetch_addr
<1> QED BY <1>3, <1>5, <1>6, <1>7, <1>8 DEF FetchInd

\* The fields of a request.
LEMMA RequestFields ==
    ASSUME NEW v \in BOOLEAN, NEW w \in BOOLEAN, NEW a \in PCs, NEW b \in PCs,
           NEW r, r = [valid |-> v, two |-> w, pc |-> a, next |-> b]
    PROVE  r \in Requests /\ (r.valid <=> v) /\ r.pc = a /\ r.next = b
BY DEF Requests

\* After a redirect the queue is empty and the next request is its target's.
LEMMA RedirectInd ==
    ASSUME FetchInd, NEW target \in Targets, Redirect(target),
           {payload0', payload1'} \subseteq Entries \cup {None},
           back' \in [0 .. BACK_DEPTH - 1 -> Entries \cup {None}]
    PROVE  FetchInd'
<1> USE Sizes
<1>0. /\ pc' = target /\ expect' = target /\ pending_redirect' = None
      /\ count' = 0 /\ back_head' = 0 /\ back_tail' = 0
  BY DEF Redirect
<1>1. target \in PCs /\ 0 \in PCs /\ None \notin PCs
  BY FetchAssumption DEF PCs
<1>2. mem_req' = [valid |-> FALSE, two |-> FALSE, pc |-> target,
                  next |-> target]
  BY DEF Redirect, NoReq
<1>4. mem_req' \in Requests /\ ~mem_req'.valid
  <2>1. PICK v \in BOOLEAN : v = FALSE BY Zenon
  <2>2. mem_req' = [valid |-> v, two |-> v, pc |-> target, next |-> target]
    BY <1>2, <2>1, Zenon
  <2>3. mem_req' \in Requests /\ (mem_req'.valid <=> v)
    BY <1>1, <2>2, RequestFields
  <2> QED BY <2>1, <2>3
<1>3. TypeOK' BY <1>0, <1>1, <1>4 DEF TypeOK
<1>5. QueueFits' BY <1>0, <1>4 DEF QueueFits
<1>6. PointersInv'
  <2>1. count' - InRegs' = 0 BY <1>0 DEF InRegs, Least
  <2>2. BackPlus(0, 0) = 0 BY ModIs DEF BackPlus
  <2> QED BY <1>0, <2>1, <2>2 DEF PointersInv
<1>7. ChainInv' BY <1>0 DEF ChainInv
<1>8. RequestInv' BY <1>0, <1>4 DEF RequestInv, PathEnd, fetch_addr
<1> QED BY <1>3, <1>5, <1>6, <1>7, <1>8 DEF FetchInd

\* A cycle without redirect.
LEMMA RunInd ==
    ASSUME FetchInd, NEW ready \in BOOLEAN, NEW two \in BOOLEAN,
           NEW t0 \in Targets \cup {None}, NEW t1 \in Targets \cup {None},
           NEW l0 \in Targets \cup {None}, ~mem_req.two => t1 = None,
           Run(ready, two, t0, t1, l0)
    PROVE  FetchInd'
<1> DEFINE pop == Pop(ready, two)
           p == Response(t0, t1)
           push == PushCount(t0)
           pred == predict_next_pc(t0, t1)
           rest == count - pop
<1>1. TypeOK /\ QueueFits /\ PointersInv /\ ChainInv /\ RequestInv
  BY DEF FetchInd
<1>2. count \in Nat /\ count <= FETCHQ_DEPTH BY <1>1, Sizes DEF TypeOK
<1>3. pop \in 0 .. 2 /\ pop <= count BY <1>2 DEF Pop
<1>4. /\ p \in Seq(Entries)
      /\ Len(p) = IF mem_req.valid THEN Lanes(mem_req) ELSE 0
      /\ Len(p) <= 2 /\ push \in 0 .. 2 /\ push <= Len(p)
      /\ push = 0 <=> ~mem_req.valid
      /\ push > 0 => p[1].pc = mem_req.pc /\ p[push].next = pred
      /\ push = 2 => p[2].pc = p[1].next
      /\ pred \in PCs
  BY <1>1, ResponseIs
<1>5. /\ QueueStep(pop, push, p) /\ expect' = Taken(pop)
      /\ Request(t0, t1, l0)
      /\ pc' = IF FetchIssue THEN NextPc(l0) ELSE pc
      /\ pending_redirect' =
            IF PredictCorrection(t0, t1) THEN pred
            ELSE IF FetchIssue THEN None ELSE pending_redirect
  BY DEF Run
<1> HIDE DEF pop, p, push, pred
<1>6. count + Len(p) <= FETCHQ_DEPTH BY <1>1, <1>4 DEF QueueFits
<1>7. Len(p) \in Nat BY <1>4, LenProperties
<1>8. count' = count - pop + push BY <1>5 DEF QueueStep
<1>9. PointersInv' BY <1>1, <1>3, <1>4, <1>5, PointersMove
<1>10. \A i \in 1 .. count' : At(i)' = IF i <= rest THEN At(i + pop)
                                       ELSE p[i - rest]
  BY <1>1, <1>3, <1>4, <1>5, <1>6, QueueMoves
<1>11. fetch_addr \in PCs /\ NextPc(l0) \in PCs /\ fetch_two \in BOOLEAN
  <2>1. fetch_addr \in PCs BY <1>1 DEF TypeOK, fetch_addr
  <2>2. Targets \subseteq PCs BY FetchAssumption
  <2>3. Plus(fetch_addr, 1) \in PCs /\ Plus(fetch_addr, 2) \in PCs
    BY <2>1, PlusIs
  <2>4. NextPc(l0) \in PCs BY <2>2, <2>3 DEF NextPc
  <2>5. fetch_two \in BOOLEAN BY DEF fetch_two
  <2> QED BY <2>1, <2>4, <2>5
<1>12. expect' \in PCs
       /\ (pop > 0 => expect' = At(pop).next)
       /\ (pop = 0 => expect' = expect)
  <2>1. CASE pop = 0 BY <1>1, <1>5, <2>1 DEF Taken, TypeOK
  <2>2. CASE pop = 1
    <3>1. At(1) \in Entries BY <1>1, <1>2, <1>3, <2>2 DEF ChainInv
    <3>2. expect' = payload0.next /\ At(1) = payload0
      BY <1>5, <2>2 DEF Taken, At
    <3> QED BY <2>2, <3>1, <3>2 DEF Entries
  <2>3. CASE pop = 2
    <3>1. At(2) \in Entries BY <1>1, <1>2, <1>3, <2>3 DEF ChainInv
    <3>2. expect' = payload1.next /\ At(2) = payload1
      BY <1>5, <2>3 DEF Taken, At
    <3> QED BY <2>3, <3>1, <3>2 DEF Entries
  <2> QED BY <1>3, <2>1, <2>2, <2>3
<1>13. count' \in 0 .. FETCHQ_DEPTH
  BY <1>2, <1>3, <1>4, <1>6, <1>7, <1>8, Sizes
<1>14. mem_req' \in Requests
       /\ (FetchIssue => /\ mem_req'.valid <=> ~PredictCorrection(t0, t1)
                         /\ mem_req'.pc = fetch_addr
                         /\ mem_req'.next = NextPc(l0))
       /\ (~FetchIssue => ~mem_req'.valid)
  <2>1. CASE FetchIssue
    <3>1. mem_req' = [valid |-> ~PredictCorrection(t0, t1),
                      two |-> fetch_two, pc |-> fetch_addr,
                      next |-> NextPc(l0)]
      BY <1>5, <2>1 DEF Request
    <3>2. PICK v \in BOOLEAN : v = ~PredictCorrection(t0, t1)
      BY Zenon DEF PredictCorrection
    <3>3. mem_req' = [valid |-> v, two |-> fetch_two, pc |-> fetch_addr,
                      next |-> NextPc(l0)]
      BY <3>1, <3>2, Zenon
    <3>4. mem_req' \in Requests /\ (mem_req'.valid <=> v)
          /\ mem_req'.pc = fetch_addr /\ mem_req'.next = NextPc(l0)
      BY <1>11, <3>3, RequestFields
    <3> QED BY <2>1, <3>2, <3>4
  <2>2. CASE ~FetchIssue
    <3>1. mem_req' = [mem_req EXCEPT !.valid = FALSE]
      BY <1>5, <2>2 DEF Request
    <3> QED BY <1>1, <2>2, <3>1 DEF TypeOK, Requests
  <2> QED BY <2>1, <2>2
<1>15. TypeOK'
  <2>1. /\ {payload0', payload1'} \subseteq Entries \cup {None}
        /\ back' \in [0 .. BACK_DEPTH - 1 -> Entries \cup {None}]
    BY <1>1, <1>3, <1>4, <1>5, PayloadTypes DEF QueueStep
  <2>2. back_head' \in 0 .. BACK_DEPTH - 1 /\ back_tail' \in 0 .. BACK_DEPTH - 1
    <3>1. HeadAdvance(pop, push) \in Nat BY <1>1, <1>3, <1>4, HeadMoves DEF TypeOK
    <3>2. push \in Nat BY <1>4
    <3> QED BY <1>1, <1>5, <3>1, <3>2, RingAdd DEF QueueStep, TypeOK
  <2>3. pc' \in PCs BY <1>1, <1>5, <1>11 DEF TypeOK
  <2>4. pending_redirect' \in PCs \cup {None} BY <1>1, <1>4, <1>5 DEF TypeOK
  <2> QED BY <1>12, <1>13, <1>14, <2>1, <2>2, <2>3, <2>4 DEF TypeOK
<1>16. QueueFits'
  <2>1. count' <= count + Len(p) /\ count' \in Nat
    BY <1>2, <1>3, <1>4, <1>7, <1>8
  <2>2. CASE FetchIssue
    <3>1. count + Len(p) <= FETCHQ_DEPTH - 2
      BY <1>4, <2>2 DEF FetchIssue, PairCapacity, reserved_count
    <3>2. Lanes(mem_req)' \in 1 .. 2 BY DEF Lanes
    <3> QED BY <1>2, <1>7, <2>1, <3>1, <3>2, Sizes DEF QueueFits
  <2>3. CASE ~FetchIssue
    BY <1>6, <1>7, <1>14, <2>1, <2>3, <1>2, Sizes DEF QueueFits
  <2> QED BY <2>2, <2>3
<1>17. ChainInv'
  <2> SUFFICES ASSUME NEW i \in 1 .. count'
               PROVE  /\ At(i)' \in Entries
                      /\ At(i)'.pc = IF i = 1 THEN expect' ELSE At(i - 1)'.next
    BY DEF ChainInv
  <2>1. i \in Nat /\ rest \in Nat /\ count' = rest + push
    BY <1>2, <1>3, <1>4, <1>8
  <2>2. CASE i <= rest
    <3>1. i + pop \in 1 .. count BY <1>2, <1>3, <2>1, <2>2
    <3>2. At(i)' = At(i + pop) BY <1>10, <2>2
    <3>3. At(i + pop) \in Entries
          /\ At(i + pop).pc = IF i + pop = 1 THEN expect
                              ELSE At(i + pop - 1).next
      <4>1. PICK j \in 1 .. count : j = i + pop BY <3>1
      <4>2. At(j) \in Entries /\ At(j).pc = IF j = 1 THEN expect ELSE At(j - 1).next
        BY <1>1 DEF ChainInv
      <4>3. j - 1 = i + pop - 1 BY <1>3, <2>1, <4>1
      <4> QED BY <4>1, <4>2, <4>3
    <3>4. CASE i = 1
      <4>1. CASE pop = 0 BY <1>12, <3>2, <3>3, <3>4, <4>1
      <4>2. CASE pop > 0
        <5>1. i + pop # 1 /\ i + pop - 1 = pop BY <1>3, <3>4, <4>2
        <5> QED BY <1>12, <3>2, <3>3, <3>4, <4>2, <5>1
      <4> QED BY <1>3, <4>1, <4>2
    <3>5. CASE i # 1
      <4>1. i - 1 \in 1 .. count' /\ i - 1 <= rest
        BY <1>4, <2>1, <2>2, <3>5
      <4>2. At(i - 1)' = At((i - 1) + pop) BY <1>10, <4>1
      <4>3. (i - 1) + pop = i + pop - 1 /\ i + pop # 1 BY <1>3, <2>1, <3>5
      <4> QED BY <3>2, <3>3, <3>5, <4>2, <4>3
    <3> QED BY <3>4, <3>5
  <2>3. CASE ~(i <= rest)
    <3>1. i - rest \in 1 .. 2 /\ i - rest <= push /\ push > 0
      BY <1>4, <2>1, <2>3
    <3>2. At(i)' = p[i - rest] BY <1>10, <2>3
    <3>3. At(i)' \in Entries
      <4>1. i - rest \in 1 .. Len(p) BY <1>4, <1>7, <3>1
      <4> QED BY <1>4, <3>2, <4>1, ElementOfSeq
    <3>4. mem_req.valid /\ mem_req.pc = PathEnd BY <1>1, <1>4, <3>1 DEF RequestInv
    <3>5. CASE i - rest = 1
      <4>1. At(i)'.pc = PathEnd BY <1>4, <3>1, <3>2, <3>4, <3>5
      <4>2. CASE rest = 0
        <5>1. pop = count /\ i = 1 BY <1>2, <1>3, <2>1, <3>5, <4>2
        <5>2. PathEnd = expect' BY <1>12, <5>1, <1>3 DEF PathEnd
        <5> QED BY <3>3, <4>1, <5>1, <5>2
      <4>3. CASE rest > 0
        <5>1. i - 1 <= rest /\ i # 1 /\ i - 1 \in 1 .. count'
              /\ (i - 1) + pop = count /\ count # 0
          BY <1>2, <1>3, <1>4, <2>1, <3>5, <4>3
        <5>2. At(i - 1)' = At(count) BY <1>10, <5>1
        <5> QED BY <3>3, <4>1, <5>1, <5>2 DEF PathEnd
      <4> QED BY <2>1, <4>2, <4>3
    <3>6. CASE i - rest = 2
      <4>1. push = 2 /\ i - 1 \in 1 .. count' /\ ~(i - 1 <= rest)
            /\ (i - 1) - rest = 1 /\ i # 1
        <5>1. PICK m \in Nat : m = rest BY <2>1
        <5>2. PICK q \in 0 .. 2 : q = push BY <1>4
        <5>3. i = m + 2 /\ i - m <= q BY <2>1, <3>1, <3>6, <5>1, <5>2
        <5>4. q = 2 /\ count' = m + 2 BY <2>1, <5>1, <5>2, <5>3
        <5> QED BY <5>1, <5>2, <5>3, <5>4
      <4>2. At(i - 1)' = p[1] BY <1>10, <4>1
      <4> QED BY <1>4, <3>2, <3>3, <3>6, <4>1, <4>2
    <3> QED BY <3>1, <3>5, <3>6
  <2> QED BY <2>2, <2>3
<1>18. PathEnd' = IF mem_req.valid THEN pred ELSE PathEnd
  <2>1. rest \in Nat /\ count' = rest + push BY <1>2, <1>3, <1>4, <1>8
  <2>2. PICK n \in Nat : n = count' BY <1>13, Sizes
  <2>3. n = 0 => PathEnd' = expect' BY <2>2 DEF PathEnd
  <2>4. n # 0 => PathEnd' = At(n)'.next BY <2>2 DEF PathEnd, At
  <2>5. CASE mem_req.valid
    <3>1. push > 0 /\ n # 0 /\ n \in 1 .. count' /\ ~(n <= rest)
          /\ n - rest = push
      BY <1>4, <2>1, <2>2, <2>5
    <3>2. At(n)' = p[push] BY <1>10, <3>1
    <3> QED BY <1>4, <2>4, <2>5, <3>1, <3>2
  <2>6. CASE ~mem_req.valid
    <3>1. push = 0 /\ n = rest BY <1>4, <2>1, <2>2, <2>6
    <3>2. CASE rest = 0
      <4>1. pop = count BY <1>2, <1>3, <3>2
      <4>2. PathEnd' = expect' BY <2>3, <3>1, <3>2
      <4>3. PathEnd = expect' BY <1>2, <1>3, <1>12, <4>1 DEF PathEnd
      <4> QED BY <2>6, <4>2, <4>3
    <3>3. CASE rest > 0
      <4>1. n \in 1 .. count' /\ n <= rest /\ n + pop = count
            /\ count # 0 /\ n # 0
        BY <1>2, <1>3, <2>1, <2>2, <3>1, <3>3
      <4>2. At(n)' = At(count) BY <1>10, <4>1
      <4> QED BY <2>4, <2>6, <4>1, <4>2 DEF PathEnd
    <3> QED BY <2>1, <3>2, <3>3
  <2> QED BY <2>5, <2>6
<1>19. RequestInv'
  <2>1. None \notin PCs BY FetchAssumption
  <2>2. CASE PredictCorrection(t0, t1)
    <3>1. mem_req.valid BY <2>2 DEF PredictCorrection
    <3>2. fetch_addr' = pred BY <1>4, <1>5, <2>1, <2>2 DEF fetch_addr
    <3>3. ~mem_req'.valid BY <1>14, <2>2
    <3> QED BY <1>18, <3>1, <3>2, <3>3 DEF RequestInv
  <2>3. CASE ~PredictCorrection(t0, t1)
    <3>1. fetch_addr = PathEnd'
      <4>1. mem_req.valid => pred = mem_req.next
        BY <2>3 DEF PredictCorrection, pred
      <4> QED BY <1>1, <1>18, <4>1 DEF RequestInv
    <3>2. CASE FetchIssue
      <4>1. fetch_addr' = NextPc(l0)
        BY <1>5, <2>3, <3>2 DEF fetch_addr
      <4>2. mem_req'.valid /\ mem_req'.pc = fetch_addr
            /\ mem_req'.next = NextPc(l0)
        BY <1>14, <2>3, <3>2
      <4> QED BY <3>1, <4>1, <4>2 DEF RequestInv
    <3>3. CASE ~FetchIssue
      <4>1. fetch_addr' = fetch_addr BY <1>5, <2>3, <3>3 DEF fetch_addr
      <4>2. ~mem_req'.valid BY <1>14, <3>3
      <4> QED BY <3>1, <4>1, <4>2 DEF RequestInv
    <3> QED BY <3>2, <3>3
  <2> QED BY <2>2, <2>3
<1> QED BY <1>9, <1>15, <1>16, <1>17, <1>19 DEF FetchInd

\* Every clock edge keeps the invariant.
LEMMA FetchNextInd == FetchInd /\ [Next]_vars => FetchInd'
<1> SUFFICES ASSUME FetchInd, [Next]_vars PROVE FetchInd' OBVIOUS
<1>1. CASE RunCycle
  <2>1. PICK ready \in BOOLEAN, two \in BOOLEAN,
             t0 \in IF mem_req.valid THEN Targets \cup {None} ELSE {None},
             t1 \in IF mem_req.valid /\ mem_req.two THEN Targets \cup {None}
                    ELSE {None},
             l0 \in IF FetchIssue THEN Targets \cup {None} ELSE {None} :
                Run(ready, two, t0, t1, l0)
    BY <1>1, Zenon DEF RunCycle
  <2>2. /\ t0 \in Targets \cup {None} /\ t1 \in Targets \cup {None}
        /\ l0 \in Targets \cup {None}
        /\ ~mem_req.two => t1 = None
    OBVIOUS
  <2> QED BY <2>1, <2>2, RunInd
<1>2. CASE JumpCycle
  <2>1. PICK target \in Targets : Redirect(target) BY <1>2 DEF JumpCycle
  <2>2. /\ {payload0', payload1'} \subseteq Entries \cup {None}
        /\ back' \in [0 .. BACK_DEPTH - 1 -> Entries \cup {None}]
    BY <1>2 DEF JumpCycle, FetchInd, TypeOK
  <2> QED BY <2>1, <2>2, RedirectInd
<1>3. CASE InvalidateCycle
  <2>1. PICK target, ready, two, t0, t1 :
           /\ target \in Targets /\ Redirect(target)
           /\ t0 \in Targets \cup {None}
           /\ t1 \in IF mem_req.two THEN Targets \cup {None} ELSE {None}
           /\ PayloadStep(Pop(ready, two), PushCount(t0), Response(t0, t1))
    BY <1>3 DEF InvalidateCycle
  <2>2. Pop(ready, two) \in 0 .. 2 BY DEF Pop
  <2>3. /\ Response(t0, t1) \in Seq(Entries)
        /\ Len(Response(t0, t1)) <= 2 /\ PushCount(t0) \in 0 .. 2
        /\ PushCount(t0) <= Len(Response(t0, t1))
    BY <2>1, ResponseIs DEF FetchInd
  <2>4. /\ {payload0', payload1'} \subseteq Entries \cup {None}
        /\ back' \in [0 .. BACK_DEPTH - 1 -> Entries \cup {None}]
    BY <2>1, <2>2, <2>3, PayloadTypes DEF FetchInd
  <2> QED BY <2>1, <2>4, RedirectInd
<1>4. CASE UNCHANGED vars
  BY <1>4 DEF vars, queue, FetchInd, TypeOK, QueueFits, PointersInv, InRegs,
              ChainInv, At, RequestInv, PathEnd, fetch_addr, Lanes
<1> QED BY <1>1, <1>2, <1>3, <1>4 DEF Next

\* Every reachable state of the fetch stage satisfies the invariant.
THEOREM FetchInductive == Spec => []FetchInd
BY FetchInitInd, FetchNextInd, PTL DEF Spec

\* Requests are made only with room for what they bring, so the queue never
\* overflows and a response written whole overwrites nothing live.
THEOREM FetchSafe == Spec => []FetchInv
<1>1. FetchInd => FetchInv BY DEF FetchInd, FetchInv
<1> QED BY <1>1, FetchInductive, PTL

\* What Decode takes is the predicted path, word by word, whatever the L0
\* table, the predictor, branches and fences do and wherever the ring wraps.
THEOREM FetchInOrder == Spec => []StreamInOrder
<1>1. FetchInd => StreamInOrder
  <2> SUFFICES ASSUME FetchInd, NEW i \in 1 .. count
               PROVE  /\ Content[i] # None
                      /\ Content[i].pc = IF i = 1 THEN expect
                                         ELSE Content[i - 1].next
    BY DEF StreamInOrder
  <2>1. At(i) \in Entries /\ At(i).pc = IF i = 1 THEN expect ELSE At(i - 1).next
    BY DEF FetchInd, ChainInv
  <2>2. \A j \in 1 .. count : Content[j] = At(j) BY DEF Content, At, Backing
  <2>3. i # 1 => i - 1 \in 1 .. count BY Sizes DEF FetchInd, TypeOK
  <2> QED BY <2>1, <2>2, <2>3, FetchAssumption
<1> QED BY <1>1, FetchInductive, PTL

\* The address at which a trap resumes is that of the instruction after the
\* last one Decode took, be it queued, requested or still to be requested.
THEOREM FetchResumes == Spec => []ResumeIsNext
<1>1. FetchInd => ResumeIsNext
  <2> SUFFICES ASSUME FetchInd PROVE if_resume_pc = expect
    BY DEF ResumeIsNext
  <2>1. CASE count > 0
    <3>1. 1 \in 1 .. count BY <2>1, Sizes DEF FetchInd, TypeOK
    <3>2. payload0.pc = expect BY <3>1 DEF FetchInd, ChainInv, At
    <3> QED BY <2>1, <3>2 DEF if_resume_pc
  <2>2. CASE ~(count > 0)
    <3>1. count = 0 BY <2>2, Sizes DEF FetchInd, TypeOK
    <3>2. PathEnd = expect BY <3>1 DEF PathEnd
    <3> QED BY <2>2, <3>2 DEF FetchInd, RequestInv, if_resume_pc
  <2> QED BY <2>1, <2>2
<1> QED BY <1>1, FetchInductive, PTL

=============================================================================
