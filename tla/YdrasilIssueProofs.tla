------------------------ MODULE YdrasilIssueProofs -------------------------
(***************************************************************************)
(* Proofs about the reservation stations of YdrasilIssue, for every number *)
(* of ROB slots, every bank size and every set of uops, in the default     *)
(* configuration without same-cycle replacement.                           *)
(***************************************************************************)
EXTENDS YdrasilIssue, FiniteSetTheorems, TLAPS

(***************************************************************************)
(* Least elements.                                                         *)
(***************************************************************************)

\* A set of naturals that is not empty has a least element.
LEMMA NatMin ==
    ASSUME NEW S \in SUBSET Nat, S # {}
    PROVE  \E x \in S : \A y \in S : x <= y
<1> DEFINE R == {ss \in Nat \X Nat : ss[1] < ss[2]}
<1>1. R = OpToRel(<, Nat)
  BY Zenon DEF OpToRel
<1>2. IsWellFoundedOn(R, Nat)
  BY <1>1, NatLessThanWellFounded
<1>3. \E x \in S : \A y \in S : ~(<<y, x>> \in R)
  <2> HIDE DEF R
  <2> QED BY <1>2, WFMin
<1>4. ASSUME NEW x \in Nat, NEW y \in Nat, ~(<<y, x>> \in R)
      PROVE  x <= y
  BY <1>4
<1> HIDE DEF R
<1> QED BY <1>3, <1>4

\* Least picks a member.
LEMMA LeastIn ==
    ASSUME NEW S \in SUBSET Nat, S # {}
    PROVE  Least(S) \in S
BY NatMin DEF Least

(***************************************************************************)
(* Ring arithmetic.  Dist is the distance from one slot on to another; Age *)
(* is the distance from the head.                                          *)
(***************************************************************************)
Dist(h, s) == (s + PRODUCER_NUM - h) % PRODUCER_NUM

\* The distance without the modulus.
LEMMA DistIs ==
    ASSUME NEW h \in Slots, NEW s \in Slots
    PROVE  Dist(h, s) = IF s >= h THEN s - h ELSE s - h + PRODUCER_NUM
BY IssueAssumption DEF Dist, Slots

\* Moving at most one lap forward from a slot, without the modulus.
LEMMA PlusIs ==
    ASSUME NEW h \in Slots, NEW k \in 0 .. PRODUCER_NUM
    PROVE  /\ Plus(h, k) \in Slots
           /\ Plus(h, k) = IF h + k < PRODUCER_NUM THEN h + k
                           ELSE h + k - PRODUCER_NUM
BY IssueAssumption DEF Plus, Slots

\* A distance is below PRODUCER_NUM and leads back to its slot.
LEMMA DistType ==
    ASSUME NEW h \in Slots, NEW s \in Slots
    PROVE  Dist(h, s) \in 0 .. PRODUCER_NUM - 1 /\ Plus(h, Dist(h, s)) = s
<1>1. Dist(h, s) \in 0 .. PRODUCER_NUM - 1
  <2>1. PICK x : x = Dist(h, s) OBVIOUS
  <2>2. x = IF s >= h THEN s - h ELSE s - h + PRODUCER_NUM BY <2>1, DistIs
  <2>3. x \in 0 .. PRODUCER_NUM - 1 BY <2>2, IssueAssumption DEF Slots
  <2> QED BY <2>1, <2>3
<1>2. PICK k \in 0 .. PRODUCER_NUM - 1 : k = Dist(h, s) BY <1>1
<1>3. k = IF s >= h THEN s - h ELSE s - h + PRODUCER_NUM BY <1>2, DistIs
<1>4. Plus(h, k) = IF h + k < PRODUCER_NUM THEN h + k
                   ELSE h + k - PRODUCER_NUM
  BY PlusIs, IssueAssumption
<1>5. Plus(h, k) = s BY <1>3, <1>4, IssueAssumption DEF Slots
<1> QED BY <1>1, <1>2, <1>5

\* A slot k places past h is at distance k.
LEMMA DistPlus ==
    ASSUME NEW h \in Slots, NEW k \in 0 .. PRODUCER_NUM - 1
    PROVE  Plus(h, k) \in Slots /\ Dist(h, Plus(h, k)) = k
<1>1. k \in 0 .. PRODUCER_NUM BY IssueAssumption
<1>2. Plus(h, k) \in Slots BY <1>1, PlusIs
<1>3. PICK t \in Slots : t = Plus(h, k) BY <1>2
<1>4. t = IF h + k < PRODUCER_NUM THEN h + k ELSE h + k - PRODUCER_NUM
  BY <1>1, <1>3, PlusIs
<1>5. Dist(h, t) = IF t >= h THEN t - h ELSE t - h + PRODUCER_NUM BY DistIs
<1>6. Dist(h, t) = k BY <1>4, <1>5, IssueAssumption DEF Slots
<1> QED BY <1>2, <1>3, <1>6

\* Distances seen from c places further on.
LEMMA DistShift ==
    ASSUME NEW h \in Slots, NEW s \in Slots, NEW c \in 0 .. PRODUCER_NUM
    PROVE  Dist(Plus(h, c), s) = IF Dist(h, s) >= c THEN Dist(h, s) - c
                                 ELSE Dist(h, s) - c + PRODUCER_NUM
<1>1. Plus(h, c) \in Slots BY PlusIs
<1>2. PICK t \in Slots : t = Plus(h, c) BY <1>1
<1>3. t = IF h + c < PRODUCER_NUM THEN h + c ELSE h + c - PRODUCER_NUM
  BY <1>2, PlusIs
<1>4. /\ Dist(t, s) = IF s >= t THEN s - t ELSE s - t + PRODUCER_NUM
      /\ Dist(h, s) = IF s >= h THEN s - h ELSE s - h + PRODUCER_NUM
  BY DistIs
<1>5. Dist(t, s) = IF Dist(h, s) >= c THEN Dist(h, s) - c
                   ELSE Dist(h, s) - c + PRODUCER_NUM
  BY <1>3, <1>4, IssueAssumption DEF Slots
<1> QED BY <1>2, <1>5

\* Slots at the same distance are the same slot.
LEMMA DistInj ==
    ASSUME NEW h \in Slots, NEW s \in Slots, NEW t \in Slots,
           Dist(h, s) = Dist(h, t)
    PROVE  s = t
BY DistType

\* The slots at the distances a to c - 1 number c - a.
LEMMA ArcCard ==
    ASSUME NEW h \in Slots, NEW a \in Nat, NEW c \in Nat,
           a <= c, c <= PRODUCER_NUM
    PROVE  Cardinality({s \in Slots : a <= Dist(h, s) /\ Dist(h, s) < c})
             = c - a
<1> DEFINE A == {s \in Slots : a <= Dist(h, s) /\ Dist(h, s) < c}
           f == [k \in a .. c - 1 |-> Plus(h, k)]
<1>1. \A k \in a .. c - 1 : k \in 0 .. PRODUCER_NUM - 1
  BY IssueAssumption
<1>2. \A k \in a .. c - 1 : Plus(h, k) \in Slots /\ Dist(h, Plus(h, k)) = k
  BY <1>1, DistPlus
<1>3. f \in [a .. c - 1 -> A]
  BY <1>2
<1>4. ASSUME NEW k \in a .. c - 1, NEW l \in a .. c - 1, f[k] = f[l]
      PROVE  k = l
  BY <1>2, <1>4
<1>5. ASSUME NEW s \in A PROVE \E k \in a .. c - 1 : f[k] = s
  <2>1. Dist(h, s) \in a .. c - 1 BY DistType, IssueAssumption
  <2>2. Plus(h, Dist(h, s)) = s BY DistType
  <2> QED BY <2>1, <2>2
<1>6. f \in Bijection(a .. c - 1, A)
  <2> HIDE DEF A, f
  <2>1. IsInjective(f) BY <1>3, <1>4 DEF IsInjective
  <2> QED BY <1>3, <1>5, <2>1 DEF Bijection, Injection, Surjection
<1>7. IsFiniteSet(a .. c - 1) /\ Cardinality(a .. c - 1) = c - a
  <2> HIDE DEF A, f
  <2>1. PICK e \in Int : e = c - 1 OBVIOUS
  <2>2. /\ IsFiniteSet(a .. e)
        /\ Cardinality(a .. e) = IF a > e THEN 0 ELSE e - a + 1
    BY FS_Interval
  <2>3. (IF a > e THEN 0 ELSE e - a + 1) = c - a BY <2>1
  <2> QED BY <2>1, <2>2, <2>3
<1> HIDE DEF A, f
<1>8. Cardinality(A) = Cardinality(a .. c - 1)
  <2>1. PICK D : D = a .. c - 1 OBVIOUS
  <2>2. ExistsBijection(D, A) BY <1>6, <2>1 DEF ExistsBijection
  <2>3. Cardinality(A) = Cardinality(D) BY <1>7, <2>1, <2>2, FS_Bijection
  <2> QED BY <2>1, <2>3
<1> QED BY <1>7, <1>8 DEF A

(***************************************************************************)
(* The inductive invariant.                                                *)
(***************************************************************************)
Stages == {"free", "rs", "out", "resp", "lost", "done"}
Shape ==
    /\ head \in Slots /\ head_q \in Slots /\ count \in 0 .. PRODUCER_NUM
    /\ epoch \in [Slots -> {0, 1}]
    /\ stage \in [Slots -> Stages]
    /\ rs \in [Rs -> Entries \cup {None}]
    /\ issued \subseteq Rs /\ token \subseteq Ids /\ due \subseteq Ids
    /\ retire \subseteq Ids /\ recovery \in Windows \cup {None}
    /\ credit \in [Banks -> Nat] /\ release \in [Banks -> 0 .. 2]
    /\ resync \in 0 .. 2

\* The live slots are the count slots from the head on.
WindowInv ==
    \A s \in Slots : /\ Live(s) <=> Age(s) < count
                     /\ Live(s) => uop[s] \in Uops

\* Outside a recovery the age of a live slot seen from last cycle's head does
\* not wrap.
HeadInv == recovery = None => Dist(head_q, head) + count <= PRODUCER_NUM

\* While the entries apply a recovery nothing has been selected or dispatched.
QuietInv ==
    recovery # None =>
        /\ issued = {} /\ token = {} /\ DOMAIN alloc = {} /\ resync # 0

\* No more credits than free entries, and none at all until a recovery has
\* settled.
CreditInv ==
    \A b \in Banks :
        /\ resync # 0 => credit[b] = 0 /\ release[b] = 0
        /\ Effective(b) <= Cardinality(Bank(b) \ Valid(b))

\* The entries and the uops that wait are the same.
EntryInv ==
    /\ \A i \in LiveEntries : /\ stage[rs[i].slot] = "rs"
                              /\ rs[i].uop = uop[rs[i].slot]
    /\ \A i, j \in LiveEntries : rs[i].slot = rs[j].slot => i = j
    /\ \A s \in Slots : stage[s] = "rs" =>
          \E i \in LiveEntries : rs[i].slot = s
BankInv ==
    \A b \in Banks : \A i \in Valid(b) : BankOf(rs[i].uop) = b

\* A source that is not ready has a tag to wait for, and the tag of a live
\* producer is that of a uop that writes.
WaitInv ==
    \A i \in LiveEntries :
        /\ rs[i].ready \/ rs[i].src # None
        /\ rs[i].src # None /\ Live(rs[i].src.slot) =>
              uop[rs[i].src.slot].writes

\* The ids on their way are those of their slots: of uops being executed, of
\* results, those of loads squashed since included, and of slots that the
\* last commit has freed.
TokenInv == \A id \in token : /\ Id(id.slot) = id /\ stage[id.slot] = "out"
                              /\ Early(id.slot)
DueInv == \A id \in due : /\ Id(id.slot) = id
                          /\ Live(id.slot) => stage[id.slot] = "done"
RetireInv == \A id \in retire : Id(id.slot) = id /\ ~Live(id.slot)

\* The uops of the last dispatch, which have not looked up their operands yet.
AllocInv ==
    /\ DOMAIN alloc \in {{}, {1}, {1, 2}}
    /\ value_alloc = {alloc[k].id : k \in DOMAIN alloc}
    /\ \A k \in DOMAIN alloc :
          /\ alloc[k].entry \in LiveEntries /\ alloc[k].id \in Ids
          /\ rs[alloc[k].entry].slot = alloc[k].id.slot
          /\ Id(alloc[k].id.slot) = alloc[k].id
    /\ \A k, l \in DOMAIN alloc :
          k < l => Age(alloc[k].id.slot) < Age(alloc[l].id.slot)

\* The value file holds the value of a live slot exactly when it is done.
ValueInv ==
    \A s \in Slots :
        /\ Live(s) /\ Id(s) \notin value_alloc /\ Resident(Id(s))
              => stage[s] = "done"
        /\ stage[s] = "done" /\ uop[s].writes =>
              Id(s) \in due \/ Resident(Id(s))

IssueInd == /\ Shape /\ WindowInv /\ HeadInv /\ QuietInv /\ CreditInv
            /\ EntryInv /\ BankInv /\ OrderExact /\ TagLive /\ WaitInv
            /\ TokenInv /\ DueInv /\ RetireInv /\ AllocInv /\ ValueInv
            /\ WakeupExact

(***************************************************************************)
(* Banks and entries.                                                      *)
(***************************************************************************)

\* The banks are disjoint, finite sets of naturals that make up Rs.
LEMMA BankIs ==
    /\ \A b \in Banks : /\ Bank(b) \subseteq Nat /\ Bank(b) \subseteq Rs
                        /\ IsFiniteSet(Bank(b))
                        /\ Cardinality(Bank(b)) = BANK_SIZE[b]
    /\ \A b, c \in Banks : b # c => Bank(b) \cap Bank(c) = {}
    /\ \A i \in Rs : \E b \in Banks : i \in Bank(b)
<1>1. /\ BANK_SIZE["alu"] \in Nat /\ BANK_SIZE["p0"] \in Nat
      /\ BANK_SIZE["p1"] \in Nat
  BY IssueAssumption DEF Banks
<1>2. \A b \in Banks : Base(b) \in Nat /\ BANK_SIZE[b] \in Nat
  BY <1>1 DEF Base, Banks
<1>3. ASSUME NEW b \in Banks
      PROVE  /\ Bank(b) \subseteq Nat /\ Bank(b) \subseteq Rs
             /\ IsFiniteSet(Bank(b)) /\ Cardinality(Bank(b)) = BANK_SIZE[b]
  <2>1. PICK a \in Nat, n \in Nat : a = Base(b) /\ n = BANK_SIZE[b] BY <1>2
  <2>2. PICK e \in Int : e = a + n - 1 OBVIOUS
  <2>3. Bank(b) = a .. e BY <2>1, <2>2 DEF Bank
  <2>4. a .. e \subseteq Nat OBVIOUS
  <2>5. /\ IsFiniteSet(a .. e)
        /\ Cardinality(a .. e) = IF a > e THEN 0 ELSE e - a + 1
    BY FS_Interval
  <2>6. (IF a > e THEN 0 ELSE e - a + 1) = n BY <2>2
  <2>7. Bank(b) \subseteq Rs BY DEF Rs
  <2> QED BY <2>1, <2>3, <2>4, <2>5, <2>6, <2>7
<1>4. ASSUME NEW b \in Banks, NEW c \in Banks, b # c
      PROVE  Bank(b) \cap Bank(c) = {}
  BY <1>1, <1>4 DEF Bank, Base, Banks
<1>5. \A i \in Rs : \E b \in Banks : i \in Bank(b) BY DEF Rs
<1> QED BY <1>3, <1>4, <1>5

\* A uop has one bank, and waits only for uops of its own bank.
LEMMA BankOfIs ==
    /\ \A u \in Uops : BankOf(u) \in Banks /\ u.kind \in Kinds
    /\ \A u, w \in Uops : WaitsFor(u, w) => BankOf(u) = BankOf(w)
<1>1. \A u \in Uops : BankOf(u) \in Banks /\ u.kind \in Kinds
  BY IssueAssumption DEF BankOf, Banks
<1>2. ASSUME NEW u \in Uops, NEW w \in Uops, WaitsFor(u, w)
      PROVE  BankOf(u) = BankOf(w)
  BY <1>2 DEF WaitsFor, BankOf
<1> QED BY <1>1, <1>2

\* The fields of a valid entry.
LEMMA EntryIs ==
    ASSUME Shape, NEW i \in Rs, rs[i] # None
    PROVE  /\ rs[i] \in Entries /\ rs[i].uop \in Uops /\ rs[i].slot \in Slots
           /\ rs[i].src \in Ids \cup {None} /\ rs[i].ready \in BOOLEAN
           /\ rs[i].mask \subseteq Rs
BY DEF Shape, Entries

\* A live entry is a valid one; without a recovery the two are the same.
LEMMA LiveIs ==
    /\ \A i \in LiveEntries : i \in Rs /\ rs[i] # None
    /\ recovery = None => LiveEntries = {i \in Rs : rs[i] # None}
    /\ recovery # None => LiveEntries = {i \in Rs : Survives(i)}
BY DEF LiveEntries, Survives

\* The fields of an id.
LEMMA IdIs ==
    ASSUME Shape, NEW s \in Slots
    PROVE  /\ Id(s) \in Ids /\ Id(s) # None /\ Id(s).slot = s
           /\ Id(s).epoch = epoch[s]
BY NoneAssumption DEF Shape, Id, Ids

\* Age is the distance from the head, below PRODUCER_NUM.
LEMMA AgeIs ==
    ASSUME Shape, NEW s \in Slots
    PROVE  /\ Age(s) = Dist(head, s) /\ Age(s) \in 0 .. PRODUCER_NUM - 1
           /\ Age(s) \in Nat
           /\ \A t \in Slots : Age(s) = Age(t) => s = t
<1>1. head \in Slots BY DEF Shape
<1>2. \A t \in Slots : Age(t) = Dist(head, t) BY DEF Age, Dist
<1>3. Age(s) \in 0 .. PRODUCER_NUM - 1 BY <1>1, <1>2, DistType
<1> QED BY <1>1, <1>2, <1>3, DistInj

(***************************************************************************)
(* Retirement.                                                             *)
(***************************************************************************)

Front(n) == {s \in Slots : Age(s) < n}

\* What retires is a front of the window: uops that are done, or a branch
\* that finishes; only one in the cycle of a recovery.
LEMMA RetireIs ==
    ASSUME Shape, WindowInv, NEW fin, fin \subseteq Executing,
           NEW ports \in {1, 2}, NEW rc, rc = RetireCount(fin, ports)
    PROVE  /\ rc \in 0 .. 2 /\ rc <= count /\ rc <= ports
           /\ Retired(fin, ports) = Front(rc)
           /\ \A s \in Front(rc) : stage[s] = "done" \/ s \in fin
<1>1. /\ head \in Slots /\ count \in 0 .. PRODUCER_NUM
      /\ PRODUCER_NUM \in Nat /\ PRODUCER_NUM >= 2
  BY IssueAssumption DEF Shape
<1>2. /\ Plus(head, 0) = head /\ Plus(head, 1) \in Slots
      /\ Age(head) = 0 /\ Age(Plus(head, 1)) = 1
  <2>1. /\ 0 \in 0 .. PRODUCER_NUM - 1 /\ 1 \in 0 .. PRODUCER_NUM - 1
        /\ 0 \in 0 .. PRODUCER_NUM
    BY <1>1
  <2>2. Plus(head, 0) = head BY <1>1, <2>1, PlusIs DEF Slots
  <2> QED BY <1>1, <2>1, <2>2, DistPlus, AgeIs
<1>3. HeadCommits(fin) => stage[head] = "done" \/ head \in fin
  BY DEF HeadCommits
<1>4. HeadCommits(fin) => count >= 1
  <2>1. HeadCommits(fin) => Live(head) BY <1>3 DEF Live, Executing
  <2> QED BY <1>1, <1>2, <2>1 DEF WindowInv
<1>5. /\ rc \in 0 .. 2 /\ rc <= count /\ rc <= ports
      /\ rc # 0 => HeadCommits(fin)
      /\ rc = 2 => stage[Plus(head, 1)] = "done"
  BY <1>1, <1>4 DEF RetireCount
<1>6. ASSUME NEW s \in Slots
      PROVE  /\ Age(s) \in Nat /\ (Age(s) = 0 <=> s = head)
             /\ (Age(s) = 1 <=> s = Plus(head, 1))
  BY <1>1, <1>2, AgeIs
<1>7. CASE rc = 0
  <2>1. 0 .. rc - 1 = {} BY <1>7
  <2>2. Retired(fin, ports) = {} BY <2>1 DEF Retired
  <2>3. Front(rc) = {} BY <1>6, <1>7 DEF Front
  <2> QED BY <1>5, <2>2, <2>3
<1>8. CASE rc = 1
  <2>1. 0 .. rc - 1 = {0} BY <1>8
  <2>2. Retired(fin, ports) = {head} BY <1>2, <2>1 DEF Retired
  <2>3. Front(rc) = {head} BY <1>1, <1>6, <1>8 DEF Front
  <2> QED BY <1>3, <1>5, <1>8, <2>2, <2>3
<1>9. CASE rc = 2
  <2>1. 0 .. rc - 1 = {0, 1} BY <1>9
  <2>2. Retired(fin, ports) = {head, Plus(head, 1)}
    BY <1>2, <2>1 DEF Retired
  <2>3. Front(rc) = {head, Plus(head, 1)}
    <3>1. \A s \in Slots : s \in Front(rc) <=> Age(s) = 0 \/ Age(s) = 1
      BY <1>6, <1>9 DEF Front
    <3> QED BY <1>1, <1>2, <1>6, <3>1 DEF Front
  <2> QED BY <1>3, <1>5, <1>9, <2>2, <2>3
<1> QED BY <1>5, <1>7, <1>8, <1>9

(***************************************************************************)
(* Selection.                                                              *)
(***************************************************************************)

\* A set that two elements cover has at most two.
LEMMA AtMostTwo ==
    ASSUME NEW S, NEW x, NEW y, S \subseteq {x, y}
    PROVE  IsFiniteSet(S) /\ Cardinality(S) \in 0 .. 2
<1>1. IsFiniteSet({x}) /\ Cardinality({x}) = 1 BY FS_Singleton
<1>2. PICK T : T = {x} \cup {y} OBVIOUS
<1>3. IsFiniteSet(T) /\ Cardinality(T) <= 2 /\ Cardinality(T) \in Nat
  BY <1>1, <1>2, FS_AddElement
<1>4. S \in SUBSET T BY <1>2
<1>5. IsFiniteSet(S) /\ Cardinality(S) <= Cardinality(T)
  BY <1>3, <1>4, FS_Subset
<1>6. Cardinality(S) \in Nat BY <1>5, FS_CardinalityType
<1> QED BY <1>3, <1>5, <1>6

\* A candidate is a valid entry of its bank.
LEMMA CandidateIs ==
    ASSUME NEW b \in Banks, NEW lsu
    PROVE  /\ Candidates(b, lsu) \subseteq Valid(b)
           /\ Valid(b) \subseteq Bank(b) /\ Candidates(b, lsu) \in SUBSET Nat
           /\ \A i \in Valid(b) : i \in Rs /\ rs[i] # None
BY BankIs DEF Candidates, Valid

\* The age of an entry of bank P0 as the selection measures it.
LEMMA P0AgeIs ==
    ASSUME Shape, NEW i \in Valid("p0")
    PROVE  p0_age(i) = Dist(head_q, rs[i].slot) /\ p0_age(i) \in Nat
<1>1. "p0" \in Banks BY DEF Banks
<1>2. i \in Rs /\ rs[i] # None BY <1>1, CandidateIs
<1>3. rs[i].slot \in Slots /\ head_q \in Slots BY <1>2, EntryIs DEF Shape
<1>4. p0_age(i) = Dist(head_q, rs[i].slot) BY DEF p0_age, Dist
<1>5. Dist(head_q, rs[i].slot) \in 0 .. PRODUCER_NUM - 1 BY <1>3, DistType
<1> QED BY <1>4, <1>5

\* The pick of the memory lane comes from its bank, one entry at most.
LEMMA P0PickIs ==
    ASSUME Shape, NEW lsu
    PROVE  P0Pick(lsu) \subseteq Valid("p0") /\ \E x : P0Pick(lsu) \subseteq {x}
<1>1. "p0" \in Banks BY DEF Banks
<1>2. P0Pick(lsu) \subseteq Valid("p0") BY <1>1, CandidateIs DEF P0Pick
<1>3. ASSUME NEW i \in P0Pick(lsu), NEW j \in P0Pick(lsu), i # j
      PROVE  FALSE
  <2>1. p0_age(i) < p0_age(j) /\ p0_age(j) < p0_age(i) BY <1>3 DEF P0Pick
  <2>2. p0_age(i) \in Nat /\ p0_age(j) \in Nat BY <1>2, P0AgeIs
  <2> QED BY <2>1, <2>2
<1> QED BY <1>2, <1>3

\* So does the pick of the branch lane.
LEMMA P1PickIs ==
    /\ P1Pick \subseteq Valid("p1") /\ \E x : P1Pick \subseteq {x}
    /\ P1Pick \subseteq Candidates("p1", FALSE)
<1>1. "p1" \in Banks BY DEF Banks
<1>2. CASE Candidates("p1", FALSE) = {} BY <1>2 DEF P1Pick
<1>3. CASE Candidates("p1", FALSE) # {}
  <2>1. PICK x : x = Least(Candidates("p1", FALSE)) OBVIOUS
  <2>2. x \in Candidates("p1", FALSE) BY <1>1, <1>3, <2>1, CandidateIs, LeastIn
  <2>3. P1Pick = {x} BY <1>3, <2>1 DEF P1Pick
  <2> QED BY <1>1, <2>2, <2>3, CandidateIs
<1> QED BY <1>2, <1>3

\* So do the picks of the ALU lanes, up to two.
LEMMA AluPickIs ==
    ASSUME NEW n
    PROVE  /\ AluPick(n) \subseteq Valid("alu")
           /\ \E x, y : AluPick(n) \subseteq {x, y}
           /\ AluPick(n) \subseteq Candidates("alu", FALSE)
<1>1. "alu" \in Banks BY DEF Banks
<1>2. PICK C : C = Candidates("alu", FALSE) OBVIOUS
<1>3. C \in SUBSET Nat /\ C \subseteq Valid("alu") BY <1>1, <1>2, CandidateIs
<1>4. CASE C = {} BY <1>2, <1>4 DEF AluPick
<1>5. CASE C # {}
  <2>1. PICK x : x = Least(C) OBVIOUS
  <2>2. x \in C BY <1>3, <1>5, <2>1, LeastIn
  <2>3. PICK y : y = Least(C \ {x}) OBVIOUS
  <2>4. C # {x} => y \in C
    <3>1. C \ {x} \in SUBSET Nat BY <1>3
    <3>2. C # {x} => C \ {x} # {} BY <2>2
    <3>3. PICK D : D = C \ {x} OBVIOUS
    <3> QED BY <2>3, <3>1, <3>2, <3>3, LeastIn
  <2>5. AluPick(n) \in {{}, {x}, {x} \cup {y}} /\ (C = {x} => AluPick(n) \subseteq {x})
    BY <1>2, <2>1, <2>3 DEF AluPick
  <2>6. AluPick(n) \subseteq C BY <2>2, <2>4, <2>5
  <2>7. AluPick(n) \subseteq {x, y} BY <2>5
  <2> QED BY <1>2, <1>3, <2>6, <2>7
<1> QED BY <1>4, <1>5

\* What is selected is live, at most two entries of a bank, and nothing
\* during a recovery.
LEMMA SelectedIs ==
    ASSUME Shape, NEW lsu
    PROVE  /\ Selected(lsu) \subseteq LiveEntries
           /\ Selected(lsu) \subseteq Rs
           /\ recovery # None => Selected(lsu) = {}
           /\ \A b \in Banks :
                 /\ Selected(lsu) \cap Bank(b) \subseteq Valid(b)
                 /\ IsFiniteSet(Selected(lsu) \cap Bank(b))
                 /\ Cardinality(Selected(lsu) \cap Bank(b)) \in 0 .. 2
<1>1. CASE recovery # None
  <2>1. Selected(lsu) = {} BY <1>1 DEF Selected
  <2>2. IsFiniteSet({}) /\ Cardinality({}) = 0 BY FS_EmptySet
  <2>3. \A b \in Banks : Selected(lsu) \cap Bank(b) = {} BY <2>1
  <2> QED BY <1>1, <2>1, <2>2, <2>3
<1>2. CASE recovery = None
  <2>1. PICK n : Selected(lsu) = P0Pick(lsu) \cup P1Pick \cup AluPick(n)
    BY <1>2 DEF Selected
  <2>2. "p0" \in Banks /\ "p1" \in Banks /\ "alu" \in Banks BY DEF Banks
  <2>3. /\ P0Pick(lsu) \subseteq Valid("p0") /\ P1Pick \subseteq Valid("p1")
        /\ AluPick(n) \subseteq Valid("alu")
    BY P0PickIs, P1PickIs, AluPickIs
  <2>4. \A b \in Banks : Valid(b) \subseteq Bank(b)
                         /\ \A i \in Valid(b) : i \in Rs /\ rs[i] # None
    BY CandidateIs
  <2>5. Selected(lsu) \subseteq LiveEntries /\ Selected(lsu) \subseteq Rs
    BY <1>2, <2>1, <2>2, <2>3, <2>4 DEF LiveEntries
  <2>6. /\ Bank("p0") \cap Bank("p1") = {} /\ Bank("p0") \cap Bank("alu") = {}
        /\ Bank("p1") \cap Bank("alu") = {}
    BY <2>2, BankIs
  <2>7. /\ Selected(lsu) \cap Bank("p0") = P0Pick(lsu)
        /\ Selected(lsu) \cap Bank("p1") = P1Pick
        /\ Selected(lsu) \cap Bank("alu") = AluPick(n)
    BY <2>1, <2>2, <2>3, <2>4, <2>6
  <2>8. /\ IsFiniteSet(P0Pick(lsu)) /\ Cardinality(P0Pick(lsu)) \in 0 .. 2
        /\ IsFiniteSet(P1Pick) /\ Cardinality(P1Pick) \in 0 .. 2
        /\ IsFiniteSet(AluPick(n)) /\ Cardinality(AluPick(n)) \in 0 .. 2
    <3>1. PICK x : P0Pick(lsu) \subseteq {x, x} BY P0PickIs
    <3>2. PICK y : P1Pick \subseteq {y, y} BY P1PickIs
    <3>3. PICK u, v : AluPick(n) \subseteq {u, v} BY AluPickIs
    <3> QED BY <3>1, <3>2, <3>3, AtMostTwo
  <2> QED BY <1>2, <2>3, <2>5, <2>7, <2>8 DEF Banks
<1> QED BY <1>1, <1>2

(***************************************************************************)
(* Dispatch.                                                               *)
(***************************************************************************)

\* Zero, one or two uops are presented.
LEMMA DispatchType ==
    ASSUME NEW d \in Dispatches
    PROVE  /\ \/ d = <<>> /\ DOMAIN d = {} /\ Len(d) = 0
              \/ DOMAIN d = {1} /\ Len(d) = 1
              \/ DOMAIN d = {1, 2} /\ Len(d) = 2
           /\ \A k \in DOMAIN d : d[k] \in Uops /\ k \in 1 .. Len(d)
<1>1. CASE d = <<>>
  <2>1. DOMAIN d = {} /\ Len(d) = 0 BY <1>1
  <2> QED BY <1>1, <2>1
<1>2. CASE \E u \in Uops : d = <<u>>
  <2>1. DOMAIN d = {1} /\ Len(d) = 1 /\ d[1] \in Uops BY <1>2
  <2> QED BY <2>1
<1>3. CASE \E u, v \in Uops : d = <<u, v>>
  <2>1. DOMAIN d = {1, 2} /\ Len(d) = 2 /\ d[1] \in Uops /\ d[2] \in Uops
    BY <1>3
  <2> QED BY <2>1
<1> QED BY <1>1, <1>2, <1>3 DEF Dispatches

\* Nothing is dispatched while the entries apply a recovery.
LEMMA NoDispatchInRecovery ==
    ASSUME QuietInv, NEW d \in Dispatches, NEW picked, MayDispatch(d, picked),
           recovery # None
    PROVE  d = <<>> /\ DOMAIN d = {}
BY DispatchType DEF QuietInv, MayDispatch

\* Without replacement the free entries are the ones that are not valid.
LEMMA FreeIs ==
    ASSUME ~REPLACE, NEW picked, NEW b \in Banks
    PROVE  /\ Free(picked, b) = Bank(b) \ Valid(b)
           /\ Cardinality(Released(picked, b)) = 0
           /\ Free(picked, b) \in SUBSET Nat /\ Free(picked, b) \subseteq Bank(b)
           /\ IsFiniteSet(Free(picked, b))
           /\ Cardinality(Free(picked, b)) \in Nat
           /\ Cardinality(Free(picked, b)) <= BANK_SIZE[b]
<1>1. Released(picked, b) = {} BY DEF Released
<1>2. Free(picked, b) = Bank(b) \ Valid(b) BY <1>1 DEF Free
<1>3. Cardinality(Released(picked, b)) = 0 BY <1>1, FS_EmptySet
<1>4. /\ Bank(b) \subseteq Nat /\ IsFiniteSet(Bank(b))
      /\ Cardinality(Bank(b)) = BANK_SIZE[b]
  BY BankIs
<1>5. PICK F : F = Bank(b) \ Valid(b) OBVIOUS
<1>6. IsFiniteSet(F) /\ Cardinality(F) <= Cardinality(Bank(b))
  BY <1>4, <1>5, FS_Subset
<1>7. Cardinality(F) \in Nat BY <1>6, FS_CardinalityType
<1> QED BY <1>2, <1>3, <1>4, <1>5, <1>6, <1>7

\* The demand of a batch, bank by bank.
LEMMA DemandIs ==
    ASSUME NEW d \in Dispatches, NEW b
    PROVE  /\ DOMAIN d = {} => Demand(d, b) = 0
           /\ DOMAIN d = {1} =>
                 Demand(d, b) = IF BankOf(d[1]) = b THEN 1 ELSE 0
           /\ DOMAIN d = {1, 2} =>
                 Demand(d, b) = (IF BankOf(d[1]) = b THEN 1 ELSE 0)
                                + (IF BankOf(d[2]) = b THEN 1 ELSE 0)
<1>1. PICK K : K = {k \in DOMAIN d : BankOf(d[k]) = b} OBVIOUS
<1>2. Demand(d, b) = Cardinality(K) BY <1>1 DEF Demand
<1>3. /\ Cardinality({}) = 0 /\ Cardinality({1}) = 1 /\ Cardinality({2}) = 1
      /\ Cardinality({1, 2}) = 2
  <2>1. /\ Cardinality({}) = 0 /\ Cardinality({1}) = 1
        /\ Cardinality({2}) = 1 /\ IsFiniteSet({1})
    BY FS_EmptySet, FS_Singleton
  <2>2. PICK S : S = {1} OBVIOUS
  <2>3. PICK S2 : S2 = S \cup {2} OBVIOUS
  <2>4. Cardinality(S2) = 2 BY <2>1, <2>2, <2>3, FS_AddElement
  <2>5. S2 = {1, 2} BY <2>2, <2>3
  <2> QED BY <2>1, <2>4, <2>5
<1>4. CASE DOMAIN d = {}
  <2>1. K = {} BY <1>1, <1>4
  <2> QED BY <1>2, <1>3, <1>4, <2>1
<1>5. CASE DOMAIN d = {1}
  <2>1. K = IF BankOf(d[1]) = b THEN {1} ELSE {} BY <1>1, <1>5
  <2> QED BY <1>2, <1>3, <1>5, <2>1
<1>6. CASE DOMAIN d = {1, 2}
  <2>1. /\ BankOf(d[1]) = b /\ BankOf(d[2]) = b => K = {1, 2}
        /\ BankOf(d[1]) = b /\ BankOf(d[2]) # b => K = {1}
        /\ BankOf(d[1]) # b /\ BankOf(d[2]) = b => K = {2}
        /\ BankOf(d[1]) # b /\ BankOf(d[2]) # b => K = {}
    BY <1>1, <1>6
  <2> QED BY <1>2, <1>3, <1>6, <2>1
<1>7. /\ DOMAIN d = {1} => DOMAIN d # {} /\ DOMAIN d # {1, 2}
      /\ DOMAIN d = {1, 2} => DOMAIN d # {}
  <2>1. 2 \notin {1} OBVIOUS
  <2> QED BY <2>1
<1> QED BY <1>4, <1>5, <1>6, <1>7

\* Every accepted uop gets a free entry of its own in its bank.
LEMMA TargetIs ==
    ASSUME Shape, CreditInv, ~REPLACE, NEW d \in Dispatches, NEW picked,
           MayDispatch(d, picked)
    PROVE  /\ \A k \in DOMAIN d :
                 /\ BankOf(d[k]) \in Banks
                 /\ Target(d, picked, k) \in Bank(BankOf(d[k]))
                 /\ Target(d, picked, k) \notin Valid(BankOf(d[k]))
                 /\ Target(d, picked, k) \in Rs
                 /\ rs[Target(d, picked, k)] = None
           /\ \A k, l \in DOMAIN d :
                 Target(d, picked, k) = Target(d, picked, l) => k = l
           /\ \A b \in Banks :
                 Demand(d, b) <= Cardinality(Free(picked, b))
<1>1. ASSUME NEW b \in Banks
      PROVE  /\ Demand(d, b) <= Cardinality(Free(picked, b))
             /\ Demand(d, b) \in Nat
  <2>1. Demand(d, b) <= Effective(b) + Cardinality(Released(picked, b))
    BY DEF MayDispatch
  <2>2. Effective(b) <= Cardinality(Free(picked, b)) BY FreeIs DEF CreditInv
  <2>3. Effective(b) \in Nat BY DEF Effective, Shape
  <2>4. Cardinality(Released(picked, b)) = 0 BY FreeIs
  <2>5. Cardinality(Free(picked, b)) \in Nat BY FreeIs
  <2>6. Demand(d, b) \in Nat BY DispatchType, DemandIs
  <2> QED BY <2>1, <2>2, <2>3, <2>4, <2>5, <2>6
<1>2. \A k \in DOMAIN d : d[k] \in Uops /\ BankOf(d[k]) \in Banks
  BY DispatchType, BankOfIs
<1>3. ASSUME NEW k \in DOMAIN d, NEW i \in Free(picked, BankOf(d[k]))
      PROVE  /\ i \in Bank(BankOf(d[k])) /\ i \notin Valid(BankOf(d[k]))
             /\ i \in Rs /\ rs[i] = None
  <2>1. i \in Bank(BankOf(d[k])) /\ i \notin Valid(BankOf(d[k]))
    BY <1>2, FreeIs
  <2> QED BY <1>2, <2>1, BankIs DEF Valid
<1>4. ASSUME 1 \in DOMAIN d
      PROVE  Target(d, picked, 1) \in Free(picked, BankOf(d[1]))
  <2>1. PICK F : F = Free(picked, BankOf(d[1])) OBVIOUS
  <2>2. Demand(d, BankOf(d[1])) >= 1 BY <1>4, DispatchType, DemandIs
  <2>3. Cardinality(F) >= 1 /\ Cardinality(F) \in Nat
    BY <1>1, <1>2, <1>4, <2>1, <2>2, FreeIs
  <2>4. F # {} BY <2>3, FS_EmptySet
  <2>5. F \in SUBSET Nat BY <1>2, <1>4, <2>1, FreeIs
  <2>6. Target(d, picked, 1) = Least(F) BY <2>1, <2>4 DEF Target
  <2> QED BY <2>1, <2>4, <2>5, <2>6, LeastIn
<1>5. ASSUME 2 \in DOMAIN d
      PROVE  /\ Target(d, picked, 2) \in Free(picked, BankOf(d[2]))
             /\ Target(d, picked, 2) # Target(d, picked, 1)
  <2>0. 1 \in DOMAIN d /\ DOMAIN d = {1, 2} BY <1>5, DispatchType
  <2>1. PICK F : F = Free(picked, BankOf(d[1])) OBVIOUS
  <2>2. PICK G : G = Free(picked, BankOf(d[2])) OBVIOUS
  <2>3. F # {} BY <1>4, <2>0, <2>1
  <2>4. PICK t : t = Least(F) OBVIOUS
  <2>5. t = Target(d, picked, 1) /\ t \in F
    BY <1>4, <2>0, <2>1, <2>3, <2>4 DEF Target
  <2>6. PICK H : H = G \ {t} OBVIOUS
  <2>7. /\ G \in SUBSET Nat /\ IsFiniteSet(G) /\ Cardinality(G) \in Nat
        /\ Cardinality(G) >= Demand(d, BankOf(d[2]))
    BY <1>1, <1>2, <1>5, <2>2, FreeIs
  <2>8. H # {}
    <3>1. CASE BankOf(d[1]) = BankOf(d[2])
      <4>1. Demand(d, BankOf(d[2])) = 2 BY <2>0, <3>1, DemandIs
      <4>2. Cardinality(H) = Cardinality(G) - 1 /\ IsFiniteSet(H)
        BY <2>1, <2>2, <2>5, <2>6, <2>7, <3>1, FS_RemoveElement
      <4>3. Cardinality(H) # 0 BY <2>7, <4>1, <4>2
      <4> QED BY <4>3, FS_EmptySet
    <3>2. CASE BankOf(d[1]) # BankOf(d[2])
      <4>1. Demand(d, BankOf(d[2])) = 1 BY <2>0, <3>2, DemandIs
      <4>2. Cardinality(G) # 0 BY <2>7, <4>1
      <4>3. G # {} BY <4>2, FS_EmptySet
      <4>4. /\ F \subseteq Bank(BankOf(d[1])) /\ G \subseteq Bank(BankOf(d[2]))
            /\ Bank(BankOf(d[1])) \cap Bank(BankOf(d[2])) = {}
        BY <1>2, <2>0, <2>1, <2>2, <3>2, FreeIs, BankIs
      <4>5. H = G BY <2>5, <2>6, <4>4
      <4> QED BY <4>3, <4>5
    <3> QED BY <3>1, <3>2
  <2>9. Target(d, picked, 2) = Least(H)
    BY <2>1, <2>2, <2>3, <2>4, <2>6, <2>8 DEF Target
  <2>10. H \in SUBSET Nat BY <2>6, <2>7
  <2>11. Least(H) \in H BY <2>8, <2>10, LeastIn
  <2> QED BY <2>2, <2>5, <2>6, <2>9, <2>11
<1>6. \A k \in DOMAIN d : k = 1 \/ k = 2 BY DispatchType
<1>7. \A k \in DOMAIN d :
         Target(d, picked, k) \in Free(picked, BankOf(d[k]))
  BY <1>4, <1>5, <1>6
<1>8. \A k, l \in DOMAIN d :
         Target(d, picked, k) = Target(d, picked, l) => k = l
  BY <1>5, <1>6
<1> QED BY <1>1, <1>2, <1>3, <1>7, <1>8

\* The new slots are the ones behind the window, which were free.
LEMMA NewSlotIs ==
    ASSUME Shape, WindowInv, NEW d \in Dispatches, NEW picked,
           MayDispatch(d, picked)
    PROVE  /\ \A k \in DOMAIN d :
                 /\ NewSlot(k) \in Slots /\ Age(NewSlot(k)) = count + k - 1
                 /\ ~Live(NewSlot(k)) /\ k \in Nat
                 /\ NewId(k) \in Ids /\ NewId(k).slot = NewSlot(k)
                 /\ NewId(k).epoch = 1 - epoch[NewSlot(k)]
           /\ \A k, l \in DOMAIN d : NewSlot(k) = NewSlot(l) => k = l
           /\ count + Len(d) <= PRODUCER_NUM
<1>1. /\ PRODUCER_NUM \in Nat /\ head \in Slots
      /\ count \in 0 .. PRODUCER_NUM /\ Len(d) \in 0 .. 2
  BY IssueAssumption, DispatchType DEF Shape
<1>2. count + Len(d) <= PRODUCER_NUM
  BY <1>1, DispatchType DEF MayDispatch
<1>3. ASSUME NEW k \in DOMAIN d
      PROVE  /\ NewSlot(k) \in Slots /\ Age(NewSlot(k)) = count + k - 1
             /\ ~Live(NewSlot(k)) /\ k \in Nat
             /\ NewId(k) \in Ids /\ NewId(k).slot = NewSlot(k)
             /\ NewId(k).epoch = 1 - epoch[NewSlot(k)]
  <2>1. k \in 1 .. Len(d) BY DispatchType
  <2>2. PICK a \in 0 .. PRODUCER_NUM - 1 : a = count + k - 1
    BY <1>1, <1>2, <2>1
  <2>3. NewSlot(k) \in Slots /\ Dist(head, NewSlot(k)) = a
    BY <1>1, <2>2, DistPlus DEF NewSlot
  <2>4. Age(NewSlot(k)) = a BY <2>3, AgeIs
  <2>5. ~Live(NewSlot(k)) BY <1>1, <2>1, <2>2, <2>3, <2>4 DEF WindowInv
  <2>6. epoch[NewSlot(k)] \in {0, 1} BY <2>3 DEF Shape
  <2>7. 1 - epoch[NewSlot(k)] \in {0, 1} BY <2>6
  <2> QED BY <2>1, <2>2, <2>3, <2>4, <2>5, <2>7 DEF NewId, Ids
<1>4. \A k, l \in DOMAIN d : NewSlot(k) = NewSlot(l) => k = l
  BY <1>1, <1>3
<1> QED BY <1>2, <1>3, <1>4

\* The latest writer, if any, is the id of a live slot.
LEMMA LatestIs ==
    ASSUME Shape, WindowInv
    PROVE  \/ Latest = None
           \/ \E s \in Slots : /\ Live(s) /\ uop[s].writes
                              /\ Latest = Id(s) /\ Latest # None
<1>1. CASE Writers = {} BY <1>1 DEF Latest
<1>2. CASE Writers # {}
  <2>1. Writers \subseteq Slots /\ \A s \in Writers : Live(s) /\ uop[s].writes
    BY DEF Writers
  <2>2. PICK S : S = {PRODUCER_NUM - Age(s) : s \in Writers} OBVIOUS
  <2>3. \A s \in Writers : PRODUCER_NUM - Age(s) \in Nat /\ Age(s) \in Nat
    BY <2>1, AgeIs, IssueAssumption
  <2>4. S \in SUBSET Nat /\ S # {} BY <1>2, <2>2, <2>3
  <2>5. PICK x \in S : \A y \in S : x <= y BY <2>4, NatMin
  <2>6. PICK s \in Writers : x = PRODUCER_NUM - Age(s) BY <2>2, <2>5
  <2>7. \A t \in Writers : Age(t) <= Age(s)
    BY <2>2, <2>3, <2>5, <2>6, IssueAssumption
  <2>8. PICK w : w = CHOOSE s_1 \in Writers : \A t \in Writers : Age(t) <= Age(s_1)
    OBVIOUS
  <2>9. w \in Writers BY <2>7, <2>8
  <2>10. Latest = Id(w) BY <1>2, <2>8 DEF Latest
  <2> QED BY <2>1, <2>9, <2>10, IdIs
<1> QED BY <1>1, <1>2

\* Where the source of a new uop comes from: a live writer or the first uop
\* of the pair, and not what has just been freed.
LEMMA SourceIs ==
    ASSUME Shape, WindowInv, RetireInv, NEW d \in Dispatches, NEW picked,
           MayDispatch(d, picked), NEW k \in DOMAIN d
    PROVE  /\ Source(d, k) \in Ids \cup {None} /\ Source(d, k) \notin retire
           /\ \/ Source(d, k) = None
              \/ \E s \in Slots : /\ Live(s) /\ uop[s].writes
                                 /\ Source(d, k) = Id(s)
              \/ k = 2 /\ d[1].writes /\ Source(d, k) = NewId(1)
<1>1. None \notin retire BY NoneAssumption DEF Shape
<1>2. CASE ~d[k].reads BY <1>1, <1>2 DEF Source
<1>3. CASE d[k].reads /\ k = 2 /\ d[1].writes
  <2>1. 1 \in DOMAIN d BY <1>3, DispatchType
  <2>2. Source(d, k) = NewId(1) BY <1>3 DEF Source
  <2>3. /\ NewId(1) \in Ids /\ NewSlot(1) \in Slots
        /\ NewId(1).slot = NewSlot(1)
        /\ NewId(1).epoch = 1 - epoch[NewSlot(1)]
    BY <2>1, NewSlotIs
  <2>4. NewId(1) \notin retire
    <3>1. Id(NewSlot(1)).epoch = epoch[NewSlot(1)] BY <2>3, IdIs
    <3>2. epoch[NewSlot(1)] \in {0, 1} BY <2>3 DEF Shape
    <3>3. Id(NewSlot(1)) # NewId(1) BY <2>3, <3>1, <3>2
    <3> QED BY <2>3, <3>3 DEF RetireInv
  <2> QED BY <1>3, <2>2, <2>3, <2>4
<1>4. CASE d[k].reads /\ ~(k = 2 /\ d[1].writes)
  <2>1. Source(d, k) = Latest BY <1>4 DEF Source
  <2>2. CASE Latest = None BY <1>1, <2>1, <2>2
  <2>3. CASE Latest # None
    <3>1. PICK s \in Slots : Live(s) /\ uop[s].writes /\ Latest = Id(s)
      BY <2>3, LatestIs
    <3>2. Id(s) \in Ids /\ Id(s).slot = s BY IdIs
    <3>3. Id(s) \notin retire BY <3>1, <3>2 DEF RetireInv
    <3> QED BY <2>1, <3>1, <3>2, <3>3
  <2> QED BY <2>2, <2>3
<1> QED BY <1>2, <1>3, <1>4

\* The fields of a new entry.
LEMMA NewEntryIs ==
    ASSUME Shape, WindowInv, CreditInv, RetireInv, ~REPLACE,
           NEW d \in Dispatches, NEW picked, MayDispatch(d, picked),
           NEW k \in DOMAIN d, NEW e, e = NewEntry(d, picked, k)
    PROVE  /\ e \in Entries /\ e # None
           /\ e.uop = d[k] /\ e.slot = NewSlot(k)
           /\ e.mask = Mask(d, picked, k)
           /\ e.ready <=> e.src = None
           /\ \/ e.src = None
              \/ \E s \in Slots : Live(s) /\ uop[s].writes /\ e.src = Id(s)
              \/ k = 2 /\ d[1].writes /\ e.src = NewId(1)
<1>1. PICK src : src = Source(d, k) OBVIOUS
<1>2. src \in Ids \cup {None} /\ src \notin retire BY <1>1, SourceIs
<1>3. PICK r \in BOOLEAN : r <=> src = None OBVIOUS
<1>4. PICK m : m = Mask(d, picked, k) OBVIOUS
<1>5. e = [uop |-> d[k], slot |-> NewSlot(k), src |-> src, ready |-> r,
           mask |-> m]
  BY <1>1, <1>2, <1>3, <1>4 DEF NewEntry
<1>6. d[k] \in Uops /\ NewSlot(k) \in Slots BY DispatchType, NewSlotIs
<1>7. m \subseteq Rs
  <2>1. BankOf(d[k]) \in Banks BY <1>6, BankOfIs
  <2>2. \A i \in Valid(BankOf(d[k])) : i \in Rs BY <2>1, CandidateIs
  <2>3. k = 2 => Target(d, picked, 1) \in Rs BY DispatchType, TargetIs
  <2> QED BY <1>4, <2>2, <2>3 DEF Mask
<1>8. \/ src = None
      \/ \E s \in Slots : Live(s) /\ uop[s].writes /\ src = Id(s)
      \/ k = 2 /\ d[1].writes /\ src = NewId(1)
  BY <1>1, SourceIs
<1>9. e \in Entries BY <1>2, <1>5, <1>6, <1>7 DEF Entries
<1>10. /\ e.uop = d[k] /\ e.slot = NewSlot(k) /\ e.src = src /\ e.mask = m
       /\ e.ready = r
  BY <1>5
<1> QED BY <1>3, <1>4, <1>8, <1>9, <1>10, NoneAssumption

(***************************************************************************)
(* How an edge moves the entries and the slots.  A cycle with a recovery   *)
(* dispatches and selects nothing, so both kinds of cycle have one shape:  *)
(* d is dispatched, P selected, fin finishes, fire launches, rc uops       *)
(* retire, and the slots outside keep are squashed.                        *)
(***************************************************************************)
Old(i) ==
    /\ rs'[i] \in Entries /\ rs'[i] # None
    /\ rs'[i].uop = rs[i].uop /\ rs'[i].slot = rs[i].slot
    /\ rs'[i].src = IF rs[i].src \in retire THEN None ELSE rs[i].src
    /\ rs'[i].ready <=> \/ rs[i].ready \/ Wakeup(i)
                        \/ rs[i].src \in retire
    /\ rs'[i].mask = Blocked(i)

OldSlot(s, P, fin, fire, rc) ==
    /\ stage'[s] = Progress(s, P, fin, fire)
    /\ uop'[s] = uop[s] /\ epoch'[s] = epoch[s]
    /\ Age(s)' = Age(s) - rc

Targets(d, P) == {Target(d, P, k) : k \in DOMAIN d}

Stays(s, keep, rc) == Live(s) /\ s \in keep /\ s \notin Front(rc)

EntriesMove(d, P, keep) ==
    /\ {i \in Rs : rs'[i] # None} = (LiveEntries \ P) \cup Targets(d, P)
    /\ LiveEntries' = {i \in LiveEntries \ P : rs[i].slot \in keep}
                         \cup Targets(d, P)
    /\ \A i \in LiveEntries \ P : Old(i)
    /\ \A k \in DOMAIN d : rs'[Target(d, P, k)] = NewEntry(d, P, k)

SlotsMove(d, P, fin, fire, keep, rc) ==
    /\ \A s \in Slots : Live(s)' <=> \/ Stays(s, keep, rc)
                                     \/ \E k \in DOMAIN d : s = NewSlot(k)
    /\ \A s \in Slots : Stays(s, keep, rc) => OldSlot(s, P, fin, fire, rc)
    /\ \A k \in DOMAIN d, s \in Slots :
          s = NewSlot(k) =>
              /\ stage'[s] = "rs" /\ uop'[s] = d[k] /\ Id(s)' = NewId(k)
              /\ Age(s)' = count - rc + k - 1
    /\ \A s \in Slots : Live(s) => epoch'[s] = epoch[s]

\* What completes and fires in a cycle.
Busy(fin, fire) ==
    /\ fin \subseteq Executing /\ Responding \subseteq fin
    /\ Cancelled \subseteq fire
    /\ \A s \in fire : /\ s \in Slots /\ s \notin fin
                       /\ \/ stage[s] = "lost"
                          \/ stage[s] = "out" /\ uop[s].kind = "load"

Moved(d, P, fin, fire, keep, rc) ==
    /\ d \in Dispatches /\ P \subseteq LiveEntries
    /\ Busy(fin, fire)
    /\ rc \in Nat /\ rc <= count /\ Front(rc) \subseteq keep
    /\ \A s \in Front(rc) : stage[s] = "done" \/ s \in fin
    /\ \A s \in keep, t \in Slots : Age(t) < Age(s) => t \in keep
    /\ DOMAIN d # {} => recovery = None /\ keep = Slots /\ MayDispatch(d, P)
    /\ P # {} => keep = Slots /\ recovery = None
    /\ keep \subseteq Slots
    /\ EntriesMove(d, P, keep) /\ SlotsMove(d, P, fin, fire, keep, rc)
    /\ issued' = P /\ token' = EarlyIds(P)
    /\ \A id \in due' : \E s \in fin : id = Id(s)
    /\ \A s \in fin : s \in keep /\ uop[s].writes => Id(s) \in due'
    /\ retire' = {Id(s) : s \in Front(rc)}
    /\ DOMAIN alloc' = DOMAIN d
    /\ \A k \in DOMAIN d :
          alloc'[k] = [entry |-> Target(d, P, k), id |-> NewId(k)]
    /\ value_alloc' = {NewId(k) : k \in DOMAIN d}
    /\ ValueStep

\* What an entry that stays becomes.
LEMMA WokenIs ==
    ASSUME Shape, NEW i \in Rs, rs[i] # None, NEW e, e = Woken(i)
    PROVE  /\ e \in Entries /\ e # None
           /\ e.uop = rs[i].uop /\ e.slot = rs[i].slot
           /\ e.src = IF rs[i].src \in retire THEN None ELSE rs[i].src
           /\ e.ready <=> \/ rs[i].ready \/ Wakeup(i)
                          \/ rs[i].src \in retire
           /\ e.mask = Blocked(i)
<1>1. PICK r \in BOOLEAN : r <=> \/ rs[i].ready \/ Wakeup(i)
                                 \/ rs[i].src \in retire
  OBVIOUS
<1>2. PICK t : t = IF rs[i].src \in retire THEN None ELSE rs[i].src
  OBVIOUS
<1>3. PICK o : o = rs[i] OBVIOUS
<1>4. o \in Entries BY <1>3, EntryIs
<1>5. rs[i].ready \in BOOLEAN BY EntryIs
<1>6. r = (\/ rs[i].ready \/ Wakeup(i) \/ rs[i].src \in retire)
  BY <1>1, Zenon
<1>7. PICK n : n = o.mask \ issued OBVIOUS
<1>8. e = [o EXCEPT !.ready = r, !.src = t, !.mask = n]
  BY <1>2, <1>3, <1>6, <1>7 DEF Woken
<1>9. o.src \in Ids \cup {None} /\ n \subseteq Rs BY <1>3, <1>7, EntryIs
<1>10. t \in Ids \cup {None} BY <1>2, <1>3, <1>9
<1>11. /\ e \in Entries /\ e.uop = o.uop /\ e.slot = o.slot /\ e.src = t
       /\ e.ready = r /\ e.mask = n
  BY <1>4, <1>8, <1>9, <1>10 DEF Entries
<1>12. n = Blocked(i) BY <1>3, <1>7 DEF Blocked
<1> QED BY <1>1, <1>2, <1>3, <1>11, <1>12, NoneAssumption

\* An empty batch may always be dispatched.
LEMMA EmptyDispatch ==
    ASSUME Shape, ~REPLACE
    PROVE  /\ <<>> \in Dispatches /\ DOMAIN <<>> = {}
           /\ MayDispatch(<<>>, {}) /\ Targets(<<>>, {}) = {}
<1>1. <<>> \in Dispatches BY DEF Dispatches
<1>2. DOMAIN <<>> = {} OBVIOUS
<1>3. PICK d : d = <<>> OBVIOUS
<1>4. ASSUME NEW b \in Banks
      PROVE  Demand(d, b) <= Effective(b) + Cardinality(Released({}, b))
  <2>1. Demand(d, b) = 0 BY <1>1, <1>2, <1>3, DemandIs
  <2>2. Effective(b) \in Nat BY DEF Effective, Shape
  <2>3. Cardinality(Released({}, b)) = 0 BY FreeIs
  <2> QED BY <2>1, <2>2, <2>3
<1>5. MayDispatch(d, {}) BY <1>3, <1>4 DEF MayDispatch
<1>6. Targets(d, {}) = {} BY <1>2, <1>3 DEF Targets
<1> QED BY <1>1, <1>2, <1>3, <1>5, <1>6

\* The entries at an edge without a recovery to apply.
LEMMA RsStepIs ==
    ASSUME Shape, WindowInv, CreditInv, RetireInv, ~REPLACE,
           recovery = None,
           NEW d \in Dispatches, NEW P, P \subseteq LiveEntries,
           MayDispatch(d, P), RsStep(d, P)
    PROVE  /\ rs' \in [Rs -> Entries \cup {None}]
           /\ {i \in Rs : rs'[i] # None} = (LiveEntries \ P) \cup Targets(d, P)
           /\ \A i \in LiveEntries \ P : Old(i)
           /\ \A k \in DOMAIN d : rs'[Target(d, P, k)] = NewEntry(d, P, k)
<1>1. LiveEntries = {i \in Rs : rs[i] # None} BY LiveIs
<1>2. Targets(d, P) \subseteq Rs /\ Targets(d, P) \cap LiveEntries = {}
  BY <1>1, TargetIs DEF Targets
<1>3. ASSUME NEW k \in DOMAIN d
      PROVE  /\ rs'[Target(d, P, k)] = NewEntry(d, P, k)
             /\ NewEntry(d, P, k) \in Entries /\ NewEntry(d, P, k) # None
  <2>1. PICK i \in Rs : i = Target(d, P, k) BY TargetIs
  <2>2. PICK l : l = CHOOSE n \in DOMAIN d : i = Target(d, P, n) OBVIOUS
  <2>3. l = k BY <2>1, <2>2, TargetIs
  <2>4. rs'[i] = NewEntry(d, P, l) BY <2>1, <2>2 DEF RsStep
  <2> QED BY <2>1, <2>3, <2>4, NewEntryIs
<1>4. ASSUME NEW i \in Rs, i \notin Targets(d, P)
      PROVE  rs'[i] = IF rs[i] = None \/ i \in P THEN None ELSE Woken(i)
  BY <1>4 DEF RsStep, Targets
<1>5. ASSUME NEW i \in LiveEntries \ P PROVE Old(i)
  <2>1. i \in Rs /\ rs[i] # None /\ i \notin Targets(d, P) BY <1>1, <1>2, <1>5
  <2>2. rs'[i] = Woken(i) BY <1>4, <1>5, <2>1
  <2>3. PICK e : e = rs'[i] /\ e = Woken(i) BY <2>2
  <2> QED BY <2>1, <2>3, WokenIs DEF Old
<1>6. ASSUME NEW i \in Rs
      PROVE  /\ rs'[i] \in Entries \cup {None}
             /\ rs'[i] # None <=> i \in (LiveEntries \ P) \cup Targets(d, P)
  <2>1. CASE i \in Targets(d, P) BY <1>3, <2>1 DEF Targets
  <2>2. CASE i \notin Targets(d, P) /\ i \in LiveEntries \ P
    BY <1>5, <2>2 DEF Old
  <2>3. CASE i \notin Targets(d, P) /\ i \notin LiveEntries \ P
    BY <1>1, <1>4, <2>3
  <2> QED BY <2>1, <2>2, <2>3
<1>7. rs' \in [Rs -> Entries \cup {None}] BY <1>6 DEF RsStep
<1> QED BY <1>1, <1>2, <1>3, <1>5, <1>6, <1>7

\* The entries at the edge that applies a recovery.
LEMMA RsRecoverIs ==
    ASSUME Shape, QuietInv, OrderExact, recovery # None, RsRecover
    PROVE  /\ rs' \in [Rs -> Entries \cup {None}]
           /\ {i \in Rs : rs'[i] # None} = LiveEntries
           /\ \A i \in LiveEntries : Old(i)
<1>1. LiveEntries = {i \in Rs : Survives(i)} BY LiveIs
<1>2. issued = {} BY DEF QuietInv
<1>3. ASSUME NEW i \in LiveEntries PROVE Old(i)
  <2>1. i \in Rs /\ rs[i] # None /\ Survives(i) BY <1>1, LiveIs
  <2>2. Blocked(i) = rs[i].mask BY <1>2 DEF Blocked
  <2>3. Blocked(i) \subseteq LiveEntries BY DEF OrderExact
  <2>4. PICK m : m = rs[i].mask \cap LiveEntries OBVIOUS
  <2>5. m = Blocked(i) BY <2>2, <2>3, <2>4
  <2>6. m \in SUBSET Rs BY <2>1, <2>4, EntryIs
  <2>7. rs'[i] = [Woken(i) EXCEPT !.mask = m]
    BY <1>1, <2>1, <2>4 DEF RsRecover
  <2>8. PICK w : w = Woken(i) OBVIOUS
  <2>9. /\ w \in Entries /\ w # None
        /\ w.uop = rs[i].uop /\ w.slot = rs[i].slot
        /\ w.src = IF rs[i].src \in retire THEN None ELSE rs[i].src
        /\ w.ready <=> \/ rs[i].ready \/ Wakeup(i)
                       \/ rs[i].src \in retire
        /\ w.mask = Blocked(i)
    BY <2>1, <2>8, WokenIs
  <2>10. rs'[i] = w
    <3>1. rs'[i] = [w EXCEPT !.mask = m] BY <2>7, <2>8
    <3>2. m = w.mask BY <2>5, <2>9
    <3> QED BY <2>9, <3>1, <3>2 DEF Entries
  <2> QED BY <2>9, <2>10 DEF Old
<1>4. \A i \in Rs : i \notin LiveEntries => rs'[i] = None
  BY <1>1 DEF RsRecover
<1>5. \A i \in LiveEntries : rs'[i] \in Entries /\ rs'[i] # None
  BY <1>3 DEF Old
<1>6. \A i \in Rs : rs'[i] \in Entries \cup {None} BY <1>4, <1>5
<1>7. rs' \in [Rs -> Entries \cup {None}] BY <1>6 DEF RsRecover
<1>8. LiveEntries \subseteq Rs BY <1>1
<1> QED BY <1>3, <1>4, <1>5, <1>7, <1>8

\* Every age shrinks by the number of slots that retire.
LEMMA AgeMoves ==
    ASSUME Shape, WindowInv, NEW rc \in Nat, rc <= count,
           head' = Plus(head, rc)
    PROVE  /\ head' \in Slots
           /\ \A s \in Slots :
                 /\ Age(s)' = IF s \in Front(rc)
                              THEN Age(s) - rc + PRODUCER_NUM
                              ELSE Age(s) - rc
                 /\ Age(s)' = Dist(head', s)
<1>1. head \in Slots /\ rc \in 0 .. PRODUCER_NUM
  BY IssueAssumption DEF Shape
<1>2. head' \in Slots BY <1>1, PlusIs
<1>3. ASSUME NEW s \in Slots
      PROVE  Age(s)' = Dist(head', s)
             /\ Age(s)' = IF s \in Front(rc)
                          THEN Age(s) - rc + PRODUCER_NUM
                          ELSE Age(s) - rc
  <2>1. Age(s)' = Dist(head', s) BY DEF Age, Dist
  <2>2. Dist(head', s) = IF Dist(head, s) >= rc
                         THEN Dist(head, s) - rc
                         ELSE Dist(head, s) - rc + PRODUCER_NUM
    BY <1>1, DistShift
  <2>3. Age(s) = Dist(head, s) /\ Age(s) \in Nat BY AgeIs
  <2>4. s \in Front(rc) <=> Age(s) < rc BY DEF Front
  <2> QED BY <2>1, <2>2, <2>3, <2>4
<1> QED BY <1>2, <1>3

\* Only executing uops complete, and only loads fire, cancelled ones first.
LEMMA BusyIs ==
    ASSUME NEW fin \in Finishes, NEW fire \in Fires(fin)
    PROVE  Busy(fin, fire) /\ fin \subseteq Slots
<1>1. /\ fin \subseteq Executing /\ Responding \subseteq fin
      /\ fin \subseteq Slots
  BY DEF Finishes, Executing
<1>2. CASE Cancelled # {}
  <2>1. fire = Cancelled BY <1>2 DEF Fires
  <2>2. \A s \in fire : s \in Slots /\ stage[s] = "lost" /\ s \notin fin
    BY <1>1, <2>1 DEF Cancelled, Executing
  <2> QED BY <1>1, <2>1, <2>2 DEF Busy
<1>3. CASE Cancelled = {}
  <2>1. ASSUME NEW s \in fire
        PROVE  /\ s \in Slots /\ stage[s] = "out" /\ uop[s].kind = "load"
               /\ KindIn(fin, {"load"}) \subseteq Responding
    BY <1>3 DEF Fires
  <2>2. ASSUME NEW s \in fire, s \in fin PROVE FALSE
    <3>1. s \in KindIn(fin, {"load"}) BY <2>1, <2>2 DEF KindIn
    <3>2. s \in Responding BY <2>1, <3>1
    <3> QED BY <2>1, <3>2 DEF Responding
  <2> QED BY <1>1, <1>3, <2>1, <2>2 DEF Busy
<1> QED BY <1>2, <1>3

\* The entries in a cycle without a new recovery.
LEMMA RunEntries ==
    ASSUME IssueInd, ~REPLACE, NEW d \in Dispatches, NEW lsu,
           NEW P, P = Selected(lsu), MayDispatch(d, P), NEW fin, NEW fire,
           Cycle(d, P, fin, fire)
    PROVE  /\ EntriesMove(d, P, Slots)
           /\ rs' \in [Rs -> Entries \cup {None}]
           /\ P \subseteq LiveEntries /\ (P # {} => recovery = None)
           /\ DOMAIN d # {} => recovery = None
<1> USE DEF IssueInd
<1>1. /\ recovery' = None
      /\ IF recovery = None THEN RsStep(d, P) ELSE RsRecover
  BY DEF Cycle
<1>2. P \subseteq LiveEntries /\ (recovery # None => P = {}) BY SelectedIs
<1>3. DOMAIN d # {} => recovery = None BY <1>1, NoDispatchInRecovery
<1>4. LiveEntries' = {i \in Rs : rs'[i] # None} BY <1>1 DEF LiveEntries
<1>5. \A i \in LiveEntries : rs[i].slot \in Slots BY LiveIs, EntryIs
<1>6. CASE recovery = None
  <2>1. RsStep(d, P) BY <1>1, <1>6
  <2>2. /\ rs' \in [Rs -> Entries \cup {None}]
        /\ {i \in Rs : rs'[i] # None} = (LiveEntries \ P) \cup Targets(d, P)
        /\ \A i \in LiveEntries \ P : Old(i)
        /\ \A k \in DOMAIN d : rs'[Target(d, P, k)] = NewEntry(d, P, k)
    BY <1>1, <1>2, <1>6, <2>1, RsStepIs
  <2>3. {i \in LiveEntries \ P : rs[i].slot \in Slots} = LiveEntries \ P
    BY <1>5
  <2> QED BY <1>1, <1>2, <1>3, <1>4, <2>2, <2>3 DEF EntriesMove
<1>7. CASE recovery # None
  <2>1. RsRecover /\ P = {} /\ DOMAIN d = {}
    BY <1>1, <1>2, <1>3, <1>7
  <2>2. /\ rs' \in [Rs -> Entries \cup {None}]
        /\ {i \in Rs : rs'[i] # None} = LiveEntries
        /\ \A i \in LiveEntries : Old(i)
    BY <1>7, <2>1, RsRecoverIs
  <2>3. Targets(d, P) = {} BY <2>1 DEF Targets
  <2>4. {i \in LiveEntries \ P : rs[i].slot \in Slots} = LiveEntries
    BY <1>5, <2>1
  <2>5. (LiveEntries \ P) \cup Targets(d, P) = LiveEntries BY <2>1, <2>3
  <2> QED BY <1>1, <1>2, <1>3, <1>4, <2>1, <2>2, <2>3, <2>4, <2>5
          DEF EntriesMove
<1> QED BY <1>6, <1>7

\* The slots in a cycle without a new recovery.
LEMMA RunSlots ==
    ASSUME IssueInd, NEW d \in Dispatches, NEW lsu,
           NEW P, P = Selected(lsu), MayDispatch(d, P),
           NEW fin \in Finishes, NEW fire \in Fires(fin),
           Cycle(d, P, fin, fire), NEW rc, rc = RetireCount(fin, 2)
    PROVE  /\ SlotsMove(d, P, fin, fire, Slots, rc) /\ WindowInv' /\ HeadInv'
           /\ head' \in Slots /\ count' \in 0 .. PRODUCER_NUM
           /\ head_q' \in Slots
           /\ epoch' \in [Slots -> {0, 1}]
           /\ stage' \in [Slots -> Stages]
<1> USE DEF IssueInd
<1>1. /\ head_q' = head /\ head' = Plus(head, rc)
      /\ count' = count - rc + Len(d)
      /\ \A s \in Slots :
            /\ uop'[s] = IF \E k \in DOMAIN d : s = NewSlot(k)
                         THEN d[CHOOSE k \in {l \in DOMAIN d : s = NewSlot(l)} :
                                   TRUE]
                         ELSE IF s \in Front(rc) THEN None ELSE uop[s]
            /\ epoch'[s] = IF \E k \in DOMAIN d : s = NewSlot(k)
                           THEN 1 - epoch[s] ELSE epoch[s]
            /\ stage'[s] = IF \E k \in DOMAIN d : s = NewSlot(k) THEN "rs"
                           ELSE IF s \in Front(rc) THEN "free"
                           ELSE Progress(s, P, fin, fire)
      /\ epoch' = [s \in Slots |-> epoch'[s]]
      /\ stage' = [s \in Slots |-> stage'[s]]
  <2>1. Busy(fin, fire) BY BusyIs
  <2>2. Retired(fin, 2) = Front(rc) BY <2>1, RetireIs DEF Busy
  <2>3. \A s \in Slots : {k \in DOMAIN d : s = NewSlot(k)} # {}
                          <=> \E k \in DOMAIN d : s = NewSlot(k)
    OBVIOUS
  <2> QED BY <2>2, <2>3 DEF Cycle
<1>2. /\ rc \in 0 .. 2 /\ rc <= count /\ rc \in Nat
      /\ count \in 0 .. PRODUCER_NUM /\ PRODUCER_NUM \in Nat
      /\ PRODUCER_NUM >= 2 /\ Len(d) \in 0 .. 2
      /\ count + Len(d) <= PRODUCER_NUM /\ head \in Slots
  <2>1. fin \subseteq Executing BY BusyIs DEF Busy
  <2>2. rc \in 0 .. 2 /\ rc <= count BY <2>1, RetireIs
  <2> QED BY <2>2, DispatchType, NewSlotIs, IssueAssumption DEF Shape
<1>3. /\ head' \in Slots
      /\ \A s \in Slots :
            /\ Age(s)' = IF s \in Front(rc)
                         THEN Age(s) - rc + PRODUCER_NUM
                         ELSE Age(s) - rc
            /\ Age(s)' = Dist(head', s)
  BY <1>1, <1>2, AgeMoves
<1>4. \A s \in Slots : /\ Age(s) \in Nat /\ Age(s) < PRODUCER_NUM
                       /\ Live(s) <=> Age(s) < count
                       /\ s \in Front(rc) <=> Age(s) < rc
                       /\ s \in Front(rc) => Live(s)
  <2>1. \A s \in Slots : /\ Age(s) \in Nat /\ Age(s) < PRODUCER_NUM
    BY <1>2, AgeIs
  <2>2. \A s \in Slots : Live(s) <=> Age(s) < count BY DEF WindowInv
  <2>3. \A s \in Slots : s \in Front(rc) <=> Age(s) < rc BY DEF Front
  <2> QED BY <1>2, <2>1, <2>2, <2>3
<1>5. \A k \in DOMAIN d :
         /\ NewSlot(k) \in Slots /\ Age(NewSlot(k)) = count + k - 1
         /\ ~Live(NewSlot(k)) /\ k \in 1 .. Len(d)
         /\ NewId(k) = [slot |-> NewSlot(k), epoch |-> 1 - epoch[NewSlot(k)]]
  BY NewSlotIs, DispatchType DEF NewId
<1>6. \A s \in fin \cup fire : s \in Slots /\ Live(s)
  BY BusyIs DEF Busy, Executing, Live
<1>7. ASSUME NEW k \in DOMAIN d, NEW s \in Slots, s = NewSlot(k)
      PROVE  /\ stage'[s] = "rs" /\ uop'[s] = d[k] /\ Id(s)' = NewId(k)
             /\ Age(s)' = count - rc + k - 1
             /\ Live(s)' /\ s \notin Front(rc)
             /\ epoch'[s] = 1 - epoch[s]
  <2>1. stage'[s] = "rs" BY <1>1, <1>7
  <2>2. {l \in DOMAIN d : s = NewSlot(l)} = {k} BY <1>7, NewSlotIs
  <2>3. uop'[s] = d[k] BY <1>1, <1>7, <2>2
  <2>4. epoch'[s] = 1 - epoch[s] BY <1>1, <1>7
  <2>5. Id(s)' = NewId(k) BY <1>5, <1>7, <2>4 DEF Id
  <2>6. s \notin Front(rc) BY <1>4, <1>5, <1>7
  <2>7. Age(s)' = count - rc + k - 1
    <3>1. Age(s)' = Age(s) - rc BY <1>3, <2>6
    <3>2. Age(s) = count + k - 1 /\ k \in Nat BY <1>5, <1>7
    <3> QED BY <1>2, <3>1, <3>2
  <2>8. Live(s)' BY <2>1 DEF Live
  <2> QED BY <2>1, <2>3, <2>4, <2>5, <2>6, <2>7, <2>8
<1>8. ASSUME NEW s \in Slots, \A k \in DOMAIN d : s # NewSlot(k)
      PROVE  /\ epoch'[s] = epoch[s]
             /\ s \in Front(rc) => stage'[s] = "free"
             /\ s \notin Front(rc) => uop'[s] = uop[s]
             /\ s \notin Front(rc) =>
                   stage'[s] = Progress(s, P, fin, fire)
  BY <1>1, <1>8
<1>9. \A s \in Slots : Stays(s, Slots, rc) =>
         /\ \A k \in DOMAIN d : s # NewSlot(k)
         /\ s \notin Front(rc) /\ Live(s)
  BY <1>5 DEF Stays
<1>10. \A s \in Slots : Stays(s, Slots, rc) => OldSlot(s, P, fin, fire, rc)
  BY <1>3, <1>8, <1>9 DEF OldSlot
<1>11. \A s \in PickedSlots(P) : Live(s)
  <2>1. P \subseteq LiveEntries BY SelectedIs
  <2>2. \A i \in P : rs[i].slot \in Slots /\ stage[rs[i].slot] = "rs"
    BY <2>1, LiveIs, EntryIs DEF EntryInv
  <2> QED BY <2>2 DEF PickedSlots, Live
<1>12. ASSUME NEW s \in Slots
       PROVE  Live(s)' <=> \/ Stays(s, Slots, rc)
                           \/ \E k \in DOMAIN d : s = NewSlot(k)
  <2>1. CASE \E k \in DOMAIN d : s = NewSlot(k) BY <1>7, <2>1
  <2>2. CASE \A k \in DOMAIN d : s # NewSlot(k)
    BY <1>6, <1>8, <1>11, <2>2 DEF Live, Stays, Progress
  <2> QED BY <2>1, <2>2
<1>13. SlotsMove(d, P, fin, fire, Slots, rc)
  <2>1. \A s \in Slots : Live(s) => epoch'[s] = epoch[s] BY <1>5, <1>8
  <2> QED BY <1>7, <1>10, <1>12, <2>1 DEF SlotsMove
<1>14. count' \in 0 .. PRODUCER_NUM BY <1>1, <1>2
<1>15. epoch' \in [Slots -> {0, 1}]
  <2>1. \A s \in Slots : epoch[s] \in {0, 1} /\ 1 - epoch[s] \in {0, 1}
    BY DEF Shape
  <2>2. \A s \in Slots : epoch'[s] \in {0, 1} BY <1>1, <2>1
  <2> QED BY <1>1, <2>2
<1>16. stage' \in [Slots -> Stages]
  <2>1. \A s \in Slots : stage[s] \in Stages BY DEF Shape
  <2>2. \A s \in Slots : stage'[s] \in Stages
    BY <1>1, <2>1 DEF Progress, Stages
  <2> QED BY <1>1, <2>2
<1>17. WindowInv'
  <2>1. ASSUME NEW s \in Slots PROVE Live(s)' <=> Age(s)' < count'
    <3>1. CASE s \in Front(rc)
      <4>1. ~Live(s)'
        BY <1>4, <1>5, <1>12, <3>1 DEF Stays
      <4>2. Age(s)' = Age(s) - rc + PRODUCER_NUM BY <1>3, <3>1
      <4>3. ~(Age(s)' < count') BY <1>1, <1>2, <1>4, <4>2
      <4> QED BY <4>1, <4>3
    <3>2. CASE s \notin Front(rc)
      <4>1. Age(s)' = Age(s) - rc BY <1>3, <3>2
      <4>2. CASE Live(s)
        <5>1. Live(s)' BY <1>12, <3>2, <4>2 DEF Stays
        <5>2. Age(s)' < count' BY <1>1, <1>2, <1>4, <4>1, <4>2
        <5> QED BY <5>1, <5>2
      <4>3. CASE ~Live(s) /\ \E k \in DOMAIN d : s = NewSlot(k)
        <5>1. PICK k \in DOMAIN d : s = NewSlot(k) BY <4>3
        <5>2. Live(s)' /\ Age(s)' = count - rc + k - 1
          BY <1>7, <5>1
        <5>3. k \in 1 .. Len(d) BY <1>5
        <5>4. Age(s)' < count' BY <1>1, <1>2, <5>2, <5>3
        <5> QED BY <5>2, <5>4
      <4>4. CASE ~Live(s) /\ \A k \in DOMAIN d : s # NewSlot(k)
        <5>1. ~Live(s)' BY <1>12, <4>4 DEF Stays
        <5>2. Age(s) >= count BY <1>2, <1>4, <4>4
        <5>3. Age(s) >= count + Len(d)
          <6>1. SUFFICES ASSUME Age(s) < count + Len(d) PROVE FALSE
            BY <1>2, <1>4
          <6>2. PICK k \in 1 .. Len(d) : Age(s) = count + k - 1
            <7>1. Age(s) - count + 1 \in 1 .. Len(d) BY <1>2, <1>4, <5>2, <6>1
            <7>2. Age(s) = count + (Age(s) - count + 1) - 1 BY <1>2, <1>4
            <7> QED BY <7>1, <7>2
          <6>3. k \in DOMAIN d BY DispatchType
          <6>4. Age(NewSlot(k)) = Age(s) /\ NewSlot(k) \in Slots
            BY <1>5, <6>2, <6>3
          <6> QED BY <4>4, <6>3, <6>4, AgeIs
        <5>4. ~(Age(s)' < count') BY <1>1, <1>2, <1>4, <4>1, <5>3
        <5> QED BY <5>1, <5>4
      <4> QED BY <4>2, <4>3, <4>4
    <3> QED BY <3>1, <3>2
  <2>2. ASSUME NEW s \in Slots, Live(s)' PROVE uop'[s] \in Uops
    <3>1. CASE \E k \in DOMAIN d : s = NewSlot(k)
      BY <1>7, <3>1, DispatchType
    <3>2. CASE Stays(s, Slots, rc)
      BY <1>10, <3>2 DEF OldSlot, Stays, WindowInv
    <3> QED BY <1>12, <2>2, <3>1, <3>2
  <2> QED BY <2>1, <2>2 DEF WindowInv
<1>18. HeadInv'
  <2>1. Dist(head, head') \in Nat /\ Dist(head, head') <= rc
    <3>1. rc \in 0 .. PRODUCER_NUM /\ rc \in Nat BY <1>2
    <3>2. CASE rc < PRODUCER_NUM
      <4>1. rc \in 0 .. PRODUCER_NUM - 1 BY <1>2, <3>1, <3>2
      <4>2. Dist(head, head') = rc BY <1>1, <1>2, <4>1, DistPlus
      <4> QED BY <3>1, <4>2
    <3>3. CASE rc = PRODUCER_NUM
      <4>1. Plus(head, rc) = head BY <1>2, <3>1, <3>3, PlusIs DEF Slots
      <4>2. Dist(head, head) = 0 BY <1>2, DistIs DEF Slots
      <4> QED BY <1>1, <3>1, <4>1, <4>2
    <3>4. rc < PRODUCER_NUM \/ rc = PRODUCER_NUM
      BY <1>2, <3>1
    <3> QED BY <3>2, <3>3, <3>4
  <2>2. Dist(head_q, head)' = Dist(head_q', head') BY DEF Dist
  <2>3. Dist(head, head') + count' <= PRODUCER_NUM BY <1>1, <1>2, <2>1
  <2> QED BY <1>1, <2>2, <2>3 DEF HeadInv
<1> QED BY <1>1, <1>2, <1>3, <1>13, <1>14, <1>15, <1>16, <1>17, <1>18

\* A cycle without a new recovery moves entries and slots.
LEMMA RunMoves ==
    ASSUME IssueInd, ~REPLACE, NEW d \in Dispatches, NEW lsu,
           NEW P, P = Selected(lsu), MayDispatch(d, P),
           NEW fin \in Finishes, NEW fire \in Fires(fin),
           Cycle(d, P, fin, fire)
    PROVE  Moved(d, P, fin, fire, Slots, RetireCount(fin, 2))
<1>1. PICK rc : rc = RetireCount(fin, 2) OBVIOUS
<1>2. /\ EntriesMove(d, P, Slots) /\ P \subseteq LiveEntries
      /\ (P # {} => recovery = None) /\ (DOMAIN d # {} => recovery = None)
  BY RunEntries
<1>3. SlotsMove(d, P, fin, fire, Slots, rc) BY <1>1, RunSlots
<1>4. Busy(fin, fire) /\ fin \subseteq Slots BY BusyIs
<1>5. /\ rc \in 0 .. 2 /\ rc <= count /\ Retired(fin, 2) = Front(rc)
      /\ \A s \in Front(rc) : stage[s] = "done" \/ s \in fin
      /\ Front(rc) \subseteq Slots
  BY <1>1, <1>4, RetireIs DEF IssueInd, Busy, Front
<1>6. /\ issued' = P /\ token' = EarlyIds(P) /\ due' = BusIds(fin, Slots)
      /\ retire' = {Id(s) : s \in Front(rc)}
      /\ alloc' = [k \in DOMAIN d |->
                     [entry |-> Target(d, P, k), id |-> NewId(k)]]
      /\ value_alloc' = {NewId(k) : k \in DOMAIN d}
      /\ ValueStep
  BY <1>5 DEF Cycle
<1>7. /\ DOMAIN alloc' = DOMAIN d
      /\ \A k \in DOMAIN d :
            alloc'[k] = [entry |-> Target(d, P, k), id |-> NewId(k)]
  BY <1>6
<1>8. /\ \A id \in due' : \E s \in fin : id = Id(s)
      /\ \A s \in fin : s \in Slots /\ uop[s].writes => Id(s) \in due'
  BY <1>6 DEF BusIds
<1>9. rc \in Nat BY <1>5
<1>10. Moved(d, P, fin, fire, Slots, rc)
  BY <1>2, <1>3, <1>4, <1>5, <1>6, <1>7, <1>8, <1>9 DEF Moved
<1> QED BY <1>1, <1>10

\* What a branch recovery keeps: the slots up to the branch.
UpTo(b) == {s \in Slots : Age(s) <= Age(b)}

\* The window of a recovery, measured in ages.
LEMMA UpToIs ==
    ASSUME Shape, WindowInv, NEW b \in Executing, NEW rc \in 0 .. 1
    PROVE  /\ b \in Slots /\ Live(b) /\ b \in UpTo(b)
           /\ UpTo(b) \subseteq Slots /\ Front(rc) \subseteq UpTo(b)
           /\ \A s \in Slots : InWindow(s, head, b) <=> s \in UpTo(b)
           /\ \A s \in UpTo(b), t \in Slots : Age(t) < Age(s) => t \in UpTo(b)
           /\ {s \in Slots : Live(s) /\ InWindow(s, head, b)} \ Front(rc)
                = {s \in Slots : Stays(s, UpTo(b), rc)}
<1>1. b \in Slots /\ Live(b) BY DEF Executing, Live
<1>2. \A s \in Slots : Age(s) \in Nat /\ Age(s) = Dist(head, s) BY AgeIs
<1>3. \A s \in Slots : InWindow(s, head, b) <=> s \in UpTo(b)
  BY <1>1, <1>2 DEF InWindow, UpTo, Dist
<1>4. b \in UpTo(b) BY <1>1, <1>2 DEF UpTo
<1>5. \A s \in UpTo(b), t \in Slots : Age(t) < Age(s) => t \in UpTo(b)
  BY <1>1, <1>2 DEF UpTo
<1>6. Front(rc) \subseteq UpTo(b) BY <1>1, <1>2 DEF Front, UpTo
<1> QED BY <1>1, <1>3, <1>4, <1>5, <1>6 DEF Stays, UpTo

\* The entries in a cycle with a new recovery.
LEMMA RecEntries ==
    ASSUME IssueInd, ~REPLACE, NEW b \in Executing, NEW fin, NEW fire,
           Recover(b, fin, fire)
    PROVE  /\ EntriesMove(<<>>, {}, UpTo(b))
           /\ rs' \in [Rs -> Entries \cup {None}]
<1> USE DEF IssueInd
<1>1. /\ recovery' = [head |-> head, branch |-> b]
      /\ IF recovery = None THEN RsStep(<<>>, {}) ELSE RsRecover
  BY DEF Recover
<1>2. /\ <<>> \in Dispatches /\ DOMAIN <<>> = {} /\ MayDispatch(<<>>, {})
      /\ Targets(<<>>, {}) = {}
  BY EmptyDispatch
<1>3. /\ rs' \in [Rs -> Entries \cup {None}]
      /\ {i \in Rs : rs'[i] # None} = LiveEntries
      /\ \A i \in LiveEntries : Old(i)
  <2>1. CASE recovery = None
    <3>1. RsStep(<<>>, {}) BY <1>1, <2>1
    <3>2. {} \subseteq LiveEntries OBVIOUS
    <3>3. /\ rs' \in [Rs -> Entries \cup {None}]
          /\ {i \in Rs : rs'[i] # None}
               = (LiveEntries \ {}) \cup Targets(<<>>, {})
          /\ \A i \in LiveEntries \ {} : Old(i)
      BY <1>2, <2>1, <3>1, <3>2, RsStepIs
    <3> QED BY <1>2, <3>3
  <2>2. CASE recovery # None
    <3>1. RsRecover BY <1>1, <2>2
    <3> QED BY <2>2, <3>1, RsRecoverIs
  <2> QED BY <2>1, <2>2
<1>4. LiveEntries' = {i \in LiveEntries : rs[i].slot \in UpTo(b)}
  <2>1. recovery' # None /\ recovery'.head = head /\ recovery'.branch = b
    <3>1. [head |-> head, branch |-> b] \in Windows
      BY DEF Windows, Shape, Executing
    <3> QED BY <1>1, <3>1, NoneAssumption
  <2>2. ASSUME NEW i \in Rs, rs'[i] # None
        PROVE  Survives(i)' <=> rs[i].slot \in UpTo(b)
    <3>1. i \in LiveEntries /\ Old(i) BY <1>3, <2>2
    <3>2. rs'[i].slot = rs[i].slot BY <3>1 DEF Old
    <3>3. rs[i].slot \in Slots BY <3>1, LiveIs, EntryIs
    <3>4. Survives(i)' <=> InWindow(rs[i].slot, head, b)
      BY <2>1, <2>2, <3>2 DEF Survives, InWindow
    <3>5. 0 \in 0 .. 1 OBVIOUS
    <3> QED BY <3>3, <3>4, <3>5, UpToIs
  <2>3. LiveEntries' = {i \in Rs : rs'[i] # None /\ Survives(i)'}
    BY <2>1 DEF LiveEntries
  <2>4. LiveEntries \subseteq Rs BY LiveIs
  <2>5. \A i \in Rs : i \in LiveEntries <=> rs'[i] # None BY <1>3
  <2> QED BY <2>2, <2>3, <2>4, <2>5
<1>5. LiveEntries \ {} = LiveEntries OBVIOUS
<1> QED BY <1>2, <1>3, <1>4, <1>5 DEF EntriesMove

\* The slots in a cycle with a new recovery.
LEMMA RecSlots ==
    ASSUME IssueInd, NEW fin \in Finishes, NEW fire \in Fires(fin),
           NEW b \in Executing, Recover(b, fin, fire),
           NEW rc, rc = RetireCount(fin, 1)
    PROVE  /\ SlotsMove(<<>>, {}, fin, fire, UpTo(b), rc) /\ WindowInv'
           /\ head' \in Slots /\ count' \in 0 .. PRODUCER_NUM
           /\ head_q' \in Slots
           /\ epoch' \in [Slots -> {0, 1}]
           /\ stage' \in [Slots -> Stages]
<1> USE DEF IssueInd
<1>1. PICK S : S = {s \in Slots : Stays(s, UpTo(b), rc)} OBVIOUS
<1>2. Busy(fin, fire) /\ fin \subseteq Executing BY BusyIs DEF Busy
<1>3. /\ rc \in 0 .. 1 /\ rc \in Nat /\ rc <= count
      /\ Retired(fin, 1) = Front(rc)
      /\ count \in 0 .. PRODUCER_NUM /\ PRODUCER_NUM \in Nat
      /\ PRODUCER_NUM >= 2 /\ head \in Slots
  <2>1. /\ rc \in 0 .. 2 /\ rc <= 1 /\ rc <= count
        /\ Retired(fin, 1) = Front(rc)
    BY <1>2, RetireIs
  <2> QED BY <2>1, IssueAssumption DEF Shape
<1>4. /\ head' = Plus(head, rc) /\ head_q' = 0
      /\ count' = Cardinality(S) /\ epoch' = epoch
      /\ uop' = [s \in Slots |-> IF s \in Slots \ S THEN None ELSE uop[s]]
      /\ stage' = [s \in Slots |-> IF s \in Slots \ S THEN "free"
                                   ELSE Progress(s, {}, fin, fire)]
  <2>1. {s \in Slots : Live(s) /\ InWindow(s, head, b)} \ Front(rc) = S
    BY <1>1, <1>3, UpToIs
  <2> QED BY <1>3, <2>1 DEF Recover
<1>5. /\ head' \in Slots
      /\ \A s \in Slots :
            Age(s)' = IF s \in Front(rc)
                      THEN Age(s) - rc + PRODUCER_NUM
                      ELSE Age(s) - rc
  BY <1>3, <1>4, AgeMoves
<1>6. \A s \in Slots : /\ Age(s) \in Nat /\ Age(s) < PRODUCER_NUM
                       /\ Age(s) = Dist(head, s)
                       /\ Live(s) <=> Age(s) < count
                       /\ s \in Front(rc) <=> Age(s) < rc
  <2>1. \A s \in Slots : /\ Age(s) \in Nat /\ Age(s) < PRODUCER_NUM
                         /\ Age(s) = Dist(head, s)
    BY <1>3, AgeIs
  <2> QED BY <2>1 DEF WindowInv, Front
<1>7. b \in Slots /\ Live(b) BY <1>3, UpToIs
<1>8. PICK a \in Nat : a = Age(b) BY <1>6, <1>7
<1>9. \A s \in Slots : s \in S <=> rc <= Age(s) /\ Age(s) < a + 1
  <2>1. a < count BY <1>6, <1>7, <1>8
  <2>2. ASSUME NEW s \in Slots
        PROVE  s \in S <=> rc <= Age(s) /\ Age(s) < a + 1
    <3>1. s \in S <=> Live(s) /\ Age(s) <= a /\ s \notin Front(rc)
      BY <1>1, <1>8 DEF Stays, UpTo
    <3>2. PICK g \in Nat : g = Age(s) BY <1>6
    <3>3. Live(s) <=> g < count BY <1>6, <3>2
    <3>4. s \in Front(rc) <=> g < rc BY <1>6, <3>2
    <3> QED BY <1>3, <2>1, <3>1, <3>2, <3>3, <3>4
  <2> QED BY <2>2
<1>10. S = {s \in Slots : rc <= Dist(head, s) /\ Dist(head, s) < a + 1}
  <2>1. S \subseteq Slots BY <1>1
  <2> QED BY <1>6, <1>9, <2>1
<1>11. rc <= a + 1 /\ a + 1 <= PRODUCER_NUM /\ a + 1 \in Nat
  BY <1>3, <1>6, <1>7, <1>8
<1>12. count' = a + 1 - rc
  <2>1. PICK c \in Nat : c = a + 1 BY <1>11
  <2>2. Cardinality({s \in Slots : rc <= Dist(head, s)
                                   /\ Dist(head, s) < c}) = c - rc
    BY <1>3, <1>11, <2>1, ArcCard
  <2>3. S = {s \in Slots : rc <= Dist(head, s) /\ Dist(head, s) < c}
    BY <1>10, <2>1
  <2>4. Cardinality(S) = c - rc BY <2>2, <2>3, Zenon
  <2>5. count' = Cardinality(S) BY <1>4
  <2> QED BY <1>3, <1>11, <2>1, <2>4, <2>5
<1>13. count' \in 0 .. PRODUCER_NUM BY <1>3, <1>11, <1>12
<1>14. \A s \in fin \cup fire : s \in Slots /\ Live(s)
  BY <1>2 DEF Busy, Executing, Live
<1>15. ASSUME NEW s \in Slots
       PROVE  /\ Live(s)' <=> s \in S
              /\ s \in S => /\ stage'[s] = Progress(s, {}, fin, fire)
                            /\ uop'[s] = uop[s]
  <2>1. s \in S => Live(s) BY <1>1 DEF Stays
  <2>2. PickedSlots({}) = {} BY DEF PickedSlots
  <2> QED BY <1>4, <2>1, <2>2 DEF Live, Progress
<1>16. WindowInv'
  <2>1. ASSUME NEW s \in Slots PROVE Live(s)' <=> Age(s)' < count'
    <3>1. CASE s \in Front(rc)
      <4>1. s \notin S BY <3>1, <1>1 DEF Stays
      <4>2. Age(s)' = Age(s) - rc + PRODUCER_NUM BY <1>5, <3>1
      <4>3. ~(Age(s)' < count') BY <1>3, <1>6, <1>11, <1>12, <4>2
      <4> QED BY <1>15, <4>1, <4>3
    <3>2. CASE s \notin Front(rc)
      <4>1. Age(s)' = Age(s) - rc BY <1>5, <3>2
      <4>2. Age(s) >= rc BY <1>3, <1>6, <3>2
      <4>3. Age(s)' < count' <=> s \in S
        BY <1>3, <1>6, <1>8, <1>9, <1>12, <4>1, <4>2
      <4> QED BY <1>15, <4>3
    <3> QED BY <3>1, <3>2
  <2>2. ASSUME NEW s \in Slots, Live(s)' PROVE uop'[s] \in Uops
    BY <1>1, <1>15, <2>2 DEF Stays, WindowInv
  <2> QED BY <2>1, <2>2 DEF WindowInv
<1>17. stage' \in [Slots -> Stages]
  <2>1. \A s \in Slots : stage[s] \in Stages BY DEF Shape
  <2>2. \A s \in Slots : stage'[s] \in Stages
    BY <1>4, <2>1 DEF Progress, Stages
  <2> QED BY <1>4, <2>2
<1>18. DOMAIN <<>> = {} OBVIOUS
<1>19. \A s \in Slots : Stays(s, UpTo(b), rc) => OldSlot(s, {}, fin, fire, rc)
  <2> SUFFICES ASSUME NEW s \in Slots, Stays(s, UpTo(b), rc)
               PROVE  OldSlot(s, {}, fin, fire, rc)
    OBVIOUS
  <2>1. s \in S /\ s \notin Front(rc) BY <1>1 DEF Stays
  <2> QED BY <1>4, <1>5, <1>15, <2>1 DEF OldSlot
<1>20. \A s \in Slots : Live(s)' <=> Stays(s, UpTo(b), rc)
  BY <1>1, <1>15
<1>21. SlotsMove(<<>>, {}, fin, fire, UpTo(b), rc)
  BY <1>4, <1>18, <1>19, <1>20 DEF SlotsMove
<1>22. head_q' \in Slots BY <1>3, <1>4 DEF Slots
<1> QED BY <1>4, <1>5, <1>13, <1>16, <1>17, <1>21, <1>22 DEF Shape

\* A cycle with a new recovery moves entries and slots.
LEMMA RecMoves ==
    ASSUME IssueInd, ~REPLACE, NEW fin \in Finishes, NEW fire \in Fires(fin),
           NEW b \in Executing, Recover(b, fin, fire)
    PROVE  Moved(<<>>, {}, fin, fire, UpTo(b), RetireCount(fin, 1))
<1> USE DEF IssueInd
<1>1. PICK rc : rc = RetireCount(fin, 1) OBVIOUS
<1>2. PICK d : d = <<>> OBVIOUS
<1>3. d \in Dispatches /\ DOMAIN d = {} BY <1>2, EmptyDispatch
<1>4. EntriesMove(d, {}, UpTo(b)) BY <1>2, RecEntries
<1>5. SlotsMove(d, {}, fin, fire, UpTo(b), rc) BY <1>1, <1>2, RecSlots
<1>6. Busy(fin, fire) /\ fin \subseteq Slots BY BusyIs
<1>7. /\ rc \in 0 .. 2 /\ rc <= 1 /\ rc <= count
      /\ Retired(fin, 1) = Front(rc)
      /\ \A s \in Front(rc) : stage[s] = "done" \/ s \in fin
  BY <1>1, <1>6, RetireIs DEF Busy
<1>8. rc \in Nat /\ rc \in 0 .. 1 BY <1>7
<1>9. /\ Front(rc) \subseteq UpTo(b) /\ UpTo(b) \subseteq Slots
      /\ \A s \in UpTo(b), t \in Slots : Age(t) < Age(s) => t \in UpTo(b)
      /\ \A s \in Slots : InWindow(s, head, b) <=> s \in UpTo(b)
  BY <1>8, UpToIs
<1>10. PICK kept : kept = {s \in Slots : Live(s) /\ InWindow(s, head, b)}
  OBVIOUS
<1>11. /\ issued' = {} /\ token' = {} /\ alloc' = <<>>
       /\ due' = BusIds(fin, kept) /\ retire' = {Id(s) : s \in Front(rc)}
       /\ value_alloc' = {} /\ ValueStep
  BY <1>7, <1>10 DEF Recover
<1>12. EarlyIds({}) = {} BY DEF EarlyIds
<1>13. /\ \A id \in due' : \E s \in fin : id = Id(s)
       /\ \A s \in fin : s \in UpTo(b) /\ uop[s].writes => Id(s) \in due'
  <2>1. \A s \in fin : s \in UpTo(b) => s \in kept
    BY <1>6, <1>9, <1>10 DEF Busy, Executing, Live
  <2> QED BY <1>11, <2>1 DEF BusIds
<1>14. {NewId(k) : k \in DOMAIN d} = {} BY <1>3
<1>15. Moved(d, {}, fin, fire, UpTo(b), rc)
  BY <1>2, <1>3, <1>4, <1>5, <1>6, <1>7, <1>8, <1>9, <1>11, <1>12, <1>13,
     <1>14 DEF Moved
<1> QED BY <1>1, <1>2, <1>15

(***************************************************************************)
(* What a move does to one entry or slot.                                  *)
(***************************************************************************)

\* A slot that stays keeps its id, and ages only by what retires before it.
LEMMA StaySlot ==
    ASSUME IssueInd, NEW d, NEW P, NEW fin, NEW fire, NEW keep, NEW rc,
           Moved(d, P, fin, fire, keep, rc),
           NEW s \in Slots, Stays(s, keep, rc)
    PROVE  /\ OldSlot(s, P, fin, fire, rc) /\ Live(s)' /\ Id(s)' = Id(s)
           /\ uop'[s] = uop[s]
           /\ Age(s) \in Nat /\ Age(s)' = Age(s) - rc
           /\ rc <= Age(s) /\ Age(s) < count
           /\ rc \in Nat /\ count \in Nat
           /\ \A k \in DOMAIN d : s # NewSlot(k)
<1> USE DEF IssueInd
<1>1. SlotsMove(d, P, fin, fire, keep, rc) /\ d \in Dispatches
      /\ (DOMAIN d # {} => MayDispatch(d, P))
  BY DEF Moved
<1>2. OldSlot(s, P, fin, fire, rc) /\ Live(s)' BY <1>1 DEF SlotsMove
<1>3. Id(s)' = Id(s) /\ uop'[s] = uop[s] BY <1>2 DEF OldSlot, Id
<1>4. Age(s) \in Nat /\ rc \in Nat /\ count \in Nat
  BY AgeIs DEF Moved, Shape
<1>5. rc <= Age(s) /\ Age(s) < count
  BY <1>4 DEF Stays, WindowInv, Front
<1>6. \A k \in DOMAIN d : s # NewSlot(k) BY <1>1, NewSlotIs DEF Stays
<1> QED BY <1>2, <1>3, <1>4, <1>5, <1>6 DEF OldSlot

\* An entry that stays still waits in its station.
LEMMA StayEntry ==
    ASSUME IssueInd, NEW d, NEW P, NEW fin, NEW fire, NEW keep, NEW rc,
           Moved(d, P, fin, fire, keep, rc),
           NEW i \in LiveEntries, i \notin P, rs[i].slot \in keep,
           NEW s, s = rs[i].slot
    PROVE  /\ i \in LiveEntries' /\ Old(i) /\ rs'[i].slot = s
           /\ rs'[i].uop = rs[i].uop
           /\ s \in Slots /\ Stays(s, keep, rc)
           /\ stage'[s] = "rs" /\ uop'[s] = rs[i].uop
<1> USE DEF IssueInd
<1>1. i \in LiveEntries' /\ Old(i)
  BY DEF Moved, EntriesMove
<1>2. s \in Slots /\ stage[s] = "rs" /\ rs[i].uop = uop[s]
  BY LiveIs, EntryIs DEF EntryInv
<1>3. s \notin fin /\ s \notin fire BY <1>2 DEF Moved, Busy, Executing
<1>4. Stays(s, keep, rc) BY <1>2, <1>3 DEF Moved, Stays, Live
<1>5. s \notin PickedSlots(P)
  BY DEF Moved, PickedSlots, EntryInv
<1>6. OldSlot(s, P, fin, fire, rc) /\ uop'[s] = uop[s] BY <1>2, <1>4, StaySlot
<1>7. stage'[s] = "rs" BY <1>2, <1>3, <1>5, <1>6 DEF OldSlot, Progress
<1>8. rs'[i].slot = s /\ rs'[i].uop = rs[i].uop BY <1>1 DEF Old
<1> QED BY <1>1, <1>2, <1>4, <1>6, <1>7, <1>8

\* A new entry holds a new uop.
LEMMA NewNext ==
    ASSUME IssueInd, ~REPLACE, NEW d, NEW P, NEW fin, NEW fire, NEW keep, NEW rc,
           Moved(d, P, fin, fire, keep, rc), NEW k \in DOMAIN d,
           NEW i, i = Target(d, P, k), NEW s, s = NewSlot(k)
    PROVE  /\ i \in LiveEntries' /\ i \in Rs /\ i \notin LiveEntries
           /\ i \in Bank(BankOf(d[k])) /\ BankOf(d[k]) \in Banks
           /\ d[k] \in Uops /\ k \in {1, 2}
           /\ rs'[i] \in Entries /\ rs'[i].slot = s /\ rs'[i].uop = d[k]
           /\ rs'[i].mask = Mask(d, P, k)
           /\ rs'[i].ready <=> rs'[i].src = None
           /\ \/ rs'[i].src = None
              \/ \E p \in Slots : /\ Live(p) /\ uop[p].writes
                                 /\ rs'[i].src = Id(p)
              \/ /\ k = 2 /\ 1 \in DOMAIN d /\ d[1].writes
                 /\ rs'[i].src = NewId(1)
           /\ s \in Slots /\ ~Live(s) /\ stage'[s] = "rs" /\ uop'[s] = d[k]
           /\ Live(s)' /\ Id(s)' = NewId(k) /\ NewId(k) \in Ids
           /\ NewId(k).slot = s
           /\ Age(s)' = count - rc + k - 1
           /\ rc \in Nat /\ count \in Nat /\ rc <= count
           /\ recovery = None /\ keep = Slots /\ d \in Dispatches
           /\ MayDispatch(d, P)
<1> USE DEF IssueInd
<1>1. /\ d \in Dispatches /\ recovery = None /\ keep = Slots
      /\ MayDispatch(d, P) /\ EntriesMove(d, P, keep)
      /\ SlotsMove(d, P, fin, fire, keep, rc)
  BY DEF Moved
<1>2. i \in LiveEntries' /\ rs'[i] = NewEntry(d, P, k)
  BY <1>1 DEF EntriesMove, Targets
<1>3. /\ i \in Rs /\ rs[i] = None /\ i \in Bank(BankOf(d[k]))
      /\ BankOf(d[k]) \in Banks
  BY <1>1, TargetIs
<1>4. i \notin LiveEntries BY <1>3, LiveIs
<1>5. PICK e : e = rs'[i] /\ e = NewEntry(d, P, k) BY <1>2
<1>6. /\ e \in Entries /\ e.uop = d[k] /\ e.slot = s
      /\ e.mask = Mask(d, P, k) /\ (e.ready <=> e.src = None)
      /\ \/ e.src = None
         \/ \E p \in Slots : Live(p) /\ uop[p].writes /\ e.src = Id(p)
         \/ k = 2 /\ d[1].writes /\ e.src = NewId(1)
  BY <1>1, <1>5, NewEntryIs
<1>7. d[k] \in Uops /\ k \in {1, 2} /\ (k = 2 => 1 \in DOMAIN d)
  BY <1>1, DispatchType
<1>8. /\ s \in Slots /\ ~Live(s) /\ NewId(k) \in Ids /\ NewId(k).slot = s
  BY <1>1, NewSlotIs
<1>9. /\ stage'[s] = "rs" /\ uop'[s] = d[k] /\ Id(s)' = NewId(k)
      /\ Age(s)' = count - rc + k - 1
  BY <1>1, <1>8 DEF SlotsMove
<1>10. Live(s)' BY <1>9 DEF Live
<1>11. rc \in Nat /\ count \in Nat /\ rc <= count
  BY DEF Moved, Shape
<1> QED BY <1>1, <1>2, <1>3, <1>4, <1>5, <1>6, <1>7, <1>8, <1>9, <1>10,
           <1>11

\* After a move a live entry is one that stayed or a new one.
LEMMA LiveNext ==
    ASSUME NEW d, NEW P, NEW fin, NEW fire, NEW keep, NEW rc,
           Moved(d, P, fin, fire, keep, rc),
           NEW i \in LiveEntries'
    PROVE  \/ i \in LiveEntries /\ i \notin P /\ rs[i].slot \in keep
           \/ \E k \in DOMAIN d : i = Target(d, P, k)
BY DEF Moved, EntriesMove, Targets

\* A live producer stays, or it retires and the commit packet names it.
LEMMA SourceNext ==
    ASSUME IssueInd, NEW d, NEW P, NEW fin, NEW fire, NEW keep, NEW rc,
           Moved(d, P, fin, fire, keep, rc), NEW p \in Slots, Live(p), p \in keep
    PROVE  /\ Id(p)' = Id(p)
           /\ \/ Stays(p, keep, rc) /\ Live(p)'
              \/ ~Live(p)' /\ stage'[p] = "free" /\ Id(p) \in retire'
<1> USE DEF IssueInd
<1>1. SlotsMove(d, P, fin, fire, keep, rc) /\ d \in Dispatches
      /\ (DOMAIN d # {} => MayDispatch(d, P))
      /\ retire' = {Id(s) : s \in Front(rc)}
  BY DEF Moved
<1>2. Id(p)' = Id(p) BY <1>1 DEF SlotsMove, Id
<1>3. CASE Stays(p, keep, rc) BY <1>1, <1>2, <1>3 DEF SlotsMove
<1>4. CASE ~Stays(p, keep, rc)
  <2>1. p \in Front(rc) BY <1>4 DEF Stays
  <2>2. \A k \in DOMAIN d : p # NewSlot(k) BY <1>1, NewSlotIs
  <2>3. ~Live(p)' BY <1>1, <1>4, <2>2 DEF SlotsMove
  <2> QED BY <1>1, <1>2, <2>1, <2>3 DEF Live
<1> QED BY <1>3, <1>4

\* The producer an entry keeps waiting for is live and older.
LEMMA StaySource ==
    ASSUME IssueInd, NEW d, NEW P, NEW fin, NEW fire, NEW keep, NEW rc,
           Moved(d, P, fin, fire, keep, rc),
           NEW i \in LiveEntries, i \notin P, rs[i].slot \in keep,
           rs'[i].src # None
    PROVE  /\ rs'[i].src = rs[i].src /\ rs[i].src # None
           /\ rs[i].src \notin retire
           /\ \E p \in Slots : /\ Live(p) /\ p \in keep /\ uop[p].writes
                              /\ Id(p) = rs[i].src /\ p = rs[i].src.slot
                              /\ Age(p) < Age(rs[i].slot)
<1> USE DEF IssueInd
<1>1. Old(i) BY StayEntry
<1>2. rs'[i].src = rs[i].src /\ rs[i].src # None /\ rs[i].src \notin retire
  BY <1>1 DEF Old
<1>3. PICK p : p = rs[i].src.slot OBVIOUS
<1>4. Live(p) /\ Id(p) = rs[i].src /\ Age(p) < Age(rs[i].slot)
  BY <1>2, <1>3 DEF TagLive
<1>5. uop[p].writes BY <1>2, <1>3, <1>4 DEF WaitInv
<1>6. p \in Slots
  <2>1. rs[i].src \in Ids BY <1>2, LiveIs, EntryIs
  <2> QED BY <1>3, <2>1 DEF Ids
<1>7. p \in keep BY <1>4, <1>6 DEF Moved
<1> QED BY <1>2, <1>3, <1>4, <1>5, <1>6, <1>7

(***************************************************************************)
(* Every part of the invariant survives a move.                            *)
(***************************************************************************)

\* The entries and the uops that wait stay the same.
LEMMA EntryNext ==
    ASSUME IssueInd, ~REPLACE, NEW d, NEW P, NEW fin, NEW fire, NEW keep, NEW rc,
           Moved(d, P, fin, fire, keep, rc)
    PROVE  EntryInv'
<1>1. ASSUME NEW i \in LiveEntries'
      PROVE  \E s \in Slots :
                /\ s = rs'[i].slot /\ stage'[s] = "rs" /\ rs'[i].uop = uop'[s]
                /\ \/ i \in LiveEntries /\ s = rs[i].slot /\ Live(s)
                   \/ \E k \in DOMAIN d : i = Target(d, P, k) /\ s = NewSlot(k)
                                          /\ ~Live(s)
  <2>1. CASE i \in LiveEntries /\ i \notin P /\ rs[i].slot \in keep
    <3>1. PICK s : s = rs[i].slot OBVIOUS
    <3>2. /\ rs'[i].slot = s /\ rs'[i].uop = rs[i].uop /\ s \in Slots
          /\ stage'[s] = "rs" /\ uop'[s] = rs[i].uop /\ Stays(s, keep, rc)
      BY <2>1, <3>1, StayEntry
    <3> QED BY <2>1, <3>1, <3>2 DEF Stays
  <2>2. ASSUME NEW k \in DOMAIN d, i = Target(d, P, k)
        PROVE  \E s \in Slots :
                  /\ s = rs'[i].slot /\ stage'[s] = "rs"
                  /\ rs'[i].uop = uop'[s]
                  /\ i = Target(d, P, k) /\ s = NewSlot(k) /\ ~Live(s)
    <3>1. PICK s : s = NewSlot(k) OBVIOUS
    <3>2. /\ rs'[i].slot = s /\ rs'[i].uop = d[k] /\ s \in Slots
          /\ stage'[s] = "rs" /\ uop'[s] = d[k] /\ ~Live(s)
      BY <2>2, <3>1, NewNext
    <3> QED BY <2>2, <3>1, <3>2
  <2> QED BY <2>1, <2>2, LiveNext
<1>2. ASSUME NEW i \in LiveEntries', NEW j \in LiveEntries',
             rs'[i].slot = rs'[j].slot
      PROVE  i = j
  <2>1. PICK s \in Slots :
           /\ s = rs'[i].slot
           /\ \/ i \in LiveEntries /\ s = rs[i].slot /\ Live(s)
              \/ \E k \in DOMAIN d : i = Target(d, P, k) /\ s = NewSlot(k)
                                     /\ ~Live(s)
    BY <1>1
  <2>2. /\ s = rs'[j].slot
        /\ \/ j \in LiveEntries /\ s = rs[j].slot /\ Live(s)
           \/ \E k \in DOMAIN d : j = Target(d, P, k) /\ s = NewSlot(k)
                                  /\ ~Live(s)
    BY <1>1, <1>2, <2>1
  <2>3. CASE Live(s) BY <2>1, <2>2, <2>3 DEF IssueInd, EntryInv
  <2>4. CASE ~Live(s)
    <3>1. PICK k \in DOMAIN d : i = Target(d, P, k) /\ s = NewSlot(k)
      BY <2>1, <2>4
    <3>2. PICK l \in DOMAIN d : j = Target(d, P, l) /\ s = NewSlot(l)
      BY <2>2, <2>4
    <3>3. d \in Dispatches /\ MayDispatch(d, P) /\ Shape /\ WindowInv
      BY <3>1 DEF Moved, IssueInd
    <3>4. k = l BY <3>1, <3>2, <3>3, NewSlotIs
    <3> QED BY <3>1, <3>2, <3>4
  <2> QED BY <2>3, <2>4
<1>3. ASSUME NEW s \in Slots, stage'[s] = "rs"
      PROVE  \E i \in LiveEntries' : rs'[i].slot = s
  <2>1. Live(s)' BY <1>3 DEF Live
  <2>2. CASE \E k \in DOMAIN d : s = NewSlot(k)
    <3>1. PICK k \in DOMAIN d : s = NewSlot(k) BY <2>2
    <3>2. PICK i : i = Target(d, P, k) OBVIOUS
    <3>3. i \in LiveEntries' /\ rs'[i].slot = s BY <3>1, <3>2, NewNext
    <3> QED BY <3>3
  <2>3. CASE Stays(s, keep, rc)
    <3>1. OldSlot(s, P, fin, fire, rc) BY <2>3, StaySlot
    <3>2. stage[s] = "rs" /\ s \notin PickedSlots(P)
      BY <1>3, <3>1 DEF OldSlot, Progress
    <3>3. PICK i \in LiveEntries : rs[i].slot = s
      BY <3>2 DEF IssueInd, EntryInv
    <3>4. i \notin P BY <3>2, <3>3 DEF PickedSlots
    <3>5. s \in keep BY <2>3 DEF Stays
    <3>6. i \in LiveEntries' /\ rs'[i].slot = s
      BY <3>3, <3>4, <3>5, StayEntry
    <3> QED BY <3>6
  <2> QED BY <2>1, <2>2, <2>3 DEF Moved, SlotsMove
<1>4. \A i \in LiveEntries' : stage'[rs'[i].slot] = "rs"
                              /\ rs'[i].uop = uop'[rs'[i].slot]
  BY <1>1
<1> QED BY <1>2, <1>3, <1>4 DEF EntryInv

\* Every entry is in the bank of its uop.
LEMMA BankNext ==
    ASSUME IssueInd, ~REPLACE, NEW d, NEW P, NEW fin, NEW fire, NEW keep, NEW rc,
           Moved(d, P, fin, fire, keep, rc)
    PROVE  BankInv'
<1> SUFFICES ASSUME NEW b \in Banks, NEW i \in Bank(b), rs'[i] # None
             PROVE  BankOf(rs'[i].uop) = b
  BY DEF BankInv, Valid, Bank, Base, BankOf
<1>1. i \in Rs BY BankIs
<1>2. i \in (LiveEntries \ P) \cup Targets(d, P)
  BY <1>1 DEF Moved, EntriesMove
<1>3. CASE i \in LiveEntries \ P
  <2>1. Old(i) BY <1>3 DEF Moved, EntriesMove
  <2>2. i \in Valid(b) BY <1>3, LiveIs DEF Valid
  <2> QED BY <2>1, <2>2 DEF Old, IssueInd, BankInv
<1>4. ASSUME NEW k \in DOMAIN d, i = Target(d, P, k)
      PROVE  BankOf(rs'[i].uop) = b
  <2>1. /\ rs'[i].uop = d[k] /\ i \in Bank(BankOf(d[k]))
        /\ BankOf(d[k]) \in Banks
    BY <1>4, NewNext
  <2> QED BY <2>1, BankIs
<1> QED BY <1>2, <1>3, <1>4 DEF Targets

\* The age of an entry at the next state.
LEMMA AgeAt ==
    ASSUME NEW i, NEW s, s = rs'[i].slot
    PROVE  Age(rs[i].slot)' = Age(s)'
BY DEF Age

\* The source of an entry at the next state.
LEMMA SourceAt ==
    ASSUME NEW i, NEW p, p = rs'[i].src.slot
    PROVE  /\ Age(rs[i].src.slot)' = Age(p)' /\ Live(rs[i].src.slot)' = Live(p)'
           /\ Id(rs[i].src.slot)' = Id(p)'
BY DEF Age, Live, Id

\* Where the source of an entry is after a move: an older producer that is
\* still live, or one that has just retired.
LEMMA SourceStep ==
    ASSUME IssueInd, ~REPLACE, NEW d, NEW P, NEW fin, NEW fire, NEW keep, NEW rc,
           Moved(d, P, fin, fire, keep, rc),
           NEW i \in LiveEntries', rs'[i].src # None
    PROVE  \E p, s \in Slots :
              /\ s = rs'[i].slot /\ p = rs'[i].src.slot /\ Id(p)' = rs'[i].src
              /\ \/ Live(p)' /\ uop'[p].writes /\ Age(p)' < Age(s)'
                 \/ ~Live(p)' /\ rs'[i].src \in retire'
<1>1. CASE i \in LiveEntries /\ i \notin P /\ rs[i].slot \in keep
  <2>1. PICK s : s = rs[i].slot OBVIOUS
  <2>2. s \in Slots /\ Stays(s, keep, rc) /\ rs'[i].slot = s
    BY <1>1, <2>1, StayEntry
  <2>3. PICK p \in Slots : /\ Live(p) /\ p \in keep /\ uop[p].writes
                           /\ Id(p) = rs[i].src /\ p = rs[i].src.slot
                           /\ Age(p) < Age(s)
    BY <1>1, <2>1, StaySource
  <2>4. rs'[i].src = rs[i].src BY <1>1, StaySource
  <2>5. CASE Stays(p, keep, rc)
    <3>1. Age(s) \in Nat /\ Age(s)' = Age(s) - rc /\ rc \in Nat
      BY <2>2, StaySlot
    <3>2. /\ Age(p) \in Nat /\ Age(p)' = Age(p) - rc
          /\ Live(p)' /\ Id(p)' = Id(p) /\ uop'[p] = uop[p]
      BY <2>5, StaySlot
    <3>3. Age(p)' < Age(s)' BY <2>3, <3>1, <3>2
    <3> QED BY <2>2, <2>3, <2>4, <3>2, <3>3
  <2>6. CASE ~Stays(p, keep, rc)
    <3>1. Id(p)' = Id(p) /\ ~Live(p)' /\ Id(p) \in retire'
      BY <2>3, <2>6, SourceNext
    <3> QED BY <2>2, <2>3, <2>4, <3>1
  <2> QED BY <2>5, <2>6
<1>2. ASSUME NEW k \in DOMAIN d, i = Target(d, P, k)
      PROVE  \E p, s \in Slots :
                /\ s = rs'[i].slot /\ p = rs'[i].src.slot
                /\ Id(p)' = rs'[i].src
                /\ \/ Live(p)' /\ uop'[p].writes /\ Age(p)' < Age(s)'
                   \/ ~Live(p)' /\ rs'[i].src \in retire'
  <2>1. PICK s : s = NewSlot(k) OBVIOUS
  <2>2. /\ s \in Slots /\ rs'[i].slot = s /\ Age(s)' = count - rc + k - 1
        /\ rc \in Nat /\ count \in Nat /\ k \in {1, 2} /\ keep = Slots
        /\ \/ \E p \in Slots : /\ Live(p) /\ uop[p].writes
                              /\ rs'[i].src = Id(p)
           \/ /\ k = 2 /\ 1 \in DOMAIN d /\ d[1].writes
              /\ rs'[i].src = NewId(1)
    BY <1>2, <2>1, NewNext
  <2>3. ASSUME NEW p \in Slots, Live(p), uop[p].writes, rs'[i].src = Id(p)
        PROVE  /\ p = rs'[i].src.slot /\ Id(p)' = rs'[i].src
               /\ \/ Live(p)' /\ uop'[p].writes /\ Age(p)' < Age(s)'
                  \/ ~Live(p)' /\ rs'[i].src \in retire'
    <3>1. Id(p).slot = p BY IdIs DEF IssueInd
    <3>2. p \in keep BY <2>2
    <3>3. CASE Stays(p, keep, rc)
      <4>1. /\ Age(p) \in Nat /\ Age(p)' = Age(p) - rc
            /\ Age(p) < count /\ Live(p)' /\ Id(p)' = Id(p)
            /\ uop'[p] = uop[p]
        BY <3>3, StaySlot
      <4>2. Age(p)' < Age(s)' BY <2>2, <4>1
      <4> QED BY <2>3, <3>1, <4>1, <4>2
    <3>4. CASE ~Stays(p, keep, rc)
      <4>1. Id(p)' = Id(p) /\ ~Live(p)' /\ Id(p) \in retire'
        BY <2>3, <3>2, <3>4, SourceNext
      <4> QED BY <2>3, <3>1, <4>1
    <3> QED BY <3>3, <3>4
  <2>4. ASSUME k = 2, 1 \in DOMAIN d, d[1].writes, rs'[i].src = NewId(1)
        PROVE  \E p \in Slots :
                  /\ p = rs'[i].src.slot /\ Live(p)' /\ Id(p)' = rs'[i].src
                  /\ uop'[p].writes /\ Age(p)' < Age(s)'
    <3>1. PICK p : p = NewSlot(1) OBVIOUS
    <3>2. PICK j : j = Target(d, P, 1) OBVIOUS
    <3>3. /\ p \in Slots /\ Live(p)' /\ Id(p)' = NewId(1) /\ uop'[p] = d[1]
          /\ NewId(1).slot = p /\ Age(p)' = count - rc + 1 - 1
      BY <2>4, <3>1, <3>2, NewNext
    <3>4. Age(p)' < Age(s)' BY <2>2, <2>4, <3>3
    <3> QED BY <2>4, <3>3, <3>4
  <2> QED BY <2>2, <2>3, <2>4
<1> QED BY <1>1, <1>2, LiveNext

\* Source tags keep naming live, older producers, or one just retired.
LEMMA TagNext ==
    ASSUME IssueInd, ~REPLACE, NEW d, NEW P, NEW fin, NEW fire, NEW keep, NEW rc,
           Moved(d, P, fin, fire, keep, rc)
    PROVE  TagLive'
<1>1. ASSUME NEW i \in LiveEntries', rs'[i].src # None
      PROVE  /\ Id(rs[i].src.slot)' = rs'[i].src
             /\ IF Live(rs[i].src.slot)'
                THEN Age(rs[i].src.slot)' < Age(rs[i].slot)'
                ELSE rs'[i].src \in retire'
  <2>1. PICK p \in Slots, s \in Slots :
           /\ s = rs'[i].slot /\ p = rs'[i].src.slot /\ Id(p)' = rs'[i].src
           /\ \/ Live(p)' /\ Age(p)' < Age(s)'
              \/ ~Live(p)' /\ rs'[i].src \in retire'
    BY <1>1, SourceStep
  <2> QED BY <2>1, AgeAt, SourceAt
<1> QED BY <1>1 DEF TagLive

\* A source that is not ready has a tag, of a uop that writes.
LEMMA WaitNext ==
    ASSUME IssueInd, ~REPLACE, NEW d, NEW P, NEW fin, NEW fire, NEW keep, NEW rc,
           Moved(d, P, fin, fire, keep, rc)
    PROVE  WaitInv'
<1>1. ASSUME NEW i \in LiveEntries' PROVE rs'[i].ready \/ rs'[i].src # None
  <2>1. CASE i \in LiveEntries /\ i \notin P /\ rs[i].slot \in keep
    <3>1. Old(i) BY <2>1, StayEntry
    <3> QED BY <2>1, <3>1 DEF Old, IssueInd, WaitInv
  <2>2. ASSUME NEW k \in DOMAIN d, i = Target(d, P, k)
        PROVE  rs'[i].ready \/ rs'[i].src # None
    BY <2>2, NewNext
  <2> QED BY <2>1, <2>2, LiveNext
<1>2. ASSUME NEW i \in LiveEntries', rs'[i].src # None,
             Live(rs[i].src.slot)'
      PROVE  uop'[rs'[i].src.slot].writes
  <2>1. PICK p \in Slots :
           /\ p = rs'[i].src.slot
           /\ (Live(p)' /\ uop'[p].writes) \/ ~Live(p)'
    BY <1>2, SourceStep
  <2> QED BY <1>2, <2>1, SourceAt
<1> QED BY <1>1, <1>2 DEF WaitInv

\* An entry that stays keeps its place before every new one.
LEMMA StayAge ==
    ASSUME IssueInd, ~REPLACE, NEW d, NEW P, NEW fin, NEW fire, NEW keep, NEW rc,
           Moved(d, P, fin, fire, keep, rc), NEW s \in Slots, Stays(s, keep, rc),
           NEW k \in DOMAIN d, NEW t, t = NewSlot(k)
    PROVE  Age(s)' < Age(t)' /\ ~(Age(t)' < Age(s)')
<1>1. PICK i : i = Target(d, P, k) OBVIOUS
<1>2. /\ Age(t)' = count - rc + k - 1 /\ k \in {1, 2}
      /\ rc \in Nat /\ count \in Nat
  BY <1>1, NewNext
<1>3. Age(s) \in Nat /\ Age(s)' = Age(s) - rc /\ Age(s) < count
  BY StaySlot
<1> QED BY <1>2, <1>3

\* What holds an entry that stays back is still exact.
LEMMA OrderStay ==
    ASSUME IssueInd, ~REPLACE, NEW d, NEW P, NEW fin, NEW fire, NEW keep, NEW rc,
           Moved(d, P, fin, fire, keep, rc),
           NEW i \in LiveEntries, i \notin P, rs[i].slot \in keep,
           NEW s, s = rs'[i].slot, NEW j
    PROVE  j \in rs'[i].mask \ P <=>
              /\ j \in LiveEntries' /\ Age(rs[j].slot)' < Age(s)'
              /\ WaitsFor(rs'[i].uop, rs'[j].uop)
<1>1. /\ Old(i) /\ rs[i].slot = s /\ rs'[i].uop = rs[i].uop
      /\ s \in Slots /\ Stays(s, keep, rc)
  BY StayEntry
<1>2. j \in rs'[i].mask <=> /\ j \in LiveEntries
                            /\ Age(rs[j].slot) < Age(s)
                            /\ WaitsFor(rs[i].uop, rs[j].uop)
  <2>1. rs'[i].mask = Blocked(i) BY <1>1 DEF Old
  <2>2. Blocked(i) = {l \in LiveEntries :
                        /\ Age(rs[l].slot) < Age(rs[i].slot)
                        /\ WaitsFor(rs[i].uop, rs[l].uop)}
    BY DEF IssueInd, OrderExact
  <2> QED BY <1>1, <2>1, <2>2
<1>3. Age(s) \in Nat /\ Age(s)' = Age(s) - rc /\ rc \in Nat
  BY <1>1, StaySlot
<1>4. ASSUME j \in LiveEntries, j \notin P, rs[j].slot \in keep
      PROVE  /\ j \in LiveEntries' /\ rs'[j].uop = rs[j].uop
             /\ Age(rs[j].slot)' < Age(s)' <=> Age(rs[j].slot) < Age(s)
  <2>1. PICK t : t = rs[j].slot OBVIOUS
  <2>2. /\ j \in LiveEntries' /\ rs'[j].slot = t /\ rs'[j].uop = rs[j].uop
        /\ t \in Slots /\ Stays(t, keep, rc)
    BY <1>4, <2>1, StayEntry
  <2>3. Age(t) \in Nat /\ Age(t)' = Age(t) - rc BY <2>2, StaySlot
  <2>4. Age(rs[j].slot)' = Age(t)' BY <2>2, AgeAt
  <2>5. Age(t)' < Age(s)' <=> Age(t) < Age(s) BY <1>3, <2>3
  <2> QED BY <2>1, <2>2, <2>4, <2>5
<1>5. ASSUME j \in rs'[i].mask, j \notin P
      PROVE  rs[j].slot \in keep
  <2>1. j \in LiveEntries /\ Age(rs[j].slot) < Age(s) BY <1>2, <1>5
  <2>2. rs[j].slot \in Slots BY <2>1, LiveIs, EntryIs DEF IssueInd
  <2> QED BY <1>1, <2>1, <2>2 DEF Moved, Stays
<1>6. ASSUME NEW k \in DOMAIN d, j = Target(d, P, k)
      PROVE  ~(Age(rs[j].slot)' < Age(s)')
  <2>1. PICK t : t = NewSlot(k) OBVIOUS
  <2>2. rs'[j].slot = t BY <1>6, <2>1, NewNext
  <2>3. Age(rs[j].slot)' = Age(t)' BY <2>2, AgeAt
  <2> QED BY <1>1, <2>1, <2>3, StayAge
<1>7. ASSUME j \in rs'[i].mask \ P
      PROVE  /\ j \in LiveEntries' /\ Age(rs[j].slot)' < Age(s)'
             /\ WaitsFor(rs'[i].uop, rs'[j].uop)
  BY <1>1, <1>2, <1>4, <1>5, <1>7
<1>8. ASSUME j \in LiveEntries', Age(rs[j].slot)' < Age(s)',
             WaitsFor(rs'[i].uop, rs'[j].uop)
      PROVE  j \in rs'[i].mask \ P
  <2>1. j \in LiveEntries /\ j \notin P /\ rs[j].slot \in keep
    BY <1>6, <1>8, LiveNext
  <2> QED BY <1>1, <1>2, <1>4, <1>8, <2>1
<1> QED BY <1>7, <1>8

\* What holds a new entry back is exact: the mask names what is in the bank,
\* and the first uop of the pair.
LEMMA OrderNew ==
    ASSUME IssueInd, ~REPLACE, NEW d, NEW P, NEW fin, NEW fire, NEW keep, NEW rc,
           Moved(d, P, fin, fire, keep, rc), NEW k \in DOMAIN d,
           NEW i, i = Target(d, P, k), NEW s, s = rs'[i].slot, NEW j
    PROVE  j \in rs'[i].mask \ P <=>
              /\ j \in LiveEntries' /\ Age(rs[j].slot)' < Age(s)'
              /\ WaitsFor(rs'[i].uop, rs'[j].uop)
<1>1. /\ s = NewSlot(k) /\ rs'[i].uop = d[k] /\ d[k] \in Uops
      /\ rs'[i].mask = Mask(d, P, k) /\ BankOf(d[k]) \in Banks
      /\ k \in {1, 2} /\ Age(s)' = count - rc + k - 1
      /\ rc \in Nat /\ count \in Nat
      /\ recovery = None /\ keep = Slots /\ d \in Dispatches
  <2>1. PICK t : t = NewSlot(k) OBVIOUS
  <2> QED BY <2>1, NewNext
<1>2. j \in rs'[i].mask <=>
         \/ j \in Valid(BankOf(d[k])) /\ WaitsFor(d[k], rs[j].uop)
         \/ k = 2 /\ WaitsFor(d[2], d[1]) /\ j = Target(d, P, 1)
  BY <1>1 DEF Mask
<1>3. j \in Valid(BankOf(d[k])) => j \in LiveEntries
  BY <1>1, CandidateIs, LiveIs
<1>4. ASSUME j \in LiveEntries, j \notin P
      PROVE  /\ j \in LiveEntries' /\ rs'[j].uop = rs[j].uop
             /\ Age(rs[j].slot)' < Age(s)' /\ rs[j].uop \in Uops
             /\ j \in Rs /\ rs[j] # None
  <2>1. PICK t : t = rs[j].slot OBVIOUS
  <2>2. j \in Rs /\ rs[j] # None /\ rs[j].uop \in Uops /\ t \in Slots
    BY <1>4, <2>1, LiveIs, EntryIs DEF IssueInd
  <2>3. /\ j \in LiveEntries' /\ rs'[j].slot = t /\ rs'[j].uop = rs[j].uop
        /\ Stays(t, keep, rc)
    BY <1>1, <1>4, <2>1, <2>2, StayEntry
  <2>4. Age(rs[j].slot)' = Age(t)' BY <2>3, AgeAt
  <2>5. Age(t)' < Age(s)' BY <1>1, <2>2, <2>3, StayAge
  <2> QED BY <2>2, <2>3, <2>4, <2>5
<1>5. ASSUME NEW l \in DOMAIN d, j = Target(d, P, l)
      PROVE  /\ j \in LiveEntries' /\ j \notin P /\ rs'[j].uop = d[l]
             /\ l \in {1, 2} /\ j \notin LiveEntries
             /\ Age(rs[j].slot)' = count - rc + l - 1
  <2>1. PICK t : t = NewSlot(l) OBVIOUS
  <2>2. /\ j \in LiveEntries' /\ j \notin LiveEntries /\ rs'[j].slot = t
        /\ rs'[j].uop = d[l] /\ l \in {1, 2}
        /\ Age(t)' = count - rc + l - 1
    BY <1>5, <2>1, NewNext
  <2>3. Age(rs[j].slot)' = Age(t)' BY <2>2, AgeAt
  <2>4. j \notin P BY <2>2 DEF Moved
  <2> QED BY <2>2, <2>3, <2>4
<1>6. k = 2 => 1 \in DOMAIN d BY <1>1, DispatchType
<1>7. ASSUME j \in rs'[i].mask \ P
      PROVE  /\ j \in LiveEntries' /\ Age(rs[j].slot)' < Age(s)'
             /\ WaitsFor(rs'[i].uop, rs'[j].uop)
  <2>1. CASE j \in Valid(BankOf(d[k])) /\ WaitsFor(d[k], rs[j].uop)
    BY <1>1, <1>3, <1>4, <1>7, <2>1
  <2>2. CASE k = 2 /\ WaitsFor(d[2], d[1]) /\ j = Target(d, P, 1)
    <3>1. /\ j \in LiveEntries' /\ rs'[j].uop = d[1]
          /\ Age(rs[j].slot)' = count - rc + 1 - 1
      BY <1>5, <1>6, <2>2
    <3>2. Age(rs[j].slot)' < Age(s)' BY <1>1, <2>2, <3>1
    <3> QED BY <1>1, <2>2, <3>1, <3>2
  <2> QED BY <1>2, <1>7, <2>1, <2>2
<1>8. ASSUME j \in LiveEntries', Age(rs[j].slot)' < Age(s)',
             WaitsFor(rs'[i].uop, rs'[j].uop)
      PROVE  j \in rs'[i].mask \ P
  <2>1. CASE j \in LiveEntries /\ j \notin P
    <3>1. /\ WaitsFor(d[k], rs[j].uop) /\ rs[j].uop \in Uops
          /\ j \in Rs /\ rs[j] # None
      BY <1>1, <1>4, <1>8, <2>1
    <3>2. BankOf(rs[j].uop) = BankOf(d[k]) BY <1>1, <3>1, BankOfIs
    <3>3. PICK b \in Banks : j \in Bank(b) BY <3>1, BankIs
    <3>4. j \in Valid(b) BY <3>1, <3>3 DEF Valid
    <3>5. BankOf(rs[j].uop) = b BY <3>4 DEF IssueInd, BankInv
    <3> QED BY <1>2, <2>1, <3>1, <3>2, <3>4, <3>5
  <2>2. ASSUME NEW l \in DOMAIN d, j = Target(d, P, l)
        PROVE  j \in rs'[i].mask \ P
    <3>1. /\ j \notin P /\ rs'[j].uop = d[l] /\ l \in {1, 2}
          /\ Age(rs[j].slot)' = count - rc + l - 1
      BY <1>5, <2>2
    <3>2. l = 1 /\ k = 2 BY <1>1, <1>8, <3>1
    <3> QED BY <1>1, <1>2, <1>8, <2>2, <3>1, <3>2
  <2> QED BY <1>8, <2>1, <2>2, LiveNext
<1> QED BY <1>7, <1>8

\* The ordering masks stay exact.
LEMMA OrderNext ==
    ASSUME IssueInd, ~REPLACE, NEW d, NEW P, NEW fin, NEW fire, NEW keep, NEW rc,
           Moved(d, P, fin, fire, keep, rc)
    PROVE  OrderExact'
<1>1. ASSUME NEW i \in LiveEntries', NEW j
      PROVE  j \in rs'[i].mask \ P <=>
                /\ j \in LiveEntries' /\ Age(rs[j].slot)' < Age(rs[i].slot)'
                /\ WaitsFor(rs'[i].uop, rs'[j].uop)
  <2>1. PICK s : s = rs'[i].slot OBVIOUS
  <2>2. Age(rs[i].slot)' = Age(s)' BY <2>1, AgeAt
  <2> QED BY <2>1, <2>2, LiveNext, OrderStay, OrderNew
<1>2. issued' = P BY DEF Moved
<1>3. ASSUME NEW i \in LiveEntries'
      PROVE  rs'[i].mask \ P =
               {j \in LiveEntries' : /\ Age(rs[j].slot)' < Age(rs[i].slot)'
                                     /\ WaitsFor(rs'[i].uop, rs'[j].uop)}
  BY <1>1
<1> QED BY <1>2, <1>3 DEF OrderExact, Blocked, WaitsFor

\* How a uop in flight that stays goes on.
LEMMA StayDone ==
    ASSUME IssueInd, NEW d, NEW P, NEW fin, NEW fire, NEW keep, NEW rc,
           Moved(d, P, fin, fire, keep, rc),
           NEW s \in Slots, Stays(s, keep, rc)
    PROVE  /\ s \in fin => stage'[s] = "done" /\ stage[s] \in {"out", "resp"}
           /\ stage[s] \in {"resp", "done"} => stage'[s] = "done"
           /\ stage'[s] = "done" => s \in fin \/ stage[s] = "done"
           /\ stage[s] = "lost" => stage'[s] \in {"resp", "lost"}
           /\ stage[s] = "lost" /\ recovery = None => stage'[s] = "resp"
           /\ stage[s] = "out" /\ Early(s) =>
                 stage'[s] \in {"out", "done"} /\ Early(s)'
<1>1. stage'[s] = Progress(s, P, fin, fire) /\ uop'[s] = uop[s]
  BY StaySlot DEF OldSlot
<1>2. /\ s \in fin => stage[s] \in {"out", "resp"}
      /\ s \in fire => /\ s \notin fin
                       /\ \/ stage[s] = "lost"
                          \/ stage[s] = "out" /\ ~Early(s)
      /\ stage[s] = "resp" => s \in fin
      /\ stage[s] = "lost" => s \in fire
  BY DEF Moved, Busy, Executing, Responding, Cancelled, Early
<1>3. s \in PickedSlots(P) => stage[s] = "rs"
  <2>1. P \subseteq LiveEntries BY DEF Moved
  <2> QED BY <2>1 DEF PickedSlots, IssueInd, EntryInv
<1> QED BY <1>1, <1>2, <1>3 DEF Progress, Early

\* The ids that are selected early are those of uops now being executed.
LEMMA TokenNext ==
    ASSUME IssueInd, ~REPLACE, NEW d, NEW P, NEW fin, NEW fire, NEW keep, NEW rc,
           Moved(d, P, fin, fire, keep, rc)
    PROVE  TokenInv' /\ token' \subseteq Ids
<1> USE DEF IssueInd
<1>1. ASSUME NEW id \in token'
      PROVE  /\ Id(id.slot)' = id /\ stage'[id.slot] = "out"
             /\ Early(id.slot)' /\ id \in Ids
  <2>1. token' = EarlyIds(P) BY DEF Moved
  <2>2. PICK i \in P : id = Id(rs[i].slot) /\ Early(rs[i].slot)
    BY <1>1, <2>1 DEF EarlyIds
  <2>3. i \in LiveEntries /\ keep = Slots BY <2>2 DEF Moved
  <2>4. PICK s : s = rs[i].slot OBVIOUS
  <2>5. s \in Slots /\ stage[s] = "rs"
    BY <2>3, <2>4, LiveIs, EntryIs DEF EntryInv
  <2>6. s \notin fin /\ s \notin fire BY <2>5 DEF Moved, Busy, Executing
  <2>7. Stays(s, keep, rc) BY <2>3, <2>5, <2>6 DEF Moved, Stays, Live
  <2>8. s \in PickedSlots(P) BY <2>2, <2>4 DEF PickedSlots
  <2>9. /\ stage'[s] = Progress(s, P, fin, fire) /\ uop'[s] = uop[s]
        /\ Id(s)' = Id(s)
    BY <2>5, <2>7, StaySlot DEF OldSlot
  <2>10. stage'[s] = "out" BY <2>6, <2>8, <2>9 DEF Progress
  <2>11. id.slot = s /\ id \in Ids /\ id = Id(s) BY <2>2, <2>4, <2>5, IdIs
  <2>12. Early(s)' BY <2>2, <2>4, <2>9 DEF Early
  <2>13. Early(id.slot)' BY <2>9, <2>11, <2>12 DEF Early
  <2>14. Id(id.slot)' = id BY <2>9, <2>11 DEF Id
  <2> QED BY <2>10, <2>11, <2>13, <2>14
<1> QED BY <1>1 DEF TokenInv

\* The results that are due are those of slots now done, or of squashed ones.
LEMMA DueNext ==
    ASSUME IssueInd, ~REPLACE, NEW d, NEW P, NEW fin, NEW fire, NEW keep, NEW rc,
           Moved(d, P, fin, fire, keep, rc)
    PROVE  DueInv' /\ due' \subseteq Ids
<1> USE DEF IssueInd
<1>1. ASSUME NEW id \in due'
      PROVE  /\ Id(id.slot)' = id /\ id \in Ids
             /\ Live(id.slot)' => stage'[id.slot] = "done"
  <2>1. PICK s \in fin : id = Id(s) BY <1>1 DEF Moved
  <2>2. s \in Slots /\ Live(s) BY DEF Moved, Busy, Executing, Live
  <2>3. id.slot = s /\ id \in Ids BY <2>1, <2>2, IdIs
  <2>4. SlotsMove(d, P, fin, fire, keep, rc) /\ d \in Dispatches
        /\ (DOMAIN d # {} => MayDispatch(d, P))
    BY DEF Moved
  <2>5. Id(s)' = Id(s) BY <2>2, <2>4 DEF SlotsMove, Id
  <2>6. \A k \in DOMAIN d : s # NewSlot(k) BY <2>2, <2>4, NewSlotIs
  <2>7. Live(s)' => Stays(s, keep, rc) BY <2>2, <2>4, <2>6 DEF SlotsMove
  <2>8. Live(s)' => stage'[s] = "done" BY <2>1, <2>2, <2>7, StayDone
  <2>9. Live(id.slot)' = Live(s)' /\ Id(id.slot)' = Id(s)'
    BY <2>3 DEF Live, Id
  <2> QED BY <2>1, <2>3, <2>5, <2>8, <2>9
<1> QED BY <1>1 DEF DueInv

\* What has just retired has left its slot, and nobody has taken it.
LEMMA RetireNext ==
    ASSUME IssueInd, ~REPLACE, NEW d, NEW P, NEW fin, NEW fire, NEW keep, NEW rc,
           Moved(d, P, fin, fire, keep, rc)
    PROVE  RetireInv' /\ retire' \subseteq Ids
<1> USE DEF IssueInd
<1>1. ASSUME NEW id \in retire'
      PROVE  Id(id.slot)' = id /\ ~Live(id.slot)' /\ id \in Ids
  <2>1. PICK s \in Front(rc) : id = Id(s) BY <1>1 DEF Moved
  <2>2. /\ s \in Slots /\ s \in keep
        /\ stage[s] = "done" \/ s \in fin
    BY DEF Moved, Front
  <2>3. Live(s) BY <2>2 DEF Moved, Busy, Executing, Live
  <2>4. ~Stays(s, keep, rc) BY <2>1 DEF Stays
  <2>5. Id(s)' = Id(s) /\ ~Live(s)' BY <2>2, <2>3, <2>4, SourceNext
  <2>6. id.slot = s /\ id \in Ids BY <2>1, <2>2, IdIs
  <2>7. Live(id.slot)' = Live(s)' /\ Id(id.slot)' = Id(s)'
    BY <2>6 DEF Live, Id
  <2> QED BY <2>1, <2>5, <2>6, <2>7
<1> QED BY <1>1 DEF RetireInv

\* The uops just dispatched are the ones to look up their operands.
LEMMA AllocNext ==
    ASSUME IssueInd, ~REPLACE, NEW d, NEW P, NEW fin, NEW fire, NEW keep, NEW rc,
           Moved(d, P, fin, fire, keep, rc)
    PROVE  AllocInv'
<1>1. /\ d \in Dispatches /\ DOMAIN alloc' = DOMAIN d
      /\ value_alloc' = {NewId(k) : k \in DOMAIN d}
      /\ \A k \in DOMAIN d :
            alloc'[k] = [entry |-> Target(d, P, k), id |-> NewId(k)]
  BY DEF Moved
<1>2. DOMAIN alloc' \in {{}, {1}, {1, 2}} BY <1>1, DispatchType
<1>3. \A k \in DOMAIN d : /\ alloc'[k].entry = Target(d, P, k)
                          /\ alloc'[k].id = NewId(k)
  BY <1>1
<1>4. ASSUME NEW k \in DOMAIN alloc'
      PROVE  \E s \in Slots :
                /\ alloc'[k].entry \in LiveEntries' /\ alloc'[k].id \in Ids
                /\ rs'[alloc'[k].entry].slot = s /\ alloc'[k].id.slot = s
                /\ Id(s)' = alloc'[k].id
                /\ Age(s)' = count - rc + k - 1
                /\ count \in Nat /\ rc \in Nat /\ k \in {1, 2}
  <2>1. PICK i : i = Target(d, P, k) OBVIOUS
  <2>2. PICK s : s = NewSlot(k) OBVIOUS
  <2>3. k \in DOMAIN d BY <1>1
  <2>4. /\ i \in LiveEntries' /\ rs'[i].slot = s /\ s \in Slots
        /\ Id(s)' = NewId(k) /\ NewId(k) \in Ids /\ NewId(k).slot = s
        /\ Age(s)' = count - rc + k - 1
        /\ count \in Nat /\ rc \in Nat /\ k \in {1, 2}
    BY <2>1, <2>2, <2>3, NewNext
  <2> QED BY <1>3, <2>1, <2>3, <2>4
<1>5. ASSUME NEW k \in DOMAIN alloc'
      PROVE  /\ alloc'[k].entry \in LiveEntries' /\ alloc'[k].id \in Ids
             /\ rs'[alloc'[k].entry].slot = alloc'[k].id.slot
             /\ Id(alloc[k].id.slot)' = alloc'[k].id
             /\ Age(alloc[k].id.slot)' = count - rc + k - 1
             /\ count \in Nat /\ rc \in Nat /\ k \in {1, 2}
  <2>1. PICK s \in Slots :
           /\ alloc'[k].entry \in LiveEntries' /\ alloc'[k].id \in Ids
           /\ rs'[alloc'[k].entry].slot = s /\ alloc'[k].id.slot = s
           /\ Id(s)' = alloc'[k].id
           /\ Age(s)' = count - rc + k - 1
           /\ count \in Nat /\ rc \in Nat /\ k \in {1, 2}
    BY <1>4
  <2>2. Id(alloc[k].id.slot)' = Id(s)' BY <2>1 DEF Id
  <2>3. Age(alloc[k].id.slot)' = Age(s)' BY <2>1 DEF Age
  <2> QED BY <2>1, <2>2, <2>3
<1>6. ASSUME NEW k \in DOMAIN alloc', NEW l \in DOMAIN alloc', k < l
      PROVE  Age(alloc[k].id.slot)' < Age(alloc[l].id.slot)'
  <2>1. /\ Age(alloc[k].id.slot)' = count - rc + k - 1
        /\ Age(alloc[l].id.slot)' = count - rc + l - 1
        /\ count \in Nat /\ rc \in Nat /\ k \in {1, 2}
        /\ l \in {1, 2}
    BY <1>5
  <2> QED BY <1>6, <2>1
<1>7. value_alloc' = {alloc'[k].id : k \in DOMAIN alloc'}
  BY <1>1, <1>3
<1> QED BY <1>2, <1>5, <1>6, <1>7 DEF AllocInv

\* What the value file holds for a slot after an edge.
LEMMA ValueAt ==
    ASSUME IssueInd, ValueStep, NEW s \in Slots
    PROVE  /\ (\E id \in value_alloc : id.slot = s) =>
                 /\ stage[s] = "rs"
                 /\ \A x : value'[s] # [id |-> x, valid |-> TRUE]
           /\ Id(s) \in value_alloc => \E id \in value_alloc : id.slot = s
           /\ (\A id \in value_alloc : id.slot # s) =>
                 value'[s] = IF Id(s) \in due
                             THEN [id |-> Id(s), valid |-> TRUE]
                             ELSE value[s]
<1> USE DEF IssueInd
<1>1. Id(s).slot = s BY IdIs
<1>2. ASSUME NEW id \in value_alloc, id.slot = s PROVE stage[s] = "rs"
  <2>1. PICK k \in DOMAIN alloc : id = alloc[k].id BY <1>2 DEF AllocInv
  <2>2. /\ alloc[k].entry \in LiveEntries
        /\ rs[alloc[k].entry].slot = s
    BY <1>2, <2>1 DEF AllocInv
  <2> QED BY <2>2 DEF EntryInv
<1>3. ASSUME \E id \in value_alloc : id.slot = s
      PROVE  \A x : value'[s] # [id |-> x, valid |-> TRUE]
  <2>1. PICK y : value'[s] = [id |-> y, valid |-> FALSE]
    BY <1>3 DEF ValueStep
  <2> QED BY <2>1
<1>4. ASSUME NEW id \in due, id.slot = s PROVE id = Id(s)
  BY <1>4 DEF DueInv
<1>5. ASSUME \A id \in value_alloc : id.slot # s
      PROVE  value'[s] = IF Id(s) \in due
                         THEN [id |-> Id(s), valid |-> TRUE] ELSE value[s]
  <2>1. value'[s] = IF \E id \in due : id.slot = s
                    THEN [id |-> CHOOSE id \in due : id.slot = s,
                          valid |-> TRUE]
                    ELSE value[s]
    BY <1>5 DEF ValueStep
  <2>2. (\E id \in due : id.slot = s) <=> Id(s) \in due BY <1>1, <1>4
  <2>3. PICK c : c = CHOOSE id \in due : id.slot = s OBVIOUS
  <2>4. Id(s) \in due => c = Id(s) BY <1>1, <1>4, <2>3
  <2> QED BY <2>1, <2>2, <2>3, <2>4
<1> QED BY <1>1, <1>2, <1>3, <1>5

\* The value file stays in step with the progress of the slots.
LEMMA ValueNext ==
    ASSUME IssueInd, ~REPLACE, NEW d, NEW P, NEW fin, NEW fire, NEW keep, NEW rc,
           Moved(d, P, fin, fire, keep, rc)
    PROVE  ValueInv'
<1> USE DEF IssueInd
<1>1. ValueStep /\ value_alloc' = {NewId(k) : k \in DOMAIN d}
  BY DEF Moved
<1>2. ASSUME NEW s \in Slots
      PROVE  Resident(Id(s))' <=> value'[s] = [id |-> Id(s)', valid |-> TRUE]
  BY DEF Resident, Id
<1>3. ASSUME NEW s \in Slots, Id(s) \in due, Live(s)
      PROVE  stage[s] = "done"
  <2>1. Id(s).slot = s BY IdIs
  <2> QED BY <1>3, <2>1 DEF DueInv
<1>4. ASSUME NEW s \in Slots, Stays(s, keep, rc), Resident(Id(s))'
      PROVE  stage'[s] = "done"
  <2>1. Id(s)' = Id(s) /\ Live(s) BY <1>4, StaySlot DEF Stays
  <2>2. value'[s] = [id |-> Id(s), valid |-> TRUE] BY <1>2, <1>4, <2>1
  <2>3. \A id \in value_alloc : id.slot # s BY <1>1, <2>2, ValueAt
  <2>4. stage[s] = "done"
    <3>1. CASE Id(s) \in due BY <1>3, <2>1, <3>1
    <3>2. CASE Id(s) \notin due
      <4>1. value[s] = [id |-> Id(s), valid |-> TRUE]
        BY <1>1, <2>2, <2>3, <3>2, ValueAt
      <4>2. Resident(Id(s)) BY <4>1, IdIs DEF Resident
      <4>3. Id(s) \notin value_alloc BY <2>3, IdIs
      <4> QED BY <2>1, <4>2, <4>3 DEF ValueInv
    <3> QED BY <3>1, <3>2
  <2> QED BY <1>4, <2>4, StayDone
<1>5. ASSUME NEW s \in Slots, NEW k \in DOMAIN d, s = NewSlot(k)
      PROVE  Id(s)' \in value_alloc' /\ stage'[s] = "rs"
  <2>1. PICK i : i = Target(d, P, k) OBVIOUS
  <2>2. Id(s)' = NewId(k) /\ stage'[s] = "rs" BY <1>5, <2>1, NewNext
  <2> QED BY <1>1, <2>2
<1>6. \A s \in Slots : Live(s)' <=> \/ Stays(s, keep, rc)
                                    \/ \E k \in DOMAIN d : s = NewSlot(k)
  BY DEF Moved, SlotsMove
<1>7. ASSUME NEW s \in Slots, stage'[s] = "done", uop'[s].writes
      PROVE  Id(s)' \in due' \/ Resident(Id(s))'
  <2>1. Live(s)' BY <1>7 DEF Live
  <2>2. Stays(s, keep, rc) BY <1>5, <1>6, <1>7, <2>1
  <2>3. Id(s)' = Id(s) /\ uop[s].writes /\ s \in keep
    BY <1>7, <2>2, StaySlot DEF Stays
  <2>4. CASE s \in fin BY <2>3, <2>4 DEF Moved
  <2>5. CASE s \notin fin
    <3>1. stage[s] = "done" BY <1>7, <2>2, <2>5, StayDone
    <3>2. \A id \in value_alloc : id.slot # s BY <1>1, <3>1, ValueAt
    <3>3. CASE Id(s) \in due
      <4>1. value'[s] = [id |-> Id(s), valid |-> TRUE]
        BY <1>1, <3>2, <3>3, ValueAt
      <4> QED BY <1>2, <2>3, <4>1
    <3>4. CASE Id(s) \notin due
      <4>1. Resident(Id(s)) BY <2>3, <3>1, <3>4 DEF ValueInv
      <4>2. value[s] = [id |-> Id(s), valid |-> TRUE]
        BY <4>1, IdIs DEF Resident
      <4>3. value'[s] = value[s] BY <1>1, <3>2, <3>4, ValueAt
      <4> QED BY <1>2, <2>3, <4>2, <4>3
    <3> QED BY <3>3, <3>4
  <2> QED BY <2>4, <2>5
<1>8. ASSUME NEW s \in Slots, Live(s)', Id(s)' \notin value_alloc',
             Resident(Id(s))'
      PROVE  stage'[s] = "done"
  BY <1>4, <1>5, <1>6, <1>8
<1> QED BY <1>7, <1>8 DEF ValueInv

\* A lookup of the value file finds no uop of the same dispatch.
LEMMA LookupIs ==
    ASSUME IssueInd, NEW i \in LiveEntries, AllocWakeup(i),
           NEW p \in Slots, Live(p), Id(p) = rs[i].src,
           Age(p) < Age(rs[i].slot)
    PROVE  stage[p] = "done"
<1> USE DEF IssueInd
<1>1. PICK k \in DOMAIN alloc : /\ alloc[k].entry = i
                                /\ k = 2 => rs[i].src # alloc[1].id
                                /\ Resident(rs[i].src)
  BY DEF AllocWakeup
<1>2. DOMAIN alloc \subseteq {1, 2} BY DEF AllocInv
<1>3. rs[i].slot = alloc[k].id.slot BY <1>1 DEF AllocInv
<1>4. rs[i].slot \in Slots BY LiveIs, EntryIs
<1>5. PICK g \in Nat, h \in Nat : g = Age(p) /\ h = Age(rs[i].slot) /\ g < h
  BY <1>4, AgeIs
<1>6. ASSUME NEW l \in DOMAIN alloc, alloc[l].id = Id(p) PROVE FALSE
  <2>1. alloc[l].id.slot = p BY <1>6, IdIs
  <2>2. l # k BY <1>3, <1>5, <2>1
  <2>3. CASE k = 2 /\ l = 1 BY <1>1, <1>6, <2>3
  <2>4. CASE k = 1 /\ l = 2
    <3>1. 1 \in DOMAIN alloc /\ 2 \in DOMAIN alloc /\ 1 < 2 BY <2>4
    <3>2. Age(alloc[1].id.slot) < Age(alloc[2].id.slot) BY <3>1 DEF AllocInv
    <3>3. h < g BY <1>3, <1>5, <2>1, <2>4, <3>2
    <3> QED BY <1>5, <3>3
  <2> QED BY <1>2, <2>2, <2>3, <2>4
<1>7. Id(p) \notin value_alloc BY <1>6 DEF AllocInv
<1> QED BY <1>1, <1>7 DEF ValueInv

\* The source of an entry is the only one with its id.
LEMMA WakeupIs ==
    ASSUME IssueInd, NEW i \in LiveEntries, NEW p \in Slots, Live(p),
           Id(p) = rs[i].src
    PROVE  /\ Wakeup(i) <=> \/ Id(p) \in token \/ Id(p) \in LaunchIds
                           \/ Id(p) \in due \/ stage[p] = "resp"
                           \/ AllocWakeup(i)
           /\ Id(p) \in token => stage[p] = "out" /\ Early(p)
           /\ Id(p) \in LaunchIds => recovery = None
                                    /\ stage[p] \in {"resp", "lost"}
           /\ Id(p) \in due => stage[p] = "done"
<1> USE DEF IssueInd
<1>1. Id(p).slot = p /\ Id(p) # None BY IdIs
<1>2. \A s \in Slots : Id(s) = Id(p) => s = p BY IdIs
<1>3. Id(p) \in {Id(s) : s \in Responding} <=> stage[p] = "resp"
  BY <1>2 DEF Responding
<1>4. Id(p) \in LaunchIds => recovery = None /\ stage[p] \in {"resp", "lost"}
  BY <1>2 DEF LaunchIds, Responding, Cancelled
<1>5. Id(p) \in token => stage[p] = "out" /\ Early(p) BY <1>1 DEF TokenInv
<1>6. Id(p) \in due => stage[p] = "done" BY <1>1 DEF DueInv
<1>7. Wakeup(i) <=> \/ Id(p) \in token \cup LaunchIds \cup due
                    \/ Id(p) \in {Id(s) : s \in Responding}
                    \/ AllocWakeup(i)
  BY <1>1 DEF Wakeup
<1> QED BY <1>3, <1>4, <1>5, <1>6, <1>7

\* An entry that stays loses no wakeup, and wakes for nothing else.
LEMMA WakeStay ==
    ASSUME IssueInd, NEW d, NEW P, NEW fin, NEW fire, NEW keep, NEW rc,
           Moved(d, P, fin, fire, keep, rc),
           NEW i \in LiveEntries, i \notin P, rs[i].slot \in keep,
           rs'[i].src # None, NEW p, p = rs'[i].src.slot
    PROVE  /\ ~rs'[i].ready /\ stage'[p] \in {"done", "free"} =>
                 rs'[i].src \in due' \cup retire'
           /\ rs'[i].ready =>
                 \/ stage'[p] \in {"resp", "lost", "done", "free"}
                 \/ stage'[p] = "out" /\ Early(p)'
<1> USE DEF IssueInd
<1>1. Old(i) BY StayEntry
<1>2. /\ p \in Slots /\ Live(p) /\ p \in keep /\ uop[p].writes
      /\ Id(p) = rs[i].src /\ p = rs[i].src.slot
      /\ Age(p) < Age(rs[i].slot)
      /\ rs'[i].src = rs[i].src /\ rs[i].src # None
      /\ rs[i].src \notin retire
  <2>1. /\ rs'[i].src = rs[i].src /\ rs[i].src # None
        /\ rs[i].src \notin retire
    BY StaySource
  <2>2. PICK q \in Slots : /\ Live(q) /\ q \in keep /\ uop[q].writes
                           /\ Id(q) = rs[i].src /\ q = rs[i].src.slot
                           /\ Age(q) < Age(rs[i].slot)
    BY StaySource
  <2>3. p = q BY <2>1, <2>2
  <2> QED BY <2>1, <2>2, <2>3
<1>3. CASE ~Stays(p, keep, rc)
  <2>1. stage'[p] = "free" /\ Id(p) \in retire' BY <1>2, <1>3, SourceNext
  <2> QED BY <1>2, <2>1
<1>4. CASE Stays(p, keep, rc)
  <2>1. rs'[i].ready <=> rs[i].ready \/ Wakeup(i) BY <1>1, <1>2 DEF Old
  <2>2. /\ Wakeup(i) <=> \/ Id(p) \in token \/ Id(p) \in LaunchIds
                         \/ Id(p) \in due \/ stage[p] = "resp"
                         \/ AllocWakeup(i)
        /\ Id(p) \in token => stage[p] = "out" /\ Early(p)
        /\ Id(p) \in LaunchIds => stage[p] \in {"resp", "lost"}
        /\ Id(p) \in due => stage[p] = "done"
    BY <1>2, WakeupIs
  <2>3. /\ p \in fin => stage'[p] = "done" /\ stage[p] \in {"out", "resp"}
        /\ stage[p] \in {"resp", "done"} => stage'[p] = "done"
        /\ stage'[p] = "done" => p \in fin \/ stage[p] = "done"
        /\ stage[p] = "lost" => stage'[p] \in {"resp", "lost"}
        /\ stage[p] = "out" /\ Early(p) =>
              stage'[p] \in {"out", "done"} /\ Early(p)'
    BY <1>2, <1>4, StayDone
  <2>4. ASSUME ~rs'[i].ready, stage'[p] \in {"done", "free"}
        PROVE  rs'[i].src \in due'
    <3>1. Live(p)' BY <1>2, <1>4, StaySlot
    <3>2. stage'[p] = "done" BY <2>4, <3>1 DEF Live
    <3>3. /\ ~rs[i].ready /\ ~AllocWakeup(i) /\ Id(p) \notin due
      BY <2>1, <2>2, <2>4
    <3>4. CASE p \in fin BY <1>2, <3>4 DEF Moved
    <3>5. CASE stage[p] = "done"
      <4>1. rs[i].src \in due \cup retire \/ AllocWakeup(i)
        BY <1>2, <3>3, <3>5 DEF WakeupExact, NoLostWakeup
      <4> QED BY <1>2, <3>3, <4>1
    <3> QED BY <2>3, <3>2, <3>4, <3>5
  <2>5. ASSUME rs'[i].ready
        PROVE  \/ stage[p] \in {"resp", "lost", "done"}
               \/ stage[p] = "out" /\ Early(p)
    <3>1. CASE rs[i].ready
      <4>1. Ready(i) BY <3>1 DEF Ready
      <4>2. \/ stage[p] \in {"resp", "lost", "done", "free"}
            \/ stage[p] = "out" /\ Early(p)
        BY <1>2, <4>1 DEF WakeupExact, ReadySound
      <4> QED BY <1>2, <4>2 DEF Live
    <3>2. CASE AllocWakeup(i)
      <4>1. stage[p] = "done" BY <1>2, <3>2, LookupIs
      <4> QED BY <4>1
    <3> QED BY <2>1, <2>2, <2>5, <3>1, <3>2
  <2> QED BY <2>3, <2>4, <2>5
<1> QED BY <1>3, <1>4

\* A new entry that waits for a completed producer hears it due or looks it
\* up, and it is not ready before.
LEMMA WakeNew ==
    ASSUME IssueInd, ~REPLACE, NEW d, NEW P, NEW fin, NEW fire, NEW keep, NEW rc,
           Moved(d, P, fin, fire, keep, rc), NEW k \in DOMAIN d,
           NEW i, i = Target(d, P, k), rs'[i].src # None,
           NEW p, p = rs'[i].src.slot
    PROVE  /\ ~rs'[i].ready
           /\ stage'[p] \in {"done", "free"} =>
                 rs'[i].src \in due' \cup retire' \/ AllocWakeup(i)'
<1> USE DEF IssueInd
<1>1. PICK s : s = NewSlot(k) OBVIOUS
<1>2. /\ ~rs'[i].ready /\ k \in {1, 2} /\ keep = Slots
      /\ \/ \E q \in Slots : Live(q) /\ uop[q].writes /\ rs'[i].src = Id(q)
         \/ k = 2 /\ 1 \in DOMAIN d /\ rs'[i].src = NewId(1)
  BY <1>1, NewNext
<1>3. ASSUME stage'[p] \in {"done", "free"}
      PROVE  rs'[i].src \in due' \cup retire' \/ AllocWakeup(i)'
  <2>1. CASE k = 2 /\ 1 \in DOMAIN d /\ rs'[i].src = NewId(1)
    <3>1. PICK q : q = NewSlot(1) OBVIOUS
    <3>2. PICK j : j = Target(d, P, 1) OBVIOUS
    <3>3. stage'[q] = "rs" /\ NewId(1).slot = q BY <2>1, <3>1, <3>2, NewNext
    <3> QED BY <1>3, <2>1, <3>3
  <2>2. CASE \E q \in Slots : /\ Live(q) /\ uop[q].writes
                              /\ rs'[i].src = Id(q)
    <3>1. /\ p \in Slots /\ Live(p) /\ uop[p].writes /\ p \in keep
          /\ rs'[i].src = Id(p)
      BY <1>2, <2>2, IdIs
    <3>2. CASE ~Stays(p, keep, rc)
      <4>1. Id(p) \in retire' BY <3>1, <3>2, SourceNext
      <4> QED BY <3>1, <4>1
    <3>3. CASE Stays(p, keep, rc)
      <4>1. /\ Id(p)' = Id(p) /\ Live(p)' /\ uop'[p].writes
            /\ \A l \in DOMAIN d : p # NewSlot(l)
        BY <3>1, <3>3, StaySlot
      <4>2. stage'[p] = "done" BY <1>3, <4>1 DEF Live
      <4>3. Id(p)' \in due' \/ Resident(Id(p))'
        BY <3>1, <4>1, <4>2, ValueNext DEF ValueInv
      <4>4. Resident(Id(p))' => Resident(rs[i].src)'
        BY <3>1, <4>1 DEF Resident
      <4>5. k = 2 => rs'[i].src # alloc'[1].id
        <5>1. SUFFICES ASSUME k = 2 PROVE rs'[i].src # alloc'[1].id OBVIOUS
        <5>2. 1 \in DOMAIN d BY <5>1, DispatchType DEF Moved
        <5>3. alloc'[1].id = NewId(1) BY <5>2 DEF Moved
        <5>4. NewId(1).slot = NewSlot(1) BY DEF NewId
        <5>5. Id(p).slot = p BY <3>1, IdIs
        <5> QED BY <3>1, <4>1, <5>2, <5>3, <5>4, <5>5
      <4>6. k \in DOMAIN alloc' /\ alloc'[k].entry = i BY DEF Moved
      <4>7. Resident(rs[i].src)' => AllocWakeup(i)'
        BY <4>5, <4>6 DEF AllocWakeup
      <4> QED BY <3>1, <4>1, <4>3, <4>4, <4>7
    <3> QED BY <3>2, <3>3
  <2> QED BY <1>2, <2>1, <2>2
<1> QED BY <1>2, <1>3

\* No wakeup is lost, and none comes too early.
LEMMA WakeupNext ==
    ASSUME IssueInd, ~REPLACE, NEW d, NEW P, NEW fin, NEW fire, NEW keep, NEW rc,
           Moved(d, P, fin, fire, keep, rc)
    PROVE  WakeupExact'
<1>1. ASSUME NEW i \in LiveEntries', rs'[i].src # None, NEW p,
             p = rs'[i].src.slot
      PROVE  /\ ~rs'[i].ready /\ stage'[p] \in {"done", "free"}
                  => rs'[i].src \in due' \cup retire' \/ AllocWakeup(i)'
             /\ rs'[i].ready =>
                   \/ stage'[p] \in {"resp", "lost", "done", "free"}
                   \/ stage'[p] = "out" /\ Early(p)'
  BY <1>1, LiveNext, WakeStay, WakeNew
<1>2. ASSUME NEW i \in LiveEntries', ~rs'[i].ready,
             stage'[rs'[i].src.slot] \in {"done", "free"}
      PROVE  rs'[i].src \in due' \cup retire' \/ AllocWakeup(i)'
  <2>1. rs'[i].src # None BY <1>2, WaitNext DEF WaitInv
  <2> QED BY <1>1, <1>2, <2>1
<1>3. ASSUME NEW i \in LiveEntries', Ready(i)', rs'[i].src # None, NEW p,
             p = rs'[i].src.slot
      PROVE  \/ stage'[p] \in {"resp", "lost", "done", "free"}
             \/ stage'[p] = "out" /\ Early(p)'
  <2>1. CASE rs'[i].ready BY <1>1, <1>3, <2>1
  <2>2. CASE rs'[i].src \in token'
    <3>1. /\ stage'[rs'[i].src.slot] = "out" /\ Early(rs[i].src.slot)'
      BY <2>2, TokenNext DEF TokenInv
    <3>2. Early(rs[i].src.slot)' = Early(p)' BY <1>3 DEF Early
    <3> QED BY <1>3, <3>1, <3>2
  <2>3. CASE rs'[i].src \in LaunchIds'
    <3>1. PICK s \in Slots : /\ rs'[i].src = Id(s)'
                             /\ stage'[s] \in {"resp", "lost"}
      BY <2>3 DEF LaunchIds, Responding, Cancelled
    <3>2. p = s BY <1>3, <3>1 DEF Id
    <3> QED BY <3>1, <3>2
  <2> QED BY <1>3, <2>1, <2>2, <2>3 DEF Ready
<1>4. NoLostWakeup' BY <1>2 DEF NoLostWakeup
<1>5. ReadySound'
  <2>1. ASSUME NEW i \in LiveEntries', Ready(i)', rs'[i].src # None
        PROVE  \/ stage'[rs'[i].src.slot] \in {"resp", "lost", "done", "free"}
               \/ /\ stage'[rs'[i].src.slot] = "out"
                  /\ Early(rs[i].src.slot)'
    <3>1. PICK p : p = rs'[i].src.slot OBVIOUS
    <3>2. Early(rs[i].src.slot)' = Early(p)' BY <3>1 DEF Early
    <3> QED BY <1>3, <2>1, <3>1, <3>2
  <2> QED BY <2>1 DEF ReadySound
<1> QED BY <1>4, <1>5 DEF WakeupExact

(***************************************************************************)
(* Credits against the occupancy of the banks.                             *)
(***************************************************************************)

\* A set with one member and no other has cardinality one.
LEMMA OnlyOne ==
    ASSUME NEW S, NEW x, x \in S, S \subseteq {x}
    PROVE  IsFiniteSet(S) /\ Cardinality(S) = 1
<1>1. S = {x} OBVIOUS
<1> QED BY <1>1, FS_Singleton

\* The entries a batch takes from a bank are as many as its demand.
LEMMA TargetCount ==
    ASSUME Shape, CreditInv, ~REPLACE, NEW d \in Dispatches, NEW P,
           MayDispatch(d, P), NEW b \in Banks,
           NEW T, T = Targets(d, P) \cap Bank(b)
    PROVE  /\ IsFiniteSet(T) /\ Cardinality(T) = Demand(d, b)
           /\ T \subseteq Bank(b) \ Valid(b)
<1>1. \A k \in DOMAIN d :
         /\ BankOf(d[k]) \in Banks /\ Target(d, P, k) \in Bank(BankOf(d[k]))
         /\ rs[Target(d, P, k)] = None
  BY TargetIs
<1>2. \A k \in DOMAIN d : Target(d, P, k) \in Bank(b) <=> BankOf(d[k]) = b
  BY <1>1, BankIs
<1>3. T \subseteq Bank(b) \ Valid(b) BY <1>1 DEF Targets, Valid
<1>4. IsFiniteSet({}) /\ Cardinality({}) = 0 BY FS_EmptySet
<1>5. \A x : IsFiniteSet({x}) /\ Cardinality({x}) = 1 BY FS_Singleton
<1>6. CASE DOMAIN d = {}
  <2>1. T = {} BY <1>6 DEF Targets
  <2> QED BY <1>3, <1>4, <1>6, <2>1, DemandIs
<1>7. CASE DOMAIN d = {1}
  <2>1. PICK t : t = Target(d, P, 1) OBVIOUS
  <2>2. Targets(d, P) = {t} BY <1>7, <2>1 DEF Targets
  <2>3. 1 \in DOMAIN d BY <1>7
  <2>4. T = IF BankOf(d[1]) = b THEN {t} ELSE {} BY <1>2, <2>1, <2>2, <2>3
  <2>5. Demand(d, b) = IF BankOf(d[1]) = b THEN 1 ELSE 0 BY <1>7, DemandIs
  <2> QED BY <1>3, <1>4, <1>5, <2>4, <2>5
<1>8. CASE DOMAIN d = {1, 2}
  <2>1. PICK t, u : t = Target(d, P, 1) /\ u = Target(d, P, 2) OBVIOUS
  <2>2. Targets(d, P) = {t} \cup {u} BY <1>8, <2>1 DEF Targets
  <2>3. 1 \in DOMAIN d /\ 2 \in DOMAIN d BY <1>8
  <2>4. t # u BY <2>1, <2>3, TargetIs
  <2>5. /\ t \in Bank(b) <=> BankOf(d[1]) = b
        /\ u \in Bank(b) <=> BankOf(d[2]) = b
    BY <1>2, <2>1, <2>3
  <2>6. Demand(d, b) = (IF BankOf(d[1]) = b THEN 1 ELSE 0)
                       + (IF BankOf(d[2]) = b THEN 1 ELSE 0)
    BY <1>8, DemandIs
  <2>7. PICK S : S = {t} OBVIOUS
  <2>8. PICK S2 : S2 = S \cup {u} OBVIOUS
  <2>9. IsFiniteSet(S2) /\ Cardinality(S2) = 2
    <3>1. IsFiniteSet(S) /\ Cardinality(S) = 1 /\ u \notin S
      BY <1>5, <2>4, <2>7
    <3>2. /\ IsFiniteSet(S \cup {u})
          /\ Cardinality(S \cup {u}) = Cardinality(S) + 1
      BY <3>1, FS_AddElement
    <3> QED BY <2>8, <3>1, <3>2
  <2>10. \A x : x \in T <=> (x = t \/ x = u) /\ x \in Bank(b) BY <2>2
  <2>11. CASE BankOf(d[1]) = b /\ BankOf(d[2]) = b
    <3>1. T = S2 BY <2>5, <2>7, <2>8, <2>10, <2>11
    <3> QED BY <1>3, <2>6, <2>9, <2>11, <3>1
  <2>12. CASE BankOf(d[1]) = b /\ BankOf(d[2]) # b
    <3>1. T \subseteq {t} /\ t \in T BY <2>5, <2>10, <2>12
    <3>2. IsFiniteSet(T) /\ Cardinality(T) = 1 BY <3>1, OnlyOne
    <3> QED BY <1>3, <2>6, <2>12, <3>2
  <2>13. CASE BankOf(d[1]) # b /\ BankOf(d[2]) = b
    <3>1. T \subseteq {u} /\ u \in T BY <2>5, <2>10, <2>13
    <3>2. IsFiniteSet(T) /\ Cardinality(T) = 1 BY <3>1, OnlyOne
    <3> QED BY <1>3, <2>6, <2>13, <3>2
  <2>14. CASE BankOf(d[1]) # b /\ BankOf(d[2]) # b
    <3>1. T = {} BY <2>5, <2>10, <2>14
    <3> QED BY <1>3, <1>4, <2>6, <2>14, <3>1
  <2> QED BY <2>11, <2>12, <2>13, <2>14
<1> QED BY <1>6, <1>7, <1>8, DispatchType

\* The free entries of a bank at the next state.
LEMMA FreeAt ==
    ASSUME NEW b \in Banks, NEW G, G = {i \in Bank(b) : rs'[i] = None}
    PROVE  Cardinality(Bank(b) \ Valid(b))' = Cardinality(G)
<1>1. Bank(b)' = Bank(b) BY DEF Bank, Base
<1>2. (Bank(b) \ Valid(b))' = G BY <1>1 DEF Valid
<1> QED BY <1>2

\* Without a recovery in progress the free entries are the ones that were
\* free and are not taken, and the ones that are selected.
LEMMA FreeNext ==
    ASSUME IssueInd, ~REPLACE, NEW d, NEW P, NEW fin, NEW fire, NEW keep, NEW rc,
           Moved(d, P, fin, fire, keep, rc), MayDispatch(d, P), recovery = None,
           NEW b \in Banks
    PROVE  Cardinality(Bank(b) \ Valid(b))'
             = Cardinality(Free(P, b)) - Demand(d, b)
               + Cardinality(P \cap Bank(b))
<1> USE DEF IssueInd
<1>1. PICK F, T, Q, G : /\ F = Bank(b) \ Valid(b)
                        /\ T = Targets(d, P) \cap Bank(b)
                        /\ Q = P \cap Bank(b)
                        /\ G = {i \in Bank(b) : rs'[i] = None}
  OBVIOUS
<1>2. Bank(b) \subseteq Rs /\ IsFiniteSet(Bank(b)) BY BankIs
<1>3. d \in Dispatches /\ P \subseteq LiveEntries BY DEF Moved
<1>4. IsFiniteSet(T) /\ Cardinality(T) = Demand(d, b) /\ T \subseteq F
  BY <1>1, <1>3, TargetCount
<1>5. LiveEntries = {i \in Rs : rs[i] # None} BY LiveIs
<1>6. Q \subseteq Valid(b) /\ Q \cap F = {}
  BY <1>1, <1>3, <1>5 DEF Valid
<1>7. {i \in Rs : rs'[i] # None} = (LiveEntries \ P) \cup Targets(d, P)
  BY DEF Moved, EntriesMove
<1>8. PICK H : H = F \ T OBVIOUS
<1>9. G = H \cup Q
  <2>1. \A i \in Bank(b) : rs'[i] # None <=>
           i \in LiveEntries \ P \/ i \in Targets(d, P)
    BY <1>2, <1>7
  <2>2. \A i \in Bank(b) : i \in LiveEntries <=> i \in Valid(b)
    BY <1>2, <1>5 DEF Valid
  <2>3. \A i \in Bank(b) : i \in G <=> i \in H \cup Q
    BY <1>1, <1>4, <1>6, <1>8, <2>1, <2>2
  <2>4. G \subseteq Bank(b) /\ H \subseteq Bank(b) /\ Q \subseteq Bank(b)
    BY <1>1, <1>8
  <2> QED BY <2>3, <2>4
<1>10. IsFiniteSet(F) /\ IsFiniteSet(Q) /\ IsFiniteSet(H)
  <2>1. F \subseteq Bank(b) /\ Q \subseteq Bank(b) /\ H \subseteq Bank(b)
    BY <1>1, <1>8
  <2> QED BY <1>2, <2>1, FS_Subset
<1>11. Cardinality(H) = Cardinality(F) - Cardinality(T)
  <2>1. F \cap T = T BY <1>4
  <2>2. Cardinality(F \ T) = Cardinality(F) - Cardinality(F \cap T)
    BY <1>4, <1>10, FS_Difference
  <2> QED BY <1>8, <2>1, <2>2
<1>12. Cardinality(G) = Cardinality(H) + Cardinality(Q)
  <2>1. H \cap Q = {} BY <1>6, <1>8
  <2>2. Cardinality(H \cup Q)
          = Cardinality(H) + Cardinality(Q) - Cardinality(H \cap Q)
    BY <1>10, FS_Union
  <2>3. Cardinality(H \cap Q) = 0 BY <2>1, FS_EmptySet
  <2>4. Cardinality(H) \in Nat /\ Cardinality(Q) \in Nat
    BY <1>10, FS_CardinalityType
  <2> QED BY <1>9, <2>2, <2>3, <2>4
<1>13. Free(P, b) = F BY <1>1, FreeIs
<1>14. Cardinality(Bank(b) \ Valid(b))' = Cardinality(G) BY <1>1, FreeAt
<1> QED BY <1>1, <1>4, <1>11, <1>12, <1>13, <1>14

\* Where nothing is dispatched the free entries stay free.
LEMMA FreeGrows ==
    ASSUME IssueInd, ~REPLACE, NEW d, NEW P, NEW fin, NEW fire, NEW keep, NEW rc,
           Moved(d, P, fin, fire, keep, rc), DOMAIN d = {}, NEW b \in Banks
    PROVE  /\ Cardinality(Free(P, b)) <= Cardinality(Bank(b) \ Valid(b))'
           /\ Cardinality(Bank(b) \ Valid(b))' \in Nat
<1>1. PICK F, G : /\ F = Bank(b) \ Valid(b)
                  /\ G = {i \in Bank(b) : rs'[i] = None}
  OBVIOUS
<1>2. Bank(b) \subseteq Rs /\ IsFiniteSet(Bank(b)) BY BankIs
<1>3. {i \in Rs : rs'[i] # None} = (LiveEntries \ P) \cup Targets(d, P)
  BY DEF Moved, EntriesMove
<1>4. Targets(d, P) = {} BY DEF Targets
<1>5. \A i \in LiveEntries : rs[i] # None BY LiveIs
<1>6. F \subseteq G BY <1>1, <1>2, <1>3, <1>4, <1>5 DEF Valid
<1>7. G \subseteq Bank(b) BY <1>1
<1>8. IsFiniteSet(G) BY <1>2, <1>7, FS_Subset
<1>9. Cardinality(F) <= Cardinality(G) /\ Cardinality(G) \in Nat
  BY <1>6, <1>8, FS_Subset, FS_CardinalityType
<1>10. Free(P, b) = F BY <1>1, FreeIs
<1>11. Cardinality(Bank(b) \ Valid(b))' = Cardinality(G) BY <1>1, FreeAt
<1> QED BY <1>9, <1>10, <1>11

\* Credits that are exact are exact again after a cycle.
LEMMA CreditRun ==
    ASSUME IssueInd, ~REPLACE, NEW d \in Dispatches, NEW lsu,
           NEW P, P = Selected(lsu), MayDispatch(d, P),
           NEW fin \in Finishes, NEW fire \in Fires(fin),
           Cycle(d, P, fin, fire), resync = 0,
           NEW b \in Banks
    PROVE  /\ Effective(b)' = Cardinality(Bank(b) \ Valid(b))'
           /\ credit'[b] \in Nat /\ release'[b] \in 0 .. 2
           /\ resync' = 0
<1> USE DEF IssueInd
<1>2. CreditStep(d, P) BY DEF Cycle
<1>3. recovery = None BY DEF QuietInv
<1>4. /\ release' = [c \in Banks |-> Cardinality(P \cap Bank(c))]
      /\ credit' = [c \in Banks |-> Cardinality(Free(P, c)) - Demand(d, c)]
      /\ resync' = 0
  BY <1>2 DEF CreditStep
<1>5. Moved(d, P, fin, fire, Slots, RetireCount(fin, 2)) BY RunMoves
<1>6. PICK f, n, q : /\ f = Cardinality(Free(P, b)) /\ n = Demand(d, b)
                     /\ q = Cardinality(P \cap Bank(b))
  OBVIOUS
<1>7. credit'[b] = f - n /\ release'[b] = q BY <1>4, <1>6
<1>8. f \in Nat /\ n \in Nat /\ n <= f /\ q \in 0 .. 2
  <2>1. f \in Nat BY <1>6, FreeIs
  <2>2. n \in Nat BY <1>6, DispatchType, DemandIs
  <2>3. n <= f BY <1>6, TargetIs
  <2>4. q \in 0 .. 2 BY <1>6, SelectedIs
  <2> QED BY <2>1, <2>2, <2>3, <2>4
<1>9. Cardinality(Bank(b) \ Valid(b))' = f - n + q
  BY <1>3, <1>5, <1>6, FreeNext
<1>10. Effective(b)' = credit'[b] + release'[b] BY DEF Effective
<1>11. Effective(b)' = f - n + q BY <1>7, <1>10
<1>12. credit'[b] \in Nat BY <1>7, <1>8
<1> QED BY <1>4, <1>7, <1>8, <1>9, <1>11, <1>12

\* While a recovery settles the credits are withheld, then rebased.
LEMMA CreditSettles ==
    ASSUME IssueInd, ~REPLACE, NEW d \in Dispatches, NEW lsu,
           NEW P, P = Selected(lsu), MayDispatch(d, P),
           NEW fin \in Finishes, NEW fire \in Fires(fin),
           Cycle(d, P, fin, fire), resync # 0,
           NEW b \in Banks
    PROVE  /\ Effective(b)' <= Cardinality(Bank(b) \ Valid(b))'
           /\ resync' # 0 => credit'[b] = 0 /\ release'[b] = 0
           /\ credit'[b] \in Nat /\ release'[b] = 0
           /\ resync' \in 0 .. 1
<1> USE DEF IssueInd
<1>2. CreditStep(d, P) BY DEF Cycle
<1>3. DOMAIN d = {} BY DispatchType DEF MayDispatch
<1>4. resync \in 1 .. 2 BY DEF Shape
<1>5. /\ release' = [c \in Banks |-> 0] /\ resync' = resync - 1
      /\ credit' = IF resync = 1
                   THEN [c \in Banks |-> Cardinality(Free(P, c))]
                   ELSE credit
  BY <1>2 DEF CreditStep
<1>6. Moved(d, P, fin, fire, Slots, RetireCount(fin, 2)) BY RunMoves
<1>7. /\ Cardinality(Free(P, b)) <= Cardinality(Bank(b) \ Valid(b))'
      /\ Cardinality(Bank(b) \ Valid(b))' \in Nat
  BY <1>3, <1>6, FreeGrows
<1>8. Cardinality(Free(P, b)) \in Nat BY FreeIs
<1>9. credit[b] = 0 BY DEF CreditInv
<1>10. release'[b] = 0 BY <1>5
<1>11. credit'[b] = IF resync = 1 THEN Cardinality(Free(P, b)) ELSE 0
  BY <1>5, <1>9
<1>12. Effective(b)' = credit'[b] + release'[b] BY DEF Effective
<1>13. credit'[b] \in Nat /\ Effective(b)' = credit'[b]
  BY <1>8, <1>10, <1>11, <1>12
<1> QED BY <1>4, <1>5, <1>7, <1>8, <1>10, <1>11, <1>13

(***************************************************************************)
(* The invariant holds at reset and every step preserves it.               *)
(***************************************************************************)

\* Everything that follows from a move alone.
LEMMA MoveInd ==
    ASSUME IssueInd, ~REPLACE, NEW d, NEW P, NEW fin, NEW fire, NEW keep, NEW rc,
           Moved(d, P, fin, fire, keep, rc)
    PROVE  /\ EntryInv' /\ BankInv' /\ OrderExact' /\ TagLive' /\ WaitInv'
           /\ TokenInv' /\ DueInv' /\ RetireInv' /\ AllocInv' /\ ValueInv'
           /\ WakeupExact' /\ issued' \subseteq Rs /\ token' \subseteq Ids
           /\ due' \subseteq Ids /\ retire' \subseteq Ids
<1>1. issued' \subseteq Rs BY LiveIs DEF Moved
<1>2. EntryInv' /\ BankInv' /\ OrderExact' /\ TagLive' /\ WaitInv'
  BY EntryNext, BankNext, OrderNext, TagNext, WaitNext
<1>3. /\ TokenInv' /\ DueInv' /\ RetireInv' /\ token' \subseteq Ids
      /\ due' \subseteq Ids /\ retire' \subseteq Ids
  BY TokenNext, DueNext, RetireNext
<1>4. AllocInv' /\ ValueInv' /\ WakeupExact'
  BY AllocNext, ValueNext, WakeupNext
<1> QED BY <1>1, <1>2, <1>3, <1>4

\* A cycle without a new recovery preserves the invariant.
LEMMA RunInd ==
    ASSUME IssueInd, ~REPLACE, RunCycle
    PROVE  IssueInd'
<1>1. PICK d, lsu, P, fin, fire :
         /\ d \in Dispatches /\ P = Selected(lsu) /\ MayDispatch(d, P)
         /\ fin \in Finishes /\ fire \in Fires(fin)
         /\ Cycle(d, P, fin, fire)
  BY DEF RunCycle
<1>3. Moved(d, P, fin, fire, Slots, RetireCount(fin, 2))
  BY <1>1, RunMoves
<1>4. /\ EntryInv' /\ BankInv' /\ OrderExact' /\ TagLive' /\ WaitInv'
      /\ TokenInv' /\ DueInv' /\ RetireInv' /\ AllocInv' /\ ValueInv'
      /\ WakeupExact' /\ issued' \subseteq Rs /\ token' \subseteq Ids
      /\ due' \subseteq Ids /\ retire' \subseteq Ids
  BY <1>3, MoveInd
<1>5. /\ WindowInv' /\ HeadInv' /\ head' \in Slots
      /\ count' \in 0 .. PRODUCER_NUM /\ head_q' \in Slots
      /\ epoch' \in [Slots -> {0, 1}]
      /\ stage' \in [Slots -> Stages]
  BY <1>1, RunSlots
<1>6. rs' \in [Rs -> Entries \cup {None}] BY <1>1, RunEntries
<1>7. recovery' = None BY <1>1 DEF Cycle
<1>8. QuietInv' BY <1>7 DEF QuietInv
<1>9. ASSUME NEW b \in Banks
      PROVE  /\ resync' # 0 => credit'[b] = 0 /\ release'[b] = 0
             /\ Effective(b)' <= Cardinality(Bank(b) \ Valid(b))'
             /\ credit'[b] \in Nat /\ release'[b] \in 0 .. 2
             /\ resync' \in 0 .. 2
  <2>1. CASE resync = 0
    <3>1. /\ Effective(b)' = Cardinality(Bank(b) \ Valid(b))'
          /\ credit'[b] \in Nat /\ release'[b] \in 0 .. 2 /\ resync' = 0
      BY <1>1, <2>1, CreditRun
    <3>2. Effective(b)' = credit'[b] + release'[b] BY DEF Effective
    <3>3. Effective(b)' \in Nat BY <3>1, <3>2
    <3> QED BY <3>1, <3>3
  <2>2. CASE resync # 0
    <3>1. /\ Effective(b)' <= Cardinality(Bank(b) \ Valid(b))'
          /\ resync' # 0 => credit'[b] = 0 /\ release'[b] = 0
          /\ credit'[b] \in Nat /\ release'[b] = 0 /\ resync' \in 0 .. 1
      BY <1>1, <2>2, CreditSettles
    <3> QED BY <3>1
  <2> QED BY <2>1, <2>2
<1>10. CreditInv' BY <1>9 DEF CreditInv
<1>11. credit' \in [Banks -> Nat] /\ release' \in [Banks -> 0 .. 2]
  <2>1. CreditStep(d, P) BY <1>1 DEF Cycle
  <2>2. /\ credit' = [b \in Banks |-> credit'[b]]
        /\ release' = [b \in Banks |-> release'[b]]
    <3>1. credit = [b \in Banks |-> credit[b]] BY DEF IssueInd, Shape
    <3> QED BY <2>1, <3>1 DEF CreditStep
  <2> QED BY <1>9, <2>2
<1>12. resync' \in 0 .. 2 BY <1>9 DEF Banks
<1>13. Shape' BY <1>4, <1>5, <1>6, <1>7, <1>11, <1>12 DEF Shape
<1> QED BY <1>4, <1>5, <1>8, <1>10, <1>13 DEF IssueInd

\* A cycle with a new recovery preserves the invariant.
LEMMA RecoveryInd ==
    ASSUME IssueInd, ~REPLACE, RecoveryCycle
    PROVE  IssueInd'
<1>1. PICK fin, b, fire :
         /\ fin \in Finishes /\ b \in Executing /\ fire \in Fires(fin)
         /\ Recover(b, fin, fire)
  BY DEF RecoveryCycle, KindIn, Finishes
<1>2. Moved(<<>>, {}, fin, fire, UpTo(b), RetireCount(fin, 1))
  BY <1>1, RecMoves
<1>3. /\ EntryInv' /\ BankInv' /\ OrderExact' /\ TagLive' /\ WaitInv'
      /\ TokenInv' /\ DueInv' /\ RetireInv' /\ AllocInv' /\ ValueInv'
      /\ WakeupExact' /\ issued' \subseteq Rs /\ token' \subseteq Ids
      /\ due' \subseteq Ids /\ retire' \subseteq Ids
  BY <1>2, MoveInd
<1>4. /\ WindowInv' /\ head' \in Slots
      /\ count' \in 0 .. PRODUCER_NUM /\ head_q' \in Slots
      /\ epoch' \in [Slots -> {0, 1}]
      /\ stage' \in [Slots -> Stages]
  BY <1>1, RecSlots
<1>5. rs' \in [Rs -> Entries \cup {None}] BY <1>1, RecEntries
<1>6. /\ issued' = {} /\ token' = {} /\ alloc' = <<>>
      /\ credit' = [c \in Banks |-> 0] /\ release' = [c \in Banks |-> 0]
      /\ resync' = 2 /\ recovery' = [head |-> head, branch |-> b]
  BY <1>1 DEF Recover
<1>7. recovery' \in Windows /\ recovery' # None
  <2>1. [head |-> head, branch |-> b] \in Windows
    BY <1>1 DEF Windows, IssueInd, Shape, Executing
  <2> QED BY <1>6, <2>1, NoneAssumption
<1>8. HeadInv' BY <1>7 DEF HeadInv
<1>9. QuietInv'
  <2>1. DOMAIN alloc' = {} BY <1>6
  <2> QED BY <1>6, <2>1 DEF QuietInv
<1>10. CreditInv'
  <2>1. ASSUME NEW c \in Banks
        PROVE  /\ credit'[c] = 0 /\ release'[c] = 0
               /\ Effective(c)' <= Cardinality(Bank(c) \ Valid(c))'
    <3>1. credit'[c] = 0 /\ release'[c] = 0 BY <1>6
    <3>2. Effective(c)' = 0 BY <3>1 DEF Effective
    <3>3. DOMAIN <<>> = {} OBVIOUS
    <3>4. Cardinality(Bank(c) \ Valid(c))' \in Nat
      BY <1>2, <3>3, FreeGrows
    <3> QED BY <3>1, <3>2, <3>4
  <2> QED BY <2>1 DEF CreditInv
<1>11. Shape' BY <1>3, <1>4, <1>5, <1>6, <1>7 DEF Shape
<1> QED BY <1>3, <1>4, <1>8, <1>9, <1>10, <1>11 DEF IssueInd

\* The empty machine, as a reset or a trap leaves it.
Empty ==
    /\ rs = [i \in Rs |-> None] /\ issued = {} /\ token = {} /\ alloc = <<>>
    /\ credit = BANK_SIZE /\ release = [b \in Banks |-> 0] /\ resync = 0
    /\ recovery = None /\ head_q = 0 /\ head = 0 /\ count = 0
    /\ epoch = [s \in Slots |-> 0] /\ stage = [s \in Slots |-> "free"]
    /\ due = {} /\ retire = {} /\ value_alloc = {}

\* The credit that Dispatch sees is the number of free entries.
ExactCredits ==
    \A b \in Banks : Effective(b) = Cardinality(Bank(b) \ Valid(b))

\* The empty machine has exact credits.
LEMMA EmptyCredits == Empty => ExactCredits
<1> SUFFICES ASSUME Empty, NEW b \in Banks
             PROVE  Effective(b) = Cardinality(Bank(b) \ Valid(b))
  BY DEF ExactCredits
<1>1. Bank(b) \subseteq Rs /\ Cardinality(Bank(b)) = BANK_SIZE[b] BY BankIs
<1>2. Bank(b) \ Valid(b) = Bank(b) BY <1>1 DEF Valid, Empty
<1>3. BANK_SIZE[b] \in Nat BY IssueAssumption
<1>4. Effective(b) = BANK_SIZE[b] BY <1>3 DEF Effective, Empty
<1> QED BY <1>1, <1>2, <1>4

\* The empty machine satisfies the invariant.
LEMMA EmptyInd == Empty => IssueInd
<1> SUFFICES ASSUME Empty PROVE IssueInd OBVIOUS
<1>1. 0 \in Slots /\ PRODUCER_NUM \in Nat BY IssueAssumption DEF Slots
<1>2. \A i \in Rs : rs[i] = None BY DEF Empty
<1>3. LiveEntries = {} BY <1>2 DEF LiveEntries
<1>4. \A s \in Slots : stage[s] = "free" BY DEF Empty
<1>5. \A s \in Slots : ~Live(s) BY <1>4 DEF Live
<1>6. Shape
  <2>1. credit \in [Banks -> Nat] BY IssueAssumption DEF Empty
  <2>2. release \in [Banks -> 0 .. 2] BY DEF Empty
  <2>3. epoch \in [Slots -> {0, 1}] BY DEF Empty
  <2>4. stage \in [Slots -> Stages] BY DEF Empty, Stages
  <2>5. rs \in [Rs -> Entries \cup {None}] BY DEF Empty
  <2>6. /\ head \in Slots /\ head_q \in Slots /\ count \in 0 .. PRODUCER_NUM
        /\ issued \subseteq Rs /\ token \subseteq Ids /\ due \subseteq Ids
        /\ retire \subseteq Ids /\ recovery \in Windows \cup {None}
        /\ resync \in 0 .. 2
    BY <1>1 DEF Empty
  <2> QED BY <2>1, <2>2, <2>3, <2>4, <2>5, <2>6 DEF Shape
<1>7. WindowInv
  <2>1. \A s \in Slots : Age(s) \in Nat BY <1>6, AgeIs
  <2>2. count = 0 BY DEF Empty
  <2> QED BY <1>5, <2>1, <2>2 DEF WindowInv
<1>8. HeadInv
  <2>1. Dist(0, 0) = 0 BY <1>1, DistIs
  <2> QED BY <1>1, <2>1 DEF HeadInv, Empty
<1>9. QuietInv BY NoneAssumption DEF QuietInv, Empty
<1>10. CreditInv
  <2>1. ASSUME NEW b \in Banks
        PROVE  Effective(b) <= Cardinality(Bank(b) \ Valid(b))
    <3>1. Effective(b) = Cardinality(Bank(b) \ Valid(b))
      BY EmptyCredits DEF ExactCredits
    <3>2. Effective(b) \in Nat BY <1>6 DEF Effective, Shape
    <3> QED BY <3>1, <3>2
  <2> QED BY <2>1 DEF CreditInv, Empty
<1>11. EntryInv BY <1>3, <1>4 DEF EntryInv
<1>12. BankInv BY <1>2, BankIs DEF BankInv, Valid
<1>13. OrderExact /\ TagLive /\ WaitInv /\ WakeupExact
  BY <1>3 DEF OrderExact, TagLive, WaitInv, WakeupExact, NoLostWakeup,
              ReadySound
<1>14. TokenInv /\ DueInv /\ RetireInv
  BY DEF TokenInv, DueInv, RetireInv, Empty
<1>15. AllocInv
  <2>1. DOMAIN alloc = {} BY DEF Empty
  <2> QED BY <2>1 DEF AllocInv, Empty
<1>16. ValueInv BY <1>4, <1>5 DEF ValueInv
<1> QED BY <1>6, <1>7, <1>8, <1>9, <1>10, <1>11, <1>12, <1>13, <1>14, <1>15,
           <1>16 DEF IssueInd

\* A trap finds the backend drained and leaves it empty.
LEMMA TrapEmpties ==
    ASSUME IssueInd, TrapCycle
    PROVE  Empty'
<1>1. \A s \in Slots : stage[s] = "free"
  <2>1. \A s \in Slots : Age(s) \in Nat BY AgeIs DEF IssueInd
  <2>2. count = 0 BY DEF TrapCycle
  <2>3. \A s \in Slots : ~Live(s) BY <2>1, <2>2 DEF IssueInd, WindowInv
  <2> QED BY <2>3 DEF Live
<1>2. stage = [s \in Slots |-> "free"] BY <1>1 DEF IssueInd, Shape
<1> QED BY <1>2 DEF TrapCycle, Empty

\* A step that changes nothing preserves the invariant.
LEMMA StutterInd ==
    ASSUME IssueInd, UNCHANGED vars
    PROVE  IssueInd'
<1> USE DEF vars, station, rob, IssueInd
<1>1. Shape' BY DEF Shape
<1>2. WindowInv' /\ HeadInv' /\ QuietInv'
  BY DEF WindowInv, HeadInv, QuietInv, Live, Age, Dist
<1>3. CreditInv' BY DEF CreditInv, Effective, Valid, Bank, Base
<1>4. EntryInv' /\ WaitInv'
  BY DEF EntryInv, WaitInv, LiveEntries, Survives, InWindow, Live
<1>5. BankInv' BY DEF BankInv, Valid, Bank, Base, BankOf
<1>6. OrderExact'
  BY DEF OrderExact, LiveEntries, Survives, InWindow, Blocked, Age, WaitsFor
<1>7. TagLive' BY DEF TagLive, LiveEntries, Survives, InWindow, Live, Id, Age
<1>8. TokenInv' /\ DueInv' /\ RetireInv'
  BY DEF TokenInv, DueInv, RetireInv, Early, Live, Id
<1>9. AllocInv'
  BY DEF AllocInv, LiveEntries, Survives, InWindow, Id, Age
<1>10. ValueInv' BY DEF ValueInv, Live, Id, Resident
<1>11. WakeupExact'
  BY DEF WakeupExact, NoLostWakeup, ReadySound, LiveEntries, Survives,
         InWindow, AllocWakeup, Resident, Ready, Early, LaunchIds, Responding,
         Cancelled, Id
<1> QED BY <1>1, <1>2, <1>3, <1>4, <1>5, <1>6, <1>7, <1>8, <1>9, <1>10, <1>11

\* Every step preserves the invariant.
LEMMA NextInd ==
    ASSUME IssueInd, ~REPLACE, [Next]_vars
    PROVE  IssueInd'
<1>1. CASE RunCycle BY <1>1, RunInd
<1>2. CASE RecoveryCycle BY <1>2, RecoveryInd
<1>3. CASE TrapCycle
  <2>1. Empty' BY <1>3, TrapEmpties
  <2> QED BY <2>1, EmptyInd, PTL
<1>4. CASE UNCHANGED vars BY <1>4, StutterInd
<1> QED BY <1>1, <1>2, <1>3, <1>4 DEF Next

\* Without same-cycle replacement the invariant holds in every reachable
\* state, whatever the number of ROB slots and the size of the banks.
THEOREM IssueInductive ==
    ASSUME ~REPLACE
    PROVE  Spec => []IssueInd
<1>1. Init => IssueInd
  <2>1. Init => Empty BY DEF Init, Empty
  <2> QED BY <2>1, EmptyInd
<1>2. IssueInd /\ [Next]_vars => IssueInd' BY NextInd
<1> QED BY <1>1, <1>2, PTL DEF Spec

(***************************************************************************)
(* The properties.                                                         *)
(***************************************************************************)

\* The invariant contains the type invariant, and puts every waiting uop in
\* exactly one entry.
LEMMA StationHolds ==
    ASSUME IssueInd, ~REPLACE
    PROVE  StationInv
<1> USE DEF IssueInd
<1>1. ASSUME NEW b \in Banks PROVE credit[b] <= BANK_SIZE[b]
  <2>1. PICK f : f = Cardinality(Bank(b) \ Valid(b)) OBVIOUS
  <2>2. Effective(b) <= f BY <2>1 DEF CreditInv
  <2>3. f \in Nat /\ f <= BANK_SIZE[b] BY <2>1, FreeIs
  <2>4. credit[b] \in Nat /\ release[b] \in Nat BY DEF Shape
  <2>5. BANK_SIZE[b] \in Nat BY IssueAssumption
  <2>6. Effective(b) = credit[b] + release[b] BY DEF Effective
  <2> QED BY <2>2, <2>3, <2>4, <2>5, <2>6
<1>2. \A i \in Rs : rs[i] # None =>
         /\ rs[i].slot \in Slots /\ rs[i].src \in Ids \cup {None}
         /\ rs[i].ready \in BOOLEAN /\ rs[i].mask \subseteq Rs
  BY EntryIs
<1>3. TypeOK BY <1>1, <1>2 DEF TypeOK, Shape
<1>4. ASSUME NEW s \in Slots, NEW S,
             S = {i \in LiveEntries : rs[i].slot = s}
      PROVE  Cardinality(S) = IF stage[s] = "rs" THEN 1 ELSE 0
  <2>1. CASE stage[s] = "rs"
    <3>1. PICK i \in LiveEntries : rs[i].slot = s BY <2>1 DEF EntryInv
    <3>2. i \in S /\ S \subseteq {i} BY <1>4, <3>1 DEF EntryInv
    <3> QED BY <2>1, <3>2, OnlyOne
  <2>2. CASE stage[s] # "rs"
    <3>1. S = {} BY <1>4, <2>2 DEF EntryInv
    <3> QED BY <2>2, <3>1, FS_EmptySet
  <2> QED BY <2>1, <2>2
<1>5. WaitingInRs BY <1>4 DEF WaitingInRs
<1> QED BY <1>3, <1>5 DEF StationInv

\* Ages measured from last cycle's head order live slots as their ages do.
LEMMA AgeFromLastHead ==
    ASSUME IssueInd, recovery = None, NEW s \in Slots, Live(s)
    PROVE  /\ Age(s) = Dist(head_q, s) - Dist(head_q, head)
           /\ Dist(head_q, s) \in Nat /\ Dist(head_q, head) \in Nat
<1> USE DEF IssueInd
<1>1. head_q \in Slots /\ head \in Slots /\ PRODUCER_NUM \in Nat
  BY IssueAssumption DEF Shape
<1>2. PICK c \in Nat : /\ c = Dist(head_q, head) /\ c \in 0 .. PRODUCER_NUM
                       /\ Plus(head_q, c) = head
  BY <1>1, DistType
<1>3. PICK x \in Nat : x = Dist(head_q, s) BY <1>1, DistType
<1>4. Dist(head, s) = IF x >= c THEN x - c ELSE x - c + PRODUCER_NUM
  BY <1>1, <1>2, <1>3, DistShift
<1>5. PICK a \in Nat : a = Age(s) /\ a = Dist(head, s) BY AgeIs
<1>6. a < count /\ count \in Nat
  <2>1. count \in Nat BY <1>1 DEF Shape
  <2>2. Age(s) < count BY DEF WindowInv
  <2> QED BY <1>5, <2>1, <2>2
<1>7. c + count <= PRODUCER_NUM BY <1>2 DEF HeadInv
<1>8. a = x - c BY <1>1, <1>4, <1>5, <1>6, <1>7
<1> QED BY <1>2, <1>3, <1>5, <1>8

\* The memory uop that is selected is the oldest candidate.
LEMMA OldestHolds ==
    ASSUME IssueInd
    PROVE  P0Oldest
<1> USE DEF IssueInd
<1> SUFFICES ASSUME NEW i \in Selected(TRUE) \cap Bank("p0"),
                    NEW j \in Candidates("p0", TRUE)
             PROVE  Age(rs[i].slot) <= Age(rs[j].slot)
  BY DEF P0Oldest
<1>1. recovery = None BY SelectedIs
<1>2. "p0" \in Banks /\ "p1" \in Banks /\ "alu" \in Banks BY DEF Banks
<1>3. i \in P0Pick(TRUE)
  <2>1. PICK n : Selected(TRUE) = P0Pick(TRUE) \cup P1Pick \cup AluPick(n)
    BY <1>1 DEF Selected
  <2>2. P1Pick \subseteq Bank("p1") /\ AluPick(n) \subseteq Bank("alu")
    BY <1>2, P1PickIs, AluPickIs, CandidateIs
  <2>3. /\ Bank("p0") \cap Bank("p1") = {}
        /\ Bank("p0") \cap Bank("alu") = {}
    BY <1>2, BankIs
  <2> QED BY <2>1, <2>2, <2>3
<1>4. i \in Valid("p0") /\ j \in Valid("p0")
  BY <1>2, <1>3, P0PickIs, CandidateIs
<1>5. PICK s, t : s = rs[i].slot /\ t = rs[j].slot OBVIOUS
<1>6. s \in Slots /\ t \in Slots /\ Live(s) /\ Live(t)
  <2>1. i \in LiveEntries /\ j \in LiveEntries
    BY <1>1, <1>2, <1>4, CandidateIs, LiveIs
  <2> QED BY <1>5, <2>1, LiveIs, EntryIs DEF EntryInv, Live
<1>7. CASE i = j
  <2>1. Age(s) \in Nat BY <1>6, AgeIs
  <2> QED BY <1>5, <1>7, <2>1
<1>8. CASE i # j
  <2>1. p0_age(i) < p0_age(j) BY <1>3, <1>8 DEF P0Pick
  <2>2. Dist(head_q, s) < Dist(head_q, t) BY <1>4, <1>5, <2>1, P0AgeIs
  <2>3. PICK c \in Nat, x \in Nat, y \in Nat :
           /\ c = Dist(head_q, head) /\ x = Dist(head_q, s)
           /\ y = Dist(head_q, t) /\ Age(s) = x - c /\ Age(t) = y - c
    BY <1>1, <1>6, AgeFromLastHead
  <2> QED BY <1>5, <2>2, <2>3
<1> QED BY <1>7, <1>8

\* The load a selected uop reads from has its response or is finished after
\* the edge, or retires at it.
LEMMA OperandStep ==
    ASSUME IssueInd, ~REPLACE, RunCycle, NEW i \in issued', rs[i].src # None,
           NEW p, p = rs[i].src.slot, Live(p), uop[p].kind = "load"
    PROVE  stage'[p] \in {"resp", "done"} \/ rs[i].src \in retire'
<1> USE DEF IssueInd
<1>1. PICK d, lsu, P, fin, fire :
         /\ d \in Dispatches /\ P = Selected(lsu) /\ MayDispatch(d, P)
         /\ fin \in Finishes /\ fire \in Fires(fin)
         /\ Cycle(d, P, fin, fire)
  BY DEF RunCycle
<1>2. PICK rc : /\ rc = RetireCount(fin, 2)
                /\ Moved(d, P, fin, fire, Slots, rc)
  BY <1>1, RunMoves
<1>3. i \in P /\ i \in LiveEntries /\ recovery = None BY <1>2 DEF Moved
<1>4. Ready(i)
  <2>1. "p0" \in Banks /\ "p1" \in Banks /\ "alu" \in Banks BY DEF Banks
  <2>2. PICK n : P = P0Pick(lsu) \cup P1Pick \cup AluPick(n)
    BY <1>1, <1>3 DEF Selected
  <2>3. \E b \in Banks : \E x : i \in Candidates(b, x)
    BY <1>3, <2>1, <2>2, P1PickIs, AluPickIs DEF P0Pick
  <2> QED BY <2>3 DEF Candidates
<1>5. p \in Slots /\ Id(p) = rs[i].src
  <2>1. rs[i].src \in Ids BY <1>3, LiveIs, EntryIs
  <2> QED BY <1>3, <2>1 DEF TagLive, Ids
<1>6. stage[p] \in {"resp", "lost", "done"}
  <2>1. \/ stage[p] \in {"resp", "lost", "done", "free"}
        \/ stage[p] = "out" /\ Early(p)
    BY <1>3, <1>4 DEF WakeupExact, ReadySound
  <2> QED BY <2>1 DEF Early, Live
<1>7. CASE p \in Front(rc) BY <1>2, <1>5, <1>7 DEF Moved
<1>8. CASE p \notin Front(rc)
  <2>1. Stays(p, Slots, rc) BY <1>5, <1>8 DEF Stays
  <2>2. /\ stage[p] \in {"resp", "done"} => stage'[p] = "done"
        /\ stage[p] = "lost" => stage'[p] = "resp"
    BY <1>2, <1>3, <1>5, <2>1, StayDone
  <2> QED BY <1>6, <2>2
<1> QED BY <1>7, <1>8

\* The registers of the stage keep their widths, no credit wraps, and from
\* its dispatch to its selection every uop is in exactly one entry (the rs
\* arrays and the credit counters of ydrasil_issue_stage).
THEOREM StationsSafe ==
    ASSUME ~REPLACE
    PROVE  Spec => []StationInv
<1>1. IssueInd => StationInv BY StationHolds
<1> QED BY <1>1, IssueInductive, PTL

\* The ordering masks hold back exactly the uops that must wait (the mask
\* allocation and the clearing by issued_slot_mask_q).
THEOREM OrderSafe ==
    ASSUME ~REPLACE
    PROVE  Spec => []OrderExact
<1>1. IssueInd => OrderExact BY DEF IssueInd
<1> QED BY <1>1, IssueInductive, PTL

\* A source tag outlives its producer by one cycle at most and is gone before
\* the slot is taken again, so an id of a later epoch cannot match it (the
\* registered tag drop at retirement).
THEOREM TagsLive ==
    ASSUME ~REPLACE
    PROVE  Spec => []TagLive
<1>1. IssueInd => TagLive BY DEF IssueInd
<1> QED BY <1>1, IssueInductive, PTL

\* No wakeup is lost and none comes early, recoveries included (the wakeup
\* terms of an entry and its first lookup of the value file).
THEOREM WakeupSafe ==
    ASSUME ~REPLACE
    PROVE  Spec => []WakeupExact
<1>1. IssueInd => WakeupExact BY DEF IssueInd
<1> QED BY <1>1, IssueInductive, PTL

\* Whoever is selected on the launch of a load finds the response or the
\* finished load at its operand read, a launch that a recovery cancels
\* included (the launch wakeup, and the read that fires again at once).
THEOREM OperandSafe ==
    ASSUME ~REPLACE
    PROVE  Spec => OperandInTime
<1>1. ASSUME IssueInd, Next, NEW i \in issued', rs[i].src # None,
             Live(rs[i].src.slot), uop[rs[i].src.slot].kind = "load"
      PROVE  \/ stage'[rs[i].src.slot] \in {"resp", "done"}
             \/ rs[i].src \in retire'
  <2>1. CASE RunCycle BY <1>1, <2>1, OperandStep
  <2>2. CASE RecoveryCycle BY <1>1, <2>2 DEF RecoveryCycle, Recover
  <2>3. CASE TrapCycle BY <1>1, <2>3 DEF TrapCycle
  <2> QED BY <1>1, <2>1, <2>2, <2>3 DEF Next
<1>2. IssueInd /\ [Next]_vars =>
         [\A i \in issued' :
             LET p == rs[i].src.slot
             IN  rs[i].src # None /\ Live(p) /\ uop[p].kind = "load" =>
                   \/ stage'[p] \in {"resp", "done"}
                   \/ rs[i].src \in retire']_vars
  BY <1>1
<1> QED BY <1>2, IssueInductive, PTL DEF Spec, OperandInTime

\* Memory uops are selected oldest first although the age is measured from
\* the registered head (p0_age).
THEOREM OldestFirst ==
    ASSUME ~REPLACE
    PROVE  Spec => []P0Oldest
<1>1. IssueInd => P0Oldest BY OldestHolds
<1> QED BY <1>1, IssueInductive, PTL

\* After any step outside a recovery the credit that Dispatch sees is the
\* number of free entries: no credit is ever lost or made up (the rebasing
\* of the credits on the occupancy).
THEOREM CreditsExact ==
    ASSUME ~REPLACE
    PROVE  Spec => CreditExact
<1>1. ASSUME IssueInd, Next, resync = 0, resync' = 0 PROVE ExactCredits'
  <2>1. CASE RunCycle
    <3>1. PICK d, lsu, P, fin, fire :
             /\ d \in Dispatches /\ P = Selected(lsu) /\ MayDispatch(d, P)
             /\ fin \in Finishes /\ fire \in Fires(fin)
             /\ Cycle(d, P, fin, fire)
      BY <2>1 DEF RunCycle
    <3>2. \A b \in Banks : Effective(b)' = Cardinality(Bank(b) \ Valid(b))'
      BY <1>1, <3>1, CreditRun
    <3> QED BY <3>2 DEF ExactCredits
  <2>2. CASE RecoveryCycle
    <3>1. resync' = 2 BY <2>2 DEF RecoveryCycle, Recover
    <3> QED BY <1>1, <3>1
  <2>3. CASE TrapCycle
    <3>1. Empty' BY <1>1, <2>3, TrapEmpties
    <3> QED BY <3>1, EmptyCredits, PTL
  <2> QED BY <1>1, <2>1, <2>2, <2>3 DEF Next
<1>2. IssueInd /\ [Next]_vars =>
         [resync = 0 /\ resync' = 0 =>
            \A b \in Banks :
                Effective(b)' = Cardinality(Bank(b) \ Valid(b))']_vars
  BY <1>1 DEF ExactCredits
<1> QED BY <1>2, IssueInductive, PTL DEF Spec, CreditExact

=============================================================================
