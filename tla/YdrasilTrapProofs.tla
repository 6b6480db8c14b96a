------------------------- MODULE YdrasilTrapProofs -------------------------
(***************************************************************************)
(* Proofs about trap entry, for every window, every address space and      *)
(* every set of operations and interrupt lines: a trap CSR is written only *)
(* once the backend has drained, MEPC is where the program resumes, and    *)
(* all of them are written when fetch is redirected.                       *)
(***************************************************************************)
EXTENDS YdrasilTrap, SequenceTheorems, TLAPS

Stages == {"wait", "ex", "resolving", "done"}
Instr == [pc : Pc, op : AllOps, stage : Stages, next : Pc]

(***************************************************************************)
(* The inductive invariant.                                                *)
(***************************************************************************)
TrapTypes == /\ TypeOK /\ window \in Seq(Instr)
             /\ csr_write \in CsrWrites \cup {None}

\* The window is a stretch of the program: it begins where the retired part
\* ends, each instruction is followed by its successor up to a branch that
\* was mispredicted, and dispatch goes on where the window ends.  A redirect
\* in the BRU register belongs to the one branch that is resolving, or to a
\* trap that has emptied the window.
Resolving(r) == /\ InStage("resolving") = {r} /\ window[r].op = "branch"
                /\ window[r].next = bru
PathInv ==
    /\ \A i \in 1 .. Len(window) - 1 :
          i < Cut => window[i].next = window[i + 1].pc
    /\ window # <<>> => window[1].pc = arch_pc
    /\ bru = None =>
          /\ InStage("resolving") = {}
          /\ resume_pc = IF window = <<>> THEN arch_pc
                         ELSE window[Len(window)].next
    /\ bru # None =>
          \/ window = <<>> /\ bru = arch_pc
          \/ \E r \in 1 .. Len(window) : Resolving(r)
    /\ \A i \in 1 .. Len(window) :
          window[i].op # "branch" => window[i].next = NextPc(window[i].pc)

\* A serial instruction that has not executed is the youngest in flight, and
\* executes at the head; of two instructions in EX one is plain.
SerialInv ==
    /\ \A i \in 1 .. Len(window) :
          Serial(window[i].op) /\ window[i].stage \in {"wait", "ex"} =>
             /\ i = Len(window) /\ serial_pending
             /\ window[i].stage = "ex" => i = 1
    /\ \A i, j \in InStage("ex") :
          i # j => "plain" \in {window[i].op, window[j].op}

\* The drain: an idle sample taken while dispatch was stopped still holds,
\* and a synchronous trap has only its own instruction before it.
DrainInv ==
    /\ state = "drain" /\ drain_armed /\ backend_idle =>
          /\ window = <<>> /\ csr_write = None /\ bru = None
          /\ async_pc = resume_pc
    /\ state = "drain" /\ ~is_interrupt =>
          /\ bru = None
          /\ \/ window = <<>> /\ arch_pc = NextPc(epc)
             \/ /\ Len(window) = 1 /\ window[1].stage = "done"
                /\ window[1].next = NextPc(epc)

\* The CSR writes of an entry land one after the other.
EntryInv ==
    /\ DrainedAtEntry /\ MepcIsResumePoint
    /\ state \in {"write_mstatus", "write_mcause", "write_mtval", "redirect"}
          => mepc = epc
    /\ state \in {"write_mcause", "write_mtval", "redirect"} => ~mstatus.mie
    /\ state \in {"write_mtval", "redirect"} => mcause = cause

TrapInd == TrapTypes /\ PathInv /\ SerialInv /\ DrainInv /\ EntryInv

(***************************************************************************)
(* The window after a clock edge.                                          *)
(***************************************************************************)
\* A program counter wraps within the address space.
LEMMA NextPcType ==
    ASSUME NEW pc \in Pc
    PROVE  NextPc(pc) \in Pc
BY TrapAssumption DEF NextPc, Pc

\* Where a redirect cuts the window.
LEMMA CutIs ==
    ASSUME TrapTypes, PathInv
    PROVE  /\ Cut \in 0 .. Len(window)
           /\ bru = None => Cut = Len(window)
           /\ bru # None /\ window # <<>>
                 => Cut \in 1 .. Len(window) /\ Resolving(Cut)
<1>1. Len(window) \in Nat BY DEF TrapTypes
<1>2. CASE bru = None BY <1>1, <1>2 DEF Cut
<1>3. CASE bru # None /\ window = <<>>
  <2>1. InStage("resolving") = {} BY <1>3 DEF InStage
  <2> QED BY <1>1, <1>3, <2>1 DEF Cut
<1>4. CASE bru # None /\ window # <<>>
  <2>1. PICK r \in 1 .. Len(window) : Resolving(r) BY <1>4 DEF PathInv
  <2>2. Cut = r BY <1>4, <2>1 DEF Cut, Resolving
  <2> QED BY <1>1, <1>4, <2>1, <2>2
<1> QED BY <1>2, <1>3, <1>4

\* How an instruction moves on in one cycle.
LEMMA MovedIs ==
    ASSUME window \in Seq(Instr), NEW i \in 1 .. Len(window), NEW x,
           NEW target \in Pc \cup {None}, NEW w, w = Advance(x, target)[i]
    PROVE  /\ w \in Instr /\ w.pc = window[i].pc /\ w.op = window[i].op
           /\ window[i].stage = "wait" =>
                 w.stage = (IF i \in x THEN "ex" ELSE "wait")
           /\ window[i].stage # "wait" => w.stage \in {"resolving", "done"}
           /\ w.stage = "resolving" <=>
                 /\ window[i].stage = "ex" /\ window[i].op = "branch"
                 /\ target # None
           /\ w.next = IF w.stage = "resolving" THEN target
                       ELSE window[i].next
<1> DEFINE v == window[i]
<1>1. v \in Instr OBVIOUS
<1>2. w = CASE v.stage = "wait" /\ i \in x -> [v EXCEPT !.stage = "ex"]
            [] v.stage = "ex" ->
                  IF v.op = "branch" /\ target # None
                  THEN [v EXCEPT !.stage = "resolving", !.next = target]
                  ELSE [v EXCEPT !.stage = "done"]
            [] v.stage = "resolving" -> [v EXCEPT !.stage = "done"]
            [] OTHER -> v
  BY DEF Advance
<1> HIDE DEF v
<1> USE <1>1 DEF Instr, Stages
<1>3. CASE v.stage = "wait" /\ i \in x
  <2>1. w = [v EXCEPT !.stage = "ex"] BY <1>2, <1>3
  <2> QED BY <1>3, <2>1 DEF v
<1>4. CASE v.stage = "ex" /\ v.op = "branch" /\ target # None
  <2>1. w = [v EXCEPT !.stage = "resolving", !.next = target] BY <1>2, <1>4
  <2> QED BY <1>4, <2>1 DEF v
<1>5. CASE /\ v.stage \in {"ex", "resolving"}
           /\ ~(v.stage = "ex" /\ v.op = "branch" /\ target # None)
  <2>1. w = [v EXCEPT !.stage = "done"] BY <1>2, <1>5
  <2> QED BY <1>5, <2>1 DEF v
<1>6. CASE \/ v.stage = "wait" /\ i \notin x
           \/ v.stage = "done"
  <2>1. w = v BY <1>2, <1>6
  <2> QED BY <1>6, <2>1 DEF v
<1> QED BY <1>3, <1>4, <1>5, <1>6

\* What the backend may do in one cycle.
Backend(k, x, target, alloc) ==
    /\ k \in 0 .. 2 /\ k <= Len(window) /\ TwoLanes(x)
    /\ x \in SUBSET {i \in 1 .. Len(window) : Selectable(i)}
    /\ target \in Pc \cup {None}
    /\ alloc \in {<<>>} \cup {<<Entry(op)>> : op \in Ops}
    /\ BackendStep(k, x, target, alloc)

\* The window after a cycle of the backend: what lies between the retired
\* instructions and the cut has moved on, and at most one is dispatched.
LEMMA WindowStep ==
    ASSUME TrapTypes, PathInv, NEW k, NEW x, NEW target, NEW alloc,
           Backend(k, x, target, alloc)
    PROVE  /\ k \in 0 .. Cut
           /\ \A i \in 1 .. Cut - k :
                 window'[i] = Advance(x, target)[i + k]
           /\ window' \in Seq(Instr)
           /\ alloc = <<>> => Len(window') = Cut - k
           /\ alloc # <<>> => /\ Cut = Len(window) /\ bru = None
                              /\ Len(window') = Cut - k + 1
                              /\ Len(window') <= WINDOW
                              /\ \E op \in Ops :
                                    /\ alloc[1].op = op
                                    /\ window'[Len(window')] = Entry(op)
           /\ Len(window') <= WINDOW
<1> DEFINE a == Advance(x, target)
           b == SubSeq(a, k + 1, Cut)
<1>1. k \in Nat /\ k <= Cut /\ window' = b \o alloc
  BY DEF Backend, BackendStep
<1>2. Cut \in 0 .. Len(window) /\ (bru = None => Cut = Len(window)) BY CutIs
<1>3. Len(window) \in Nat /\ window \in Seq(Instr) BY DEF TrapTypes
<1>4. /\ DOMAIN a = 1 .. Len(window)
      /\ \A i \in 1 .. Len(window) : a[i] \in Instr
  <2>1. DOMAIN a = 1 .. Len(window) BY DEF Advance
  <2>2. target \in Pc \cup {None} BY DEF Backend
  <2> HIDE DEF a
  <2>3. ASSUME NEW i \in 1 .. Len(window) PROVE a[i] \in Instr
    BY <1>3, <2>2, <2>3, MovedIs DEF a
  <2> QED BY <2>1, <2>3
<1>5. a \in Seq(Instr) /\ Len(a) = Len(window)
  <2>1. a = [i \in 1 .. Len(window) |-> a[i]] BY DEF Advance
  <2> HIDE DEF a
  <2>2. a \in [1 .. Len(window) -> Instr] BY <1>4, <2>1
  <2> QED BY <1>3, <2>2
<1> HIDE DEF a
<1>6. /\ b \in Seq(Instr) /\ Len(b) = Cut - k
      /\ \A i \in 1 .. Cut - k : b[i] = a[i + k]
  <2>1. CASE k + 1 <= Cut
    <3>1. k + 1 \in 1 .. Len(a) /\ Cut \in k .. Len(a)
      BY <1>1, <1>2, <1>3, <1>5, <2>1
    <3> QED BY <1>1, <1>2, <1>3, <1>5, <3>1
  <2>2. CASE k = Cut
    BY <1>1, <1>2, <1>3, <1>5, <2>2
  <2> QED BY <1>1, <1>2, <2>1, <2>2, SMTT(30)
<1> HIDE DEF b
<1>7. CASE alloc = <<>>
  <2>1. window' = b BY <1>1, <1>6, <1>7
  <2>2. Len(window) <= WINDOW BY DEF TrapTypes, TypeOK
  <2> QED BY <1>1, <1>2, <1>3, <1>6, <1>7, <2>1, <2>2, TrapAssumption DEF a
<1>8. CASE alloc # <<>>
  <2>1. PICK op \in Ops : alloc = <<Entry(op)>> BY <1>8 DEF Backend
  <2>2. Entry(op) \in Instr
    BY TrapAssumption, NextPcType DEF Entry, Instr, Stages, TrapTypes, TypeOK
  <2>3. bru = None /\ Len(window) < WINDOW
    BY <1>8 DEF Backend, BackendStep, CanDispatch
  <2>4. /\ window' \in Seq(Instr) /\ Len(window') = Cut - k + 1
        /\ window'[Cut - k + 1] = Entry(op)
        /\ \A i \in 1 .. Cut - k : window'[i] = b[i]
    BY <1>1, <1>2, <1>6, <2>1, <2>2
  <2>5. alloc[1].op = op BY <2>1 DEF Entry
  <2> QED BY <1>1, <1>2, <1>3, <1>6, <1>8, <2>3, <2>4, <2>5,
             TrapAssumption DEF a
<1> QED BY <1>7, <1>8

\* A mispredicted branch that leaves EX is the one that resolves.
LEMMA ResolvingStep ==
    ASSUME TrapTypes, PathInv, SerialInv, NEW k, NEW x, NEW target, NEW alloc,
           Backend(k, x, target, alloc)
    PROVE  /\ target = None => InStage("resolving")' = {}
           /\ target # None => \E r \in 1 .. Cut - k :
                                  /\ r \in 1 .. Len(window')
                                  /\ InStage("resolving")' = {r}
                                  /\ window'[r].op = "branch"
                                  /\ window'[r].next = target
           /\ \A i \in 1 .. Cut - k :
                 /\ window'[i] \in Instr /\ i + k \in 1 .. Cut
                 /\ i + k \in 1 .. Len(window)
                 /\ window'[i].pc = window[i + k].pc
                 /\ window'[i].op = window[i + k].op
                 /\ window[i + k].stage = "wait" => window'[i].stage
                       = (IF i + k \in x THEN "ex" ELSE "wait")
                 /\ window[i + k].stage # "wait"
                       => window'[i].stage \in {"resolving", "done"}
                 /\ window'[i].stage = "resolving" =>
                       window[i + k].stage = "ex" /\ target # None
                 /\ window'[i].stage # "resolving" =>
                       window'[i].next = window[i + k].next
<1>1. /\ window \in Seq(Instr) /\ target \in Pc \cup {None}
      /\ Len(window) \in Nat
  BY DEF TrapTypes, Backend
<1>2. Cut \in 0 .. Len(window) BY CutIs
<1>3. k \in 0 .. Cut BY WindowStep
<1>4. ASSUME NEW i \in 1 .. Cut - k
      PROVE  /\ i + k \in 1 .. Cut /\ i + k \in 1 .. Len(window)
             /\ window'[i] = Advance(x, target)[i + k]
  BY <1>1, <1>2, <1>3, <1>4, WindowStep
<1>5. ASSUME NEW i \in 1 .. Cut - k
      PROVE  /\ window'[i] \in Instr
             /\ window'[i].pc = window[i + k].pc
             /\ window'[i].op = window[i + k].op
             /\ window[i + k].stage = "wait" =>
                   window'[i].stage = (IF i + k \in x THEN "ex" ELSE "wait")
             /\ window[i + k].stage # "wait"
                   => window'[i].stage \in {"resolving", "done"}
             /\ window'[i].stage = "resolving" <=>
                   /\ window[i + k].stage = "ex"
                   /\ window[i + k].op = "branch" /\ target # None
             /\ window'[i].next = IF window'[i].stage = "resolving"
                                  THEN target ELSE window[i + k].next
  <2>1. PICK j : j = i + k OBVIOUS
  <2>2. PICK w : w = window'[i] OBVIOUS
  <2>3. j \in 1 .. Len(window) /\ w = Advance(x, target)[j]
    BY <1>4, <2>1, <2>2
  <2> QED BY <1>1, <2>1, <2>2, <2>3, MovedIs
<1>6. \A i \in 1 .. Len(window') :
         window'[i].stage = "resolving" => i \in 1 .. Cut - k
  <2>1. CASE alloc = <<>> BY <2>1, WindowStep
  <2>2. CASE alloc # <<>>
    <3>1. Len(window') = Cut - k + 1 BY <2>2, WindowStep
    <3>2. \E op \in Ops : window'[Len(window')] = Entry(op)
      BY <2>2, WindowStep
    <3>3. window'[Len(window')].stage = "wait" BY <3>2 DEF Entry
    <3> QED BY <1>2, <1>3, <3>1, <3>3
  <2> QED BY <2>1, <2>2
<1>7. 1 .. Cut - k \subseteq 1 .. Len(window')
  <2>1. Len(window') \in {Cut - k, Cut - k + 1} BY WindowStep
  <2> QED BY <1>1, <1>2, <1>3, <2>1
<1>8. ASSUME target = None PROVE InStage("resolving")' = {}
  BY <1>5, <1>6, <1>8 DEF InStage
<1>9. ASSUME target # None
      PROVE  \E r \in 1 .. Cut - k : /\ r \in 1 .. Len(window')
                                     /\ InStage("resolving")' = {r}
                                     /\ window'[r].op = "branch"
                                     /\ window'[r].next = target
  <2>1. PICK b \in InStage("ex") : window[b].op = "branch" /\ b <= Cut
    BY <1>9 DEF Backend, BackendStep, BranchInEx
  <2>2. b \in 1 .. Len(window) /\ window[b].stage = "ex"
    BY <2>1 DEF InStage
  <2>3. b > k
    <3>1. ~ (b \in 1 .. k) BY <2>2 DEF Backend, BackendStep, Retirable
    <3> QED BY <1>2, <1>3, <2>2, <3>1
  <2>4. PICK r : r = b - k OBVIOUS
  <2>5. r \in 1 .. Cut - k /\ r + k = b
    BY <1>1, <1>2, <1>3, <2>1, <2>2, <2>3, <2>4
  <2>6. /\ window'[r].stage = "resolving" /\ window'[r].op = "branch"
        /\ window'[r].next = target
    BY <1>5, <1>9, <2>1, <2>2, <2>5
  <2>7. ASSUME NEW i \in 1 .. Len(window'), window'[i].stage = "resolving"
        PROVE  i = r
    <3>1. i \in 1 .. Cut - k BY <1>6, <2>7
    <3>2. window[i + k].stage = "ex" /\ window[i + k].op = "branch"
      BY <1>5, <2>7, <3>1
    <3>3. i + k \in InStage("ex") BY <1>4, <3>1, <3>2 DEF InStage
    <3>4. i + k = b BY <2>1, <3>2, <3>3 DEF SerialInv
    <3> QED BY <1>2, <1>3, <2>5, <3>1, <3>4
  <2>8. InStage("resolving")' = {r}
    BY <1>7, <2>5, <2>6, <2>7 DEF InStage
  <2> QED BY <1>7, <2>5, <2>6, <2>8
<1> QED BY <1>4, <1>5, <1>8, <1>9

\* The window stays a stretch of the program.
LEMMA PathStep ==
    ASSUME TrapTypes, PathInv, SerialInv, NEW k, NEW x, NEW target, NEW alloc,
           Backend(k, x, target, alloc), Len(window') \in Nat
    PROVE  PathInv'
<1> DEFINE n == Cut - k
<1>1. /\ window \in Seq(Instr) /\ target \in Pc \cup {None}
      /\ Len(window) \in Nat
  BY DEF TrapTypes, Backend
<1>2. Cut \in 0 .. Len(window) /\ (bru = None => Cut = Len(window)) BY CutIs
<1>3. k \in 0 .. Cut BY WindowStep
<1>4. /\ bru' = target
      /\ arch_pc' = IF k = 0 THEN arch_pc ELSE window[k].next
      /\ resume_pc' = IF bru # None THEN bru
                      ELSE IF alloc # <<>> THEN NextPc(resume_pc)
                      ELSE resume_pc
  BY DEF Backend, BackendStep
<1>5. /\ n \in Nat
      /\ alloc = <<>> => Len(window') = n
      /\ alloc # <<>> => /\ Len(window') = n + 1 /\ bru = None
                         /\ window'[n + 1].pc = resume_pc
                         /\ window'[n + 1].next = NextPc(resume_pc)
  <2>1. n \in Nat BY <1>2, <1>3
  <2>2. alloc = <<>> => Len(window') = n BY WindowStep
  <2>3. alloc # <<>> => Len(window') = n + 1 /\ bru = None
    BY WindowStep
  <2>4. alloc # <<>> => /\ window'[n + 1].pc = resume_pc
                        /\ window'[n + 1].next = NextPc(resume_pc)
    <3>1. alloc # <<>> => \E op \in Ops : window'[Len(window')] = Entry(op)
      BY WindowStep
    <3>2. ASSUME NEW op \in Ops, window'[Len(window')] = Entry(op)
          PROVE  /\ window'[Len(window')].pc = resume_pc
                 /\ window'[Len(window')].next = NextPc(resume_pc)
      BY <3>2 DEF Entry
    <3> HIDE DEF n
    <3> QED BY <2>3, <3>1, <3>2
  <2> QED BY <2>1, <2>2, <2>3, <2>4
<1>6. \A i \in 1 .. n :
         /\ i + k \in 1 .. Cut /\ i + k \in 1 .. Len(window)
         /\ window'[i].pc = window[i + k].pc
         /\ window'[i].op = window[i + k].op
         /\ window'[i].stage = "resolving" => target # None
         /\ window'[i].stage # "resolving" =>
               window'[i].next = window[i + k].next
  BY ResolvingStep
<1>7. bru' = None => InStage("resolving")' = {}
  BY <1>4, ResolvingStep
<1>8. bru' # None => \E r \in 1 .. n : /\ r \in 1 .. Len(window')
                                       /\ Resolving(r)'
  BY <1>4, ResolvingStep DEF Resolving
<1>9. ASSUME NEW i \in 1 .. n, i < Cut'
      PROVE  window'[i].next = window[i + k].next
  <2>1. CASE bru' = None BY <1>4, <1>6, <2>1
  <2>2. CASE bru' # None
    <3>1. PICK r \in 1 .. n : Resolving(r)' /\ r \in 1 .. Len(window')
      BY <1>8, <2>2
    <3>2. InStage("resolving")' = {r} BY <3>1 DEF Resolving
    <3>3. Cut' = r BY <2>2, <3>2 DEF Cut
    <3>4. i \in 1 .. Len(window') BY <1>5, <3>1
    <3>5. window'[i].stage # "resolving"
      BY <1>9, <3>2, <3>3, <3>4 DEF InStage
    <3> QED BY <1>6, <3>5
  <2> QED BY <2>1, <2>2
<1> HIDE DEF n
<1>10. ASSUME NEW i \in 1 .. Len(window') - 1, i < Cut'
       PROVE  window'[i].next = window'[i + 1].pc
  <2>1. i \in 1 .. n /\ (i = n => alloc # <<>>) BY <1>5, <1>10
  <2>2. window'[i].next = window[i + k].next BY <1>9, <1>10, <2>1
  <2>3. CASE i < n
    <3>1. i + 1 \in 1 .. n BY <1>5, <2>1, <2>3
    <3>2. window'[i + 1].pc = window[i + 1 + k].pc BY <1>6, <3>1
    <3>3. PICK j : j = i + k OBVIOUS
    <3>4. j \in 1 .. Len(window) - 1 /\ j < Cut /\ i + 1 + k = j + 1
      BY <1>1, <1>2, <1>3, <1>5, <2>1, <2>3, <3>3 DEF n
    <3>5. window[j].next = window[j + 1].pc BY <3>4 DEF PathInv
    <3> QED BY <2>2, <3>2, <3>3, <3>4, <3>5
  <2>4. CASE i = n
    <3>1. bru = None /\ window'[i + 1].pc = resume_pc BY <1>5, <2>1, <2>4
    <3>2. i + k = Len(window) /\ window # <<>>
      BY <1>1, <1>2, <1>3, <1>5, <2>1, <2>4, <3>1 DEF n
    <3>3. resume_pc = window[Len(window)].next BY <3>1, <3>2 DEF PathInv
    <3> QED BY <2>2, <3>1, <3>2, <3>3
  <2> QED BY <1>5, <2>1, <2>3, <2>4
<1>11. window' # <<>> => window'[1].pc = arch_pc'
  <2>1. CASE n >= 1
    <3>1. 1 \in 1 .. n /\ 1 + k \in 1 .. Len(window)
      BY <1>5, <1>6, <2>1
    <3>2. window'[1].pc = window[1 + k].pc BY <1>6, <3>1
    <3>3. CASE k = 0
      <4>1. window # <<>> BY <1>1, <3>1, EmptySeq
      <4> QED BY <1>4, <3>1, <3>2, <3>3, <4>1 DEF PathInv
    <3>4. CASE k >= 1
      <4>1. k \in 1 .. Len(window) - 1 /\ k < Cut
        BY <1>1, <1>2, <1>3, <1>5, <2>1, <3>4 DEF n
      <4>2. window[k].next = window[k + 1].pc BY <4>1 DEF PathInv
      <4> QED BY <1>3, <1>4, <3>2, <3>4, <4>2
    <3> QED BY <1>3, <3>3, <3>4
  <2>2. CASE n = 0 /\ alloc # <<>>
    <3>1. bru = None /\ window'[1].pc = resume_pc BY <1>5, <2>2
    <3>2. k = Len(window) BY <1>1, <1>2, <1>3, <2>2, <3>1 DEF n
    <3>3. CASE k = 0
      <4>1. window = <<>> BY <1>1, <3>2, <3>3, EmptySeq
      <4> QED BY <1>4, <3>1, <3>3, <4>1 DEF PathInv
    <3>4. CASE k >= 1
      BY <1>3, <1>4, <3>1, <3>2, <3>4 DEF PathInv
    <3> QED BY <1>3, <3>3, <3>4
  <2>3. CASE n = 0 /\ alloc = <<>>
    <3>1. Len(window') = 0 BY <1>5, <2>3
    <3>2. window' \in Seq(Instr) BY WindowStep
    <3> QED BY <3>1, <3>2
  <2> QED BY <1>5, <2>1, <2>2, <2>3
<1>12. ASSUME bru' = None
       PROVE  resume_pc' = IF window' = <<>> THEN arch_pc'
                           ELSE window'[Len(window')].next
  <2>1. target = None BY <1>4, <1>12
  <2>2. window' \in Seq(Instr) BY WindowStep
  <2>3. window' = <<>> <=> Len(window') = 0 BY <2>2
  <2>4. CASE alloc # <<>>
    <3>1. /\ Len(window') = n + 1 /\ bru = None
          /\ window'[n + 1].next = NextPc(resume_pc)
      BY <1>5, <2>4
    <3> QED BY <1>4, <1>5, <2>3, <2>4, <3>1
  <2>5. CASE alloc = <<>> /\ n >= 1
    <3>1. Len(window') = n /\ n \in 1 .. n BY <1>5, <2>5
    <3>2. window'[n].next = window[n + k].next BY <1>6, <2>1, <3>1
    <3>3. n + k = Cut /\ window # <<>> BY <1>1, <1>2, <1>3, <2>5 DEF n
    <3>4. CASE bru = None
      BY <1>2, <1>4, <2>3, <2>5, <3>1, <3>2, <3>3, <3>4 DEF PathInv
    <3>5. CASE bru # None
      <4>1. window[Cut].next = bru BY <3>3, <3>5, CutIs DEF Resolving
      <4> QED BY <1>4, <2>3, <2>5, <3>1, <3>2, <3>3, <3>5, <4>1
    <3> QED BY <3>4, <3>5
  <2>6. CASE alloc = <<>> /\ n = 0
    <3>1. window' = <<>> BY <1>5, <2>3, <2>6
    <3>2. k = Cut BY <1>2, <1>3, <2>6 DEF n
    <3>3. CASE window = <<>>
      BY <1>2, <1>4, <2>6, <3>1, <3>2, <3>3 DEF PathInv
    <3>4. CASE window # <<>> /\ bru = None
      <4>1. k = Len(window) /\ k # 0 BY <1>1, <1>2, <3>2, <3>4
      <4> QED BY <1>4, <2>6, <3>1, <3>4, <4>1 DEF PathInv
    <3>5. CASE window # <<>> /\ bru # None
      <4>1. Cut \in 1 .. Len(window) /\ window[Cut].next = bru
        BY <3>5, CutIs DEF Resolving
      <4> QED BY <1>4, <3>1, <3>2, <3>5, <4>1
    <3> QED BY <3>3, <3>4, <3>5
  <2> QED BY <1>5, <2>4, <2>5, <2>6
<1>13. ASSUME NEW i \in 1 .. Len(window'), window'[i].op # "branch"
       PROVE  window'[i].next = NextPc(window'[i].pc)
  <2>1. CASE i \in 1 .. n
    <3>1. /\ window'[i].op = window[i + k].op
          /\ window'[i].pc = window[i + k].pc /\ i + k \in 1 .. Len(window)
      BY <1>6, <2>1
    <3>2. window'[i].stage # "resolving"
      <4>1. CASE bru' = None BY <1>7, <4>1 DEF InStage
      <4>2. CASE bru' # None BY <1>8, <1>13, <4>2 DEF InStage, Resolving
      <4> QED BY <4>1, <4>2
    <3> QED BY <1>6, <1>13, <2>1, <3>1, <3>2 DEF PathInv
  <2>2. CASE i \notin 1 .. n
    <3>1. i = n + 1 /\ alloc # <<>> BY <1>5, <1>13, <2>2
    <3> QED BY <1>5, <3>1
  <2> QED BY <2>1, <2>2
<1> QED
  <2>1. bru' # None => \E r \in 1 .. Len(window') : Resolving(r)'
    BY <1>8
  <2> QED BY <1>7, <1>10, <1>11, <1>12, <1>13, <2>1 DEF PathInv

\* Serial instructions stay last and alone.
LEMMA SerialStep ==
    ASSUME TrapTypes, PathInv, SerialInv, NEW k, NEW x, NEW target, NEW alloc,
           Backend(k, x, target, alloc)
    PROVE  SerialInv'
<1> DEFINE n == Cut - k
<1>1. Len(window) \in Nat /\ k \in 0 .. Cut /\ Cut \in 0 .. Len(window)
  BY CutIs, WindowStep DEF TrapTypes
<1>2. /\ n \in Nat
      /\ alloc = <<>> => Len(window') = n
      /\ alloc # <<>> => Len(window') = n + 1
  BY <1>1, WindowStep
<1>3. alloc # <<>> => \E op \in Ops : /\ window'[n + 1] = Entry(op)
                                      /\ alloc[1].op = op
  BY <1>2, WindowStep
<1>4. \A i \in 1 .. n :
         /\ i + k \in 1 .. Cut /\ i + k \in 1 .. Len(window)
         /\ window'[i].op = window[i + k].op
         /\ window[i + k].stage = "wait" => window'[i].stage
               = (IF i + k \in x THEN "ex" ELSE "wait")
         /\ window[i + k].stage # "wait"
               => window'[i].stage \in {"resolving", "done"}
  BY ResolvingStep
<1>5. /\ alloc # <<>> => ~serial_pending /\ bru = None
      /\ serial_pending' =
           IF bru # None \/ \E i \in InStage("ex") : window[i].op \in CsrOps
           THEN FALSE
           ELSE serial_pending \/ (alloc # <<>> /\ Serial(alloc[1].op))
      /\ serial_pending \in BOOLEAN
      /\ \A i \in x : i \in 1 .. Len(window) /\ Selectable(i)
      /\ TwoLanes(x)
  BY DEF Backend, BackendStep, CanDispatch, TrapTypes, TypeOK
<1> HIDE DEF n
<1>6. ASSUME NEW j \in InStage("ex"), window[j].op \in CsrOps
      PROVE  /\ j \in 1 .. Len(window) /\ window[j].stage = "ex"
             /\ j = Len(window) /\ serial_pending
  BY <1>6 DEF InStage, SerialInv, Serial
<1>7. ASSUME NEW i \in 1 .. n, Serial(window'[i].op),
             window'[i].stage \in {"wait", "ex"}
      PROVE  /\ i = Len(window') /\ serial_pending'
             /\ window'[i].stage = "ex" => i = 1
  <2>1. PICK j : j = i + k OBVIOUS
  <2>2. /\ j \in 1 .. Cut /\ j \in 1 .. Len(window)
        /\ window[j].stage = "wait" /\ Serial(window[j].op)
        /\ window'[i].stage = (IF j \in x THEN "ex" ELSE "wait")
    BY <1>4, <1>7, <2>1
  <2>3. j = Len(window) /\ serial_pending BY <2>2 DEF SerialInv
  <2>4. bru = None
    <3>1. SUFFICES ASSUME bru # None PROVE FALSE OBVIOUS
    <3>2. window # <<>> BY <1>1, <2>2, EmptySeq
    <3>3. Resolving(Cut) BY <3>1, <3>2, CutIs
    <3>4. Cut = j BY <1>1, <2>2, <2>3
    <3>5. window[j].stage = "resolving" BY <3>3, <3>4 DEF Resolving, InStage
    <3> QED BY <2>2, <3>5
  <2>5. alloc = <<>> BY <1>5, <2>3
  <2>6. Cut = Len(window) BY <2>4, CutIs
  <2>7. i = Len(window') BY <1>1, <1>2, <2>1, <2>3, <2>5, <2>6 DEF n
  <2>8. ~ \E l \in InStage("ex") : window[l].op \in CsrOps
    BY <1>6, <2>2, <2>3
  <2>9. serial_pending' BY <1>5, <2>3, <2>4, <2>8
  <2>10. ASSUME window'[i].stage = "ex" PROVE i = 1
    <3>1. j \in x BY <2>2, <2>10
    <3>2. j = 1 BY <1>5, <2>2, <3>1 DEF Selectable
    <3> QED BY <1>1, <1>7, <2>1, <3>2
  <2> QED BY <2>7, <2>9, <2>10
<1>8. ASSUME NEW i \in 1 .. Len(window'), i \notin 1 .. n,
             Serial(window'[i].op), window'[i].stage \in {"wait", "ex"}
      PROVE  /\ i = Len(window') /\ serial_pending'
             /\ window'[i].stage = "ex" => i = 1
  <2>1. alloc # <<>> /\ i = n + 1 /\ i = Len(window') BY <1>2, <1>8
  <2>2. window'[i].stage = "wait" /\ alloc[1].op = window'[i].op
    <3>1. PICK op \in Ops : window'[i] = Entry(op) /\ alloc[1].op = op
      BY <1>3, <2>1
    <3>2. Entry(op).stage = "wait" /\ Entry(op).op = op BY DEF Entry
    <3> QED BY <3>1, <3>2
  <2>3. ~ \E l \in InStage("ex") : window[l].op \in CsrOps
    BY <1>5, <1>6, <2>1
  <2>4. serial_pending' BY <1>5, <1>8, <2>1, <2>2, <2>3
  <2> QED BY <2>1, <2>2, <2>4
<1>9. ASSUME NEW i \in 1 .. Len(window'), window'[i].stage = "ex"
      PROVE  i \in 1 .. n /\ i + k \in x
  <2>1. i \in 1 .. n
    <3>1. SUFFICES ASSUME i \notin 1 .. n PROVE FALSE OBVIOUS
    <3>2. alloc # <<>> /\ i = n + 1 BY <1>2, <1>9, <3>1
    <3>3. PICK op \in Ops : window'[i] = Entry(op) BY <1>3, <3>2
    <3>4. Entry(op).stage = "wait" BY DEF Entry
    <3> QED BY <1>9, <3>3, <3>4
  <2> QED BY <1>4, <1>9, <2>1
<1>10. ASSUME NEW i \in InStage("ex")', NEW j \in InStage("ex")', i # j
       PROVE  "plain" \in {window'[i].op, window'[j].op}
  <2>1. /\ i \in 1 .. n /\ i + k \in x /\ j \in 1 .. n /\ j + k \in x
    BY <1>9 DEF InStage
  <2>2. i + k # j + k BY <1>1, <1>2, <1>10, <2>1
  <2>3. "plain" \in {window[i + k].op, window[j + k].op}
    BY <1>5, <2>1, <2>2 DEF TwoLanes
  <2> QED BY <1>4, <2>1, <2>3
<1> QED BY <1>7, <1>8, <1>10 DEF SerialInv

(***************************************************************************)
(* The backend at rest, and with the instruction of a synchronous trap.    *)
(***************************************************************************)
\* An empty backend stays empty while dispatch is stopped.
LEMMA Still ==
    ASSUME TrapTypes, PathInv, NEW k, NEW x, NEW target, NEW alloc,
           Backend(k, x, target, alloc),
           window = <<>>, bru = None, trap_stall
    PROVE  /\ window' = <<>> /\ bru' = None
           /\ resume_pc' = resume_pc /\ arch_pc' = arch_pc
<1>1. alloc = <<>> BY DEF Backend, BackendStep, CanDispatch
<1>2. k = 0 BY DEF Backend
<1>3. Len(window') = 0 BY <1>1, <1>2, WindowStep, CutIs
<1>4. window' = <<>> BY <1>3, WindowStep, EmptySeq
<1>5. ~BranchInEx BY DEF BranchInEx, InStage
<1> QED BY <1>1, <1>2, <1>4, <1>5 DEF Backend, BackendStep

\* Nothing but its own instruction is in flight when a synchronous trap is
\* taken, and it is done after the cycle in EX.
LEMMA Alone ==
    ASSUME TrapTypes, PathInv, SerialInv, NEW k, NEW x, NEW target, NEW alloc,
           Backend(k, x, target, alloc), NEW i \in exception_req
    PROVE  /\ i = 1 /\ Len(window') = 1 /\ window'[1].stage = "done"
           /\ window'[1].next = NextPc(window[i].pc) /\ bru' = None
<1>1. /\ i \in 1 .. Len(window) /\ window[i].stage = "ex" /\ bru = None
      /\ window[i].op \in SysOps /\ Serial(window[i].op)
  BY DEF exception_req, InStage, Serial
<1>2. i = Len(window) /\ i = 1 /\ serial_pending BY <1>1 DEF SerialInv
<1>3. alloc = <<>> BY <1>2 DEF Backend, BackendStep, CanDispatch
<1>4. Cut = 1 BY <1>1, <1>2, CutIs
<1>5. k = 0
  <2>1. k \in 0 .. 1 BY <1>4, WindowStep
  <2>2. k # 1 BY <1>1, <1>2 DEF Backend, BackendStep, Retirable
  <2> QED BY <2>1, <2>2
<1>6. target = None
  <2>1. \A j \in InStage("ex") : j = 1 BY <1>2 DEF InStage
  <2>2. ~BranchInEx BY <1>1, <1>2, <2>1 DEF BranchInEx, SysOps
  <2> QED BY <2>2 DEF Backend, BackendStep
<1>7. Len(window') = 1
  <2>1. Len(window') = Cut - k BY <1>3, WindowStep
  <2> QED BY <1>4, <1>5, <2>1
<1>8. /\ window[1].stage # "wait" => window'[1].stage \in {"resolving", "done"}
      /\ window'[1].stage = "resolving" => target # None
      /\ window'[1].stage # "resolving" => window'[1].next = window[1].next
  <2>1. 1 \in 1 .. Cut - k /\ 1 + k = 1 BY <1>4, <1>5
  <2> QED BY <2>1, ResolvingStep
<1>9. window[1].next = NextPc(window[1].pc)
  BY <1>1, <1>2 DEF PathInv, SysOps
<1> QED BY <1>1, <1>2, <1>6, <1>7, <1>8, <1>9 DEF Backend, BackendStep

\* The instruction of a synchronous trap retires and nothing follows it.
LEMMA RetiresAlone ==
    ASSUME TrapTypes, PathInv, SerialInv, NEW k, NEW x, NEW target, NEW alloc,
           Backend(k, x, target, alloc), trap_stall, bru = None,
           Len(window) = 1, window[1].stage = "done"
    PROVE  /\ bru' = None
           /\ \/ window' = <<>> /\ arch_pc' = window[1].next
              \/ /\ Len(window') = 1 /\ window'[1].stage = "done"
                 /\ window'[1].next = window[1].next
<1>1. alloc = <<>> BY DEF Backend, BackendStep, CanDispatch
<1>2. Cut = 1 BY CutIs
<1>3. target = None
  <2>1. ~BranchInEx BY DEF BranchInEx, InStage
  <2> QED BY <2>1 DEF Backend, BackendStep
<1>4. bru' = None BY <1>3 DEF Backend, BackendStep
<1>5. CASE k = 0
  <2>1. Len(window') = 1
    <3>1. Len(window') = Cut - k BY <1>1, WindowStep
    <3> QED BY <1>2, <1>5, <3>1
  <2>2. 1 \in 1 .. Cut - k /\ 1 + k = 1 BY <1>2, <1>5
  <2>3. /\ window'[1].stage \in {"resolving", "done"}
        /\ window'[1].stage = "resolving" => target # None
        /\ window'[1].stage # "resolving" => window'[1].next = window[1].next
    BY <2>2, ResolvingStep
  <2> QED BY <1>3, <1>4, <2>1, <2>3
<1>6. CASE k = 1
  <2>1. Len(window') = 0 BY <1>1, <1>2, <1>6, WindowStep
  <2>2. window' = <<>> BY <2>1, WindowStep, EmptySeq
  <2>3. arch_pc' = window[1].next BY <1>6 DEF Backend, BackendStep
  <2> QED BY <1>4, <2>2, <2>3
<1> QED BY <1>2, <1>5, <1>6, WindowStep

(***************************************************************************)
(* The controller and the CSRs.                                            *)
(***************************************************************************)
\* The write port carries one CSR and a value for it.
LEMMA WriteTypes ==
    ASSUME TrapTypes
    PROVE  Write \in CsrWrites \cup {None}
<1>1. csr_write \in CsrWrites \cup {None} BY DEF TrapTypes
<1> USE DEF TrapTypes, TypeOK
<1>2. mstatus.mie \in BOOLEAN /\ mstatus.mpie \in BOOLEAN BY DEF Status
<1>3. CASE state = "write_mepc"
  BY <1>1, <1>3 DEF Write, TrapWrite, CsrWrites
<1>4. CASE state = "write_mstatus"
  <2>1. [mie |-> FALSE, mpie |-> mstatus.mie] \in Status BY <1>2 DEF Status
  <2> QED BY <1>1, <1>4, <2>1 DEF Write, TrapWrite, CsrWrites
<1>5. CASE state = "write_mcause"
  BY <1>1, <1>5 DEF Write, TrapWrite, CsrWrites
<1>6. CASE state = "mret_status"
  <2>1. [mie |-> mstatus.mpie, mpie |-> TRUE] \in Status BY <1>2 DEF Status
  <2> QED BY <1>1, <1>6, <2>1 DEF Write, TrapWrite, CsrWrites
<1>7. CASE state \notin {"write_mepc", "write_mstatus", "write_mcause",
                         "mret_status"}
  BY <1>1, <1>7 DEF Write, TrapWrite
<1> QED BY <1>3, <1>4, <1>5, <1>6, <1>7

\* The CSRs keep their types.
LEMMA CsrTypes ==
    ASSUME TrapTypes, CsrStep
    PROVE  /\ mstatus' \in Status /\ mie' \subseteq Irqs /\ mepc' \in Pc
           /\ mcause' \in Causes /\ csr_write' \in CsrWrites \cup {None}
<1>1. Write \in CsrWrites \cup {None} BY WriteTypes
<1>2. /\ Write # None /\ Write.reg = "mstatus" => Write.val \in Status
      /\ Write # None /\ Write.reg = "mie" => Write.val \subseteq Irqs
      /\ Write # None /\ Write.reg = "mepc" => Write.val \in Pc
      /\ Write # None /\ Write.reg = "mcause" => Write.val \in Causes
  BY <1>1 DEF CsrWrites
<1>3. /\ mstatus \in Status /\ mie \subseteq Irqs /\ mepc \in Pc
      /\ mcause \in Causes
  BY DEF TrapTypes, TypeOK
<1>4. /\ mstatus' \in Status /\ mie' \subseteq Irqs /\ mepc' \in Pc
      /\ mcause' \in Causes
  BY <1>2, <1>3 DEF CsrStep, Written
<1>5. ASSUME NEW op \in CsrOps PROVE InstructionWrite(op) \in CsrWrites
  <2>1. [mstatus EXCEPT !.mie = FALSE] \in Status
        /\ [mstatus EXCEPT !.mie = TRUE] \in Status
    BY <1>3 DEF Status
  <2>2. {} \in SUBSET Irqs /\ Irqs \in SUBSET Irqs OBVIOUS
  <2>3. CASE op = "mask" \/ op = "unmask"
    BY <2>1, <2>3 DEF InstructionWrite, CsrWrites
  <2>4. CASE op = "disable" \/ op = "enable"
    BY <2>2, <2>4 DEF InstructionWrite, CsrWrites
  <2> QED BY <1>5, <2>3, <2>4 DEF CsrOps
<1>6. CASE ~Redirecting /\ \E i \in InStage("ex") : window[i].op \in CsrOps
  <2>1. PICK c : /\ c = CHOOSE i \in InStage("ex") : window[i].op \in CsrOps
                 /\ window[c].op \in CsrOps
    BY <1>6
  <2>2. csr_write' = InstructionWrite(window[c].op)
    BY <1>6, <2>1 DEF CsrStep
  <2> QED BY <1>4, <1>5, <2>1, <2>2
<1>7. CASE ~(~Redirecting /\ \E i \in InStage("ex") : window[i].op \in CsrOps)
  BY <1>4, <1>7 DEF CsrStep
<1> QED BY <1>6, <1>7

\* The controller's registers keep their types.
LEMMA ControllerTypes ==
    ASSUME TrapTypes, ControllerStep
    PROVE  /\ state' \in States /\ cause' \in Causes /\ epc' \in Pc
           /\ is_interrupt' \in BOOLEAN /\ drain_armed' \in BOOLEAN
<1> USE DEF TrapTypes, TypeOK
<1>1. CASE Accept /\ exception_req # {}
  <2>1. PICK i \in exception_req : i = CHOOSE j \in exception_req : TRUE
    BY <1>1
  <2>2. window[i] \in Instr /\ window[i].op \in SysOps
    BY <2>1 DEF exception_req, InStage
  <2>3. window[i].pc \in Pc BY <2>2 DEF Instr
  <2>4. CASE window[i].op = "mret"
    BY <1>1, <2>1, <2>4, Zenon DEF Accept, States
  <2>5. CASE window[i].op # "mret"
    <3>1. /\ state' = "drain" /\ cause' = window[i].op
          /\ epc' = window[i].pc /\ is_interrupt' = FALSE
          /\ drain_armed' = FALSE
      BY <1>1, <2>1, <2>5, Zenon DEF Accept
    <3>2. window[i].op \in Causes BY <2>2, <2>5 DEF SysOps, Causes
    <3> QED BY <2>3, <3>1, <3>2, Zenon DEF States
  <2> QED BY <2>4, <2>5
<1>2. CASE Accept /\ exception_req = {}
  <2>1. irq_pending # {} => irq_cause \in Causes
    BY TrapAssumption DEF irq_pending, irq_cause, Causes, AllIrqs
  <2> QED BY <1>2, <2>1 DEF Accept, States
<1>3. CASE Drain BY <1>3 DEF Drain, States
<1>4. CASE Sequence BY <1>4 DEF Sequence, Successor, States
<1> QED BY <1>1, <1>2, <1>3, <1>4 DEF ControllerStep

\* The samples keep their types.
LEMMA SampleTypes ==
    ASSUME TrapTypes, NEW lsu_idle \in BOOLEAN, SampleStep(lsu_idle)
    PROVE  backend_idle' \in BOOLEAN /\ async_pc' \in Pc
<1>1. backend_idle' \in BOOLEAN BY DEF SampleStep
<1>2. CASE InStage("ex") = {}
  BY <1>1, <1>2 DEF SampleStep, TrapTypes, TypeOK
<1>3. CASE InStage("ex") # {}
  <2>1. PICK i \in InStage("ex") : i = CHOOSE j \in InStage("ex") : TRUE
    BY <1>3
  <2>2. window[i].pc \in Pc
    <3>1. window[i] \in Instr BY <2>1 DEF InStage, TrapTypes
    <3> QED BY <3>1 DEF Instr
  <2> QED BY <1>1, <1>3, <2>1, <2>2, NextPcType DEF SampleStep
<1> QED BY <1>2, <1>3

\* With nothing in EX an edge starts no CSR write of an instruction.
LEMMA NoWriteStarts ==
    ASSUME CsrStep, window = <<>>
    PROVE  csr_write' = None
<1>1. InStage("ex") = {} BY DEF InStage
<1> QED BY <1>1 DEF CsrStep

\* A trap write that has the port to itself lands.
LEMMA TrapWriteLands ==
    ASSUME TrapTypes, CsrStep, csr_write = None
    PROVE  /\ state = "write_mepc" => mepc' = epc /\ mcause' = mcause
           /\ state = "write_mstatus" => ~mstatus'.mie /\ mepc' = mepc
           /\ state = "write_mcause" => /\ mcause' = cause /\ mepc' = mepc
                                        /\ mstatus' = mstatus
           /\ state \in {"write_mtval", "redirect"} =>
                 UNCHANGED <<mcause, mepc, mstatus>>
<1>1. Write = TrapWrite BY DEF Write
<1> USE DEF TrapTypes, TypeOK
<1>2. CASE state = "write_mepc"
  <2>1. TrapWrite = [reg |-> "mepc", val |-> epc] BY <1>2 DEF TrapWrite
  <2>2. [reg |-> "mepc", val |-> epc] \in CsrWrites BY DEF CsrWrites
  <2>3. TrapWrite # None BY <2>1, <2>2, TrapAssumption
  <2> QED BY <1>1, <1>2, <2>1, <2>3 DEF CsrStep, Written
<1>3. CASE state = "write_mstatus"
  <2> DEFINE m == [mie |-> FALSE, mpie |-> mstatus.mie]
  <2>1. TrapWrite = [reg |-> "mstatus", val |-> m] BY <1>3 DEF TrapWrite
  <2>2. m \in Status BY DEF Status
  <2>3. ~m.mie OBVIOUS
  <2> HIDE DEF m
  <2>4. [reg |-> "mstatus", val |-> m] \in CsrWrites BY <2>2 DEF CsrWrites
  <2>5. TrapWrite # None BY <2>1, <2>4, TrapAssumption
  <2>6. mstatus' = m /\ mepc' = mepc
    BY <1>1, <2>1, <2>5 DEF CsrStep, Written
  <2> QED BY <1>3, <2>3, <2>6
<1>4. CASE state = "write_mcause"
  <2>1. TrapWrite = [reg |-> "mcause", val |-> cause] BY <1>4 DEF TrapWrite
  <2>2. [reg |-> "mcause", val |-> cause] \in CsrWrites BY DEF CsrWrites
  <2>3. TrapWrite # None BY <2>1, <2>2, TrapAssumption
  <2> QED BY <1>1, <1>4, <2>1, <2>3 DEF CsrStep, Written
<1>5. CASE state \in {"write_mtval", "redirect"}
  <2>1. TrapWrite = None BY <1>5 DEF TrapWrite
  <2> QED BY <1>1, <1>5, <2>1 DEF CsrStep, Written
<1>6. CASE state \notin {"write_mepc", "write_mstatus", "write_mcause",
                         "write_mtval", "redirect"}
  BY <1>6
<1> QED BY <1>2, <1>3, <1>4, <1>5, <1>6

\* The steps of the controller, by the state they start from.
LEMMA ControllerMoves ==
    ASSUME TrapTypes, ControllerStep
    PROVE  /\ state = "idle" =>
                 /\ ~drain_armed' /\ state' \in {"idle", "drain", "mret_status"}
                 /\ state' = "drain" /\ ~is_interrupt' =>
                       \E i \in exception_req : epc' = window[i].pc
           /\ state = "drain" =>
                 /\ UNCHANGED <<cause, is_interrupt>>
                 /\ \/ state' = "drain" /\ epc' = epc
                    \/ /\ drain_armed /\ backend_idle
                       /\ state' = "write_mepc"
                       /\ epc' = IF is_interrupt THEN async_pc ELSE epc
           /\ state \notin {"idle", "drain"} =>
                 /\ UNCHANGED <<cause, epc, is_interrupt>>
                 /\ state = "write_mepc" => state' = "write_mstatus"
                 /\ state = "write_mstatus" => state' = "write_mcause"
                 /\ state = "write_mcause" =>
                       state' \in {"write_mtval", "redirect"}
                 /\ state = "write_mtval" => state' = "redirect"
                 /\ state = "mret_status" => state' = "mret_redirect"
                 /\ state \in {"redirect", "mret_redirect"} => state' = "idle"
<1> USE DEF TrapTypes, TypeOK
<1>1. CASE state = "idle"
  <2>1. Accept BY <1>1 DEF ControllerStep, Drain, Sequence
  <2>2. ~drain_armed' BY <2>1 DEF Accept
  <2>3. CASE exception_req # {}
    <3>1. PICK i \in exception_req : i = CHOOSE j \in exception_req : TRUE
      BY <2>3
    <3>2. CASE window[i].op = "mret"
      BY <1>1, <2>1, <2>2, <2>3, <3>1, <3>2 DEF Accept
    <3>3. CASE window[i].op # "mret"
      <4>1. state' = "drain" /\ epc' = window[i].pc
        BY <2>1, <2>3, <3>1, <3>3 DEF Accept
      <4> QED BY <1>1, <2>2, <3>1, <4>1
    <3> QED BY <3>2, <3>3
  <2>4. CASE exception_req = {} /\ irq_pending # {}
    <3>1. state' = "drain" /\ is_interrupt' BY <2>1, <2>4 DEF Accept
    <3> QED BY <1>1, <2>2, <3>1
  <2>5. CASE exception_req = {} /\ irq_pending = {}
    <3>1. state' = "idle" BY <1>1, <2>1, <2>5 DEF Accept
    <3> QED BY <1>1, <2>2, <3>1
  <2> QED BY <2>3, <2>4, <2>5
<1>2. CASE state = "drain"
  <2>1. Drain BY <1>2 DEF ControllerStep, Accept, Sequence
  <2> QED BY <1>2, <2>1 DEF Drain
<1>3. CASE state \notin {"idle", "drain"}
  <2>1. Sequence BY <1>3 DEF ControllerStep, Accept, Drain
  <2>2. UNCHANGED <<cause, epc, is_interrupt>> /\ state' = Successor[state]
    BY <2>1 DEF Sequence
  <2> QED BY <1>3, <2>2 DEF Successor
<1> QED BY <1>1, <1>2, <1>3

(***************************************************************************)
(* The invariant under the steps.                                          *)
(***************************************************************************)
\* A clock edge at which fetch is not redirected.
LEMMA RunCycleInd ==
    ASSUME TrapInd, RunCycle
    PROVE  TrapInd'
<1>1. PICK k \in 0 .. 2, x \in SUBSET {i \in 1 .. Len(window) : Selectable(i)},
           target \in Pc \cup {None},
           alloc \in {<<>>} \cup {<<Entry(op)>> : op \in Ops} :
             k <= Len(window) /\ TwoLanes(x) /\ BackendStep(k, x, target, alloc)
  BY DEF RunCycle
<1>2. Backend(k, x, target, alloc) BY <1>1 DEF Backend
<1>3. PICK lsu_idle \in BOOLEAN : SampleStep(lsu_idle) BY DEF RunCycle
<1>4. /\ TrapTypes /\ PathInv /\ SerialInv /\ DrainInv /\ EntryInv
      /\ ControllerStep /\ CsrStep /\ ~Redirecting /\ irq' = irq
  BY DEF RunCycle, TrapInd
<1>5. window' \in Seq(Instr) /\ Len(window') <= WINDOW /\ Len(window') \in Nat
  BY <1>2, <1>4, WindowStep, LenProperties
<1>6. TrapTypes'
  <2>1. /\ state' \in States /\ cause' \in Causes /\ epc' \in Pc
        /\ is_interrupt' \in BOOLEAN /\ drain_armed' \in BOOLEAN
    BY <1>4, ControllerTypes
  <2>2. /\ mstatus' \in Status /\ mie' \subseteq Irqs /\ mepc' \in Pc
        /\ mcause' \in Causes /\ csr_write' \in CsrWrites \cup {None}
    BY <1>4, CsrTypes
  <2>3. backend_idle' \in BOOLEAN /\ async_pc' \in Pc
    BY <1>3, <1>4, SampleTypes
  <2>4. irq' \subseteq Irqs /\ bru' \in Pc \cup {None}
    BY <1>1, <1>4 DEF BackendStep, TrapTypes, TypeOK
  <2>5. arch_pc' \in Pc
    <3>1. arch_pc \in Pc BY <1>4 DEF TrapTypes, TypeOK
    <3>2. ASSUME k # 0 PROVE window[k].next \in Pc
      <4>1. window[k] \in Instr BY <1>1, <1>4, <3>2 DEF TrapTypes
      <4> QED BY <4>1 DEF Instr
    <3> QED BY <1>1, <3>1, <3>2 DEF BackendStep
  <2>6. resume_pc' \in Pc
    BY <1>1, <1>4, NextPcType DEF BackendStep, TrapTypes, TypeOK
  <2>7. serial_pending' \in BOOLEAN
    <3>1. serial_pending \in BOOLEAN BY <1>4 DEF TrapTypes, TypeOK
    <3> QED BY <1>1, <3>1 DEF BackendStep
  <2> QED BY <1>5, <2>1, <2>2, <2>3, <2>4, <2>5, <2>6, <2>7
          DEF TrapTypes, TypeOK
<1>7. PathInv' BY <1>2, <1>4, <1>5, PathStep
<1>8. SerialInv' BY <1>2, <1>4, SerialStep
<1>9. ASSUME window = <<>>, bru = None, state # "idle"
      PROVE  /\ window' = <<>> /\ bru' = None /\ csr_write' = None
             /\ resume_pc' = resume_pc /\ arch_pc' = arch_pc
  BY <1>2, <1>4, <1>9, Still, NoWriteStarts DEF trap_stall
<1>10. state \in States BY <1>4 DEF TrapTypes, TypeOK
<1>11. DrainInv'
  <2>1. ASSUME state' = "drain", drain_armed', backend_idle'
        PROVE  /\ window' = <<>> /\ csr_write' = None /\ bru' = None
               /\ async_pc' = resume_pc'
    <3>1. state = "drain"
      BY <1>4, <1>10, <2>1, ControllerMoves DEF States
    <3>2. window = <<>> /\ bru = None
      BY <1>3, <2>1 DEF SampleStep, BackendIdle
    <3>3. async_pc' = resume_pc BY <1>3, <3>2 DEF SampleStep, InStage
    <3> QED BY <1>9, <3>1, <3>2, <3>3
  <2>2. ASSUME state' = "drain", ~is_interrupt'
        PROVE  /\ bru' = None
               /\ \/ window' = <<>> /\ arch_pc' = NextPc(epc')
                  \/ /\ Len(window') = 1 /\ window'[1].stage = "done"
                     /\ window'[1].next = NextPc(epc')
    <3>1. CASE state = "idle"
      <4>1. PICK i \in exception_req : epc' = window[i].pc
        BY <1>4, <2>2, <3>1, ControllerMoves
      <4> QED BY <1>2, <1>4, <4>1, Alone
    <3>2. CASE state = "drain"
      <4>1. epc' = epc /\ is_interrupt' = is_interrupt
        BY <1>4, <2>2, <3>2, ControllerMoves
      <4>2. /\ bru = None
            /\ \/ window = <<>> /\ arch_pc = NextPc(epc)
               \/ /\ Len(window) = 1 /\ window[1].stage = "done"
                  /\ window[1].next = NextPc(epc)
        BY <1>4, <2>2, <3>2, <4>1 DEF DrainInv
      <4>3. CASE window = <<>> /\ arch_pc = NextPc(epc)
        BY <1>9, <3>2, <4>1, <4>2, <4>3
      <4>4. CASE /\ Len(window) = 1 /\ window[1].stage = "done"
                 /\ window[1].next = NextPc(epc)
        <5>1. trap_stall BY <3>2 DEF trap_stall
        <5> QED BY <1>2, <1>4, <4>1, <4>2, <4>4, <5>1, RetiresAlone
      <4> QED BY <4>2, <4>3, <4>4
    <3>3. CASE state \notin {"idle", "drain"}
      BY <1>4, <1>10, <2>2, <3>3, ControllerMoves DEF States
    <3> QED BY <3>1, <3>2, <3>3
  <2> QED BY <2>1, <2>2 DEF DrainInv
<1>12. EntryInv'
  <2>1. ASSUME Entering'
        PROVE  window = <<>> /\ csr_write = None /\ bru = None
               /\ state # "idle"
    <3>1. CASE state = "idle"
      BY <1>4, <2>1, <3>1, ControllerMoves DEF Entering
    <3>2. CASE state = "drain"
      BY <1>4, <2>1, <3>2, ControllerMoves DEF Entering, DrainInv
    <3>3. CASE Entering
      BY <1>4, <3>3 DEF EntryInv, DrainedAtEntry, Entering
    <3>4. CASE state \in {"mret_status", "mret_redirect"}
      BY <1>4, <2>1, <3>4, ControllerMoves DEF Entering
    <3> QED BY <1>10, <3>1, <3>2, <3>3, <3>4 DEF States, Entering
  <2>2. DrainedAtEntry' BY <1>9, <2>1 DEF DrainedAtEntry
  <2>3. ASSUME state' = "write_mepc"
        PROVE  arch_pc' = IF is_interrupt' THEN epc' ELSE NextPc(epc')
    <3>1. state = "drain"
      BY <1>4, <1>10, <2>3, ControllerMoves DEF States
    <3>2. /\ drain_armed /\ backend_idle /\ is_interrupt' = is_interrupt
          /\ epc' = IF is_interrupt THEN async_pc ELSE epc
      BY <1>4, <2>3, <3>1, ControllerMoves
    <3>3. window = <<>> /\ bru = None /\ async_pc = resume_pc
      BY <1>4, <3>1, <3>2 DEF DrainInv
    <3>4. resume_pc = arch_pc BY <1>4, <3>3 DEF PathInv
    <3>5. arch_pc' = arch_pc BY <1>9, <3>1, <3>3
    <3>6. ~is_interrupt => arch_pc = NextPc(epc)
      BY <1>4, <3>1, <3>3 DEF DrainInv
    <3>7. is_interrupt \in BOOLEAN BY <1>4 DEF TrapTypes, TypeOK
    <3> QED BY <3>2, <3>3, <3>4, <3>5, <3>6, <3>7
  <2>4. ASSUME state' \in {"write_mstatus", "write_mcause", "write_mtval",
                           "redirect"}
        PROVE  /\ state \in {"write_mepc", "write_mstatus", "write_mcause",
                             "write_mtval"}
               /\ epc' = epc /\ cause' = cause /\ csr_write = None
               /\ state' = "write_mstatus" => state = "write_mepc"
               /\ state' = "write_mcause" => state = "write_mstatus"
               /\ state' \in {"write_mtval", "redirect"} =>
                     state \in {"write_mcause", "write_mtval"}
    <3>1. Entering' BY <2>4 DEF Entering
    <3>2. csr_write = None BY <2>1, <3>1
    <3>3. state \in {"write_mepc", "write_mstatus", "write_mcause",
                     "write_mtval"}
      BY <1>4, <1>10, <2>4, ControllerMoves DEF States
    <3> QED BY <1>4, <2>4, <3>2, <3>3, ControllerMoves
  <2>5. ASSUME state' \in {"write_mstatus", "write_mcause", "write_mtval",
                           "redirect"}
        PROVE  mepc' = epc'
    BY <1>4, <2>4, <2>5, TrapWriteLands DEF EntryInv
  <2>6. ASSUME state' \in {"write_mcause", "write_mtval", "redirect"}
        PROVE  ~mstatus'.mie
    BY <1>4, <2>4, <2>6, TrapWriteLands DEF EntryInv
  <2>7. ASSUME state' \in {"write_mtval", "redirect"}
        PROVE  mcause' = cause'
    BY <1>4, <2>4, <2>7, TrapWriteLands DEF EntryInv
  <2> QED BY <2>2, <2>3, <2>5, <2>6, <2>7 DEF EntryInv, MepcIsResumePoint
<1> QED BY <1>6, <1>7, <1>8, <1>11, <1>12 DEF TrapInd

\* The clock edge at which a trap or a return redirects fetch.
LEMMA RedirectCycleInd ==
    ASSUME TrapInd, RedirectCycle
    PROVE  TrapInd'
<1>1. /\ TrapTypes /\ ControllerStep /\ CsrStep
      /\ state \in {"redirect", "mret_redirect"}
      /\ window' = <<>> /\ serial_pending' = FALSE
      /\ bru' = RedirectTarget /\ arch_pc' = RedirectTarget
      /\ resume_pc' = resume_pc /\ irq' = irq
  BY DEF RedirectCycle, Redirecting, TrapInd
<1>2. PICK lsu_idle \in BOOLEAN : SampleStep(lsu_idle) BY DEF RedirectCycle
<1>3. RedirectTarget \in Pc
  BY <1>1, TrapAssumption DEF RedirectTarget, TrapTypes, TypeOK, Vector, Pc
<1>4. state' = "idle" BY <1>1, ControllerMoves
<1>5. TrapTypes'
  <2>1. window' \in Seq(Instr) /\ Len(window') <= WINDOW
    BY <1>1, TrapAssumption
  <2>2. /\ state' \in States /\ cause' \in Causes /\ epc' \in Pc
        /\ is_interrupt' \in BOOLEAN /\ drain_armed' \in BOOLEAN
    BY <1>1, ControllerTypes
  <2>3. /\ mstatus' \in Status /\ mie' \subseteq Irqs /\ mepc' \in Pc
        /\ mcause' \in Causes /\ csr_write' \in CsrWrites \cup {None}
    BY <1>1, CsrTypes
  <2>4. backend_idle' \in BOOLEAN /\ async_pc' \in Pc
    BY <1>1, <1>2, SampleTypes
  <2>5. irq' \subseteq Irqs /\ resume_pc' \in Pc
    BY <1>1 DEF TrapTypes, TypeOK
  <2>6. serial_pending' \in BOOLEAN BY <1>1
  <2> QED BY <1>1, <1>3, <2>1, <2>2, <2>3, <2>4, <2>5, <2>6
          DEF TrapTypes, TypeOK
<1>6. Len(window') = 0 /\ bru' # None BY <1>1, <1>3, TrapAssumption
<1>7. PathInv' BY <1>1, <1>6 DEF PathInv
<1>8. SerialInv' BY <1>1, <1>6 DEF SerialInv, InStage
<1>9. DrainInv' BY <1>4 DEF DrainInv
<1>10. EntryInv'
  BY <1>4 DEF EntryInv, DrainedAtEntry, MepcIsResumePoint, Entering
<1> QED BY <1>5, <1>7, <1>8, <1>9, <1>10 DEF TrapInd

\* An interrupt line that changes.
LEMMA IrqChangeInd ==
    ASSUME TrapInd, IrqChange \/ UNCHANGED vars
    PROVE  TrapInd'
<1>1. UNCHANGED <<ctrl, csrs, core>> BY DEF IrqChange, vars
<1>2. irq' \subseteq Irqs
  BY DEF IrqChange, vars, TrapInd, TrapTypes, TypeOK
<1> USE <1>1 DEF ctrl, csrs, core
<1>3. TrapTypes' BY <1>2 DEF TrapInd, TrapTypes, TypeOK
<1>4. PathInv'
  BY DEF TrapInd, PathInv, Resolving, InStage, Cut
<1>5. SerialInv' BY DEF TrapInd, SerialInv, InStage
<1>6. DrainInv' BY DEF TrapInd, DrainInv
<1>7. EntryInv'
  BY DEF TrapInd, EntryInv, DrainedAtEntry, MepcIsResumePoint, Entering
<1> QED BY <1>3, <1>4, <1>5, <1>6, <1>7 DEF TrapInd

\* The core starts idle and empty.
LEMMA TrapInitInd ==
    ASSUME Init
    PROVE  TrapInd
<1>1. window = <<>> /\ Len(window) = 0 BY DEF Init
<1>2. TrapTypes
  <2>1. 0 \in Pc BY TrapAssumption DEF Pc
  <2>2. "ebreak" \in Causes /\ "idle" \in States BY DEF Causes, States
  <2>3. mstatus \in Status BY DEF Init, Status
  <2>4. window \in Seq(Instr) /\ Len(window) <= WINDOW
    BY <1>1, TrapAssumption
  <2>5. /\ is_interrupt \in BOOLEAN /\ drain_armed \in BOOLEAN
        /\ backend_idle \in BOOLEAN /\ serial_pending \in BOOLEAN
    BY DEF Init
  <2> QED BY <2>1, <2>2, <2>3, <2>4, <2>5 DEF Init, TrapTypes, TypeOK
<1>3. PathInv BY <1>1 DEF Init, PathInv, InStage
<1>4. SerialInv BY <1>1 DEF SerialInv, InStage
<1>5. DrainInv BY DEF Init, DrainInv
<1>6. EntryInv
  BY DEF Init, EntryInv, DrainedAtEntry, MepcIsResumePoint, Entering
<1> QED BY <1>2, <1>3, <1>4, <1>5, <1>6 DEF TrapInd

(***************************************************************************)
(* The theorems.                                                           *)
(***************************************************************************)
\* The inductive invariant holds in every reachable state.
THEOREM TrapInductive == Spec => []TrapInd
<1>1. Init => TrapInd BY TrapInitInd
<1>2. TrapInd /\ [Next]_vars => TrapInd'
  BY RunCycleInd, RedirectCycleInd, IrqChangeInd DEF Next
<1> QED BY <1>1, <1>2, PTL DEF Spec

\* A trap CSR is written only while nothing is in flight, and all of an
\* entry's writes have landed when fetch is redirected
\* (exception_ctrl.sv:66-153, exception_stage.sv:47-61).
THEOREM TrapSafe == Spec => []TrapInv
<1>1. TrapInd => TrapInv
  BY DEF TrapInd, TrapTypes, EntryInv, TrapInv, EntryComplete
<1> QED BY <1>1, TrapInductive, PTL

\* MEPC is where the interrupted program resumes, also when a branch was
\* mispredicted or an earlier trap returned on the way
\* (exception_stage.sv:45-61).
THEOREM TrapResumes == Spec => []MepcIsResumePoint
<1>1. TrapInd => MepcIsResumePoint BY DEF TrapInd, EntryInv
<1> QED BY <1>1, TrapInductive, PTL
=============================================================================
