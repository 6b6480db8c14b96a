-------------------------- MODULE YdrasilMduProofs --------------------------
(***************************************************************************)
(* Proofs about the multiply/divide unit of YdrasilMdu, for every window,  *)
(* every length of a division and every mix of uops.                       *)
(***************************************************************************)
EXTENDS YdrasilMdu, SequenceTheorems, TLAPS

Names == Uops \cup {None, Ghost}
Entries == [op : Ops, src : Uops \cup {None}, stage : Stages,
            ready : BOOLEAN, fresh : BOOLEAN]
DivRegs == [state : {"idle", "shift", "iter", "finish"}, iter : 0 .. ITERS,
            busy : BOOLEAN, done : BOOLEAN, active : BOOLEAN,
            pending : BOOLEAN, wen : BOOLEAN, uop : Names]

Shape ==
    /\ window \in Seq(Entries) /\ Len(window) <= WINDOW
    /\ \A i \in 1 .. Len(window) : window[i].src # None => window[i].src < i
    /\ available \in BOOLEAN /\ reserved \in BOOLEAN
    /\ busy_seen \in BOOLEAN /\ recovering \in BOOLEAN
    /\ exposed \in BOOLEAN
    /\ div \in DivRegs /\ mul \in [0 .. 3 -> Names]
    /\ div.uop \in Uops => div.uop <= Len(window)

\* The divider and the registers of ex_block around it: div_active_q holds
\* from the start to the done pulse, and a quotient waits for the port only
\* when no other division runs.
DivInv ==
    /\ div.busy <=> div.state # "idle"
    /\ div.done => div.state = "idle"
    /\ div.active <=> div.busy \/ div.done
    /\ div.pending => div.wen /\ ~div.active

\* The names the units carry are those of uops that wait for their result, or
\* of squashed ones, and no two stages of the multiplier carry the same.
NameInv ==
    /\ \A s \in 0 .. 3 : mul[s] \in Uops =>
          /\ mul[s] <= Len(window)
          /\ window[mul[s]].stage = "mdu" /\ window[mul[s]].op = "mul"
    /\ \A s, t \in 0 .. 3 : mul[s] \in Uops /\ mul[s] = mul[t] => s = t
    /\ (div.active \/ div.pending) /\ div.uop \in Uops =>
          IF div.wen THEN /\ window[div.uop].stage = "mdu"
                          /\ window[div.uop].op = "div"
          ELSE window[div.uop].op = "divx"

\* A reader is ready only when its operand has finished, or is the quotient
\* that waits for the port; what is in Operand was ready.
ReadInv ==
    \A i \in 1 .. Len(window) : window[i].src # None =>
       /\ window[i].op = "use" /\ window[window[i].src].op \in {"div", "mul"}
       /\ window[i].ready => \/ window[i].src \in Finished
                             \/ div.pending /\ div.uop = window[i].src
       /\ window[i].stage = "operand" => window[i].ready

\* The divisions between selection and the divider.
Leaving == {i \in In("operand") \cup In("ex") : Divides(window[i].op)}

\* While no recovery has met a division in Operand: a division on its way
\* holds the reservation, and a division that may be selected finds the
\* divider free when it arrives.
ReserveInv ==
    ~exposed =>
       /\ Leaving # {} => reserved /\ ~busy_seen
       /\ ~recovering /\ available /\ ~reserved => div_available
       /\ \A i \in Leaving :
             /\ window[i].stage = "ex" => div_available
             /\ window[i].stage = "operand" =>
                   /\ available /\ div_available
                   /\ \A j \in Leaving : window[j].stage # "ex"

MduInd == Shape /\ DivInv /\ NameInv /\ ReadInv /\ ReserveInv /\ WakeupNotLost

(***************************************************************************)
(* One clock edge.                                                         *)
(***************************************************************************)
\* The last uop that the cycle leaves.
Last(cut) == IF cut = None THEN Len(window) ELSE cut

\* What the parameters of a cycle may be, with and without a recovery.
Edge(cut, k, x, batch, n) ==
    /\ k \in 0 .. 2 /\ k <= Last(cut)
    /\ cut \in 0 .. Len(window) \cup {None}
    /\ n \in Iterations(cut)
    /\ cut = None => batch \in Batches(None) /\ x \in Selections(None)
    /\ cut # None => batch = <<>> /\ x = {}
    /\ Cycle(cut, k, x, batch, n)

\* A uop that is dispatched while the window holds Len(window) uops, as the
\* j-th of its batch.
Dispatched(u, j, first) ==
    /\ u.op \in Ops /\ u.stage = "rs" /\ u.fresh /\ u.ready = (u.src = None)
    /\ u \in Entries
    /\ u.src # None =>
          /\ u.op = "use" /\ u.src \in 1 .. Len(window) + j - 1
          /\ u.src <= Len(window) => window[u.src].op \in {"div", "mul"}
          /\ u.src > Len(window) =>
                u.src = Len(window) + 1 /\ first.op \in {"div", "mul"}

\* A uop as dispatch presents it.
LEMMA UopIs ==
    ASSUME NEW op \in Ops, NEW s \in Uops \cup {None}
    PROVE  /\ Uop(op, s) \in Entries /\ Uop(op, s).op = op
           /\ Uop(op, s).src = s /\ Uop(op, s).stage = "rs"
           /\ Uop(op, s).fresh = TRUE /\ Uop(op, s).ready = (s = None)
BY DEF Uop, Entries, Stages

\* A batch is at most two uops that fit, none during a recovery; each reads a
\* division or multiplication before it.
LEMMA BatchIs ==
    ASSUME Shape, NEW batch \in Batches(None)
    PROVE  /\ batch \in Seq(Entries) /\ Len(batch) \in 0 .. 2
           /\ Len(window) + Len(batch) <= WINDOW
           /\ batch # <<>> => ~recovering
           /\ \A j \in 1 .. Len(batch) : Dispatched(batch[j], j, batch[1])
<1> DEFINE free == IF select_enable(None) THEN WINDOW - Len(window) ELSE 0
           writers == {i \in 1 .. Len(window) : window[i].op \in {"div", "mul"}}
           reads(op, S) == IF op = "use" THEN S ELSE {None}
           one == UNION {{<<Uop(op, s)>> : s \in reads(op, writers)} : op \in Ops}
           pair(b) ==
              UNION {{<<b[1], Uop(op, s)>> :
                        s \in reads(op, writers \cup
                                {i \in {Len(window) + 1} :
                                    b[1].op \in {"div", "mul"}})} : op \in Ops}
<1>1. Len(window) \in Nat /\ WINDOW \in Nat /\ Len(window) <= WINDOW
  BY MduAssumption DEF Shape
<1>2. \/ batch = <<>>
      \/ Len(batch) <= free /\ \E b \in one : batch = b \/ batch \in pair(b)
  BY DEF Batches
<1>3. None \notin Nat BY MduAssumption
<1>4. CASE batch = <<>>
  <2>1. Len(batch) = 0 /\ batch \in Seq(Entries) BY <1>4
  <2> QED BY <1>1, <1>4, <2>1
<1>5. CASE batch # <<>>
  <2>1. Len(batch) <= free BY <1>2, <1>5
  <2>2. PICK b \in one : batch = b \/ batch \in pair(b) BY <1>2, <1>5
  <2>3. PICK op \in Ops : \E s \in reads(op, writers) : b = <<Uop(op, s)>>
    BY <2>2
  <2>4. PICK s \in reads(op, writers) : b = <<Uop(op, s)>> BY <2>3
  <2>5. s \in Uops \cup {None}
        /\ (s # None => op = "use" /\ s \in 1 .. Len(window)
                        /\ window[s].op \in {"div", "mul"})
    BY <1>1, <1>3, <2>4 DEF Uops
  <2>6. b[1] = Uop(op, s) /\ Len(b) = 1 BY <2>4
  <2>7. PICK e : e = Uop(op, s) OBVIOUS
  <2>8. /\ e \in Entries /\ e.op = op /\ e.src = s /\ e.stage = "rs"
        /\ e.fresh = TRUE /\ e.ready = (s = None)
    <3> HIDE DEF reads, one, pair, writers, free
    <3> QED BY <2>5, <2>7, UopIs, ZenonT(30)
  <2>9. ASSUME NEW f PROVE Dispatched(e, 1, f)
    BY <1>1, <1>3, <2>5, <2>8 DEF Dispatched
  <2>10. CASE batch = b
    <3>1. Len(batch) = 1 /\ batch[1] = e /\ batch = <<e>>
      BY <2>4, <2>6, <2>7, <2>10
    <3>2. batch \in Seq(Entries) BY <3>1, <2>8
    <3>3. free >= 1 BY <2>1, <3>1, <1>1
    <3>4. ~recovering /\ Len(window) + 1 <= WINDOW
      BY <3>3, <1>1 DEF select_enable
    <3>5. Dispatched(batch[1], 1, batch[1]) BY <3>1, <2>9
    <3>6. \A j \in 1 .. Len(batch) : j = 1 BY <3>1
    <3>7. \A j \in 1 .. Len(batch) : Dispatched(batch[j], j, batch[1])
      BY <3>5, <3>6
    <3> QED BY <1>1, <3>1, <3>2, <3>4, <3>7
  <2>11. CASE batch \in pair(b)
    <3> DEFINE more == writers \cup {i \in {Len(window) + 1} :
                                        b[1].op \in {"div", "mul"}}
    <3>1. PICK op2 \in Ops : \E s2 \in reads(op2, more) :
                                batch = <<b[1], Uop(op2, s2)>>
      BY <2>11
    <3>2. PICK s2 \in reads(op2, more) : batch = <<b[1], Uop(op2, s2)>>
      BY <3>1
    <3>3. PICK e2 : e2 = Uop(op2, s2) OBVIOUS
    <3>4. Len(batch) = 2 /\ batch[1] = e /\ batch[2] = e2 /\ batch = <<e, e2>>
      BY <3>2, <3>3, <2>6, <2>7
    <3>5. free >= 2 BY <2>1, <3>4, <1>1
    <3>6. ~recovering /\ Len(window) + 2 <= WINDOW
      BY <3>5, <1>1 DEF select_enable
    <3>7. (s2 # None => op2 = "use" /\ s2 \in more) BY <3>2
    <3>8. (s2 # None => s2 \in 1 .. Len(window) + 1
                   /\ (s2 <= Len(window) => window[s2].op \in {"div", "mul"})
                   /\ (s2 > Len(window) => s2 = Len(window) + 1
                                           /\ e.op \in {"div", "mul"}))
      BY <3>7, <1>1, <2>6, <2>7
    <3>9. s2 \in Uops \cup {None} BY <3>8, <3>6, <1>1 DEF Uops
    <3> HIDE DEF more, reads, one, pair, writers, free
    <3>10. /\ e2 \in Entries /\ e2.op = op2 /\ e2.src = s2 /\ e2.stage = "rs"
           /\ e2.fresh = TRUE /\ e2.ready = (s2 = None)
      BY <3>9, <3>3, UopIs
    <3>11. Dispatched(e2, 2, e)
      BY <1>1, <1>3, <3>7, <3>8, <3>10 DEF Dispatched
    <3>12. batch \in Seq(Entries) BY <3>4, <3>10, <2>8
    <3>13. Dispatched(batch[1], 1, batch[1]) BY <3>4, <2>9
    <3>14. Dispatched(batch[2], 2, batch[1]) BY <3>4, <3>11
    <3>15. \A j \in 1 .. Len(batch) : j = 1 \/ j = 2 BY <3>4
    <3>16. \A j \in 1 .. Len(batch) : Dispatched(batch[j], j, batch[1])
      BY <3>13, <3>14, <3>15
    <3> QED BY <1>1, <3>4, <3>12, <3>6, <3>16
  <2> QED BY <2>2, <2>10, <2>11
<1> QED BY <1>4, <1>5

\* A source is renamed when uops retire.
LEMMA RereadIs ==
    ASSUME NEW u \in Entries, NEW k \in 0 .. 2, NEW w, w = Reread(u, k)
    PROVE  /\ w \in Entries /\ w.op = u.op /\ w.stage = u.stage
           /\ w.fresh = u.fresh
           /\ u.src = None => w.src = None /\ w.ready = u.ready
           /\ u.src # None /\ u.src <= k => w.src = None /\ w.ready
           /\ u.src # None /\ u.src > k =>
                 w.src = u.src - k /\ w.src \in Uops /\ w.ready = u.ready
<1>1. WINDOW \in Nat /\ None \notin Nat BY MduAssumption
<1>2. CASE u.src = None BY <1>1, <1>2 DEF Reread
<1>3. CASE u.src # None /\ u.src <= k
  <2>1. w = [u EXCEPT !.src = None, !.ready = TRUE] BY <1>3 DEF Reread
  <2>2. u.src \in 1 .. WINDOW BY <1>3 DEF Entries, Uops
  <2>3. ~(u.src > k) BY <1>1, <1>3, <2>2
  <2>4. w \in Entries BY <2>1 DEF Entries
  <2> QED BY <1>3, <2>1, <2>3, <2>4 DEF Entries
<1>4. CASE u.src # None /\ ~(u.src <= k)
  <2>1. w = [u EXCEPT !.src = @ - k] BY <1>4 DEF Reread
  <2>2. u.src \in 1 .. WINDOW BY <1>4 DEF Entries, Uops
  <2>3. u.src - k \in 1 .. WINDOW /\ u.src > k BY <1>1, <1>4, <2>2
  <2> QED BY <1>1, <1>4, <2>1, <2>2, <2>3 DEF Entries, Uops
<1> QED BY <1>2, <1>3, <1>4

\* What becomes of the i-th uop when the cycle leaves it and makes it w.
Follows(w, cut, x, k, i) ==
    /\ w \in Entries /\ w.op = window[i].op /\ ~w.fresh
    /\ w.stage = NextStage(cut, x, i)
    /\ window[i].src = None => w.src = None
    /\ window[i].src # None /\ window[i].src <= k => w.src = None
    /\ window[i].src # None /\ window[i].src > k =>
          /\ w.src = window[i].src - k /\ w.src \in Uops
          /\ w.ready <=> window[i].ready \/ Wakes(window[i])
    /\ window[i].ready => w.ready

\* How a uop that the cycle leaves moves on.
LEMMA MovedIs ==
    ASSUME Shape, NEW i \in 1 .. Len(window), NEW k \in 0 .. 2, NEW x,
           NEW cut, NEW w, w = Moved(cut, x, k, i)
    PROVE  Follows(w, cut, x, k, i)
<1> DEFINE u == window[i]
<1>1. u \in Entries BY DEF Shape
<1>2. NextStage(cut, x, i) \in Stages
  <2>1. u.stage \in Stages BY <1>1 DEF Entries
  <2> QED BY <2>1 DEF NextStage, Stages
<1>3. PICK v : v = [u EXCEPT !.stage = NextStage(cut, x, i),
                        !.ready = @ \/ Wakes(u), !.fresh = FALSE]
  OBVIOUS
<1>4. w = Reread(v, k) BY <1>3 DEF Moved
<1> HIDE DEF u
<1>5. /\ v \in Entries /\ v.op = u.op /\ v.src = u.src /\ v.fresh = FALSE
      /\ v.stage = NextStage(cut, x, i)
      /\ v.ready = (u.ready \/ Wakes(u))
  <2>1. (u.ready \/ Wakes(u)) \in BOOLEAN OBVIOUS
  <2>2. PICK r \in BOOLEAN : r = (u.ready \/ Wakes(u)) BY <2>1
  <2>3. PICK t \in Stages : t = NextStage(cut, x, i) BY <1>2
  <2>4. v = [u EXCEPT !.stage = t, !.ready = r, !.fresh = FALSE]
    BY <1>3, <2>2, <2>3
  <2>5. /\ v \in Entries /\ v.op = u.op /\ v.src = u.src /\ v.fresh = FALSE
        /\ v.stage = t /\ v.ready = r
    BY <1>1, <2>4 DEF Entries
  <2> QED BY <2>2, <2>3, <2>5
<1>6. /\ w \in Entries /\ w.op = v.op /\ w.stage = v.stage
      /\ w.fresh = v.fresh
      /\ v.src = None => w.src = None /\ w.ready = v.ready
      /\ v.src # None /\ v.src <= k => w.src = None /\ w.ready
      /\ v.src # None /\ v.src > k =>
            w.src = v.src - k /\ w.src \in Uops /\ w.ready = v.ready
  BY <1>4, <1>5, RereadIs
<1>7. u.src # None => u.src \in 1 .. WINDOW BY <1>1 DEF Entries, Uops
<1>8. u.src # None => u.src <= k \/ u.src > k BY <1>7, MduAssumption
<1>9. u.ready => w.ready
  <2>1. u.ready => v.ready BY <1>5
  <2>2. v.src = None => w.ready = v.ready BY <1>6
  <2>3. v.src # None /\ v.src <= k => w.ready BY <1>6
  <2>4. v.src # None /\ v.src > k => w.ready = v.ready BY <1>6
  <2> QED BY <1>5, <1>8, <2>1, <2>2, <2>3, <2>4
<1>10. u.src # None /\ u.src > k => (w.ready <=> u.ready \/ Wakes(u))
  BY <1>5, <1>6
<1> QED BY <1>5, <1>6, <1>9, <1>10 DEF u, Follows

\* The window after a clock edge: what lies between the retired uops and the
\* cut has moved on, and the batch follows it.
LEMMA WindowStep ==
    ASSUME Shape, NEW cut, NEW k, NEW x, NEW batch, NEW n,
           Edge(cut, k, x, batch, n)
    PROVE  /\ Last(cut) \in 0 .. Len(window) /\ k \in 0 .. Last(cut)
           /\ Len(window) \in Nat /\ k \in 0 .. 2
           /\ window' \in Seq(Entries)
           /\ Len(batch) \in 0 .. 2
           /\ Len(batch) > 0 => cut = None /\ ~recovering
           /\ Len(window') = Last(cut) - k + Len(batch)
           /\ Len(window') <= WINDOW
           /\ \A i \in 1 .. Last(cut) - k :
                 window'[i] = Moved(cut, x, k, i + k)
           /\ \A j \in 1 .. Len(batch) :
                 window'[Last(cut) - k + j] = Reread(batch[j], k)
           /\ \A j \in 1 .. Len(batch) : Dispatched(batch[j], j, batch[1])
<1> DEFINE last == Last(cut)
           after == [i \in 1 .. last |-> Moved(cut, x, k, i)]
           new == [j \in 1 .. Len(batch) |-> Reread(batch[j], k)]
           old == SubSeq(after, k + 1, last)
<1>1. /\ Len(window) \in Nat /\ WINDOW \in Nat /\ Len(window) <= WINDOW
      /\ None \notin Nat
  BY MduAssumption DEF Shape
<1>2. last \in 0 .. Len(window) /\ k \in 0 .. 2 /\ k \in 0 .. last
      /\ (cut = None => last = Len(window))
  <2>1. k \in 0 .. 2 /\ k <= last /\ cut \in 0 .. Len(window) \cup {None}
    BY DEF Edge
  <2>2. last \in 0 .. Len(window) BY <1>1, <2>1 DEF Last
  <2>3. cut = None => last = Len(window) BY DEF Last
  <2> HIDE DEF last
  <2> QED BY <1>1, <2>1, <2>2, <2>3
<1>3. window' = old \o new BY DEF Edge, Cycle, Last
<1>4. /\ batch \in Seq(Entries) /\ Len(batch) \in 0 .. 2
      /\ Len(batch) > 0 => cut = None /\ ~recovering
      /\ last - k + Len(batch) <= WINDOW
      /\ \A j \in 1 .. Len(batch) : Dispatched(batch[j], j, batch[1])
  <2>1. CASE cut = None
    <3>1. batch \in Batches(None) BY <2>1 DEF Edge
    <3>2. /\ batch \in Seq(Entries) /\ Len(batch) \in 0 .. 2
          /\ Len(window) + Len(batch) <= WINDOW
          /\ batch # <<>> => ~recovering
          /\ \A j \in 1 .. Len(batch) : Dispatched(batch[j], j, batch[1])
      BY <3>1, BatchIs
    <3>3. Len(batch) > 0 => batch # <<>> BY <3>2
    <3> HIDE DEF last
    <3>4. last - k + Len(batch) <= WINDOW BY <1>1, <1>2, <3>2, <2>1
    <3> QED BY <2>1, <3>2, <3>3, <3>4
  <2>2. CASE cut # None
    <3>1. batch = <<>> BY <2>2 DEF Edge
    <3>2. batch \in Seq(Entries) /\ Len(batch) = 0 BY <3>1
    <3> HIDE DEF last
    <3> QED BY <1>1, <1>2, <3>2
  <2> QED BY <2>1, <2>2
<1> HIDE DEF last
<1>5. after \in Seq(Entries) /\ Len(after) = last
  <2>1. ASSUME NEW i \in 1 .. last PROVE Moved(cut, x, k, i) \in Entries
    <3>1. i \in 1 .. Len(window) BY <1>1, <1>2, <2>1
    <3>2. PICK w : w = Moved(cut, x, k, i) OBVIOUS
    <3> QED BY <1>2, <3>1, <3>2, MovedIs DEF Follows
  <2>2. after \in [1 .. last -> Entries] BY <2>1
  <2> HIDE DEF after
  <2> QED BY <1>1, <1>2, <2>2
<1>6. new \in Seq(Entries) /\ Len(new) = Len(batch)
  <2>1. ASSUME NEW j \in 1 .. Len(batch) PROVE Reread(batch[j], k) \in Entries
    <3>1. batch[j] \in Entries BY <1>4, <2>1
    <3>2. PICK w : w = Reread(batch[j], k) OBVIOUS
    <3> QED BY <1>2, <3>1, <3>2, RereadIs
  <2>2. new \in [1 .. Len(batch) -> Entries] BY <2>1
  <2> HIDE DEF new
  <2> QED BY <1>4, <2>2
<1>7. /\ old \in Seq(Entries) /\ Len(old) = last - k
      /\ \A i \in 1 .. last - k : old[i] = Moved(cut, x, k, i + k)
  <2>1. \A i \in 1 .. last : after[i] = Moved(cut, x, k, i) OBVIOUS
  <2> HIDE DEF after
  <2>2. CASE k + 1 <= last
    <3>1. k + 1 \in 1 .. Len(after) /\ last \in k .. Len(after)
      BY <1>1, <1>2, <1>5, <2>2
    <3>2. /\ old \in Seq(Entries) /\ Len(old) = last - k
          /\ \A i \in 1 .. last - k : old[i] = after[i + k]
      BY <1>1, <1>2, <1>5, <3>1
    <3>3. \A i \in 1 .. last - k : i + k \in 1 .. last BY <1>1, <1>2
    <3> HIDE DEF old
    <3> QED BY <2>1, <3>2, <3>3
  <2>3. CASE k = last
    <3>1. old = <<>> BY <1>1, <1>2, <1>5, <2>3
    <3>2. 1 .. last - k = {} BY <1>1, <1>2, <2>3
    <3>3. last - k = 0 BY <1>1, <1>2, <2>3
    <3> HIDE DEF old
    <3>4. old \in Seq(Entries) /\ Len(old) = 0 BY <3>1
    <3> QED BY <3>2, <3>3, <3>4
  <2>4. k + 1 <= last \/ k = last BY <1>1, <1>2
  <2> HIDE DEF old
  <2> QED BY <2>2, <2>3, <2>4
<1>8. \A j \in 1 .. Len(batch) : new[j] = Reread(batch[j], k) OBVIOUS
<1> HIDE DEF old, new, after
<1>9. /\ window' \in Seq(Entries) /\ Len(window') = last - k + Len(batch)
      /\ \A i \in 1 .. last - k : window'[i] = old[i]
      /\ \A j \in 1 .. Len(batch) : window'[last - k + j] = new[j]
  <2>1. old \in Seq(Entries) /\ new \in Seq(Entries) BY <1>6, <1>7
  <2>2. PICK l \in Nat : l = last - k BY <1>1, <1>2
  <2>3. Len(old) = l BY <1>7, <2>2
  <2>4. PICK m \in Nat : m = Len(batch) BY <1>4
  <2>5. Len(new) = m BY <1>6, <2>4
  <2>6. /\ old \o new \in Seq(Entries) /\ Len(old \o new) = l + m
        /\ \A i \in 1 .. l : (old \o new)[i] = old[i]
        /\ \A j \in 1 .. m : (old \o new)[l + j] = new[j]
    BY <2>1, <2>3, <2>5
  <2> QED BY <1>3, <2>2, <2>4, <2>6
<1>10. /\ \A i \in 1 .. last - k : window'[i] = Moved(cut, x, k, i + k)
       /\ \A j \in 1 .. Len(batch) : window'[last - k + j] = Reread(batch[j], k)
  BY <1>7, <1>8, <1>9
<1> QED BY <1>1, <1>2, <1>4, <1>9, <1>10 DEF last

\* The uops after a clock edge: each is one that moved on, or was dispatched.
LEMMA UopsStep ==
    ASSUME Shape, NEW cut, NEW k, NEW x, NEW batch, NEW n,
           Edge(cut, k, x, batch, n), NEW i \in 1 .. Len(window')
    PROVE  \/ /\ i \in 1 .. Last(cut) - k /\ i + k \in 1 .. Len(window)
              /\ i + k <= Last(cut) /\ Follows(window'[i], cut, x, k, i + k)
           \/ /\ i > Last(cut) - k /\ cut = None /\ ~recovering
              /\ window'[i].stage = "rs" /\ window'[i].fresh
              /\ window'[i].src # None =>
                    /\ window'[i].op = "use" /\ ~window'[i].ready
                    /\ window'[i].src \in 1 .. i - 1
                    /\ window'[window'[i].src].op \in {"div", "mul"}
<1> DEFINE last == Last(cut)
<1>1. /\ last \in 0 .. Len(window) /\ k \in 0 .. last
      /\ Len(window) \in Nat /\ k \in 0 .. 2
      /\ Len(batch) \in 0 .. 2
      /\ Len(batch) > 0 => cut = None /\ ~recovering
      /\ Len(window') = last - k + Len(batch)
  BY WindowStep
<1>2. \A j \in 1 .. last - k : window'[j] = Moved(cut, x, k, j + k)
  BY WindowStep
<1>3. \A j \in 1 .. Len(batch) : window'[last - k + j] = Reread(batch[j], k)
  BY WindowStep
<1>4. \A j \in 1 .. Len(batch) : Dispatched(batch[j], j, batch[1])
  BY WindowStep
<1>5. cut = None => last = Len(window) BY DEF Last
<1> HIDE DEF last
<1>6. ASSUME NEW j \in 1 .. last - k
      PROVE  /\ j + k \in 1 .. Len(window) /\ j + k <= last
             /\ Follows(window'[j], cut, x, k, j + k)
  <2>1. PICK m : m = j + k OBVIOUS
  <2>2. m \in 1 .. Len(window) /\ m <= last BY <1>1, <1>6, <2>1
  <2>3. PICK w : w = window'[j] OBVIOUS
  <2>4. w = Moved(cut, x, k, m) BY <1>2, <1>6, <2>1, <2>3
  <2> QED BY <1>1, <2>1, <2>2, <2>3, <2>4, MovedIs
<1>7. CASE i <= last - k
  <2>1. i \in 1 .. last - k BY <1>1, <1>7
  <2> QED BY <1>6, <2>1 DEF last
<1>8. CASE ~(i <= last - k)
  <2>1. PICK j : j = i - (last - k) OBVIOUS
  <2>2. /\ j \in 1 .. Len(batch) /\ i = last - k + j /\ i > last - k
        /\ Len(batch) > 0
    BY <1>1, <1>8, <2>1
  <2>3. cut = None /\ ~recovering /\ last = Len(window) BY <1>1, <1>5, <2>2
  <2>4. PICK u : u = batch[j] OBVIOUS
  <2>5. Dispatched(u, j, batch[1]) BY <1>4, <2>2, <2>4
  <2>6. PICK w : w = window'[i] OBVIOUS
  <2>7. w = Reread(u, k) BY <1>3, <2>2, <2>4, <2>6
  <2>8. u \in Entries BY <2>5 DEF Dispatched
  <2>9. /\ w \in Entries /\ w.op = u.op /\ w.stage = u.stage
        /\ w.fresh = u.fresh
        /\ u.src = None => w.src = None /\ w.ready = u.ready
        /\ u.src # None /\ u.src <= k => w.src = None /\ w.ready
        /\ u.src # None /\ u.src > k =>
              w.src = u.src - k /\ w.src \in Uops /\ w.ready = u.ready
    <3>1. k \in 0 .. 2 BY <1>1
    <3> QED BY <2>7, <2>8, <3>1, RereadIs
  <2>10. w.stage = "rs" /\ w.fresh BY <2>5, <2>9 DEF Dispatched
  <2>11. ASSUME w.src # None
         PROVE  /\ w.op = "use" /\ ~w.ready /\ w.src \in 1 .. i - 1
                /\ window'[w.src].op \in {"div", "mul"}
    <3>1. u.src # None BY <2>9, <2>11
    <3>2. /\ u.op = "use" /\ u.src \in 1 .. Len(window) + j - 1
          /\ u.src <= Len(window) => window[u.src].op \in {"div", "mul"}
          /\ u.src > Len(window) =>
                u.src = Len(window) + 1 /\ batch[1].op \in {"div", "mul"}
          /\ u.ready = FALSE
      BY <2>5, <3>1 DEF Dispatched
    <3>3. u.src > k /\ u.src \in Nat
      <4>1. u.src \in Nat /\ k \in Nat BY <1>1, <2>2, <3>2
      <4>2. ~(u.src <= k) BY <2>9, <2>11, <3>1
      <4> QED BY <4>1, <4>2
    <3>4. w.src = u.src - k /\ w.op = "use" /\ ~w.ready
      BY <2>9, <3>1, <3>2, <3>3
    <3>5. w.src \in 1 .. i - 1 BY <1>1, <2>2, <2>3, <3>2, <3>3, <3>4, SMTT(30)
    <3>6. CASE u.src <= Len(window)
      <4>1. w.src \in 1 .. last - k /\ w.src + k = u.src
        BY <1>1, <2>3, <3>2, <3>3, <3>4, <3>6
      <4>2. Follows(window'[w.src], cut, x, k, u.src) BY <1>6, <4>1
      <4>3. window'[w.src].op = window[u.src].op BY <4>2 DEF Follows
      <4> QED BY <3>2, <3>4, <3>5, <3>6, <4>3
    <3>7. CASE u.src > Len(window)
      <4>1. w.src = last - k + 1 /\ 1 \in 1 .. Len(batch)
        BY <1>1, <2>2, <2>3, <3>2, <3>4, <3>7
      <4>2. window'[w.src] = Reread(batch[1], k) BY <1>3, <4>1
      <4>3. Dispatched(batch[1], 1, batch[1]) BY <1>4, <4>1
      <4>4. batch[1] \in Entries BY <4>3 DEF Dispatched
      <4>5. PICK v : v = window'[w.src] OBVIOUS
      <4>6. v.op = batch[1].op BY <1>1, <4>2, <4>4, <4>5, RereadIs
      <4> QED BY <3>2, <3>4, <3>5, <3>7, <4>5, <4>6
    <3> QED BY <1>1, <3>3, <3>6, <3>7
  <2> QED BY <2>2, <2>3, <2>6, <2>10, <2>11 DEF last
<1>9. i <= last - k \/ ~(i <= last - k) OBVIOUS
<1> QED BY <1>7, <1>8, <1>9

\* A uop that is neither retired nor squashed is found again, k places on.
LEMMA UopStays ==
    ASSUME Shape, NEW cut, NEW k, NEW x, NEW batch, NEW n,
           Edge(cut, k, x, batch, n), NEW u \in 1 .. Last(cut), u > k
    PROVE  /\ u \in 1 .. Len(window) /\ u - k \in 1 .. Last(cut) - k
           /\ u - k \in 1 .. Len(window') /\ u - k \in Uops
           /\ Follows(window'[u - k], cut, x, k, u)
<1> DEFINE last == Last(cut)
<1>1. /\ last \in 0 .. Len(window) /\ k \in 0 .. last
      /\ Len(window) \in Nat /\ Len(batch) \in 0 .. 2
      /\ Len(window') = last - k + Len(batch) /\ Len(window') <= WINDOW
  BY WindowStep
<1> HIDE DEF last
<1>2. u \in 1 .. last BY DEF last
<1>3. PICK m : m = u - k OBVIOUS
<1>4. /\ m \in 1 .. last - k /\ m \in 1 .. Len(window')
      /\ m + k = u /\ u \in 1 .. Len(window)
  BY <1>1, <1>2, <1>3
<1>5. m \in Uops BY <1>1, <1>4, MduAssumption DEF Uops
<1>6. ~(m > last - k) BY <1>1, <1>4
<1>7. Follows(window'[m], cut, x, k, m + k) BY <1>4, <1>6, UopsStep DEF last
<1> QED BY <1>3, <1>4, <1>5, <1>7 DEF last

\* A uop that has not finished is not retired, and keeps a name while it is
\* not squashed.
LEMMA UnfinishedStays ==
    ASSUME Shape, NEW cut, NEW k, NEW x, NEW batch, NEW n,
           Edge(cut, k, x, batch, n),
           NEW u \in 1 .. Len(window), u \notin Finished
    PROVE  u > k /\ (Kept(cut, u) <=> u \in 1 .. Last(cut))
<1>1. \A i \in 1 .. k : i \in Finished BY DEF Edge, Cycle
<1>2. u \notin 1 .. k BY <1>1
<1>3. k \in 0 .. 2 /\ Len(window) \in Nat BY WindowStep
<1>4. u > k BY <1>2, <1>3
<1>5. cut \in 0 .. Len(window) \cup {None} BY DEF Edge
<1>6. CASE cut = None BY <1>3, <1>4, <1>6 DEF Kept, Last
<1>7. CASE cut # None BY <1>3, <1>4, <1>5, <1>7 DEF Kept, Last
<1> QED BY <1>6, <1>7

\* What a name becomes: that of the same uop, Ghost, or None once retired.
LEMMA RenamedIs ==
    ASSUME Shape, NEW cut, NEW k, NEW x, NEW batch, NEW n,
           Edge(cut, k, x, batch, n), NEW u \in Names, NEW r,
           u \in Uops => u <= Len(window), r = Renamed(cut, k, u)
    PROVE  /\ r \in Names
           /\ r \in Uops => /\ u \in Uops /\ r = u - k /\ r <= Len(window')
                            /\ u \in 1 .. Last(cut) /\ u > k
           /\ u \in 1 .. Last(cut) /\ u > k => r = u - k
<1>1. /\ Last(cut) \in 0 .. Len(window) /\ k \in 0 .. Last(cut)
      /\ Len(window) \in Nat /\ k \in 0 .. 2
  BY WindowStep
<1>2. /\ WINDOW \in Nat /\ None \notin Nat /\ Ghost \notin Nat
      /\ Len(window) <= WINDOW
  BY MduAssumption DEF Shape
<1>3. None \notin Uops /\ Ghost \notin Uops BY <1>2 DEF Uops
<1>4. CASE u \notin Uops
  <2>1. r = u BY <1>4 DEF Renamed
  <2>2. u \notin 1 .. Last(cut) BY <1>1, <1>2, <1>4 DEF Uops
  <2> QED BY <1>4, <2>1, <2>2
<1>5. CASE u \in Uops
  <2>1. u \in 1 .. Len(window) BY <1>1, <1>2, <1>5 DEF Uops
  <2>2. Kept(cut, u) <=> u \in 1 .. Last(cut)
    <3>1. cut \in 0 .. Len(window) \cup {None} BY DEF Edge
    <3>2. CASE cut = None BY <2>1, <3>2 DEF Kept, Last
    <3>3. CASE cut # None BY <1>1, <2>1, <3>1, <3>3 DEF Kept, Last
    <3> QED BY <3>2, <3>3
  <2>3. CASE ~Kept(cut, u)
    <3>1. r = Ghost BY <1>5, <2>3 DEF Renamed
    <3> QED BY <1>3, <2>2, <2>3, <3>1 DEF Names
  <2>4. CASE Kept(cut, u) /\ u <= k
    <3>1. r = None BY <1>5, <2>4 DEF Renamed
    <3>2. ~(u > k) BY <1>1, <2>1, <2>4
    <3> QED BY <1>3, <3>1, <3>2 DEF Names
  <2>5. CASE Kept(cut, u) /\ ~(u <= k)
    <3>1. r = u - k BY <1>5, <2>5 DEF Renamed
    <3>2. u > k /\ u \in 1 .. Last(cut) BY <1>1, <2>1, <2>2, <2>5
    <3>3. u - k \in 1 .. Len(window') /\ u - k \in Uops BY <3>2, UopStays
    <3>4. Len(window') \in Nat BY WindowStep
    <3>5. r <= Len(window') BY <3>1, <3>3, <3>4
    <3> QED BY <1>5, <3>1, <3>2, <3>3, <3>5 DEF Names
  <2> QED BY <2>3, <2>4, <2>5
<1> QED BY <1>4, <1>5

\* The divider's own registers after one step.
LEMMA FsmIs ==
    ASSUME Shape, DivInv, NEW start \in BOOLEAN, NEW n, NEW cut,
           n \in Iterations(cut), start => div_available,
           NEW f, f = DivFsm(start, n)
    PROVE  /\ f \in DivRegs
           /\ f.active = div.active /\ f.pending = div.pending
           /\ f.wen = div.wen /\ f.uop = div.uop
           /\ f.busy <=> f.state # "idle"
           /\ f.done => f.state = "idle"
           /\ start => f.busy \/ f.done
           /\ ~start /\ div.state = "idle" => ~f.busy /\ ~f.done
           /\ ~start /\ div.state # "idle" => f.busy \/ f.done
<1>1. div \in DivRegs BY DEF Shape
<1>2. start => div.state = "idle" BY DEF div_available, DivInv
<1>3. div.state = "shift" /\ n # None => n \in 0 .. ITERS
  BY DEF Iterations
<1>4. ITERS \in Nat BY MduAssumption
<1>5. /\ div.busy <=> div.state # "idle"
      /\ div.done => div.state = "idle"
  BY DEF DivInv
<1>6. CASE start /\ n = None
  <2>1. f = [div EXCEPT !.done = TRUE] BY <1>2, <1>6 DEF DivFsm
  <2> QED BY <1>1, <1>2, <1>5, <1>6, <2>1 DEF DivRegs
<1>7. CASE start /\ n # None
  <2>1. f = [div EXCEPT !.state = "shift", !.busy = TRUE, !.done = FALSE]
    BY <1>2, <1>7 DEF DivFsm
  <2> QED BY <1>1, <1>2, <1>7, <2>1 DEF DivRegs
<1>8. CASE ~start /\ div.state = "idle"
  <2>1. f = [div EXCEPT !.done = FALSE] BY <1>8 DEF DivFsm
  <2> QED BY <1>1, <1>5, <1>8, <2>1 DEF DivRegs
<1>9. CASE ~start /\ div.state = "shift" /\ n = None
  <2>1. f = [div EXCEPT !.state = "idle", !.busy = FALSE, !.done = TRUE]
    BY <1>9 DEF DivFsm
  <2> QED BY <1>1, <1>9, <2>1 DEF DivRegs
<1>10. CASE ~start /\ div.state = "shift" /\ n # None
  <2>1. f = [div EXCEPT !.state = "iter", !.iter = n] BY <1>10 DEF DivFsm
  <2> QED BY <1>1, <1>3, <1>5, <1>10, <2>1 DEF DivRegs
<1>11. CASE ~start /\ div.state = "iter" /\ div.iter = 0
  <2>1. f = [div EXCEPT !.state = "finish"] BY <1>11 DEF DivFsm, Iterate
  <2> QED BY <1>1, <1>5, <1>11, <2>1 DEF DivRegs
<1>12. CASE ~start /\ div.state = "iter" /\ div.iter # 0
  <2>1. f = [div EXCEPT !.iter = @ - 1] BY <1>12 DEF DivFsm, Iterate
  <2>2. div.iter \in 0 .. ITERS BY <1>1 DEF DivRegs
  <2>3. div.iter - 1 \in 0 .. ITERS BY <1>4, <1>12, <2>2
  <2> QED BY <1>1, <1>5, <1>12, <2>1, <2>3 DEF DivRegs
<1>13. CASE ~start /\ div.state = "finish"
  <2>1. f = [div EXCEPT !.state = "idle", !.busy = FALSE, !.done = TRUE]
    BY <1>13 DEF DivFsm
  <2> QED BY <1>1, <1>13, <2>1 DEF DivRegs
<1>14. div.state \in {"idle", "shift", "iter", "finish"} BY <1>1 DEF DivRegs
<1> QED BY <1>6, <1>7, <1>8, <1>9, <1>10, <1>11, <1>12, <1>13, <1>14

\* The division that a cycle starts, and the quotient that is over.
Started(cut) == CHOOSE i \in Starts(cut) : TRUE
Over == div.done /\ div.active

\* A division that starts was in EX and is not squashed.
LEMMA StartedIs ==
    ASSUME Shape, NEW cut, NEW k, NEW x, NEW batch, NEW n,
           Edge(cut, k, x, batch, n), Starts(cut) # {}, NEW u,
           u = Started(cut)
    PROVE  /\ u \in 1 .. Last(cut) /\ u > k /\ u \in Starts(cut)
           /\ window[u].stage = "ex" /\ Divides(window[u].op)
           /\ u \in 1 .. Len(window) /\ u \in Names /\ u <= Len(window)
           /\ div_available
<1>1. u \in Starts(cut) BY DEF Started
<1>2. /\ u \in 1 .. Len(window) /\ window[u].stage = "ex"
      /\ Divides(window[u].op) /\ Kept(cut, u) /\ div_available
  BY <1>1 DEF Starts, In
<1>3. u \notin Finished BY <1>2 DEF Finished, In
<1>4. u > k /\ u \in 1 .. Last(cut) BY <1>2, <1>3, UnfinishedStays
<1>5. Len(window) \in Nat /\ Len(window) <= WINDOW BY DEF Shape
<1>6. u \in Names BY <1>2, <1>5, MduAssumption DEF Names, Uops
<1> QED BY <1>1, <1>2, <1>4, <1>5, <1>6

\* The divider and its registers after a clock edge.
LEMMA DivStepIs ==
    ASSUME Shape, DivInv, NEW cut, NEW k, NEW x, NEW batch, NEW n,
           Edge(cut, k, x, batch, n)
    PROVE  /\ div' \in DivRegs /\ DivInv'
           /\ div'.active <=> ~Over /\ (div.active \/ Starts(cut) # {})
           /\ div'.pending <=> IF Over THEN div.wen
                               ELSE div.pending /\ ~DivComplete
           /\ div'.wen <=> IF Starts(cut) # {}
                           THEN window[Started(cut)].op = "div"
                           ELSE div.wen /\ (Over \/ ~DivComplete)
           /\ div'.uop = IF Starts(cut) # {} THEN Renamed(cut, k, Started(cut))
                         ELSE IF DivComplete \/ (Over /\ ~div.wen) THEN None
                         ELSE Renamed(cut, k, div.uop)
           /\ div'.uop \in Uops => div'.uop <= Len(window')
           /\ div_available /\ Starts(cut) = {} => div_available'
           /\ Over \/ div.pending \/ div.active => Starts(cut) = {}
<1>1. PICK S : S = Starts(cut) OBVIOUS
<1>2. PICK start \in BOOLEAN : start = (S # {}) OBVIOUS
<1>3. PICK f : f = DivFsm(start, n) OBVIOUS
<1>4. div \in DivRegs BY DEF Shape
<1>5. start => div_available BY <1>1, <1>2, StartedIs
<1>6. start => ~div.active /\ ~div.pending /\ ~Over
  BY <1>5 DEF div_available, Over
<1>7. n \in Iterations(cut) BY DEF Edge
<1>8. /\ f \in DivRegs
      /\ f.active = div.active /\ f.pending = div.pending
      /\ f.wen = div.wen /\ f.uop = div.uop
      /\ f.busy <=> f.state # "idle"
      /\ f.done => f.state = "idle"
      /\ start => f.busy \/ f.done
      /\ ~start /\ div.state = "idle" => ~f.busy /\ ~f.done
      /\ ~start /\ div.state # "idle" => f.busy \/ f.done
  BY <1>3, <1>5, <1>7, FsmIs
<1>9. PICK c \in BOOLEAN : c = DivComplete
  BY DEF DivComplete
<1>10. PICK o \in BOOLEAN : o = Over
  BY DEF Over
<1>11. PICK r : r = IF start THEN Renamed(cut, k, Started(cut))
                    ELSE IF c \/ (o /\ ~div.wen) THEN None
                    ELSE Renamed(cut, k, div.uop)
  OBVIOUS
<1>12. PICK e \in BOOLEAN : e = (window[Started(cut)].op = "div")
  OBVIOUS
<1>13. div' = [f EXCEPT
          !.active = IF o THEN FALSE ELSE @ \/ start,
          !.pending = IF o THEN div.wen ELSE @ /\ ~c,
          !.wen = IF start THEN e ELSE @ /\ (o \/ ~c),
          !.uop = IF start THEN Renamed(cut, k, Started(cut))
                  ELSE IF c \/ (o /\ ~div.wen) THEN None
                  ELSE Renamed(cut, k, @)]
  BY <1>1, <1>2, <1>3, <1>9, <1>10, <1>12
     DEF Edge, Cycle, DivStep, Started, Over
<1>14. div' = [f EXCEPT
          !.active = IF o THEN FALSE ELSE div.active \/ start,
          !.pending = IF o THEN div.wen ELSE div.pending /\ ~c,
          !.wen = IF start THEN e ELSE div.wen /\ (o \/ ~c),
          !.uop = r]
  BY <1>4, <1>8, <1>11, <1>13 DEF DivRegs
<1>15. PICK a \in BOOLEAN : a = IF o THEN FALSE ELSE div.active \/ start
  BY <1>4 DEF DivRegs
<1>16. PICK p \in BOOLEAN : p = IF o THEN div.wen ELSE div.pending /\ ~c
  BY <1>4 DEF DivRegs
<1>17. PICK w \in BOOLEAN : w = IF start THEN e ELSE div.wen /\ (o \/ ~c)
  BY <1>4 DEF DivRegs
<1>18. r \in Names /\ (r \in Uops => r <= Len(window'))
  <2>1. CASE start
    <3>1. PICK u : u = Started(cut) OBVIOUS
    <3>2. u \in Names /\ u <= Len(window)
      BY <1>1, <1>2, <2>1, <3>1, StartedIs
    <3>3. r = Renamed(cut, k, u) BY <1>11, <2>1, <3>1
    <3> QED BY <3>2, <3>3, RenamedIs
  <2>2. CASE ~start /\ (c \/ (o /\ ~div.wen))
    <3>1. r = None BY <1>11, <2>2
    <3>2. None \notin Uops BY MduAssumption DEF Uops
    <3> QED BY <3>1, <3>2 DEF Names
  <2>3. CASE ~start /\ ~(c \/ (o /\ ~div.wen))
    <3>1. r = Renamed(cut, k, div.uop) BY <1>11, <2>3
    <3>2. PICK u : u = div.uop OBVIOUS
    <3>3. u \in Names /\ (u \in Uops => u <= Len(window))
      BY <1>4, <3>2 DEF DivRegs, Shape
    <3>4. r = Renamed(cut, k, u) BY <3>1, <3>2
    <3> QED BY <3>3, <3>4, RenamedIs
  <2> QED BY <2>1, <2>2, <2>3
<1>19. div' = [f EXCEPT !.active = a, !.pending = p, !.wen = w, !.uop = r]
  BY <1>14, <1>15, <1>16, <1>17
<1>20. /\ div' \in DivRegs /\ div'.active = a /\ div'.pending = p
       /\ div'.wen = w /\ div'.uop = r /\ div'.state = f.state
       /\ div'.busy = f.busy /\ div'.done = f.done
  <2>1. f \in DivRegs /\ r \in Names BY <1>8, <1>18
  <2> QED BY <1>19, <2>1 DEF DivRegs
<1>21. /\ div.busy <=> div.state # "idle"
       /\ div.done => div.state = "idle"
       /\ div.active <=> div.busy \/ div.done
       /\ div.pending => div.wen /\ ~div.active
  BY DEF DivInv
<1>22. a <=> f.busy \/ f.done
  <2>1. CASE start BY <1>6, <1>8, <1>10, <1>15, <2>1
  <2>2. CASE ~start /\ div.state = "idle"
    BY <1>8, <1>10, <1>15, <1>21, <2>2 DEF Over
  <2>3. CASE ~start /\ div.state # "idle"
    BY <1>8, <1>10, <1>15, <1>21, <2>3 DEF Over
  <2> QED BY <2>1, <2>2, <2>3
<1>23. p => w /\ ~a
  <2>1. CASE o
    <3>1. ~start BY <1>6, <1>10, <2>1
    <3> QED BY <1>15, <1>16, <1>17, <2>1, <3>1
  <2>2. CASE ~o
    <3>1. p => div.pending /\ ~c BY <1>16, <2>2
    <3>2. p => ~start BY <1>6, <3>1
    <3> QED BY <1>15, <1>17, <1>21, <2>2, <3>1, <3>2
  <2> QED BY <2>1, <2>2
<1>24. DivInv' BY <1>8, <1>20, <1>22, <1>23 DEF DivInv
<1>25. div_available /\ ~start => div_available'
  <2>1. SUFFICES ASSUME div_available, ~start PROVE div_available' OBVIOUS
  <2>2. ~div.active /\ ~div.pending /\ ~div.busy /\ ~div.done
    BY <2>1 DEF div_available
  <2>3. ~f.busy /\ ~f.done BY <1>8, <1>21, <2>1, <2>2
  <2>4. ~a /\ ~p BY <1>10, <1>15, <1>16, <2>1, <2>2 DEF Over
  <2> QED BY <1>20, <2>3, <2>4 DEF div_available
<1>26. (Over \/ div.pending \/ div.active) => ~start BY <1>6
<1>27. div'.active <=> ~Over /\ (div.active \/ Starts(cut) # {})
  BY <1>1, <1>2, <1>10, <1>15, <1>20
<1>28. div'.pending <=> IF Over THEN div.wen
                        ELSE div.pending /\ ~DivComplete
  BY <1>9, <1>10, <1>16, <1>20
<1>29. div'.wen <=> IF Starts(cut) # {} THEN window[Started(cut)].op = "div"
                    ELSE div.wen /\ (Over \/ ~DivComplete)
  BY <1>1, <1>2, <1>9, <1>10, <1>12, <1>17, <1>20
<1>30. div'.uop = IF Starts(cut) # {} THEN Renamed(cut, k, Started(cut))
                  ELSE IF DivComplete \/ (Over /\ ~div.wen) THEN None
                  ELSE Renamed(cut, k, div.uop)
  BY <1>1, <1>2, <1>9, <1>10, <1>11, <1>20
<1> QED BY <1>1, <1>2, <1>18, <1>20, <1>24, <1>25, <1>26, <1>27, <1>28,
           <1>29, <1>30

(***************************************************************************)
(* The invariant, part by part.                                            *)
(***************************************************************************)
\* How the stages follow each other.
LEMMA StageIs ==
    ASSUME NEW cut, NEW x, NEW i, NEW t, t = NextStage(cut, x, i),
           NEW u, u = window[i]
    PROVE  /\ u.stage = "rs" => t = IF i \in x THEN "operand" ELSE "rs"
           /\ u.stage = "operand" =>
                 t = IF cut # None THEN "operand"
                     ELSE IF u.op = "use" THEN "resident" ELSE "ex"
           /\ u.stage = "ex" =>
                 t = IF u.op = "divx" THEN "resident"
                     ELSE IF u.op = "div" /\ i \notin Starts(cut) THEN "lost"
                     ELSE "mdu"
           /\ u.stage = "mdu" => t = IF i = Result THEN "completed" ELSE "mdu"
           /\ u.stage = "completed" => t = "resident"
           /\ u.stage \in {"resident", "lost"} => t = u.stage
BY DEF NextStage

\* Where a uop may have come from.
LEMMA StageFrom ==
    ASSUME Shape, NEW cut, NEW x, NEW i \in 1 .. Len(window), NEW t,
           t = NextStage(cut, x, i), NEW u, u = window[i]
    PROVE  /\ t = "rs" => u.stage = "rs" /\ i \notin x
           /\ t = "operand" => \/ u.stage = "rs" /\ i \in x
                               \/ u.stage = "operand" /\ cut # None
           /\ t = "ex" => u.stage = "operand" /\ cut = None /\ u.op # "use"
           /\ t = "resident" =>
                 \/ u.stage \in {"completed", "resident"}
                 \/ u.stage = "operand" /\ u.op = "use"
                 \/ u.stage = "ex" /\ u.op = "divx"
<1>1. window[i] \in Entries BY DEF Shape
<1>2. u.stage \in Stages BY <1>1 DEF Entries
<1>3. /\ u.stage = "rs" => t = IF i \in x THEN "operand" ELSE "rs"
      /\ u.stage = "operand" =>
            t = IF cut # None THEN "operand"
                ELSE IF u.op = "use" THEN "resident" ELSE "ex"
      /\ u.stage = "ex" => t \in {"resident", "lost", "mdu"}
                           /\ (t = "resident" => u.op = "divx")
      /\ u.stage = "mdu" => t \in {"completed", "mdu"}
      /\ u.stage = "completed" => t = "resident"
      /\ u.stage \in {"resident", "lost"} => t = u.stage
  BY StageIs
<1> QED BY <1>2, <1>3 DEF Stages

\* The multiplier after a clock edge.
LEMMA MulStepIs ==
    ASSUME Shape, NameInv, NEW cut, NEW k, NEW x, NEW batch, NEW n,
           Edge(cut, k, x, batch, n), NEW s \in 0 .. 3
    PROVE  /\ mul'[s] \in Names
           /\ mul'[s] \in Uops =>
                \E v \in Uops :
                   /\ mul'[s] = v - k /\ v \in 1 .. Last(cut) /\ v > k
                   /\ window[v].op = "mul"
                   /\ IF s > 0 THEN v = mul[s - 1] /\ window[v].stage = "mdu"
                      ELSE window[v].stage = "ex"
           /\ mul' \in [0 .. 3 -> Names]
<1>1. None \in Names /\ None \notin Uops BY MduAssumption DEF Names, Uops
<1>2. mul \in [0 .. 3 -> Names] /\ Len(window) \in Nat BY DEF Shape
<1>3. ASSUME NEW t \in 0 .. 3
      PROVE  \E v \in Names :
                /\ mul'[t] = Renamed(cut, k, v)
                /\ v \in Uops =>
                     /\ v <= Len(window) /\ window[v].op = "mul"
                     /\ IF t > 0 THEN v = mul[t - 1] /\ window[v].stage = "mdu"
                        ELSE window[v].stage = "ex"
  <2>1. mul'[t] = Renamed(cut, k, IF t > 0 THEN mul[t - 1]
                                  ELSE IF MulIssues(cut) = {} THEN None
                                  ELSE CHOOSE i \in MulIssues(cut) : TRUE)
    BY <1>3 DEF Edge, Cycle, MulStep
  <2>2. CASE t > 0
    <3>1. t - 1 \in 0 .. 3 BY <2>2
    <3>2. PICK v : v = mul[t - 1] OBVIOUS
    <3>3. v \in Names BY <1>2, <3>1, <3>2
    <3>4. (v \in Uops => /\ v <= Len(window) /\ window[v].op = "mul"
                         /\ window[v].stage = "mdu")
      BY <3>1, <3>2 DEF NameInv
    <3>5. mul'[t] = Renamed(cut, k, v) BY <2>1, <2>2, <3>2
    <3> QED BY <2>2, <3>2, <3>3, <3>4, <3>5
  <2>3. CASE ~(t > 0) /\ MulIssues(cut) = {}
    <3>1. mul'[t] = Renamed(cut, k, None) BY <2>1, <2>3
    <3> QED BY <1>1, <3>1
  <2>4. CASE ~(t > 0) /\ MulIssues(cut) # {}
    <3>1. PICK v : v = CHOOSE i \in MulIssues(cut) : TRUE OBVIOUS
    <3>2. v \in MulIssues(cut) BY <2>4, <3>1
    <3>3. /\ v \in 1 .. Len(window) /\ window[v].stage = "ex"
          /\ window[v].op = "mul"
      BY <3>2 DEF MulIssues, In
    <3>4. v \in Names /\ v <= Len(window)
      BY <1>2, <3>3, MduAssumption DEF Names, Uops, Shape
    <3>5. mul'[t] = Renamed(cut, k, v) BY <2>1, <2>4, <3>1
    <3> QED BY <2>4, <3>3, <3>4, <3>5
  <2> QED BY <2>2, <2>3, <2>4
<1>4. ASSUME NEW t \in 0 .. 3
      PROVE  /\ mul'[t] \in Names
             /\ mul'[t] \in Uops =>
                \E v \in Uops :
                   /\ mul'[t] = v - k /\ v \in 1 .. Last(cut) /\ v > k
                   /\ window[v].op = "mul"
                   /\ IF t > 0 THEN v = mul[t - 1] /\ window[v].stage = "mdu"
                      ELSE window[v].stage = "ex"
  <2>1. PICK v \in Names :
                /\ mul'[t] = Renamed(cut, k, v)
                /\ v \in Uops =>
                     /\ v <= Len(window) /\ window[v].op = "mul"
                     /\ IF t > 0 THEN v = mul[t - 1] /\ window[v].stage = "mdu"
                        ELSE window[v].stage = "ex"
    BY <1>3, <1>4
  <2>2. PICK r : r = mul'[t] OBVIOUS
  <2>3. /\ r \in Names
        /\ r \in Uops => /\ v \in Uops /\ r = v - k
                         /\ v \in 1 .. Last(cut) /\ v > k
    BY <2>1, <2>2, RenamedIs
  <2> QED BY <2>1, <2>2, <2>3
<1>5. DOMAIN mul' = 0 .. 3 /\ mul' = [t \in 0 .. 3 |-> mul'[t]]
  BY DEF Edge, Cycle, MulStep
<1>6. mul' \in [0 .. 3 -> Names] BY <1>4, <1>5
<1> QED BY <1>4, <1>6

\* The registers keep their shape.
LEMMA ShapeStep ==
    ASSUME Shape, DivInv, NameInv, NEW cut, NEW k, NEW x, NEW batch, NEW n,
           Edge(cut, k, x, batch, n)
    PROVE  Shape'
<1>1. window' \in Seq(Entries) /\ Len(window') <= WINDOW BY WindowStep
<1>2. ASSUME NEW i \in 1 .. Len(window'), window'[i].src # None
      PROVE  window'[i].src < i
  <2>1. PICK w : w = window'[i] OBVIOUS
  <2>2. CASE /\ i \in 1 .. Last(cut) - k /\ i + k \in 1 .. Len(window)
             /\ Follows(w, cut, x, k, i + k)
    <3>1. PICK j : j = i + k OBVIOUS
    <3>2. j \in 1 .. Len(window) /\ Follows(w, cut, x, k, j) BY <2>2, <3>1
    <3>3. window[j] \in Entries BY <3>2 DEF Shape
    <3>4. window[j].src # None BY <1>2, <2>1, <3>2 DEF Follows
    <3>5. window[j].src \in 1 .. WINDOW BY <3>3, <3>4 DEF Entries, Uops
    <3>6. window[j].src < j BY <3>2, <3>4 DEF Shape
    <3>7. k \in 0 .. 2 /\ Len(window) \in Nat BY WindowStep
    <3>8. window[j].src <= k \/ window[j].src > k
      BY <3>5, <3>7, MduAssumption
    <3>9. w.src = window[j].src - k
      BY <1>2, <2>1, <3>2, <3>4, <3>8 DEF Follows
    <3>10. i \in Nat BY <2>2, <3>7, WindowStep
    <3> QED BY <2>1, <3>1, <3>5, <3>6, <3>7, <3>9, <3>10, MduAssumption
  <2>3. CASE w.src # None => w.src \in 1 .. i - 1
    <3>1. w.src \in 1 .. i - 1 BY <1>2, <2>1, <2>3
    <3>2. Len(window') \in Nat BY <1>1
    <3> QED BY <2>1, <3>1, <3>2
  <2> QED BY <2>1, <2>2, <2>3, UopsStep
<1>3. /\ div' \in DivRegs
      /\ div'.uop \in Uops => div'.uop <= Len(window')
  BY DivStepIs
<1>4. mul' \in [0 .. 3 -> Names]
  <2>1. 0 \in 0 .. 3 OBVIOUS
  <2> QED BY <2>1, MulStepIs
<1>5. recovering' \in BOOLEAN BY DEF Edge, Cycle
<1>6. exposed' \in BOOLEAN BY DEF Edge, Cycle
<1>7. Reservation(cut, x) BY DEF Edge, Cycle
<1>8. div_available \in BOOLEAN BY DEF div_available
<1>9. available' \in BOOLEAN /\ reserved' \in BOOLEAN /\ busy_seen' \in BOOLEAN
  <2>1. CASE cut # None BY <1>7, <2>1 DEF Reservation
  <2>2. CASE cut = None
    <3>1. available' = div_available BY <1>7, <2>2 DEF Reservation
    <3>2. reserved' \in BOOLEAN BY <1>7, <2>2, Zenon DEF Reservation
    <3>3. busy_seen' \in BOOLEAN BY <1>7, <2>2, Zenon DEF Reservation
    <3> QED BY <1>8, <3>1, <3>2, <3>3
  <2> QED BY <2>1, <2>2
<1> QED BY <1>1, <1>2, <1>3, <1>4, <1>5, <1>6, <1>9 DEF Shape

\* The names in the units stay those of uops that wait.
LEMMA NameStep ==
    ASSUME Shape, DivInv, NameInv, NEW cut, NEW k, NEW x, NEW batch, NEW n,
           Edge(cut, k, x, batch, n)
    PROVE  NameInv'
<1>1. /\ Last(cut) \in 0 .. Len(window) /\ k \in 0 .. Last(cut)
      /\ Len(window) \in Nat /\ k \in 0 .. 2
  BY WindowStep
<1>2. div \in DivRegs /\ mul \in [0 .. 3 -> Names] BY DEF Shape
<1>3. 3 \in 0 .. 3 /\ None \notin Uops BY MduAssumption DEF Uops
<1>4. ASSUME NEW s \in 0 .. 3, mul'[s] \in Uops
      PROVE  /\ mul'[s] <= Len(window')
             /\ window'[mul'[s]].stage = "mdu" /\ window'[mul'[s]].op = "mul"
  <2>1. PICK v \in Uops :
           /\ mul'[s] = v - k /\ v \in 1 .. Last(cut) /\ v > k
           /\ window[v].op = "mul"
           /\ IF s > 0 THEN v = mul[s - 1] /\ window[v].stage = "mdu"
              ELSE window[v].stage = "ex"
    BY <1>4, MulStepIs
  <2>2. PICK r : r = v - k OBVIOUS
  <2>3. PICK w : w = window'[r] OBVIOUS
  <2>4. Follows(w, cut, x, k, v) /\ r \in 1 .. Len(window')
    BY <2>1, <2>2, <2>3, UopStays
  <2>5. w.op = "mul" /\ w.stage = NextStage(cut, x, v)
    BY <2>1, <2>4 DEF Follows
  <2>6. w.stage = "mdu"
    <3>1. CASE s > 0
      <4>1. v = mul[s - 1] /\ window[v].stage = "mdu" /\ s - 1 \in 0 .. 3
        BY <2>1, <3>1
      <4>2. v # Result
        <5>1. v # mul[3]
          <6>1. s - 1 # 3 BY <1>4
          <6> QED BY <1>3, <4>1, <6>1 DEF NameInv
        <5>2. v # None BY <1>3
        <5>3. ASSUME div.pending PROVE v # div.uop
          <6>1. div.wen BY <5>3 DEF DivInv
          <6>2. div.uop \in Uops => window[div.uop].op = "div"
            BY <5>3, <6>1 DEF NameInv
          <6> QED BY <2>1, <6>2
        <5> QED BY <5>1, <5>2, <5>3 DEF Result
      <4> QED BY <2>5, <4>1, <4>2, StageIs
    <3>2. CASE ~(s > 0)
      <4>1. window[v].stage = "ex" /\ window[v].op = "mul" BY <2>1, <3>2
      <4> QED BY <2>5, <4>1, StageIs
    <3> QED BY <3>1, <3>2
  <2>7. Len(window') \in Nat BY WindowStep
  <2> QED BY <2>1, <2>2, <2>3, <2>4, <2>5, <2>6, <2>7
<1>5. ASSUME NEW s \in 0 .. 3, NEW t \in 0 .. 3,
             mul'[s] \in Uops, mul'[s] = mul'[t]
      PROVE  s = t
  <2>1. PICK v \in Uops :
           /\ mul'[s] = v - k /\ v \in 1 .. Last(cut) /\ v > k
           /\ window[v].op = "mul"
           /\ IF s > 0 THEN v = mul[s - 1] /\ window[v].stage = "mdu"
              ELSE window[v].stage = "ex"
    BY <1>5, MulStepIs
  <2>2. PICK v2 \in Uops :
           /\ mul'[t] = v2 - k /\ v2 \in 1 .. Last(cut) /\ v2 > k
           /\ window[v2].op = "mul"
           /\ IF t > 0 THEN v2 = mul[t - 1] /\ window[v2].stage = "mdu"
              ELSE window[v2].stage = "ex"
    BY <1>5, MulStepIs
  <2>3. v = v2
    <3>1. v \in Int /\ v2 \in Int /\ k \in Int
      BY <1>1, MduAssumption DEF Uops
    <3>2. v - k = v2 - k BY <1>5, <2>1, <2>2
    <3> QED BY <3>1, <3>2
  <2>4. CASE s > 0 /\ t > 0
    <3>1. /\ s - 1 \in 0 .. 3 /\ t - 1 \in 0 .. 3
          /\ mul[s - 1] \in Uops /\ mul[s - 1] = mul[t - 1]
      BY <2>1, <2>2, <2>3, <2>4
    <3>2. s - 1 = t - 1 BY <3>1 DEF NameInv
    <3> QED BY <3>2
  <2>5. CASE s > 0 /\ ~(t > 0) BY <2>1, <2>2, <2>3, <2>5
  <2>6. CASE ~(s > 0) /\ t > 0 BY <2>1, <2>2, <2>3, <2>6
  <2>7. CASE ~(s > 0) /\ ~(t > 0) BY <2>7
  <2> QED BY <2>4, <2>5, <2>6, <2>7
<1>6. ASSUME div'.active \/ div'.pending, div'.uop \in Uops
      PROVE  IF div'.wen THEN /\ window'[div'.uop].stage = "mdu"
                              /\ window'[div'.uop].op = "div"
             ELSE window'[div'.uop].op = "divx"
  <2>1. CASE Starts(cut) # {}
    <3>1. PICK u : u = Started(cut) OBVIOUS
    <3>2. /\ u \in 1 .. Last(cut) /\ u > k /\ u \in Starts(cut)
          /\ window[u].stage = "ex" /\ Divides(window[u].op)
          /\ u \in Names /\ u <= Len(window)
      BY <2>1, <3>1, StartedIs
    <3>3. (div'.wen <=> window[u].op = "div") /\ div'.uop = Renamed(cut, k, u)
      BY <2>1, <3>1, DivStepIs
    <3>4. PICK r : r = div'.uop OBVIOUS
    <3>5. r = u - k BY <3>2, <3>3, <3>4, RenamedIs
    <3>6. PICK w : w = window'[r] OBVIOUS
    <3>7. Follows(w, cut, x, k, u) BY <3>2, <3>5, <3>6, UopStays
    <3>8. w.op = window[u].op /\ w.stage = NextStage(cut, x, u)
      BY <3>7 DEF Follows
    <3>9. window[u].op = "div" => w.stage = "mdu"
      BY <3>2, <3>8, StageIs
    <3>10. window[u].op # "div" => window[u].op = "divx"
      BY <3>2 DEF Divides
    <3> QED BY <3>3, <3>4, <3>6, <3>8, <3>9, <3>10
  <2>2. CASE Starts(cut) = {}
    <3>1. /\ div'.active <=> ~Over /\ div.active
          /\ div'.pending <=> IF Over THEN div.wen
                              ELSE div.pending /\ ~DivComplete
          /\ div'.wen <=> div.wen /\ (Over \/ ~DivComplete)
          /\ div'.uop = IF DivComplete \/ (Over /\ ~div.wen) THEN None
                        ELSE Renamed(cut, k, div.uop)
      BY <2>2, DivStepIs
    <3>2. ~(DivComplete \/ (Over /\ ~div.wen)) BY <1>3, <1>6, <3>1
    <3>3. (div'.wen <=> div.wen) /\ div'.uop = Renamed(cut, k, div.uop)
      BY <3>1, <3>2
    <3>4. div.active \/ div.pending BY <1>6, <3>1 DEF Over
    <3>5. PICK u : u = div.uop OBVIOUS
    <3>6. u \in Names /\ (u \in Uops => u <= Len(window))
      BY <1>2, <3>5 DEF DivRegs, Shape
    <3>7. PICK r : r = div'.uop OBVIOUS
    <3>8. u \in Uops /\ r = u - k /\ u \in 1 .. Last(cut) /\ u > k
      BY <1>6, <3>3, <3>5, <3>6, <3>7, RenamedIs
    <3>9. PICK w : w = window'[r] OBVIOUS
    <3>10. Follows(w, cut, x, k, u) BY <3>8, <3>9, UopStays
    <3>11. w.op = window[u].op /\ w.stage = NextStage(cut, x, u)
      BY <3>10 DEF Follows
    <3>12. IF div.wen THEN window[u].stage = "mdu" /\ window[u].op = "div"
           ELSE window[u].op = "divx"
      BY <3>4, <3>5, <3>8 DEF NameInv
    <3>13. ASSUME div.wen PROVE w.stage = "mdu"
      <4>1. window[u].stage = "mdu" /\ window[u].op = "div" BY <3>12, <3>13
      <4>2. u # mul[3]
        <5>1. mul[3] \in Uops => window[mul[3]].op = "mul"
          BY <1>3 DEF NameInv
        <5> QED BY <3>8, <4>1, <5>1
      <4>3. div.pending => mul[3] # None BY <3>2 DEF DivComplete
      <4>4. u # None BY <1>3, <3>8
      <4>5. u # Result BY <4>2, <4>3, <4>4 DEF Result
      <4> QED BY <3>11, <4>1, <4>5, StageIs
    <3> QED BY <3>3, <3>7, <3>9, <3>11, <3>12, <3>13
  <2> QED BY <2>1, <2>2
<1> QED BY <1>4, <1>5, <1>6 DEF NameInv

\* Nobody else stands where a waiting quotient or product does, and the
\* result port serves who waits for it.
LEMMA ServedIs ==
    ASSUME Shape, DivInv, NameInv
    PROVE  /\ mul[3] \in Uops => /\ mul[3] \in 1 .. Len(window)
                                 /\ window[mul[3]].stage = "mdu"
                                 /\ Result = mul[3]
           /\ div.pending /\ div.uop \in Uops =>
                 /\ div.uop \in 1 .. Len(window)
                 /\ window[div.uop].stage = "mdu"
                 /\ window[div.uop].op = "div"
           /\ DivComplete => Result = div.uop
<1>1. None \notin Uops /\ 3 \in 0 .. 3 /\ WINDOW \in Nat
  BY MduAssumption DEF Uops
<1>2. Len(window) \in Nat BY DEF Shape
<1>3. ASSUME mul[3] \in Uops
      PROVE  /\ mul[3] \in 1 .. Len(window) /\ window[mul[3]].stage = "mdu"
             /\ Result = mul[3]
  <2>1. mul[3] <= Len(window) /\ window[mul[3]].stage = "mdu"
    BY <1>1, <1>3 DEF NameInv
  <2>2. mul[3] \in 1 .. Len(window) BY <1>1, <1>2, <1>3, <2>1 DEF Uops
  <2>3. Result = mul[3] BY <1>1, <1>3 DEF Result
  <2> QED BY <2>1, <2>2, <2>3
<1>4. ASSUME div.pending, div.uop \in Uops
      PROVE  /\ div.uop \in 1 .. Len(window)
             /\ window[div.uop].stage = "mdu" /\ window[div.uop].op = "div"
  <2>1. div.wen BY <1>4 DEF DivInv
  <2>2. window[div.uop].stage = "mdu" /\ window[div.uop].op = "div"
    BY <1>4, <2>1 DEF NameInv
  <2>3. div.uop <= Len(window) BY <1>4 DEF Shape
  <2>4. div.uop \in 1 .. Len(window) BY <1>1, <1>2, <1>4, <2>3 DEF Uops
  <2> QED BY <2>2, <2>4
<1>5. DivComplete => Result = div.uop BY DEF DivComplete, Result
<1> QED BY <1>3, <1>4, <1>5

\* The source of a uop that moved on.
LEMMA SourceStays ==
    ASSUME Shape, NEW cut, NEW k, NEW x, NEW batch, NEW n,
           Edge(cut, k, x, batch, n),
           NEW j \in 1 .. Last(cut), NEW w, Follows(w, cut, x, k, j),
           w.src # None
    PROVE  /\ window[j].src \in 1 .. Last(cut) /\ window[j].src > k
           /\ window[j].src \in Uops /\ window[j].src # None
           /\ window[j].src \in 1 .. Len(window)
           /\ w.src = window[j].src - k /\ w.src \in 1 .. Len(window')
           /\ w.ready => window[j].ready \/ Wakes(window[j])
           /\ window[j].ready \/ Wakes(window[j]) => w.ready
           /\ Follows(window'[w.src], cut, x, k, window[j].src)
<1>1. /\ Last(cut) \in 0 .. Len(window) /\ k \in 0 .. 2
      /\ Len(window) \in Nat
  BY WindowStep
<1>2. PICK s : s = window[j].src OBVIOUS
<1>3. PICK last \in Nat : last = Last(cut) BY <1>1
<1>4. j \in 1 .. last /\ last <= Len(window) BY <1>1, <1>3
<1>5. j \in 1 .. Len(window) BY <1>1, <1>4
<1>6. window[j] \in Entries BY <1>5 DEF Shape
<1>7. s # None BY <1>2 DEF Follows
<1>8. s \in Uops BY <1>2, <1>6, <1>7 DEF Entries
<1>9. s < j BY <1>2, <1>5, <1>7 DEF Shape
<1>10. s \in 1 .. last /\ s \in Nat
  BY <1>4, <1>8, <1>9, MduAssumption DEF Uops
<1>11. s <= k \/ s > k BY <1>1, <1>10
<1>12. s > k /\ w.src = s - k /\ (w.ready <=> window[j].ready \/ Wakes(window[j]))
  BY <1>2, <1>7, <1>11 DEF Follows
<1>13. s \in 1 .. Last(cut) BY <1>3, <1>10
<1>14. /\ s \in 1 .. Len(window) /\ s - k \in 1 .. Len(window')
       /\ Follows(window'[s - k], cut, x, k, s)
  BY <1>12, <1>13, UopStays
<1> QED BY <1>2, <1>7, <1>8, <1>12, <1>13, <1>14

\* A result that is announced arrives: the quotient is pending or the product
\* on the completion bus when the readers are awake.
LEMMA AnnouncedArrives ==
    ASSUME Shape, DivInv, NameInv, NEW cut, NEW k, NEW x, NEW batch, NEW n,
           Edge(cut, k, x, batch, n), NEW s \in 1 .. Last(cut), s > k,
           s \in 1 .. Len(window), s \in Uops, window[s].op \in {"div", "mul"},
           \/ s \in Finished
           \/ div.pending /\ div.uop = s
           \/ s = mdu_due
    PROVE  \/ s - k \in Finished'
           \/ div'.pending /\ div'.uop = s - k
<1>1. PICK w : w = window'[s - k] OBVIOUS
<1>2. /\ s - k \in 1 .. Len(window') /\ Follows(w, cut, x, k, s)
  BY <1>1, UopStays
<1>3. w.stage = NextStage(cut, x, s) BY <1>2 DEF Follows
<1>4. ASSUME w.stage \in {"completed", "resident"} PROVE s - k \in Finished'
  BY <1>1, <1>2, <1>4 DEF Finished, In
<1>5. s \in Names /\ s <= Len(window)
  <2>1. Len(window) \in Nat BY DEF Shape
  <2> QED BY <2>1 DEF Names
<1>6. PICK r : r = Renamed(cut, k, s) OBVIOUS
<1>7. r = s - k BY <1>5, <1>6, RenamedIs
<1>8. CASE s \in Finished
  <2>1. window[s].stage \in {"completed", "resident"}
    BY <1>8 DEF Finished, In
  <2>2. w.stage = "resident" BY <1>3, <2>1, StageIs
  <2> QED BY <1>4, <2>2
<1>9. CASE div.pending /\ div.uop = s
  <2>1. window[s].stage = "mdu" BY <1>9, ServedIs
  <2>2. CASE DivComplete
    <3>1. Result = s BY <1>9, <2>2, ServedIs
    <3>2. w.stage = "completed" BY <1>3, <2>1, <3>1, StageIs
    <3> QED BY <1>4, <3>2
  <2>3. CASE ~DivComplete
    <3>1. Starts(cut) = {} BY <1>9, DivStepIs
    <3>2. ~Over BY <1>9 DEF DivInv, Over
    <3>3. div'.pending BY <1>9, <2>3, <3>2, DivStepIs
    <3>4. div'.uop = Renamed(cut, k, div.uop)
      BY <2>3, <3>1, <3>2, DivStepIs
    <3>5. div'.uop = s - k BY <1>6, <1>7, <1>9, <3>4
    <3> QED BY <3>3, <3>5
  <2> QED BY <2>2, <2>3
<1>10. CASE s = mdu_due /\ Over
  <2>1. div.uop = s BY <1>10 DEF mdu_due, Over
  <2>2. div.active BY <1>10 DEF Over
  <2>3. div.wen
    <3>1. ~div.wen => window[s].op = "divx" BY <2>1, <2>2 DEF NameInv
    <3> QED BY <3>1
  <2>4. ~DivComplete BY <2>2 DEF DivInv, DivComplete
  <2>5. Starts(cut) = {} BY <1>10, DivStepIs
  <2>6. div'.pending BY <1>10, <2>3, DivStepIs
  <2>7. div'.uop = Renamed(cut, k, div.uop)
    BY <2>3, <2>4, <2>5, DivStepIs
  <2>8. div'.uop = s - k BY <1>6, <1>7, <2>1, <2>7
  <2> QED BY <2>6, <2>8
<1>11. CASE s = mdu_due /\ ~Over
  <2>1. mul[3] = s BY <1>11 DEF mdu_due, Over
  <2>2. window[s].stage = "mdu" /\ Result = s BY <2>1, ServedIs
  <2>3. w.stage = "completed" BY <1>3, <2>2, StageIs
  <2> QED BY <1>4, <2>3
<1> QED BY <1>8, <1>9, <1>10, <1>11

\* A reader that is selected is awake.
LEMMA SelectedReady ==
    ASSUME NEW cut, NEW k, NEW x, NEW batch, NEW n,
           Edge(cut, k, x, batch, n), NEW j \in x
    PROVE  /\ cut = None /\ ~recovering /\ j \in P1Candidates \cup AluCandidates
           /\ window[j].op = "use" => window[j].ready
<1>1. cut = None /\ x \in Selections(None) BY DEF Edge
<1>2. x # {} OBVIOUS
<1>3. select_enable(None) /\ x \subseteq P1Candidates \cup AluCandidates
  BY <1>1, <1>2 DEF Selections
<1>4. j \in P1Candidates \cup AluCandidates BY <1>3
<1>5. window[j].op = "use" => window[j].ready
  BY <1>4 DEF P1Candidates, AluCandidates
<1> QED BY <1>1, <1>3, <1>4, <1>5 DEF select_enable

\* A reader stays behind its operand.
LEMMA ReadStep ==
    ASSUME Shape, DivInv, NameInv, ReadInv, NEW cut, NEW k, NEW x, NEW batch,
           NEW n, Edge(cut, k, x, batch, n)
    PROVE  ReadInv'
<1> SUFFICES ASSUME NEW i \in 1 .. Len(window'), window'[i].src # None
             PROVE  /\ window'[i].op = "use"
                    /\ window'[window'[i].src].op \in {"div", "mul"}
                    /\ window'[i].ready =>
                          \/ window'[i].src \in Finished'
                          \/ div'.pending /\ div'.uop = window'[i].src
                    /\ window'[i].stage = "operand" => window'[i].ready
  BY DEF ReadInv
<1>1. PICK w : w = window'[i] OBVIOUS
<1>2. CASE /\ i + k \in 1 .. Len(window) /\ i + k <= Last(cut)
           /\ Follows(w, cut, x, k, i + k)
  <2>1. PICK j : j = i + k OBVIOUS
  <2>2. PICK s : s = window[j].src OBVIOUS
  <2>3. Last(cut) \in 0 .. Len(window) /\ Len(window) \in Nat BY WindowStep
  <2>4. /\ j \in 1 .. Len(window) /\ j \in 1 .. Last(cut)
        /\ Follows(w, cut, x, k, j)
    BY <1>2, <2>1, <2>3
  <2>5. /\ s \in 1 .. Last(cut) /\ s > k /\ s \in Uops /\ s # None
        /\ s \in 1 .. Len(window)
        /\ w.src = s - k
        /\ w.ready => window[j].ready \/ Wakes(window[j])
        /\ Follows(window'[w.src], cut, x, k, s)
    BY <1>1, <2>2, <2>4, SourceStays
  <2>6. /\ window[j].op = "use" /\ window[s].op \in {"div", "mul"}
        /\ window[j].ready => \/ s \in Finished
                              \/ div.pending /\ div.uop = s
        /\ window[j].stage = "operand" => window[j].ready
    BY <2>2, <2>4, <2>5 DEF ReadInv
  <2>7. w.op = "use" /\ window'[w.src].op \in {"div", "mul"}
    BY <2>4, <2>5, <2>6 DEF Follows
  <2>8. ASSUME w.ready
        PROVE  w.src \in Finished' \/ (div'.pending /\ div'.uop = w.src)
    <3>1. \/ s \in Finished
          \/ div.pending /\ div.uop = s
          \/ s = mdu_due
      <4>1. Wakes(window[j]) => s = mdu_due \/ s \in Finished
        BY <2>2 DEF Wakes, Finished
      <4> QED BY <2>5, <2>6, <2>8, <4>1
    <3>2. s - k \in Finished' \/ (div'.pending /\ div'.uop = s - k)
      BY <2>5, <2>6, <3>1, AnnouncedArrives
    <3> QED BY <2>5, <3>2
  <2>9. ASSUME w.stage = "operand" PROVE w.ready
    <3>1. NextStage(cut, x, j) = "operand" BY <2>4, <2>9 DEF Follows
    <3>2. window[j].stage = "operand" \/ j \in x BY <2>4, <3>1, StageFrom
    <3>3. window[j].ready BY <2>6, <3>2, SelectedReady
    <3> QED BY <2>4, <3>3 DEF Follows
  <2> QED BY <1>1, <2>7, <2>8, <2>9
<1>3. CASE /\ w.stage = "rs"
           /\ w.src # None =>
                 /\ w.op = "use" /\ ~w.ready /\ w.src \in 1 .. i - 1
                 /\ window'[w.src].op \in {"div", "mul"}
  BY <1>1, <1>3
<1> QED BY <1>1, <1>2, <1>3, UopsStep

\* No wakeup is lost in a cycle.
LEMMA WakeStep ==
    ASSUME Shape, ReadInv, WakeupNotLost, NEW cut, NEW k, NEW x, NEW batch,
           NEW n, Edge(cut, k, x, batch, n)
    PROVE  WakeupNotLost'
<1> SUFFICES ASSUME NEW i \in 1 .. Len(window'), window'[i].stage = "rs",
                    ~window'[i].fresh, window'[i].src \in 1 .. Len(window'),
                    window'[window'[i].src].stage = "resident"
             PROVE  window'[i].ready
  BY DEF WakeupNotLost, In
<1>1. PICK w : w = window'[i] OBVIOUS
<1>2. /\ i + k \in 1 .. Len(window) /\ i + k <= Last(cut)
      /\ Follows(w, cut, x, k, i + k)
  BY <1>1, UopsStep
<1>3. PICK j : j = i + k OBVIOUS
<1>4. PICK s : s = window[j].src OBVIOUS
<1>5. Last(cut) \in 0 .. Len(window) /\ Len(window) \in Nat
      /\ window' \in Seq(Entries)
  BY WindowStep
<1>6. /\ j \in 1 .. Len(window) /\ j \in 1 .. Last(cut)
      /\ Follows(w, cut, x, k, j)
  BY <1>2, <1>3, <1>5
<1>7. w.src # None BY <1>1, <1>5, MduAssumption
<1>8. /\ s \in 1 .. Len(window) /\ s # None
      /\ window[j].ready \/ Wakes(window[j]) => w.ready
      /\ Follows(window'[w.src], cut, x, k, s)
  BY <1>4, <1>6, <1>7, SourceStays
<1>9. window[s].op \in {"div", "mul"} BY <1>4, <1>6, <1>8 DEF ReadInv
<1>10. NextStage(cut, x, s) = "resident" BY <1>1, <1>8 DEF Follows
<1>11. window[s].stage \in {"completed", "resident"}
  BY <1>8, <1>9, <1>10, StageFrom
<1>12. NextStage(cut, x, j) = "rs" BY <1>1, <1>6 DEF Follows
<1>13. window[j].stage = "rs" BY <1>6, <1>12, StageFrom
<1>14. CASE window[s].stage = "completed"
  <2>1. Wakes(window[j]) BY <1>4, <1>8, <1>14 DEF Wakes, In
  <2> QED BY <1>1, <1>8, <2>1
<1>15. CASE window[s].stage = "resident" /\ window[j].fresh
  <2>1. Wakes(window[j]) BY <1>4, <1>8, <1>15 DEF Wakes, In
  <2> QED BY <1>1, <1>8, <2>1
<1>16. CASE window[s].stage = "resident" /\ ~window[j].fresh
  <2>1. window[j].ready
    BY <1>4, <1>6, <1>8, <1>13, <1>16 DEF WakeupNotLost, In
  <2> QED BY <1>1, <1>8, <2>1
<1> QED BY <1>11, <1>14, <1>15, <1>16

\* A division between selection and the divider was picked in this cycle, was
\* held in Operand by a recovery, or has left Operand for EX.
LEMMA LeavingFrom ==
    ASSUME Shape, NEW cut, NEW k, NEW x, NEW batch, NEW n,
           Edge(cut, k, x, batch, n), NEW i \in Leaving'
    PROVE  \E j \in 1 .. Len(window) :
              /\ Divides(window[j].op) /\ j <= Last(cut)
              /\ \/ /\ window'[i].stage = "operand"
                    /\ window[j].stage = "rs" /\ j \in x
                 \/ /\ window'[i].stage = "operand"
                    /\ window[j].stage = "operand" /\ cut # None
                 \/ /\ window'[i].stage = "ex"
                    /\ window[j].stage = "operand" /\ cut = None
<1>1. PICK w : w = window'[i] OBVIOUS
<1>2. /\ i \in 1 .. Len(window') /\ w.stage \in {"operand", "ex"}
      /\ Divides(w.op)
  BY <1>1 DEF Leaving, In
<1>3. /\ i + k \in 1 .. Len(window) /\ i + k <= Last(cut)
      /\ Follows(w, cut, x, k, i + k)
  BY <1>1, <1>2, UopsStep
<1>4. PICK j : j = i + k OBVIOUS
<1>5. /\ j \in 1 .. Len(window) /\ j <= Last(cut)
      /\ w.op = window[j].op /\ w.stage = NextStage(cut, x, j)
  BY <1>3, <1>4 DEF Follows
<1>6. \/ w.stage = "operand" /\ window[j].stage = "rs" /\ j \in x
      \/ w.stage = "operand" /\ window[j].stage = "operand" /\ cut # None
      \/ w.stage = "ex" /\ window[j].stage = "operand" /\ cut = None
  BY <1>2, <1>5, StageFrom
<1> QED BY <1>1, <1>2, <1>5, <1>6

\* The reservation is held across a cycle.
LEMMA ReserveStep ==
    ASSUME Shape, DivInv, ReserveInv, NEW cut, NEW k, NEW x, NEW batch, NEW n,
           Edge(cut, k, x, batch, n)
    PROVE  ReserveInv'
<1> SUFFICES ASSUME ~exposed'
             PROVE  /\ Leaving' # {} => reserved' /\ ~busy_seen'
                    /\ ~recovering' /\ available' /\ ~reserved'
                          => div_available'
                    /\ \A i \in Leaving' :
                          /\ window'[i].stage = "ex" => div_available'
                          /\ window'[i].stage = "operand" =>
                                /\ available' /\ div_available'
                                /\ \A j \in Leaving' : window'[j].stage # "ex"
  BY DEF ReserveInv
<1>1. /\ exposed' = \/ \E i \in In("operand") :
                          cut # None /\ i <= cut /\ Divides(window[i].op)
                    \/ exposed /\ Unfinished # {}
      /\ recovering' = (cut # None) /\ Reservation(cut, x)
  BY DEF Edge, Cycle
<1>2. ~ \E i \in In("operand") :
           cut # None /\ i <= cut /\ Divides(window[i].op)
  BY <1>1
<1>3. exposed => Unfinished = {} BY <1>1
<1>4. Starts(cut) # {} => \E j \in Leaving : window[j].stage = "ex"
  BY DEF Starts, Leaving, In
<1>5. div_available /\ Starts(cut) = {} => div_available' BY DivStepIs
<1>6. CASE cut # None
  <2>1. Leaving' = {}
    <3>1. SUFFICES ASSUME NEW i \in Leaving' PROVE FALSE OBVIOUS
    <3>2. x = {} BY <1>6 DEF Edge
    <3>3. PICK j \in 1 .. Len(window) :
             /\ Divides(window[j].op) /\ j <= Last(cut)
             /\ window[j].stage = "operand"
      BY <1>6, <3>2, LeavingFrom
    <3>4. j \in In("operand") /\ j <= cut BY <1>6, <3>3 DEF In, Last
    <3> QED BY <1>2, <1>6, <3>3, <3>4
  <2>2. recovering' BY <1>1, <1>6
  <2> QED BY <2>1, <2>2
<1>7. CASE cut = None /\ exposed
  <2>1. \A j \in 1 .. Len(window) : Divides(window[j].op) =>
           window[j].stage \in {"completed", "resident"}
    BY <1>3, <1>7 DEF Unfinished, Finished, In
  <2>2. Leaving' = {}
    <3>1. SUFFICES ASSUME NEW i \in Leaving' PROVE FALSE OBVIOUS
    <3>2. PICK j \in 1 .. Len(window) :
             /\ Divides(window[j].op)
             /\ window[j].stage \in {"rs", "operand"}
      BY LeavingFrom
    <3> QED BY <2>1, <3>2
  <2>3. Starts(cut) = {}
    <3>1. Leaving = {} BY <2>1 DEF Leaving, In
    <3> QED BY <1>4, <3>1
  <2>4. available' = div_available BY <1>1, <1>7 DEF Reservation
  <2> QED BY <1>5, <2>2, <2>3, <2>4
<1>8. CASE cut = None /\ ~exposed
  <2> DEFINE pick == \E i \in x : Divides(window[i].op)
             over == reserved /\ busy_seen /\ available
  <2>1. /\ available' = div_available
        /\ reserved' = (pick \/ (reserved /\ ~over))
        /\ busy_seen' = (~pick /\ ~over
                            /\ (busy_seen \/ (reserved /\ ~available)))
    BY <1>1, <1>8 DEF Reservation
  <2>2. /\ Leaving # {} => reserved /\ ~busy_seen
        /\ ~recovering /\ available /\ ~reserved => div_available
        /\ \A i \in Leaving :
              /\ window[i].stage = "ex" => div_available
              /\ window[i].stage = "operand" =>
                    /\ available /\ div_available
                    /\ \A j \in Leaving : window[j].stage # "ex"
    BY <1>8 DEF ReserveInv
  <2>3. pick => Leaving = {} /\ div_available
    <3>1. SUFFICES ASSUME NEW i \in x, Divides(window[i].op)
                   PROVE  Leaving = {} /\ div_available
      OBVIOUS
    <3>2. ~recovering /\ i \in P1Candidates \cup AluCandidates
      BY SelectedReady
    <3>3. available /\ ~reserved
      BY <3>1, <3>2 DEF P1Candidates, AluCandidates, Divides
    <3> QED BY <2>2, <3>2, <3>3
  <2>4. ASSUME NEW i \in Leaving'
        PROVE  \/ window'[i].stage = "operand" /\ pick
               \/ window'[i].stage = "ex" /\ \E j \in Leaving :
                     window[j].stage = "operand"
    <3>1. PICK j \in 1 .. Len(window) :
              /\ Divides(window[j].op)
              /\ \/ window'[i].stage = "operand" /\ j \in x
                 \/ window'[i].stage = "ex" /\ window[j].stage = "operand"
      BY <1>8, LeavingFrom
    <3>2. window[j].stage = "operand" => j \in Leaving
      BY <3>1 DEF Leaving, In
    <3> QED BY <3>1, <3>2
  <2> HIDE DEF pick
  <2>5. ASSUME Leaving' # {} PROVE reserved' /\ ~busy_seen'
    <3>1. CASE pick BY <2>1, <3>1
    <3>2. CASE ~pick
      <4>1. PICK j \in Leaving : window[j].stage = "operand"
        BY <2>4, <2>5, <3>2
      <4>2. reserved /\ ~busy_seen /\ available BY <2>2, <4>1
      <4> QED BY <2>1, <3>2, <4>2
    <3> QED BY <3>1, <3>2
  <2>6. ASSUME available', ~reserved' PROVE div_available'
    <3>1. div_available BY <2>1, <2>6
    <3>2. ~pick /\ (reserved => over) BY <2>1, <2>6
    <3>3. Leaving = {} BY <2>2, <3>2
    <3> QED BY <1>4, <1>5, <3>1, <3>3
  <2>7. ASSUME NEW i \in Leaving', window'[i].stage = "ex"
        PROVE  div_available'
    <3>1. PICK j \in Leaving : window[j].stage = "operand" BY <2>4, <2>7
    <3>2. div_available /\ \A m \in Leaving : window[m].stage # "ex"
      BY <2>2, <3>1
    <3> QED BY <1>4, <1>5, <3>2
  <2>8. ASSUME NEW i \in Leaving', window'[i].stage = "operand"
        PROVE  /\ available' /\ div_available'
               /\ \A j \in Leaving' : window'[j].stage # "ex"
    <3>1. pick BY <2>4, <2>8
    <3>2. Leaving = {} /\ div_available BY <2>3, <3>1
    <3>3. available' /\ div_available' BY <1>4, <1>5, <2>1, <3>2
    <3>4. \A j \in Leaving' : window'[j].stage # "ex" BY <2>4, <3>2
    <3> QED BY <3>3, <3>4
  <2> QED BY <2>5, <2>6, <2>7, <2>8
<1> QED BY <1>6, <1>7, <1>8

\* An empty window with an idle unit satisfies the invariant.
LEMMA EmptyInd == Init => MduInd
<1> SUFFICES ASSUME Init PROVE MduInd OBVIOUS
<1> USE DEF Init
<1>1. Len(window) = 0 /\ window \in Seq(Entries) OBVIOUS
<1>2. None \notin Uops /\ None \in Names /\ ITERS \in Nat /\ WINDOW \in Nat
  BY MduAssumption DEF Uops, Names
<1>3. div \in DivRegs BY <1>2 DEF IdleDiv, DivRegs
<1>4. ~div.active /\ ~div.pending /\ ~div.busy /\ ~div.done
      /\ div.uop = None /\ div.state = "idle"
  BY DEF IdleDiv
<1>5. mul \in [0 .. 3 -> Names] /\ \A s \in 0 .. 3 : mul[s] = None BY <1>2
<1>6. Shape
  <2>1. 1 .. Len(window) = {} /\ Len(window) <= WINDOW BY <1>1, <1>2
  <2>2. /\ available \in BOOLEAN /\ reserved \in BOOLEAN
        /\ busy_seen \in BOOLEAN /\ recovering \in BOOLEAN
        /\ exposed \in BOOLEAN
    OBVIOUS
  <2> HIDE DEF Init
  <2> QED BY <1>1, <1>2, <1>3, <1>4, <1>5, <2>1, <2>2 DEF Shape
<1>7. DivInv BY <1>4 DEF DivInv
<1>8. NameInv BY <1>2, <1>4, <1>5 DEF NameInv
<1>9. ReadInv
  <2>1. 1 .. Len(window) = {} BY <1>1
  <2> QED BY <2>1 DEF ReadInv
<1>10. ReserveInv
  <2>1. Leaving = {} BY <1>1 DEF Leaving, In
  <2>2. div_available BY <1>4 DEF div_available
  <2> QED BY <2>1, <2>2 DEF ReserveInv
<1>11. WakeupNotLost BY <1>1 DEF WakeupNotLost, In
<1> QED BY <1>6, <1>7, <1>8, <1>9, <1>10, <1>11 DEF MduInd

\* A clock edge keeps the invariant.
LEMMA EdgeInd ==
    ASSUME MduInd, NEW cut, NEW k, NEW x, NEW batch, NEW n,
           Edge(cut, k, x, batch, n)
    PROVE  MduInd'
<1>1. /\ Shape /\ DivInv /\ NameInv /\ ReadInv /\ ReserveInv
      /\ WakeupNotLost
  BY DEF MduInd
<1>2. Shape' BY <1>1, ShapeStep
<1>3. DivInv' BY <1>1, DivStepIs
<1>4. NameInv' BY <1>1, NameStep
<1>5. ReadInv' BY <1>1, ReadStep
<1>6. ReserveInv' BY <1>1, ReserveStep
<1>7. WakeupNotLost' BY <1>1, WakeStep
<1> QED BY <1>2, <1>3, <1>4, <1>5, <1>6, <1>7 DEF MduInd

\* Every step keeps the invariant.
LEMMA MduNextInd == MduInd /\ [Next]_vars => MduInd'
<1> SUFFICES ASSUME MduInd, [Next]_vars PROVE MduInd' OBVIOUS
<1>1. CASE RunCycle
  <2>1. PICK batch \in Batches(None), x \in Selections(None),
             n \in Iterations(None), k \in 0 .. 2 :
                k <= Len(window) /\ Cycle(None, k, x, batch, n)
    BY <1>1 DEF RunCycle
  <2>2. Edge(None, k, x, batch, n) BY <2>1 DEF Edge, Last
  <2> QED BY <2>2, EdgeInd
<1>2. CASE RecoveryCycle
  <2>1. PICK cut \in 0 .. Len(window) : \E k \in 0 .. 2, n \in Iterations(cut) :
          k <= cut /\ Cycle(cut, k, {}, <<>>, n)
    BY <1>2 DEF RecoveryCycle
  <2>2. PICK k \in 0 .. 2, n \in Iterations(cut) :
          k <= cut /\ Cycle(cut, k, {}, <<>>, n)
    BY <2>1
  <2>3. cut # None
    <3>1. Len(window) \in Nat BY DEF MduInd, Shape
    <3> QED BY <3>1, MduAssumption
  <2>4. Edge(cut, k, {}, <<>>, n) BY <2>2, <2>3 DEF Edge, Last
  <2> QED BY <2>4, EdgeInd
<1>3. CASE TrapFlush
  <2>1. Init' BY <1>3 DEF TrapFlush, Init, IdleDiv
  <2> QED BY <2>1, EmptyInd, PTL
<1>4. CASE UNCHANGED vars
  BY <1>4 DEF vars, MduInd, Shape, DivInv, NameInv, ReadInv, ReserveInv,
      WakeupNotLost, Leaving, Finished, In, div_available, Divides
<1> QED BY <1>1, <1>2, <1>3, <1>4 DEF Next

(***************************************************************************)
(* The theorems.                                                           *)
(***************************************************************************)
\* The invariant is inductive: the units carry the names of uops that wait
\* for them, a reader is never ahead of its operand, and the reservation
\* covers a division from its selection until the divider has it
\* (ydrasil_issue_stage.sv:1325-1400, ydrasil_ex_block.sv:160-310).
THEOREM MduInductive == Spec => []MduInd
<1>1. Init => MduInd BY EmptyInd
<1>2. MduInd /\ [Next]_vars => MduInd' BY MduNextInd
<1> QED BY <1>1, <1>2, PTL DEF Spec

\* The registers are well formed, a division that reaches EX finds the
\* divider free unless a recovery met one in Operand, and no reader is ahead
\* of a quotient that is not even waiting for the port
\* (ydrasil_issue_stage.sv:1333-1400, ydrasil_ex_block.sv:184-202).
THEOREM MduSafe == Spec => []MduInv
<1>1. MduInd => MduInv
  <2> SUFFICES ASSUME MduInd PROVE MduInv OBVIOUS
  <2>1. Shape /\ DivInv /\ NameInv /\ ReadInv /\ ReserveInv BY DEF MduInd
  <2>2. Len(window) \in Nat /\ WINDOW \in Nat /\ None \notin Uops
        /\ Ghost \notin Uops
    BY <2>1, MduAssumption DEF Shape, Uops
  <2>3. TypeOK
    <3>1. ASSUME NEW i \in 1 .. Len(window)
          PROVE  window[i] \in [op : Ops, src : 1 .. i - 1 \cup {None},
                                stage : Stages, ready : BOOLEAN,
                                fresh : BOOLEAN]
      <4>1. PICK u : u = window[i] OBVIOUS
      <4>2. u \in Entries /\ (u.src # None => u.src < i)
        BY <2>1, <4>1 DEF Shape
      <4>3. u.src # None => u.src \in 1 .. i - 1
        BY <2>2, <4>2 DEF Entries, Uops
      <4> QED BY <4>1, <4>2, <4>3 DEF Entries
    <3>2. ASSUME NEW v \in Names, v \in Uops => v <= Len(window)
          PROVE  v \in 1 .. Len(window) \cup {None, Ghost}
      BY <2>2, <3>2 DEF Names, Uops
    <3>3. /\ div \in DivRegs /\ mul \in [0 .. 3 -> Names]
          /\ div.uop \in Uops => div.uop <= Len(window)
          /\ Len(window) <= WINDOW
          /\ available \in BOOLEAN /\ reserved \in BOOLEAN
          /\ busy_seen \in BOOLEAN /\ recovering \in BOOLEAN
          /\ exposed \in BOOLEAN
      BY <2>1 DEF Shape
    <3>4. div.iter \in 0 .. ITERS /\ div.uop \in Names BY <3>3 DEF DivRegs
    <3>5. div.uop \in 1 .. Len(window) \cup {None, Ghost}
      BY <3>2, <3>3, <3>4
    <3>6. ASSUME NEW s \in 0 .. 3
          PROVE  mul[s] \in 1 .. Len(window) \cup {None, Ghost}
      <4>1. mul[s] \in Names /\ (mul[s] \in Uops => mul[s] <= Len(window))
        BY <2>1, <3>3 DEF NameInv
      <4> QED BY <3>2, <4>1
    <3>7. mul \in [0 .. 3 -> 1 .. Len(window) \cup {None, Ghost}]
      BY <3>3, <3>6
    <3>8. {available, reserved, busy_seen, recovering, exposed}
             \subseteq BOOLEAN
      BY <3>3
    <3> QED BY <3>1, <3>3, <3>4, <3>5, <3>7, <3>8 DEF TypeOK
  <2>4. ReservationHolds
    <3> SUFFICES ASSUME ~exposed, NEW i \in In("ex"), Divides(window[i].op)
                 PROVE  div_available
      BY DEF ReservationHolds, DividerReserved
    <3>1. i \in Leaving /\ window[i].stage = "ex" BY DEF Leaving, In
    <3> QED BY <2>1, <3>1 DEF ReserveInv
  <2>5. QuotientNotOutrun
    <3> SUFFICES ASSUME NEW i \in Readers("div")
                 PROVE  \/ window[i].src \in Finished
                        \/ div.pending /\ div.uop = window[i].src
      BY DEF QuotientNotOutrun
    <3>1. /\ i \in 1 .. Len(window) /\ window[i].stage = "operand"
          /\ window[i].src # None
      BY DEF Readers, In
    <3> QED BY <2>1, <3>1 DEF ReadInv
  <2> QED BY <2>3, <2>4, <2>5 DEF MduInv
<1> QED BY <1>1, MduInductive, PTL

\* A woken reader of a multiplication finds the product on the completion bus
\* or in the value file, although a recovery may hold it in Operand
\* (ydrasil_ex_block.sv:279-303, ydrasil_issue_source_resolver.sv:96-115).
THEOREM MulOperands == Spec => []MulOperandPresent
<1>1. MduInd => MulOperandPresent
  <2> SUFFICES ASSUME MduInd, NEW i \in Readers("mul")
               PROVE  window[i].src \in Finished
    BY DEF MulOperandPresent
  <2>1. Shape /\ DivInv /\ NameInv /\ ReadInv BY DEF MduInd
  <2>2. /\ i \in 1 .. Len(window) /\ window[i].stage = "operand"
        /\ window[i].src # None /\ window[window[i].src].op = "mul"
    BY DEF Readers, In
  <2>3. \/ window[i].src \in Finished
        \/ div.pending /\ div.uop = window[i].src
    BY <2>1, <2>2 DEF ReadInv
  <2>4. window[i].src \in Uops
    <3>1. window[i] \in Entries BY <2>1, <2>2 DEF Shape
    <3> QED BY <2>2, <3>1 DEF Entries
  <2>5. ~(div.pending /\ div.uop = window[i].src)
    BY <2>1, <2>2, <2>4, ServedIs
  <2> QED BY <2>3, <2>5
<1> QED BY <1>1, MduInductive, PTL

\* A reader whose operand has arrived is awake, whatever came between
\* (ydrasil_issue_stage.sv:2523-2546, 2596-2617).
THEOREM WakeupKept == Spec => []WakeupNotLost
<1>1. MduInd => WakeupNotLost BY DEF MduInd
<1> QED BY <1>1, MduInductive, PTL

\* What leaves the MDU belongs to a uop that waits for it or to a squashed
\* one: no result is delivered twice
\* (ydrasil_ex_block.sv:187-191, 273-277).
THEOREM ResultsAwaited == Spec => []ResultAwaited
<1>1. MduInd => ResultAwaited
  <2> SUFFICES ASSUME MduInd PROVE ResultAwaited OBVIOUS
  <2>1. Shape /\ DivInv /\ NameInv BY DEF MduInd
  <2>2. div.uop \in Names /\ mul[3] \in Names
    BY <2>1 DEF Shape, DivRegs
  <2>3. mul[3] \in Uops => mul[3] \in In("mdu") BY <2>1, ServedIs DEF In
  <2>4. div.pending /\ div.uop \in Uops => div.uop \in In("mdu")
    BY <2>1, ServedIs DEF In
  <2>5. CASE mul[3] # None
    <3>1. Result = mul[3] BY <2>5 DEF Result
    <3> QED BY <2>2, <2>3, <3>1 DEF ResultAwaited, Names
  <2>6. CASE mul[3] = None /\ div.pending
    <3>1. Result = div.uop BY <2>6 DEF Result
    <3> QED BY <2>2, <2>4, <2>6, <3>1 DEF ResultAwaited, Names
  <2>7. CASE mul[3] = None /\ ~div.pending
    <3>1. Result = None BY <2>7 DEF Result
    <3> QED BY <3>1 DEF ResultAwaited
  <2> QED BY <2>5, <2>6, <2>7
<1> QED BY <1>1, MduInductive, PTL
=============================================================================
