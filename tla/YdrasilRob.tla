----------------------------- MODULE YdrasilRob -----------------------------
(***************************************************************************)
(* What the reorder buffer promises: a bounded queue of uops in program    *)
(* order.  In one clock cycle at most two uops leave at the front and at   *)
(* most two enter at the back; a branch that turns out mispredicted drops  *)
(* everything younger than it, and no uop retires past one before that.    *)
(***************************************************************************)
EXTENDS Integers, Sequences

CONSTANTS Capacity, Uops

VARIABLE q      \* uops in flight, oldest first

Mispredicted(u) == u.kind = "brmis"
Resolved(u) == [u EXCEPT !.kind = "br"]

\* k uops retire while n new ones enter behind the others.
Flow(k, n) ==
    /\ \A i \in 1 .. k : ~Mispredicted(q[i])
    /\ Len(q) + n <= Capacity
    /\ Len(q') = Len(q) - k + n
    /\ \A i \in 1 .. Len(q') :
          IF i <= Len(q) - k THEN q'[i] = q[i + k] ELSE q'[i] \in Uops
\* The oldest mispredicted branch resolves; it may itself retire.
Recover(k, b) ==
    /\ k <= b
    /\ Mispredicted(q[b])
    /\ \A i \in 1 .. b - 1 : ~Mispredicted(q[i])
    /\ q' = SubSeq([q EXCEPT ![b] = Resolved(@)], k + 1, b)

Init == q = <<>>
Next == \E k \in 0 .. 2 :
          /\ k <= Len(q)
          /\ \/ \E n \in 0 .. 2 : Flow(k, n)
             \/ \E b \in 1 .. Len(q) : Recover(k, b)
Spec == Init /\ [][Next]_q
=============================================================================
