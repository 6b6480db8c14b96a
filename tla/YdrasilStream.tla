--------------------------- MODULE YdrasilStream ---------------------------
(***************************************************************************)
(* What the console input promises the shell: bytes come out in the order  *)
(* in which the line brought them, none twice and none made up.  Bytes may *)
(* be lost on the way, and a loss changes nothing else; all that is on the *)
(* way may be discarded before the first is handed over.                   *)
(***************************************************************************)
EXTENDS Naturals, Sequences, SequencesExt

VARIABLES
    sent,       \* bytes the line has brought; byte n is the n-th
    held,       \* on the way, oldest first
    got         \* handed to the shell, oldest first

Init == sent = 0 /\ held = <<>> /\ got = <<>>

Accept == /\ sent' = sent + 1 /\ held' = Append(held, sent + 1)
          /\ UNCHANGED got
Refuse == sent' = sent + 1 /\ UNCHANGED <<held, got>>
Lose(i) == held' = RemoveAt(held, i) /\ UNCHANGED <<sent, got>>
Flush == got = <<>> /\ held' = <<>> /\ UNCHANGED <<sent, got>>
Deliver == /\ held # <<>>
           /\ got' = Append(got, Head(held)) /\ held' = Tail(held)
           /\ UNCHANGED sent

Next == \/ Accept \/ Refuse \/ Flush \/ Deliver
        \/ \E i \in 1..Len(held) : Lose(i)
Spec == Init /\ [][Next]_<<sent, held, got>>
=============================================================================
