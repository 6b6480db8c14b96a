------------------------------ MODULE MCIssue ------------------------------
(* Instances of YdrasilIssue for TLC. *)
EXTENDS YdrasilIssue

\* A producer or a consumer in each bank; loads are independent of each other.
MixedUops == {[kind |-> "alu", reads |-> TRUE, writes |-> TRUE],
              [kind |-> "load", reads |-> FALSE, writes |-> TRUE],
              [kind |-> "store", reads |-> TRUE, writes |-> FALSE],
              [kind |-> "br", reads |-> FALSE, writes |-> TRUE]}
\* Two entries where two uops are picked or ordered; one for the branches, so
\* that a bank fills up while a release is pending.
SmallBanks == [alu |-> 2, p0 |-> 2, p1 |-> 1]
=============================================================================
