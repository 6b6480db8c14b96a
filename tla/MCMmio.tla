------------------------------- MODULE MCMmio -------------------------------
(* Instances of YdrasilMmio for TLC. *)
EXTENDS YdrasilMmio, TLC

Words == {0, 1}
=============================================================================
