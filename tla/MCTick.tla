------------------------------- MODULE MCTick -------------------------------
(* Instances of YdrasilTick for TLC. *)
EXTENDS YdrasilTick, TLC
=============================================================================
