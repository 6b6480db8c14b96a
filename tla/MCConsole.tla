----------------------------- MODULE MCConsole -----------------------------
(* Instances of YdrasilConsole for TLC. *)
EXTENDS YdrasilConsole, TLC
=============================================================================
