------------------------------- MODULE MCTrap -------------------------------
(* Instances of YdrasilTrap for TLC. *)
EXTENDS YdrasilTrap, TLC

\* Interrupts against branches, exceptions and returns.
TrapOps == {"plain", "branch", "unmask", "enable", "mret", "illegal"}
\* Interrupts against the instructions that mask them.
MaskOps == {"plain", "mask", "unmask", "disable", "enable", "ebreak"}
=============================================================================
