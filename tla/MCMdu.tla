------------------------------- MODULE MCMdu -------------------------------
(* Instances of YdrasilMdu for TLC. *)
EXTENDS YdrasilMdu, TLC

\* Divisions, multiplications and readers.
MduOps == {"div", "divx", "mul", "use"}
\* Divisions alone, each of which must complete.
OnlyDiv == {"div"}
=============================================================================
