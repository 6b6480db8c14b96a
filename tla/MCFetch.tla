------------------------------ MODULE MCFetch ------------------------------
(* Instances of YdrasilFetch for TLC. *)
EXTENDS YdrasilFetch, TLC
=============================================================================
