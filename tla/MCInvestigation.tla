--------------------------- MODULE MCInvestigation ---------------------------
(* Instances of Investigation for TLC. *)
EXTENDS Investigation, TLC
=============================================================================
