------------------------------ MODULE MCLedger ------------------------------
(* Ledger over three prompts; the .cfg files choose what a crash can leave. *)
EXTENDS Ledger

CONSTANTS p1, p2, p3
=============================================================================
