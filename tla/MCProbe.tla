------------------------------ MODULE MCProbe ------------------------------
(* Probe with two launchers and a deadline of a few seconds. *)
EXTENDS Probe

CONSTANTS l1, l2
=============================================================================
