------------------------------ MODULE MCMining ------------------------------
(* Mining over two or three prompts and two or three processes. *)
EXTENDS Mining

CONSTANTS p1, p2, p3, m1, m2, r1

TwoPrompts == <<p1, p2>>
ThreePrompts == <<p1, p2, p3>>
=============================================================================
