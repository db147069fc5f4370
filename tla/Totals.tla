------------------------------- MODULE Totals -------------------------------
(***************************************************************************)
(* What a Python loop with `total +=`, or sum(), comes to.                 *)
(***************************************************************************)
EXTENDS Integers

\* f[1] + ... + f[n].
Total(f, n) ==
    LET sum[k \in 0 .. n] == IF k = 0 THEN 0 ELSE sum[k - 1] + f[k]
    IN sum[n]
=============================================================================
