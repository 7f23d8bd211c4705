----------------------------- MODULE MCSessions -----------------------------
(* Constants of the TLC runs of Sessions. *)
EXTENDS Sessions, TLC

CONSTANTS u1, t1, t2, r1, r2

Symmetric == Permutations({r1, r2}) \cup Permutations({t1, t2})
=============================================================================
