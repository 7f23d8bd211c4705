-------------------------- MODULE MCPendingIdentity --------------------------
(* Constants of the TLC runs of PendingIdentity. *)
EXTENDS PendingIdentity

CONSTANTS e1, e2, d1, d2, p1, p2
=============================================================================
