------------------------- MODULE MCDriveIncremental -------------------------
(* Constants of the TLC runs of DriveIncremental. *)
EXTENDS DriveIncremental, TLC

CONSTANTS f1, f2, w1, w2

Symmetry == Permutations(Files)
=============================================================================
