---------------------------- MODULE MCRetrieval ----------------------------
EXTENDS Retrieval, TLC
CONSTANTS d1, d2, d3
Symmetry == Permutations(Doc)
\* A permission changes or an engine fails, in one history.
Trouble == changes + faults <= 1
=============================================================================
