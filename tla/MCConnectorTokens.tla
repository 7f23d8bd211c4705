------------------------- MODULE MCConnectorTokens -------------------------
EXTENDS ConnectorTokens, TLC
CONSTANTS f1, f2, c1, c2, t1, t2
Symmetry == Permutations(Callback) \cup Permutations(Task)
            \cup Permutations(Flow)
=============================================================================
