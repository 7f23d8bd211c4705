----------------------------- MODULE MCChatTurn -----------------------------
EXTENDS ChatTurn

CONSTANTS t1, t2, t3, p1, p2, s1, d1, d2

\* A history has either failures and two turns or changes of access and one:
\* they touch different stores, and a turn sees no other turn's documents.
Apart ==
    \/ budget.runs = MaxRuns
    \/ /\ budget.outages = MaxOutages
       /\ budget.faults = MaxErrors
       /\ budget.crashes = MaxCrashes
       /\ Cardinality({t \in Turn : turn[t].pc # "idle"}) <= 1
=============================================================================
