--------------------------- MODULE MCConnectorSync ---------------------------
(* Instances of ConnectorSync for TLC. *)
EXTENDS ConnectorSync, TLC

WorkerSymmetry == Permutations(Workers)

\* Bound: with failed calls to Redis, at most two troubles in one behaviour.
Troubles == redis = 0 \/ redis + faults + crashes + lost <= 2

=============================================================================
