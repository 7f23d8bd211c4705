----------------------------- MODULE MCServices -----------------------------
(***************************************************************************)
(* Small instances of the services.  w1 and w2 are the callers, workers or *)
(* processes of a service, x and y its feeders or items: few symmetric     *)
(* values make few permutations.                                           *)
(***************************************************************************)
EXTENDS Services, TLC

CONSTANTS ada, bob, sam, w1, w2, x, y, e1, e2, e3, page

Two   == {w1, w2}
Pair  == {x, y}
Staff == {ada, bob}
Ada   == {ada}
Sam   == {sam}
Trio  == {ada, bob, sam}
E1    == {e1}
Both  == {e1, e2}
All   == {e1, e2, e3}

MCWho      == [e \in All |-> IF e = e2 THEN bob ELSE ada]
MCHappened == [e \in All |-> IF e = e2 THEN 0 ELSE 1]
MCGiven    == [e \in All |-> IF e = e3 THEN 1 ELSE 0]
MCDefault  == [limit |-> 2, days |-> 2, short |-> 1, closed |-> FALSE]
MCConfig   == {MCDefault,
               [limit |-> 1, days |-> 1, short |-> 2, closed |-> TRUE]}
MCRelation == {<<ada, page>>, <<bob, page>>, <<bob, sam>>}
MCSource   == {"onedrive", "outlook"}

Symmetry == Permutations(Two) \cup Permutations(Pair)
=============================================================================
