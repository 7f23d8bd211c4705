---------------------------- MODULE PersonGraph ----------------------------
(***************************************************************************)
(* The people of the knowledge graph (services/graph/neo4j_store.py): what *)
(* the sources assert, merging two persons and splitting them again.       *)
(*                                                                         *)
(* The store's calls block the only process that serves them, so that two  *)
(* operations never interleave; but each statement of an operation commits *)
(* on its own, and an operation may stop between any two.  One tenant, one *)
(* type of relation; labels and properties are left out.                   *)
(***************************************************************************)
EXTENDS Integers, FiniteSets, Sequences

CONSTANTS
    None,
    Person,
    Relation,      \* <<source, target>>: what the sources may assert
    MaxMerges,     \* bound: merges attempted
    MaxFaults      \* bound: operations cut short, and restarts

VARIABLES
    nodes, edges,
    snapshots,     \* _merge_snapshots, in memory, by <<primary, secondary>>
    facts,         \* history: the relations asserted, between the ids asserted
    into,          \* history: the primary a secondary was merged into
    undo,          \* history: the merges not split yet: their pair, and the edges before
    halfway,       \* history: the pair of a split that was cut short
    apart,         \* history: an operation ran that the snapshots do not allow for
    restored,      \* history: the last undone merge left the edges it had found
    merges, faults

vars == <<nodes, edges, snapshots, facts, into, undo, halfway, apart, restored, merges, faults>>

Pair == Person \X Person

Init ==
    /\ nodes = {} /\ edges = {} /\ snapshots = [k \in Pair |-> None]
    /\ facts = {} /\ into = [n \in Person |-> None] /\ undo = <<>>
    /\ halfway = None /\ apart = FALSE /\ restored = TRUE
    /\ merges = 0 /\ faults = 0

Fault == faults < MaxFaults /\ faults' = faults + 1

-----------------------------------------------------------------------------
(* Sources *)

Ends(e) == {e[1], e[2]}

Absorbed(N) == \E n \in N \cap Person : into[n] # None

\* upsert_node: the node exists from now on; if it had been merged into
\* another, it is a second node for the same person.
UpsertNode(n) ==
    /\ n \notin nodes
    /\ nodes' = nodes \cup {n}
    /\ apart' = (apart \/ Absorbed({n}) \/ halfway # None)
    /\ UNCHANGED <<edges, snapshots, facts, into, undo, halfway, restored, merges, faults>>

\* upsert_edge creates the ends it does not find.
UpsertEdge(e) ==
    /\ e \notin facts
    /\ nodes' = nodes \cup Ends(e) /\ edges' = edges \cup {e} /\ facts' = facts \cup {e}
    /\ apart' = \/ apart \/ Absorbed(Ends(e)) \/ halfway # None
                \/ \E k \in Pair : snapshots[k] # None /\ e \in snapshots[k].created
    /\ undo' = [i \in DOMAIN undo |-> [undo[i] EXCEPT !.clean = FALSE]]
    /\ UNCHANGED <<snapshots, into, halfway, restored, merges, faults>>

-----------------------------------------------------------------------------
(* merge_persons and split_persons *)

\* get_edges_involving
Involving(n) == {e \in edges : n \in Ends(e)}

\* An edge of s as it will be on p; None for an edge between the two.
Moved(e, p, s) ==
    LET t == [i \in 1..2 |-> IF e[i] = s THEN p ELSE e[i]]
    IN IF t[1] = t[2] THEN None ELSE <<t[1], t[2]>>

Redirects(p, s) == {Moved(e, p, s) : e \in Involving(s)} \ {None}

Snapshot(p, s) == [edges |-> Involving(s), created |-> Redirects(p, s) \ Involving(p)]

\* delete_node takes the relations of the node along.
Without(E, n) == {e \in E : n \notin Ends(e)}

Attempt(p, s) ==
    /\ {p, s} \subseteq nodes /\ merges < MaxMerges
    /\ merges' = merges + 1
    /\ snapshots' = [snapshots EXCEPT ![<<p, s>>] = Snapshot(p, s)]
    /\ apart' = (apart \/ p = s \/ halfway # None)
    /\ UNCHANGED <<facts, halfway, restored>>

\* Nothing refuses to merge a person into itself, which deletes it.
Merge(p, s) ==
    /\ Attempt(p, s)
    /\ nodes' = nodes \ {s}
    /\ edges' = Without(edges \cup Redirects(p, s), s)
    /\ into' = [into EXCEPT ![s] = p]
    /\ undo' = Append(undo, [pair |-> <<p, s>>, before |-> edges, clean |-> TRUE])
    /\ UNCHANGED faults

MergeFailsDeleted(p, s) ==
    /\ Attempt(p, s) /\ Fault
    /\ edges' = Without(edges, s)
    /\ UNCHANGED <<nodes, into, undo>>

\* Cut short after some of the redirects: the secondary is deleted last.
MergeFails(p, s) ==
    /\ Attempt(p, s) /\ Fault
    /\ \E done \in SUBSET Redirects(p, s) : edges' = edges \cup done
    /\ undo' = [i \in DOMAIN undo |-> [undo[i] EXCEPT !.clean = FALSE]]
    /\ UNCHANGED <<nodes, into>>

Newest(p, s) == undo # <<>> /\ undo[Len(undo)].pair = <<p, s>>

\* The secondary returns, the redirects its merge created go, its edges return
\* with the ends they name.
Split(p, s) ==
    LET snap == snapshots[p, s] IN
    /\ snap # None
    /\ nodes' = nodes \cup {s} \cup UNION {Ends(e) : e \in snap.edges}
    /\ edges' = (edges \ snap.created) \cup snap.edges
    /\ into' = [into EXCEPT ![s] = None]
    /\ apart' = (apart \/ ~Newest(p, s) \/ halfway \notin {None, <<p, s>>})
    /\ halfway' = None
    /\ IF Newest(p, s)
       THEN LET m == undo[Len(undo)] IN
            /\ undo' = SubSeq(undo, 1, Len(undo) - 1)
            /\ restored' = (m.clean /\ ~apart => edges' = m.before)
       ELSE UNCHANGED <<undo, restored>>
    /\ UNCHANGED <<snapshots, facts, merges, faults>>

\* Cut short: some redirects are gone, or all of them and some edges are back.
SplitFails(p, s) ==
    LET snap == snapshots[p, s] IN
    /\ snap # None /\ Fault
    /\ nodes' = nodes \cup {s}
    /\ \/ \E gone \in SUBSET snap.created : edges' = edges \ gone
       \/ \E back \in SUBSET snap.edges : edges' = (edges \ snap.created) \cup back
    /\ apart' = (apart \/ ~Newest(p, s) \/ halfway \notin {None, <<p, s>>})
    /\ halfway' = <<p, s>>
    /\ UNCHANGED <<snapshots, facts, into, undo, restored, merges>>

\* The snapshots die with the process: those merges stay.
Restart ==
    /\ Fault
    /\ snapshots' = [k \in Pair |-> None]
    /\ UNCHANGED <<nodes, edges, facts, into, undo, halfway, apart, restored, merges>>

Next ==
    \/ \E n \in Person : UpsertNode(n)
    \/ \E e \in Relation : UpsertEdge(e)
    \/ \E p, s \in Person : Merge(p, s) \/ MergeFails(p, s) \/ Split(p, s) \/ SplitFails(p, s)
    \/ Restart

Spec == Init /\ [][Next]_vars
-----------------------------------------------------------------------------
\* The id under which a node is found now.
Now == LET f[n \in Person] == IF into[n] = None THEN n ELSE f[into[n]]
       IN [n \in UNION {Ends(e) : e \in Relation} |-> IF n \in Person THEN f[n] ELSE n]

\* No merge, also one cut short or tried again, and no undoing of the newest
\* merge, also one tried again, loses a relation that a source asserted: it
\* stands between whatever its two ends are merged into.  (What the snapshots do
\* not allow for is left out: a split that is not of the newest merge, a source
\* that asserts in between what a merge created, or a node merged away.)  And
\* undoing the newest merge leaves exactly the edges that the merge had found,
\* if no source asserted anything since: an edge of the primary that only
\* equalled a redirect stays, one that the merge created goes.
RelationsStand ==
    /\ restored
    /\ ~apart /\ halfway = None =>
        \A e \in facts : Now[e[1]] # Now[e[2]] => <<Now[e[1]], Now[e[2]]>> \in edges
=============================================================================
