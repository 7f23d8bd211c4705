------------------------------ MODULE AclCompile ------------------------------
(***************************************************************************)
(* Access lists of documents that inherit from folders: acl/compiler.py,   *)
(* acl/inheritance.py, acl/container_service.py.  (Drive and Gmail         *)
(* documents carry a full list and skip inheritance; PendingIdentity is    *)
(* about those.)                                                           *)
(*                                                                         *)
(* One document lies in the folders Parents.  A folder has at most one     *)
(* parent and permissions per identity, a principal or a group.  The chain *)
(* above a folder is cached for TTL, and an edit of an edge removes only   *)
(* the entry of its child.  A compilation is a coroutine: every read of    *)
(* the database is a step, and edits happen in between.                    *)
(***************************************************************************)
EXTENDS Integers, Sequences, FiniteSetsExt, SequencesExt

CONSTANTS
    Principal, Group, Container,
    Process,      \* compilations in flight at a time
    None,
    Parents,      \* parent_ids of the document, in order
    Hints,        \* permission hints a source may send: sets of <<identity, level>>
    Edges,        \* edges that may be set: <<parent, child>>
    Grants,       \* permissions that may be set: <<folder, identity, setting>>
    Memberships,  \* groups that may be created: <<group, people, groups>>
    MaxDepth,     \* max_depth of get_ancestors
    TTL,          \* cache_ttl in ticks
    MaxLevel,     \* rank of the highest permission
    MaxEdits      \* bound: changes of folders and groups

ASSUME ParentsAssumption == Parents \in Seq(Container)
ASSUME HintsAssumption == Hints \subseteq SUBSET ((Principal \cup Group) \X (1..MaxLevel))
ASSUME EditsAssumption ==
    /\ Edges \subseteq Container \X Container
    /\ \A a \in Grants :
          a[1] \in Container /\ a[2] \in Principal \cup Group /\ a[3] \in (1..MaxLevel) \cup {-1}
    /\ \A m \in Memberships :
          m[1] \in Group /\ m[2] \subseteq Principal /\ m[3] \subseteq Group
ASSUME NumbersAssumption ==
    /\ MaxDepth \in Nat /\ TTL \in Nat \ {0} /\ {MaxLevel, MaxEdits} \subseteq Nat
    /\ None \notin Container \cup (0..MaxEdits)
ASSUME GroupAssumption == IsFiniteSet(Group)

Identity == Principal \cup Group
Level    == 1..MaxLevel
Deny     == -1
Setting  == Level \cup {0, Deny}   \* 0: no row
Absent   == [exists |-> FALSE, people |-> {}, groups |-> {}]
Member   == [exists : BOOLEAN, people : SUBSET Principal, groups : SUBSET Group]
Chain    == UNION {[1..n -> Container] : n \in 0..MaxDepth}
Empty    == [chain |-> <<>>, age |-> TTL]

VARIABLES
    edge,     \* container_edges: parent by child
    perm,     \* container_acl_entries
    group,    \* identity_groups
    cache,    \* _ancestor_cache with the age of each entry; TTL: expired or none
    pc, hints, todo, chain, at, seen, rows,
    edits, quiet, since

\* pc       where each compilation stands
\* hints    what it was given
\* todo     parent folders it has not walked
\* chain    the folders above the parent in hand, as far as read
\* at       the folder it reads next, as an index in parent \o chain
\* seen     nearest deny and nearest allow found, by identity
\* rows     acl_entries of the document: level by principal, 0 for none
\* edits    spent bound; quiet: ticks since the last one, TTL when longer
\* since    history: edits made before the compilation began, None when it
\*          began within TTL of one

folders == <<edge, perm, group>>
work    == <<pc, hints, todo, chain, at, seen>>
vars    == <<folders, cache, work, rows, edits, quiet, since>>

Far == [dist |-> MaxDepth + 1, level |-> 0]

TypeOK ==
    /\ edge \in [Container -> Container \cup {None}]
    /\ perm \in [Container -> [Identity -> Setting]]
    /\ group \in [Group -> Member]
    /\ \A c \in Container : cache[c].chain \in Chain /\ cache[c].age \in 0..TTL
    /\ pc \in [Process -> {"idle", "parent", "climb", "read"}]
    /\ hints \in [Process -> Hints \cup {{}}]
    /\ \A p \in Process : IsSuffix(todo[p], Parents) /\ chain[p] \in Chain
    /\ at \in [Process -> 0..(MaxDepth + 1)]
    /\ \A p \in Process : \A i \in Identity :
          /\ seen[p][i].deny \in 0..(MaxDepth + 1)
          /\ seen[p][i].allow.dist \in 0..(MaxDepth + 1)
          /\ seen[p][i].allow.level \in 0..MaxLevel
    /\ rows \in [Principal -> 0..MaxLevel]
    /\ edits \in 0..MaxEdits /\ quiet \in 0..TTL
    /\ since \in [Process -> (0..MaxEdits) \cup {None}]

Nothing == [i \in Identity |-> [deny |-> MaxDepth + 1, allow |-> Far]]

Init ==
    /\ edge = [c \in Container |-> None]
    /\ perm = [c \in Container |-> [i \in Identity |-> 0]]
    /\ group = [g \in Group |-> Absent]
    /\ cache = [c \in Container |-> Empty]
    /\ pc = [p \in Process |-> "idle"]
    /\ hints = [p \in Process |-> {}]
    /\ todo = [p \in Process |-> <<>>]
    /\ chain = [p \in Process |-> <<>>]
    /\ at = [p \in Process |-> 0]
    /\ seen = [p \in Process |-> Nothing]
    /\ rows = [u \in Principal |-> 0]
    /\ edits = 0 /\ quiet = 0
    /\ since = [p \in Process |-> None]

-----------------------------------------------------------------------------
(* Edits of the hierarchy. *)

Edit ==
    /\ edits < MaxEdits
    /\ edits' = edits + 1 /\ quiet' = 0
    /\ UNCHANGED <<work, rows, since>>

Invalidate(c) == cache' = [cache EXCEPT ![c] = Empty]

UpsertEdge(parent, child) ==
    /\ edge' = [edge EXCEPT ![child] = parent]
    /\ Invalidate(child)
    /\ Edit /\ UNCHANGED <<perm, group>>

UpsertAcl(c, i, s) ==
    /\ perm' = [perm EXCEPT ![c][i] = s]
    /\ Edit /\ UNCHANGED <<edge, group, cache>>

\* The repository's delete_container: no cached chain is invalidated.
DeleteContainer(c) ==
    /\ edge' = [d \in Container |-> IF d = c \/ edge[d] = c THEN None ELSE edge[d]]
    /\ perm' = [perm EXCEPT ![c] = [i \in Identity |-> 0]]
    /\ Edit /\ UNCHANGED <<group, cache>>

CreateGroup(g, people, groups) ==
    /\ ~group[g].exists
    /\ group' = [group EXCEPT ![g] = [exists |-> TRUE, people |-> people, groups |-> groups]]
    /\ Edit /\ UNCHANGED <<edge, perm, cache>>

-----------------------------------------------------------------------------
(* Compilation. *)

\* _compile_direct_entries: a hint that names a group creates it when missing.
Begin(p, h) ==
    /\ pc[p] = "idle"
    /\ hints' = [hints EXCEPT ![p] = h]
    /\ group' = [g \in Group |->
          IF group[g].exists \/ \A l \in Level : <<g, l>> \notin h
          THEN group[g] ELSE [Absent EXCEPT !.exists = TRUE]]
    /\ todo' = [todo EXCEPT ![p] = Parents]
    /\ pc' = [pc EXCEPT ![p] = "parent"]
    /\ since' = [since EXCEPT ![p] = IF quiet = TTL THEN edits ELSE None]
    /\ UNCHANGED <<edge, perm, cache, chain, at, seen, rows, edits, quiet>>

\* Mutant: a hit renews the time stamp of the entry.
NextParentSliding(p) ==
    /\ pc[p] = "parent" /\ todo[p] # <<>>
    /\ LET hit == cache[Head(todo[p])].age < TTL
       IN /\ chain' = [chain EXCEPT ![p] = IF hit THEN cache[Head(todo[p])].chain ELSE <<>>]
          /\ pc' = [pc EXCEPT ![p] = IF hit THEN "read" ELSE "climb"]
          /\ cache' = IF hit THEN [cache EXCEPT ![Head(todo[p])].age = 0] ELSE cache
    /\ UNCHANGED <<folders, hints, todo, at, seen, rows, edits, quiet, since>>

\* get_ancestors for the next parent: from the cache, or by climbing.
NextParent(p) ==
    /\ pc[p] = "parent" /\ todo[p] # <<>>
    /\ IF cache[Head(todo[p])].age < TTL
       THEN /\ chain' = [chain EXCEPT ![p] = cache[Head(todo[p])].chain]
            /\ pc' = [pc EXCEPT ![p] = "read"]
       ELSE /\ chain' = [chain EXCEPT ![p] = <<>>]
            /\ pc' = [pc EXCEPT ![p] = "climb"]
    /\ UNCHANGED <<folders, cache, hints, todo, at, seen, rows, edits, quiet, since>>

\* The folders climbed so far, the start included, and the one in hand.
Path(p)    == <<Head(todo[p])>> \o chain[p]
Current(p) == Last(Path(p))
Visited(p) == {Path(p)[i] : i \in 1..Len(chain[p])}

\* Mutant: no backstop on the depth.
StopsOnCycle(p) == Current(p) \in Visited(p) \/ edge[Current(p)] = None

Stops(p) ==
    \/ Len(chain[p]) = MaxDepth
    \/ Current(p) \in Visited(p)
    \/ edge[Current(p)] = None

Climb(p) ==
    /\ pc[p] = "climb" /\ ~Stops(p)
    /\ chain' = [chain EXCEPT ![p] = Append(@, edge[Current(p)])]
    /\ UNCHANGED <<folders, cache, pc, hints, todo, at, seen, rows, edits, quiet, since>>

\* The time stamp of the entry is that of the end of the climb.
Fill(p) ==
    /\ pc[p] = "climb" /\ Stops(p)
    /\ cache' = [cache EXCEPT ![Head(todo[p])] = [chain |-> chain[p], age |-> 0]]
    /\ pc' = [pc EXCEPT ![p] = "read"]
    /\ UNCHANGED <<folders, hints, todo, chain, at, seen, rows, edits, quiet, since>>

\* Mutant: the allow of a farther folder replaces the one found.
Farther(s, d, was) ==
    CASE s = Deny -> [was EXCEPT !.deny = IF d < @ THEN d ELSE @]
      [] s \in Level -> [was EXCEPT !.allow = [dist |-> d, level |-> s]]
      [] OTHER -> was

\* What a setting s at distance d adds to what was found: the nearest deny and
\* the nearest allow, the first of equals.
Closer(s, d, was) ==
    CASE s = Deny -> [was EXCEPT !.deny = IF d < @ THEN d ELSE @]
      [] s \in Level -> [was EXCEPT !.allow = IF d < @.dist THEN [dist |-> d, level |-> s] ELSE @]
      [] OTHER -> was

\* compute_inherited_entries reads one folder, whose distance is at[p].
ReadFolder(p) ==
    /\ pc[p] = "read"
    /\ LET c == Path(p)[at[p] + 1]
       IN seen' = [seen EXCEPT ![p] = [i \in Identity |-> Closer(perm[c][i], at[p], seen[p][i])]]
    /\ IF at[p] < Len(chain[p])
       THEN at' = [at EXCEPT ![p] = @ + 1] /\ UNCHANGED <<pc, todo>>
       ELSE /\ at' = [at EXCEPT ![p] = 0]
            /\ todo' = [todo EXCEPT ![p] = Tail(@)]
            /\ pc' = [pc EXCEPT ![p] = "parent"]
    /\ UNCHANGED <<folders, cache, hints, chain, rows, edits, quiet, since>>

\* A nearer or equal deny removes the allow, and is then forgotten.
Kept(s) == s.allow.level > 0 /\ ~(s.deny <= s.allow.dist)

Entries(p) ==
    hints[p] \cup {<<i, seen[p][i].allow.level>> : i \in {j \in Identity : Kept(seen[p][j])}}

\* _expand_group_members_safe: depth first, each group once.
Visit[x \in Seq(Group) \X SUBSET Group] ==
    LET stack == x[1]
        done == x[2]
    IN IF stack = <<>> THEN done
       ELSE IF Head(stack) \in done \/ ~group[Head(stack)].exists THEN Visit[<<Tail(stack), done>>]
       ELSE Visit[<<SetToSeq(group[Head(stack)].groups) \o Tail(stack), done \cup {Head(stack)}>>]

\* Mutant: only the members of the group itself.
OwnPeople(g) == group[g].people

People(g) == UNION {group[h].people : h \in Visit[<< <<g>>, {} >>]}

Expanded(es) ==
    es \cup {e \in Principal \X Level :
                \E g \in Group : <<g, e[2]>> \in es /\ e[1] \in People(g)}

\* _apply_deny_overrides: no entry is a deny, so what is left is the highest
\* level per principal.
Best(es, u) == Max({0} \cup {l \in Level : <<u, l>> \in es})

\* Group expansion, deduplication and replace_acl_entries.
Persist(p) ==
    /\ pc[p] = "parent" /\ todo[p] = <<>>
    /\ rows' = [u \in Principal |-> Best(Expanded(Entries(p)), u)]
    /\ pc' = [pc EXCEPT ![p] = "idle"]
    /\ hints' = [hints EXCEPT ![p] = {}]
    /\ chain' = [chain EXCEPT ![p] = <<>>]
    /\ seen' = [seen EXCEPT ![p] = Nothing]
    /\ since' = [since EXCEPT ![p] = None]
    /\ UNCHANGED <<folders, cache, todo, at, edits, quiet>>

\* A tick is long against a climb.
Tick ==
    /\ \A p \in Process : pc[p] # "climb"
    /\ cache' = [c \in Container |-> IF cache[c].age + 1 >= TTL THEN Empty
                                     ELSE [cache[c] EXCEPT !.age = @ + 1]]
    /\ quiet' = IF quiet < TTL THEN quiet + 1 ELSE quiet
    /\ UNCHANGED <<folders, work, rows, edits, since>>

-----------------------------------------------------------------------------
Compile(p) ==
    \/ \E h \in Hints : Begin(p, h)
    \/ NextParent(p) \/ Climb(p) \/ Fill(p)
    \/ ReadFolder(p) \/ Persist(p)

Next ==
    \/ \E e \in Edges : UpsertEdge(e[1], e[2])
    \/ \E a \in Grants : UpsertAcl(a[1], a[2], a[3])
    \/ \E c \in Container : DeleteContainer(c)
    \/ \E m \in Memberships : CreateGroup(m[1], m[2], m[3])
    \/ \E p \in Process : Compile(p)
    \/ Tick

Spec == Init /\ [][Next]_vars

-----------------------------------------------------------------------------
(* Who may read, defined without the algorithm. *)

\* The folder x[2] steps above x[1].
Above[x \in Container \X (0..MaxDepth)] ==
    IF x[2] = 0 THEN x[1]
    ELSE LET c == Above[<<x[1], x[2] - 1>>] IN IF c = None THEN None ELSE edge[c]

\* How far away, and through which parent, identity i has a setting of S.
Where(i, S) ==
    {x \in (0..MaxDepth) \X DOMAIN Parents :
        LET c == Above[<<Parents[x[2]], x[1]>>] IN c # None /\ perm[c][i] \in S}

Before(x, y) == x[1] < y[1] \/ (x[1] = y[1] /\ x[2] <= y[2])

\* The level identity i inherits: that of the nearest folder that allows it,
\* unless one as near or nearer denies it.
Inherited(i) ==
    LET allows == Where(i, Level)
    IN IF \E a \in allows : \A d \in Where(i, {Deny}) : a[1] < d[1]
       THEN LET a == CHOOSE x \in allows : \A y \in allows : Before(x, y)
            IN {perm[Above[<<Parents[a[2]], a[1]>>]][i]}
       ELSE {}

\* The least set of groups with g that is closed under membership.
Closed(G) == \A g \in G : \A h \in group[g].groups : group[h].exists => h \in G
Within(g) ==
    IF group[g].exists
    THEN CHOOSE G \in SUBSET Group :
            /\ g \in G /\ Closed(G)
            /\ \A H \in SUBSET Group : g \in H /\ Closed(H) => G \subseteq H
    ELSE {}

Granted(u, h) ==
    LET as == {u} \cup {g \in Group : \E k \in Within(g) : u \in group[k].people}
    IN Max({0} \cup UNION {Inherited(i) \cup {l \in Level : <<i, l>> \in h} : i \in as})

-----------------------------------------------------------------------------
(* Properties. *)

\* The folders ch are those the edges give above c, all of them or as far as
\* the depth or a cycle lets the climb go.
TrueChain(c, ch) ==
    LET path == <<c>> \o ch IN
    /\ \A n \in 1..Len(ch) : path[n + 1] = edge[path[n]]
    /\ \/ Len(ch) = MaxDepth \/ edge[Last(path)] = None
       \/ Last(path) \in {path[n] : n \in 1..Len(ch)}

\* Once no folder has changed for TTL, every chain the cache serves is the
\* true one, although an edit of an edge leaves the entries below its child
\* and a climb in progress may store what it read before the edit.
StaleOnlyWithinTTL ==
    quiet = TTL => \A c \in Container : cache[c].age < TTL => TrueChain(c, cache[c].chain)

\* A compilation that began TTL after the last change, with none since, writes
\* for each principal exactly the level the definition above gives, whatever
\* the cycles of folders and groups.
ExactWhenSettled ==
    [][\A p \in Process :
          pc[p] = "parent" /\ pc'[p] = "idle" /\ since[p] = edits =>
             \A u \in Principal : rows'[u] = Granted(u, hints[p])]_vars
=============================================================================
