----------------------------- MODULE Retrieval -----------------------------
(***************************************************************************)
(* What a caller can find and open: the federated search over three        *)
(* backends (api/v1/search/federated.py), the lexical endpoint (lexical.py)*)
(* and GET /document/{id} (document.py), while permissions change.         *)
(*                                                                         *)
(* Postgres has a document's access rows (`inForce').  An indexing run     *)
(* makes the index terms of them: the names in the rows, whether a row     *)
(* allows or denies, and in a backfill the names of the user who connected *)
(* the source, who may have no row (`owned').  The Qdrant collection       *)
(* "documents" (`points') and OpenSearch (`lexical') each have the terms   *)
(* they were last given, so a search may see two versions at once.  The    *)
(* reader asks Postgres.  The chunks are left out: see SearchVector.       *)
(*                                                                         *)
(* Scores are abstract: an engine has an order of relevance, chosen in the *)
(* initial state, and only the fusion is computed.  All documents belong   *)
(* to one tenant.  The caller is one person, "me", who may be in group     *)
(* "team"; requests only read, so one at a time is enough.                 *)
(***************************************************************************)
EXTENDS Integers, FiniteSets, Sequences, SequencesExt

CONSTANTS
    Doc,
    Gone,         \* what is in place of the rows and terms of a document that is deleted
    Size,         \* results per page
    MaxChanges,   \* bound: permission changes, fallbacks and removals
    MaxFaults     \* bound: failing engines

ASSUME BoundsAssumption == Size \in Nat \ {0} /\ {MaxChanges, MaxFaults} \subseteq Nat

VARIABLES
    inForce,   \* acl_entries: the rows in force, or Gone for a deleted document
    owned,     \* documents whose last indexing run adds the connected user, me
    copy,      \* what each index holds of each document
    nearest,   \* order in which Qdrant returns the documents for the query
    matching,  \* documents OpenSearch matches, best first
    find,      \* the search in progress and its answer
    open,      \* the request for one document
    changes, faults

retrievalVars == <<inForce, owned, copy, nearest, matching, find, open, changes, faults>>

Index   == {"points", "lexical"}
Backend == {"indexed", "lexical", "vector"}

\* The rows a document can have: one that allows me, one that allows the team
\* (none at all, for a caller outside of it), that and one that denies me.
Access == {{"me"}, {"team"}, {"team", "deny:me"}}
Term   == {"me", "team"}
Caller == {{}, {"me"}, {"me", "team"}}

ASSUME DocAssumption == IsFiniteSet(Doc) /\ \A a \in Access, t \in SUBSET Term : Gone \notin {a, t}

Orders(S) == {s \in [1..Cardinality(S) -> S] : \A x \in S : \E i \in DOMAIN s : s[i] = x}

NoFind == [pc |-> "idle", acl |-> {}, wait |-> {}, hits |-> [b \in Backend |-> <<>>],
           ok |-> {}, mute |-> FALSE, stale |-> {}, page |-> <<>>, from |-> 0, code |-> 0]
NoOpen == [pc |-> "idle", doc |-> Gone, stale |-> FALSE]

RetrievalTypeOK ==
    /\ inForce \in [Doc -> Access \cup {Gone}]
    /\ owned \subseteq Doc
    /\ copy \in [Index -> [Doc -> SUBSET Term \cup {Gone}]]
    /\ nearest \in Orders(Doc)
    /\ \E S \in SUBSET Doc : matching \in Orders(S)
    /\ find.pc \in {"idle", "search", "done"}
    /\ find.acl \in Caller /\ find.wait \cup find.ok \subseteq Backend
    /\ \A b \in Backend : find.hits[b] \in Seq(Doc)
    /\ find.page \in Seq(Doc) /\ Len(find.page) <= Size
    /\ find.from \in 0..Size /\ find.code \in {0, 200, 503}
    /\ find.stale \subseteq Doc /\ find.mute \in BOOLEAN
    /\ open.pc \in {"idle", "decide", "body", "forbidden", "missing"}
    /\ open.doc \in Doc \cup {Gone} /\ open.stale \in BOOLEAN
    /\ changes \in 0..MaxChanges /\ faults \in 0..MaxFaults

\* _build_unified_document names whom a row names, also when it denies;
\* bulk_index adds the user whose crawl it is.
Named == [r \in {"me", "team", "deny:me"} |-> IF r = "team" THEN "team" ELSE "me"]
TermsOf(given, own) == {Named[r] : r \in given} \cup (IF own THEN {"me"} ELSE {})

\* The terms that a run which has the rows gives the indexes.
Due == [d \in Doc |-> IF inForce[d] = Gone THEN Gone ELSE TermsOf(inForce[d], d \in owned)]

RetrievalInit ==
    /\ inForce \in [Doc -> Access] /\ owned = {}
    /\ copy = [i \in Index |-> Due]
    /\ nearest \in Orders(Doc)
    /\ \E S \in SUBSET Doc : matching \in Orders(S)
    /\ find = NoFind /\ open = NoOpen
    /\ changes = 0 /\ faults = 0

-----------------------------------------------------------------------------
(* acl/filter.py. *)

Denial == [me |-> "deny:me", team |-> "deny:team"]
DenyTerms(acl) == {Denial[t] : t \in acl}

\* document_is_visible: the caller has terms, the document has, none denies
\* and one of those that do not deny is the caller's.
Visible(acl, doc) ==
    /\ doc \cap DenyTerms(acl) = {}
    /\ acl \cap (doc \ DenyTerms({"me", "team"})) # {}

\* The same as a filter clause of OpenSearch: terms, and must_not.
AclClause(acl, doc) == acl \cap doc # {} /\ DenyTerms(acl) \cap doc = {}

Behind(d) == \E i \in Index : copy[i][d] # Due[d]

\* Where x is in s, the first time.
Place(s, x) == CHOOSE i \in DOMAIN s : s[i] = x /\ \A j \in 1..(i - 1) : s[j] # x

\* S as a sequence, by the order R.
InOrder(S, R) ==
    CHOOSE s \in Orders(S) : \A j \in DOMAIN s : \A i \in 1..(j - 1) : <<s[i], s[j]>> \in R

\* What s has of S, in the order it has it, and the first n of it.
Only(s, S) ==
    LET kept == ToSet(s) \cap S
    IN InOrder(kept, {x \in kept \X kept : Place(s, x[1]) < Place(s, x[2])})
First(n, s) == SubSeq(s, 1, IF Len(s) < n THEN Len(s) ELSE n)

Fault == faults < MaxFaults /\ faults' = faults + 1

-----------------------------------------------------------------------------
(* The pipeline, as far as a search can tell. *)

\* An answer is read before anything else happens: it does not change any more.
Unread == find.pc = "done" \/ open.pc \in {"body", "forbidden", "missing"}

Change(d) ==
    /\ ~Unread
    /\ changes < MaxChanges /\ changes' = changes + 1
    /\ find' = IF find.pc # "idle" THEN [find EXCEPT !.stale = @ \cup {d}] ELSE find
    /\ open' = IF open.doc = d THEN [open EXCEPT !.stale = TRUE] ELSE open

\* replace_acl_entries, by a run that is about to index the document, with or
\* without the terms of a connected user.
PersistTerms(d) ==
    /\ inForce[d] # Gone
    /\ \E a \in Access, mine \in {{}, {d}} :
          /\ inForce' = [inForce EXCEPT ![d] = a]
          /\ owned' = (owned \ {d}) \cup mine
    /\ <<inForce, owned>>' # <<inForce, owned>>
    /\ Change(d)
    /\ UNCHANGED <<copy, nearest, matching, faults>>

\* bulk_index hands the terms to one index after the other; any may be missed.
Upsert(i, d) ==
    /\ ~Unread
    /\ inForce[d] # Gone /\ copy[i][d] # Due[d]
    /\ copy' = [copy EXCEPT ![i][d] = Due[d]]
    /\ UNCHANGED <<inForce, owned, nearest, matching, find, open, changes, faults>>

\* When the pipeline hands back no document, bulk_index gets the connector's:
\* terms that were not made of the rows in force.
Fallback(i, d) ==
    /\ inForce[d] # Gone
    /\ \E t \in SUBSET Term : t # copy[i][d] /\ copy' = [copy EXCEPT ![i][d] = t]
    /\ Change(d)
    /\ UNCHANGED <<inForce, owned, nearest, matching, faults>>

\* delete_by_ids takes the point and the rows; the other indexes keep theirs.
Drop(d) ==
    /\ inForce[d] # Gone
    /\ inForce' = [inForce EXCEPT ![d] = Gone]
    /\ copy' = [copy EXCEPT !["points"][d] = Gone]
    /\ Change(d)
    /\ UNCHANGED <<owned, nearest, matching, faults>>

-----------------------------------------------------------------------------
(* POST /search/federated. *)

\* acl_terms_from_jwt: the terms of a token, which may be older than the
\* caller's membership.  No terms, no search.  The request may switch off the
\* backends other than "indexed".
Search(acl, from, backends) ==
    /\ find.pc = "idle" /\ open.pc = "idle"
    /\ find' = IF acl = {} THEN [NoFind EXCEPT !.pc = "done", !.code = 200]
               ELSE [NoFind EXCEPT !.pc = "search", !.acl = acl, !.wait = backends, !.from = from,
                                   !.stale = {d \in Doc : Behind(d)}]
    /\ UNCHANGED <<inForce, owned, copy, nearest, matching, open, changes, faults>>

Answer(b, hits, ok) ==
    find' = [find EXCEPT !.wait = @ \ {b}, !.hits[b] = hits, !.ok = IF ok THEN @ \cup {b} ELSE @]

\* The points nearest to the query, of the whole tenant.
Nearest == First(2 * Size, Only(nearest, {d \in Doc : copy["points"][d] # Gone}))

\* Mutant: the hits of the shared collection are not checked.
SearchIndexedOpen ==
    /\ "indexed" \in find.wait
    /\ Answer("indexed", Nearest, TRUE)
    /\ UNCHANGED <<inForce, owned, copy, nearest, matching, open, changes, faults>>

\* _safe_call_indexed takes the nearest of the whole tenant, and only then
\* looks which of them the caller may see.
SearchIndexed ==
    /\ "indexed" \in find.wait
    /\ \/ /\ Answer("indexed", Only(Nearest,
                                    {d \in Doc : /\ copy["points"][d] # Gone
                                                 /\ Visible(find.acl, copy["points"][d])}), TRUE)
          /\ UNCHANGED faults
       \/ Fault /\ Answer("indexed", <<>>, FALSE)
    /\ UNCHANGED <<inForce, owned, copy, nearest, matching, open, changes>>

\* OpenSearchLexicalStore.search: the engine returns matches the clause lets by.
LexicalHits(acl) ==
    First(2 * Size, Only(matching, {d \in Doc : /\ copy["lexical"][d] # Gone
                                                /\ AclClause(acl, copy["lexical"][d])}))

\* The store catches what the engine raises: no hits, and the backend is "ok".
SearchLexical ==
    /\ "lexical" \in find.wait
    /\ \/ Answer("lexical", LexicalHits(find.acl), TRUE) /\ UNCHANGED faults
       \/ /\ Fault
          /\ find' = [find EXCEPT !.wait = @ \ {"lexical"}, !.ok = @ \cup {"lexical"}, !.mute = TRUE]
    /\ UNCHANGED <<inForce, owned, copy, nearest, matching, open, changes>>

\* _safe_call_vector fails without an embedding.  With one, QdrantVectorStore
\* .search passes a limit `fetch_k' that is bound nowhere; it catches the
\* NameError like any failure of Qdrant's, so the list is empty and "ok".
SearchVector ==
    /\ "vector" \in find.wait
    /\ \/ Answer("vector", <<>>, TRUE) /\ UNCHANGED faults
       \/ Fault /\ Answer("vector", <<>>, FALSE)
    /\ UNCHANGED <<inForce, owned, copy, nearest, matching, open, changes>>

\* Reciprocal rank fusion, 1 / (60 + rank), over two lists: what the shared
\* collection and OpenSearch found, one after the other, and the vector's.  No
\* engine finds a document twice.  Ranks go up to 4 * Size; Unit is a multiple
\* of each 60 + rank for Size = 1.
Unit == 61 * 62 * 63 * 64
Gain(ahead, b, d) ==
    IF d \in ToSet(find.hits[b]) THEN Unit \div (60 + ahead + Place(find.hits[b], d)) ELSE 0

Score(d) ==
    Gain(0, "indexed", d) + Gain(Len(find.hits["indexed"]), "lexical", d) + Gain(0, "vector", d)

Met == find.hits["indexed"] \o find.hits["lexical"] \o find.hits["vector"]

\* sorted() is stable: documents of one score stay as they were found.
Ahead(d, e) == Score(d) > Score(e) \/ (Score(d) = Score(e) /\ Place(Met, d) < Place(Met, e))

\* _merge_and_rank keeps the first Size of them ...
Merged ==
    First(Size, InOrder(ToSet(Met), {x \in ToSet(Met) \X ToSet(Met) : Ahead(x[1], x[2])}))

\* ... of which the handler takes the page [from : from + size].
Respond ==
    /\ find.pc = "search" /\ find.wait = {}
    /\ find' = [find EXCEPT !.pc = "done",
                            !.code = IF find.ok = {} THEN 503 ELSE 200,
                            !.page = IF find.ok = {} THEN <<>>
                                     ELSE SubSeq(Merged, find.from + 1, Len(Merged))]
    /\ UNCHANGED <<inForce, owned, copy, nearest, matching, open, changes, faults>>

\* The answer is read and the next search may begin.
Read == /\ find.pc = "done" /\ find' = NoFind
        /\ UNCHANGED <<inForce, owned, copy, nearest, matching, open, changes, faults>>

-----------------------------------------------------------------------------
(* GET /document/{id}. *)

\* The payload is loaded by the id of the document or, when the id is one of
\* its chunks, by the parent the chunk names: the caller asks for `d' either way.
OpenDoc(d) ==
    /\ open.pc = "idle" /\ find.pc = "idle"
    /\ open' = IF copy["points"][d] # Gone
               THEN [pc |-> "decide", doc |-> d, stale |-> Behind(d)]
               ELSE [NoOpen EXCEPT !.pc = "missing"]
    /\ UNCHANGED <<inForce, owned, copy, nearest, matching, find, changes, faults>>

\* Mutant: a row of a group lets everybody in.
CanReadGroups(d) == inForce[d] # Gone /\ {"me", "team"} \cap inForce[d] # {}

\* principal_can_read_document: the live rows that name the caller; a row of a
\* group names nobody.
CanRead(d) == inForce[d] # Gone /\ "me" \in inForce[d] /\ "deny:me" \notin inForce[d]

Decide ==
    /\ open.pc = "decide"
    /\ open' = [open EXCEPT !.pc = IF CanRead(open.doc) THEN "body" ELSE "forbidden"]
    /\ UNCHANGED <<inForce, owned, copy, nearest, matching, find, changes, faults>>

Close == /\ open.pc \in {"body", "forbidden", "missing"} /\ open' = NoOpen
         /\ UNCHANGED <<inForce, owned, copy, nearest, matching, find, changes, faults>>

RetrievalNext ==
    \/ \E d \in Doc : \/ PersistTerms(d) \/ Drop(d)
                      \/ \E i \in Index : Upsert(i, d) \/ Fallback(i, d)
                      \/ OpenDoc(d)
    \/ \E acl \in Caller, from \in 0..Size, off \in SUBSET {"lexical", "vector"} :
           Search(acl, from, Backend \ off)
    \/ SearchIndexed \/ SearchLexical \/ SearchVector \/ Respond \/ Read
    \/ Decide \/ Close

RetrievalSpec == RetrievalInit /\ [][RetrievalNext]_retrievalVars

-----------------------------------------------------------------------------
(* Properties. *)

\* What the rows in force say of a caller, a denial before an allowance; and
\* where the indexes say otherwise even when they are up to date: a denial of
\* the caller reads like an allowance, and so do the connected user's terms.
RowsLet(acl, d)    == inForce[d] # Gone /\ Visible(acl, inForce[d])
DenialLost(acl, d) == inForce[d] # Gone /\ DenyTerms(acl) \cap inForce[d] # {}
Lent(acl, d)       == d \in owned /\ "me" \in acl

\* A document that no index was behind on during the search is in the answer
\* only when the rows in force let the caller see it: the filters before and
\* after an engine's limit, and of two versions of the terms, add nobody.
\* Those two exceptions are the code's (pipeline.py 283-288, indexer.py 56-59).
SettledIsExact ==
    \A i \in DOMAIN find.page : LET d == find.page[i] IN
        \/ d \in find.stale
        \/ RowsLet(find.acl, d) \/ DenialLost(find.acl, d) \/ Lent(find.acl, d)

\* The shared collection may return nothing but other people's documents.  As
\* long as OpenSearch answers, a page is full whenever enough of the documents
\* it matches are the caller's by the rows.
LexicalMakesUp ==
    find.pc = "done" /\ "lexical" \in find.ok /\ ~find.mute /\ find.from = 0 =>
        LET mine == {d \in ToSet(matching) \ find.stale :
                        RowsLet(find.acl, d)} IN
        Cardinality(mine) >= Size => Len(find.page) = Size

\* A page holds what the caller may see, and is filled with it.
PageIsExact == SettledIsExact /\ LexicalMakesUp

\* What the reader opens, a search with the caller's name would show: a row that
\* lets the reader decide has its name in the index once that is up to date.
OpenedIsVisible ==
    open.pc = "body" /\ ~open.stale /\ copy["points"][open.doc] = Due[open.doc]
        => Visible({"me"}, copy["points"][open.doc])
=============================================================================
