------------------------------ MODULE Signals ------------------------------
(***************************************************************************)
(* The activity store (services/signals): events that expire, the answers  *)
(* about a document and about a person computed from them, and the         *)
(* threshold of distinct actors under which a document's numbers are kept  *)
(* back.  "mock" is the store of one process, whose operations run to      *)
(* their end and whose answers are cached; "postgres" is shared by several *)
(* processes, each operation of which reads and writes on its own          *)
(* connections.  One tenant and one document.                              *)
(***************************************************************************)
EXTENDS Integers, FiniteSets

CONSTANTS
    None,
    Event,          \* event ids; a client that retries sends the same one
    Who,            \* [Event -> actor_principal_id]
    Private,        \* the events of a restricted or confidential level
    Happened,       \* [Event -> event_time], which the client gives
    Given,          \* [Event -> ttl_seconds] of the client, 0 when it gives none
    Window,         \* settings.popularity_window_days
    Document,       \* the object of every event
    Process,        \* the processes on the shared database
    Config,         \* activity_config rows: [limit, days, short, closed]
    Default,        \* _default_config: the row from the settings
    CachePeriod,    \* time an answer stays in the mock store's cache
    MaxTime         \* bound of the clock

VARIABLES
    store,          \* settings.signals_backend
    clock,
    config,         \* the tenant's configuration
    rows,           \* the stored events: when ingested, kept how long
    cached,         \* mock: the answers kept, by what they are about
    request,        \* postgres: the operation a process is in
    taken,          \* history: answers "ingested" of an event since it was last absent
    right           \* history: the last answer was right when given

vars == <<store, clock, config, rows, cached, request, taken, right>>

Query == {Document} \cup {Who[e] : e \in Event}

Init ==
    /\ store \in {"mock", "postgres"} /\ config = Default
    /\ clock = 0
    /\ rows = [e \in Event |-> None] /\ taken = [e \in Event |-> 0]
    /\ cached = [q \in Query |-> None] /\ request = [p \in Process |-> None]
    /\ right = TRUE
-----------------------------------------------------------------------------
Ttl(e, c) ==
    CASE Given[e] > 0                     -> Given[e]
      [] Given[e] <= 0 /\ e \in Private    -> c.short
      [] Given[e] <= 0 /\ e \notin Private -> c.days

Until(e) == rows[e].at + rows[e].ttl

Active == {e \in Event : rows[e] # None /\ clock < Until(e)}

\* The last moment an event is among the recent ones of its document.
Last(e) == Happened[e] + Window

\* A document is judged by its live events of the popularity window, a person
\* by all that live.
About(q) == {e \in Active : IF q = Document THEN clock <= Last(e) ELSE Who[e] = q}

Actors(S) == {Who[e] : e \in S}

\* What is answered about q from the rows and a configuration.
Answer(q, c) ==
    [shown |-> q = Document => Cardinality(Actors(About(q))) >= c.limit, seen |-> About(q)]

\* An answer is right if it shows numbers of enough actors for a threshold in
\* force since it was asked for, counts every live event (of a document: of the
\* popularity window), and counts none that expired or left the window more than
\* a cache period ago; if it withholds them, the actors of the live events of the
\* window are too few for such a threshold.
Right(q, a, limits) ==
    \E l \in limits :
        IF a.shown
        THEN /\ q = Document => Cardinality(Actors(a.seen)) >= l
             /\ About(q) \subseteq a.seen
             /\ \A e \in a.seen : /\ rows[e] # None /\ clock <= Until(e) + CachePeriod
                                 /\ q = Document => clock <= Last(e) + CachePeriod
        ELSE Cardinality(Actors(About(q))) < l

Record(e, ttl, at) ==
    /\ rows' = [rows EXCEPT ![e] = [at |-> at, ttl |-> ttl]]
    /\ taken' = [taken EXCEPT ![e] = @ + 1]

Forget == cached' = [q \in Query |-> None]
-----------------------------------------------------------------------------
(* The mock store *)

IngestKeeps(e) ==
    /\ store = "mock" /\ ~config.closed /\ rows[e] = None
    /\ Record(e, Ttl(e, config), clock)
    /\ UNCHANGED <<store, clock, config, cached, request, right>>

\* ingest_event: a known id is "already_processed", a new one drops every cached answer.
Ingest(e) ==
    /\ store = "mock" /\ ~config.closed /\ rows[e] = None
    /\ Record(e, Ttl(e, config), clock)
    /\ Forget
    /\ UNCHANGED <<store, clock, config, request, right>>

Fresh(q) == cached[q] # None /\ clock <= cached[q].until

\* get_document_signals, get_user_signals: from the cache, else computed and cached.
Ask(q) ==
    /\ store = "mock"
    /\ IF Fresh(q)
       THEN /\ right' = Right(q, cached[q].answer, {config.limit})
            /\ UNCHANGED cached
       ELSE /\ cached' = [cached EXCEPT ![q] =
                            [until |-> clock + CachePeriod, answer |-> Answer(q, config)]]
            /\ right' = Right(q, Answer(q, config), {config.limit})
    /\ UNCHANGED <<store, clock, config, rows, request, taken>>
-----------------------------------------------------------------------------
(* The Postgres store: each step is on a connection of its own *)

\* ensure_tenant and get_config; a disabled source ends an ingestion here.
Begin(p, job) ==
    /\ store = "postgres" /\ request[p] = None
    /\ job \in Event => ~config.closed
    /\ request' = [request EXCEPT ![p] =
                     [job |-> job, config |-> config, limits |-> {config.limit}, at |-> None]]
    /\ UNCHANGED <<store, clock, config, rows, cached, taken, right>>

\* The select of the ingestion: a row answers "already_processed".
Look(p) ==
    /\ request[p] # None /\ request[p].job \in Event /\ request[p].at = None
    /\ request' = [request EXCEPT ![p] =
                     IF rows[@.job] # None THEN None ELSE [@ EXCEPT !.at = clock]]
    /\ UNCHANGED <<store, clock, config, rows, cached, taken, right>>

InsertAnyway(p) ==
    /\ request[p] # None /\ request[p].at # None
    /\ Record(request[p].job, Ttl(request[p].job, request[p].config), request[p].at)
    /\ request' = [request EXCEPT ![p] = None]
    /\ UNCHANGED <<store, clock, config, cached, right>>

\* The insert and the commit, if no other process's insert came between.
Insert(p) ==
    /\ request[p] # None /\ request[p].at # None /\ rows[request[p].job] = None
    /\ Record(request[p].job, Ttl(request[p].job, request[p].config), request[p].at)
    /\ request' = [request EXCEPT ![p] = None]
    /\ UNCHANGED <<store, clock, config, cached, right>>

\* The primary key refuses the second: the event is among failed_events.
InsertFails(p) ==
    /\ request[p] # None /\ request[p].at # None /\ rows[request[p].job] # None
    /\ request' = [request EXCEPT ![p] = None]
    /\ UNCHANGED <<store, clock, config, rows, cached, taken, right>>

\* The select of the rows and the answer, under the configuration read before.
Reply(p) ==
    /\ LET r == request[p] IN right' = Right(r.job, Answer(r.job, r.config), r.limits)
    /\ request' = [request EXCEPT ![p] = None]
    /\ UNCHANGED <<store, clock, config, rows, cached, taken>>

CountDocument(p) == request[p] # None /\ request[p].job = Document /\ Reply(p)

CountPerson(p) == request[p] # None /\ request[p].job \in Query \ {Document} /\ Reply(p)
-----------------------------------------------------------------------------
(* Both *)

\* set_config drops the cached answers of the tenant.
SetConfig(c) ==
    /\ c # config /\ config' = c
    /\ request' = [p \in Process |->
         IF request[p] = None THEN None ELSE [request[p] EXCEPT !.limits = @ \cup {c.limit}]]
    /\ Forget
    /\ UNCHANGED <<store, clock, rows, taken, right>>

\* purge_expired
Purge ==
    /\ \E e \in Event : rows[e] # None /\ e \notin Active
    /\ rows' = [e \in Event |-> IF e \in Active THEN rows[e] ELSE None]
    /\ taken' = [e \in Event |-> IF e \in Active THEN taken[e] ELSE 0]
    /\ Forget
    /\ UNCHANGED <<store, clock, config, request, right>>

Tick ==
    /\ clock < MaxTime /\ clock' = clock + 1
    /\ UNCHANGED <<store, config, rows, cached, request, taken, right>>

Next ==
    \/ \E e \in Event : Ingest(e)
    \/ \E q \in Query : Ask(q)
    \/ \E p \in Process, job \in Event \cup Query : Begin(p, job)
    \/ \E p \in Process : Look(p) \/ Insert(p) \/ InsertFails(p) \/ CountDocument(p) \/ CountPerson(p)
    \/ \E c \in Config : SetConfig(c)
    \/ Purge
    \/ Tick

Spec == Init /\ [][Next]_vars
-----------------------------------------------------------------------------
\* An event is answered "ingested" once, whichever processes its retries reach,
\* until a purge has removed it: its row stands and its retention runs from
\* then on, also if the configuration changed while a second request was between
\* its look and its insert.
IngestedOnce == \A e \in Event : taken[e] <= 1

\* Whatever was ingested, purged, expired or reconfigured between the moments an
\* answer reads: it shows numbers only of enough actors for a threshold in force
\* since it was asked for, misses no live event (about a document: none of its
\* popularity window), and counts none that expired or left the window more than
\* the cache period ago.
AnswerStands == right
=============================================================================
