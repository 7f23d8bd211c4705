------------------------------ MODULE Services ------------------------------
(***************************************************************************)
(* The services that share no state with each other, side by side: Init    *)
(* picks the one that runs, and the steps are that service's.  Each module *)
(* says which part of the code it is.                                      *)
(***************************************************************************)
EXTENDS Integers, FiniteSets

CONSTANTS
    None,
    \* Directory
    Native, First, Subject, Caller, Feeder,
    MaxWork,      \* bound: requests and SCIM runs
    \* MicrosoftSync
    Item, Worker, PageSize,
    MaxChanges,   \* bound: changes in the mailbox or drive
    MaxCrawls,    \* bound: backfills
    \* Signals
    Event, Who, Private, Happened, Given, Window, Document, Process, Config, Default, CachePeriod,
    MaxTime,      \* bound of the clock
    \* PersonGraph
    Person, Relation,
    MaxMerges,    \* bound: merges attempted
    \* TenantConnectors
    Admin, Request,
    MaxConsents,  \* bound: requests
    MaxTimeouts,  \* bound: disconnects whose clean-up does not finish
    \* DocumentCopies
    Tenant, Writer, Reader,
    MaxVersion,   \* bound: versions at the source
    MaxRuns,      \* bound: runs that index or delete
    \* TenantRouting
    MaxMoves,     \* bound: new passwords, and moves of the database
    \* TokenKeys
    MaxKeys,      \* bound: keys that are generated
    MaxTokens,    \* bound: tokens that are stored
    \* PrincipalMatch
    Address, Source, Name,
    MaxCalls,     \* bound
    \* ToolGateway
    User,
    MaxPasses,    \* bound: access tokens
    MaxRevokes,   \* bound: revocations
    \* all of them
    MaxFaults,    \* bound: failures
    MaxLosses     \* bound: failures, of TokenKeys and ToolGateway

\* None is told apart from whatever stands where None may.
ASSUME NoneAssumption ==
    /\ None \notin [key : Nat, number : Nat]
    /\ None \notin Name \cup Address
    /\ None \notin [id : Nat, names : [Source -> Name \cup {None}]]
    /\ None \notin [step : {"address", "username", "create", "update"}, id : Nat, address : Address \cup {None},
                    source : Source, name : Name, username : Name \cup {None},
                    read : [id : Nat, names : [Source -> Name \cup {None}]] \cup {None}]
    /\ None \notin [step : {"secret", "engine"}, hit : BOOLEAN, host : {"direct", "other"}, password : Nat,
                    guess : BOOLEAN, old : BOOLEAN]
    /\ None \notin [to : {"own", "cloud"}, host : {"direct", "other"}, password : Nat, guess : BOOLEAN, old : BOOLEAN]
    /\ None \notin [config : [mode : {"oauth", "dwd", "admin"}, by : Admin \cup {None}],
                    ref : {"key", None} \cup Admin]
    /\ None \notin [kind : {"organization", "personal", "upsert", "delete"},
                    config : [mode : {"oauth", "dwd", "admin"}, by : Admin \cup {None}],
                    ref : {"key", None} \cup Admin, scope : {"personal", "organization"},
                    loaded : [config : [mode : {"oauth", "dwd", "admin"}, by : Admin \cup {None}],
                              ref : {"key", None} \cup Admin] \cup {None},
                    held : BOOLEAN]
    /\ None \notin [as : Admin \cup {None}, vouched : SUBSET ({"key", None} \cup Admin)]
    /\ None \notin [step : {"publish"}, kind : {"token"}, of : Nat, tokens : SUBSET Nat]
    /\ None \notin [step : {"stamp", "commit", "publish"}, kind : {"session"}, of : User, ver : Nat,
                    tokens : SUBSET Nat]
    /\ None \notin [step : {"jti", "version", "serve"}, of : Nat, settled : BOOLEAN]
    /\ None \notin [at : Int, ttl : Int]
    /\ None \notin [until : Int, answer : [shown : BOOLEAN, seen : SUBSET Event]]
    /\ None \notin [job : Event \cup {Document} \cup {Who[e] : e \in Event},
                    config : [limit : Int, days : Int, short : Int, closed : BOOLEAN],
                    limits : SUBSET Int, at : Int \cup {None}]
    /\ None \notin {"direct", "other"}
    /\ None \notin [tenant : Tenant, at : {"api", "worker"}, version : Nat,
                    step : {"point", "object", "row", "local", "chunks", "unsaved", "unpoint", "unrows"}]
    /\ None \notin [tenant : Tenant, version : Nat]
    /\ None \notin [tenant : Tenant, by : {"document", "chunk"}, of : {"store", "point"}, ended : Nat, since : Nat,
                    row : Nat, structure : Nat, body : Nat,
                    step : {"missing", "decide", "forbidden", "structure", "body", "answered"}]
ASSUME DirectoryAssumption ==
    /\ First \in Native
    /\ None \notin Native \cup Subject
    /\ None \notin [email : Native \cup Subject, pw : Nat, must : BOOLEAN, role : {"admin", "member"},
                    active : BOOLEAN]
    /\ None \notin [role : {"admin", "member", None}, active : BOOLEAN \cup {None}]
    /\ None \notin {"invite", "patch", "reset", "change"} /\ None \notin {"admin", "member"}
    /\ \A members \in SUBSET Subject : None # members
\* Relations are pairs; None is no node, edge or snapshot.
ASSUME GraphAssumption ==
    LET being == Person \cup UNION {{e[1], e[2]} : e \in Relation}
        link  == being \X being
    IN /\ None \notin Person
       /\ None \notin link
       /\ None \notin Person \X Person
       /\ None \notin [edges : SUBSET link, created : SUBSET link]
       /\ \A e \in Relation : e = <<e[1], e[2]>>
ASSUME PageAssumption == PageSize \in Nat \ {0}
\* Finitely many events; thresholds and terms are numbers (models/activity.py 88-90).
ASSUME SignalsAssumption ==
    /\ IsFiniteSet(Event) /\ Happened \in [Event -> Int] /\ Given \in [Event -> Int] /\ Window \in Int
    /\ Config \subseteq [limit : Int, days : Int, short : Int, closed : BOOLEAN] /\ Default \in Config
    /\ CachePeriod \in Nat

VARIABLES part, faults
VARIABLES setup, users, groups, caller, feeder, issued, passwords, work
VARIABLES feed, version, present, piped, plain, top, lost, stored, gone, watch, queue, task, sound, crawls
VARIABLES store, clock, config, rows, cached, request, taken, right
VARIABLES row, tokens, enabled, pending, queued, crawl, read, standing, named, sent, timeouts
VARIABLES nodes, edges, snapshots, facts, into, undo, halfway, apart, restored, merges
VARIABLES backend, latest, kept, point, object, meta, chunks, access, job, reading, indexed, saved, crossed, missed, runs
VARIABLES vault, control, cloud, real, secret, address, hint, resolving, engine, rotating, changes, outdated
VARIABLES custody, seeded, root, key, loading, minted, blob, copy, saving, numbered, newest, forked, behind
VARIABLES principals, matching, matched, overtaken, calls
VARIABLES passes, level, reach, barred, stamp, hearing, wire, away, inquiry, ended, frail, open, revokes

directory == <<setup, users, groups, caller, feeder, issued, passwords, work>>
microsoft == <<feed, version, present, piped, plain, top, lost, stored, gone, watch, queue, task, sound, crawls>>
signals == <<store, clock, config, rows, cached, request, taken, right>>
graph == <<nodes, edges, snapshots, facts, into, undo, halfway, apart, restored, merges>>
connectors == <<row, tokens, enabled, pending, queued, crawl, read, standing, named, sent, timeouts>>
documents == <<backend, latest, kept, point, object, meta, chunks, access, job, reading, indexed, saved, crossed, missed, runs>>
routing == <<vault, control, cloud, real, secret, address, hint, resolving, engine, rotating, changes, outdated>>
tokenkeys == <<custody, seeded, root, key, loading, minted, blob, copy, saving, numbered, newest, forked, behind>>
people == <<principals, matching, matched, overtaken, calls>>
gateway == <<passes, level, reach, barred, stamp, hearing, wire, away, inquiry, ended, frail, open, revokes>>
all == <<part, faults, directory, microsoft, signals, graph, connectors, documents, routing, tokenkeys, people,
         gateway>>

Users    == INSTANCE Directory
Mail     == INSTANCE MicrosoftSync
Activity == INSTANCE Signals
People   == INSTANCE PersonGraph
Consents == INSTANCE TenantConnectors WITH Person <- Admin, MaxRequests <- MaxConsents
Copies   == INSTANCE DocumentCopies
Routes   == INSTANCE TenantRouting WITH MaxChanges <- MaxMoves
Keys     == INSTANCE TokenKeys WITH MaxFaults <- MaxLosses
Match    == INSTANCE PrincipalMatch
Tools    == INSTANCE ToolGateway WITH MaxFaults <- MaxLosses

Init ==
    /\ part \in {"directory", "microsoft", "signals", "graph", "connectors", "documents",
                "routing", "tokenkeys", "people", "gateway"}
    /\ Users!Init /\ Mail!Init /\ Activity!Init /\ People!Init /\ Consents!Init
    /\ Copies!Init /\ Routes!Init /\ Keys!Init /\ Match!Init /\ Tools!Init
    /\ store = "postgres" => part = "signals"
    /\ enabled => part = "connectors"
    /\ backend = "memory" \/ (\E t \in Tenant : kept[t] # 0) => part = "documents"
    /\ custody = "mock" \/ seeded => part = "tokenkeys"
    /\ vault = "mock" \/ control = 1 \/ cloud # None => part = "routing"

Next ==
    /\ UNCHANGED part
    /\ \/ /\ part = "directory" /\ Users!Next
          /\ UNCHANGED <<microsoft, signals, graph, connectors, documents, routing,
                          tokenkeys, people, gateway>>
       \/ /\ part = "microsoft" /\ Mail!Next
          /\ UNCHANGED <<directory, signals, graph, connectors, documents, routing,
                          tokenkeys, people, gateway>>
       \/ /\ part = "signals" /\ Activity!Next
          /\ UNCHANGED <<directory, microsoft, graph, connectors, faults, documents,
                          routing, tokenkeys, people, gateway>>
       \/ /\ part = "graph" /\ People!Next
          /\ UNCHANGED <<directory, microsoft, signals, connectors, documents, routing,
                          tokenkeys, people, gateway>>
       \/ /\ part = "connectors" /\ Consents!Next
          /\ UNCHANGED <<directory, microsoft, signals, graph, faults, documents, routing,
                          tokenkeys, people, gateway>>
       \/ /\ part = "documents" /\ Copies!Next
          /\ UNCHANGED <<directory, microsoft, signals, graph, connectors, routing,
                          tokenkeys, people, gateway>>
       \/ /\ part = "routing" /\ Routes!Next
          /\ UNCHANGED <<directory, microsoft, signals, graph, connectors, documents,
                          tokenkeys, people, gateway>>
       \/ /\ part = "tokenkeys" /\ Keys!Next
          /\ UNCHANGED <<directory, microsoft, signals, graph, connectors, documents,
                          routing, people, gateway>>
       \/ /\ part = "people" /\ Match!Next
          /\ UNCHANGED <<directory, microsoft, signals, graph, connectors, documents,
                          routing, tokenkeys, gateway>>
       \/ /\ part = "gateway" /\ Tools!Next
          /\ UNCHANGED <<directory, microsoft, signals, graph, connectors, documents,
                          routing, tokenkeys, people>>

Spec == Init /\ [][Next]_all

\* An account stays what the last request about it made it (Directory says
\* what is excepted).
AccountStands == Users!AccountStands

\* A SCIM run that succeeded and met no other left exactly what it was fed
\* (Directory says what is excepted).
FeedApplied == Users!FeedApplied

\* No stored link passes an item that nobody indexed (MicrosoftSync says what
\* is excepted).
LinkCovered == Mail!LinkCovered

\* One page per notification keeps the index current once the feed's end was
\* reached (MicrosoftSync says what is excepted).
NotifiedIsIndexed == Mail!NotifiedIsIndexed

\* An event that is retried is ingested once and kept for its term (Signals
\* says what is excepted).
IngestedOnce == Activity!IngestedOnce

\* An answer shows enough actors, misses no live event of its window and counts
\* none that is long over (Signals says what is excepted).
AnswerStands == Activity!AnswerStands

\* No merge and no undoing of the newest one loses a relation (PersonGraph
\* says what is excepted).
RelationsStand == People!RelationsStand

\* An organization is connected, and crawled, by consent of somebody who was
\* not removed since (TenantConnectors says what is excepted).
ConsentStands == Consents!ConsentStands

\* Body and metadata of an answer fit, and are not older than when it was
\* asked for (DocumentCopies says what is excepted).
AnswerFits == Copies!AnswerFits

\* An engine opens its own tenant's database (TenantRouting says what is
\* excepted).
EngineOpens == Routes!EngineOpens

\* The token stored last can be decrypted by every process that has a key
\* (TokenKeys says what is excepted).
TokenReadable == Keys!TokenReadable

\* An address keeps the principal it was answered with (PrincipalMatch says
\* what is excepted).
SameIdentity == Match!SameIdentity

\* No tool serves a token whose revocation was through (ToolGateway says what
\* is excepted).
RevokedTurnedAway == Tools!RevokedTurnedAway
=============================================================================
