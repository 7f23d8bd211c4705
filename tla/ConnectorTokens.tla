-------------------------- MODULE ConnectorTokens --------------------------
(***************************************************************************)
(* The OAuth tokens behind a user's two connectors of one provider: the    *)
(* consent flow (connectors/router.py, microsoft/plugin.py, oauth_state.py)*)
(* that stores them, the tasks that read and refresh them (google/oauth.py,*)
(* microsoft/oauth.py) and the disconnect of one source (router.py,        *)
(* plugin.on_disconnect), which drops them when the other one is gone too. *)
(*                                                                         *)
(* Google serves "file" (Drive) and "mail" (Gmail) with one token,         *)
(* Microsoft OneDrive and Outlook; the two code paths are told apart by    *)
(* `provider', chosen in Init.  A blob is kept in Redis and in Vault under *)
(* a key: "own" is <provider>_oauth:<tenant>:<user>, and "nested" is what  *)
(* the same function yields when a caller hands it the cursor scope        *)
(* <tenant>:<user> as the tenant: <provider>_oauth:<tenant>:<user>:<user>. *)
(*                                                                         *)
(* Every handler and task owns a token store whose memory is its `mem' or  *)
(* `tok'; encryption is PersistentGoogleTokenStore's and always succeeds.  *)
(* set_status is one step here; ConnectorSync has its two halves.          *)
(* A token is the consent it was issued for, of the same account at the    *)
(* provider or another: its access part may be found to have run out at    *)
(* any use, so that is not part of the state.                              *)
(***************************************************************************)
EXTENDS Naturals, FiniteSets

CONSTANTS
    Flow,         \* consents the user gives
    Callback,     \* GET /<provider>/callback requests
    Task,         \* Celery workers that need a token
    None,
    MaxFaults,    \* bound: failing calls, refused refreshes, cut-off disconnects
    MaxNotes      \* bound: notifications and watch renewals

ASSUME ApartAssumption == None \notin Flow \cup {"file", "mail"} /\ Task \cap {"file", "mail"} = {}
ASSUME BoundsAssumption == {MaxFaults, MaxNotes} \subseteq Nat

VARIABLES
    provider,  \* "google" or "microsoft"
    erases,    \* whether the vault's client has a delete: the mock of one process
               \* has, Azure's and HashiCorp's have not
    seen,      \* flows the user has opened
    nonce,     \* flows whose state nonce is in Redis
    code,      \* flows whose authorization code has not been exchanged
    redis, vault,  \* the blob under each key
    status,    \* connection_status of each source in Redis, or "absent"
    rows,      \* sources with a tenant_connectors row
    cursor,    \* sources with a sync cursor
    queued,    \* sources with a backfill message in the broker
    cb,        \* what each callback is doing
    task,      \* what each worker is doing
    disc,      \* what the request that disconnects each source is doing
    opened,    \* history: flows a callback went past the state of
    reused,    \* history: a second one did, without meeting the first or an outage
    latest,    \* history: the consent whose token was stored last by a callback
    held,      \* history: tasks and disconnects whose token was read before that
    crossed,   \* history: one of those stored a refreshed token since, or one of the two
               \* stores missed the write
    leftover,  \* history: the token was stored after both sources were disconnected,
               \* or the disconnect that should drop it failed
    mixed,     \* history: a disconnect overlapped a connect or a backfill of its source,
               \* or a row or status write failed
    faults, notes

setting == <<provider, erases>>
stores  == <<seen, nonce, code, redis, vault, status, rows, cursor, queued>>
actors  == <<cb, task, disc>>
history == <<opened, reused, latest, held, crossed, leftover, mixed>>
spent   == <<faults, notes>>
vars    == <<setting, stores, actors, history, spent>>

Source   == {"file", "mail"}
Key      == {"own", "nested"}
Statuses == {"absent", "not_connected", "syncing", "active", "error", "needs_reauth"}

NoCallback == [pc |-> "idle", flow |-> None, raced |-> FALSE]
NoTask     == [pc |-> "idle", key |-> "own", mem |-> None, src |-> None]

TypeOK ==
    /\ provider \in {"google", "microsoft"} /\ erases \in BOOLEAN
    /\ seen \subseteq Flow /\ nonce \subseteq seen
    /\ code \subseteq seen
    /\ redis \in [Key -> Flow \cup {None}] /\ vault \in [Key -> Flow \cup {None}]
    /\ status \in [Source -> Statuses]
    /\ rows \subseteq Source /\ cursor \subseteq Source /\ queued \subseteq Source
    /\ cb \in [Callback -> [pc : {"idle", "get", "delete", "exchange", "merge", "rows", "done"},
                            flow : Flow \cup {None}, raced : BOOLEAN]]
    /\ task \in [Task -> [pc : {"idle", "use", "save"}, key : Key,
                          mem : Flow \cup {None}, src : Source \cup {None}]]
    /\ disc \in [Source -> [pc : {"idle", "watch", "refresh", "save", "row", "clear",
                                  "done"},
                            mem : Flow \cup {None}]]
    /\ opened \subseteq Flow
    /\ latest \in Flow \cup {None} /\ held \subseteq Task \cup Source
    /\ {reused, crossed, leftover, mixed} \subseteq BOOLEAN
    /\ faults \in 0..MaxFaults /\ notes \in 0..MaxNotes

Init ==
    /\ provider \in {"google", "microsoft"} /\ erases \in BOOLEAN
    /\ seen = {} /\ nonce = {} /\ code = {}
    /\ redis = [k \in Key |-> None] /\ vault = [k \in Key |-> None]
    /\ status = [s \in Source |-> "absent"]
    /\ rows = {} /\ cursor = {} /\ queued = {}
    /\ cb = [c \in Callback |-> NoCallback]
    /\ task = [t \in Task |-> NoTask]
    /\ disc = [s \in Source |-> [pc |-> "idle", mem |-> None]]
    /\ opened = {} /\ reused = FALSE /\ latest = None /\ held = {}
    /\ crossed = FALSE /\ leftover = FALSE /\ mixed = FALSE
    /\ faults = 0 /\ notes = 0

-----------------------------------------------------------------------------
\* BOUND: what fails, and a notification, belongs to the histories of one
\* consent; in those of two everything succeeds.
Fault == faults < MaxFaults /\ Cardinality(seen) <= 1 /\ faults' = faults + 1

\* get_status answers "not_connected" for a missing key.
Gone(s)  == status[s] \in {"absent", "not_connected"}
AllGone  == \A s \in Source : Gone(s)
Other(s) == CHOOSE o \in Source : o # s

\* set_status(v): dropped, unless forced, when the key says "not_connected".
Stamped(s, v, force) ==
    IF status[s] = "not_connected" /\ ~force THEN status ELSE [status EXCEPT ![s] = v]

\* Mutant: the mark is one that is no status.
ReauthMisspelt(key) == [s \in Source |-> "reauth"]

\* A failed refresh marks both sources; under the nested key it names a
\* status key nobody reads.
Reauth(key) ==
    IF key = "nested" THEN status
    ELSE [s \in Source |-> IF status[s] = "not_connected" THEN status[s] ELSE "needs_reauth"]

\* get_token: Redis, and Vault when Redis has nothing.
Stored(key) == IF redis[key] # None THEN redis[key] ELSE vault[key]

\* Mutant: the nested key is looked up first, whichever key was asked for.
LookupNestedFirst(key, mem) ==
    IF mem # None THEN mem
    ELSE IF Stored("nested") # None THEN Stored("nested") ELSE Stored("own")

\* get_valid_token's lookup.  With the nested key the fallback, the key of
\* "the tenant", is the user's own; with the own key it is the tenant's,
\* which no flow of a user writes.
Lookup(key, mem) ==
    IF key = "own" THEN IF mem # None THEN mem ELSE Stored("own")
    ELSE IF Stored("nested") # None THEN Stored("nested")
    ELSE IF mem # None THEN mem ELSE Stored("own")

\* set_token: each store is written best effort.
SetToken(key, tok) ==
    \/ /\ redis' = [redis EXCEPT ![key] = tok] /\ vault' = [vault EXCEPT ![key] = tok]
       /\ UNCHANGED faults
    \/ Fault /\ redis' = [redis EXCEPT ![key] = tok] /\ UNCHANGED vault
    \/ Fault /\ vault' = [vault EXCEPT ![key] = tok] /\ UNCHANGED redis

Late(key) ==
    leftover' = (leftover \/ (key = "own" /\ \A s \in Source : status[s] = "not_connected"))

CallbackOpen == \E c \in Callback : cb[c].pc \in {"merge", "rows"}
DiscOpen     == \E s \in Source : disc[s].pc \notin {"idle", "done"}
Connecting(s) == CallbackOpen \/ \E t \in Task : task[t].src = s

-----------------------------------------------------------------------------
(* The consent flow. *)

\* GET /<provider>/authorize stores a nonce, best effort, and touches nothing
\* else; the user consents and the browser follows the
\* redirect, which is where the flow begins to matter ...
Authorize(c, f) ==
    /\ cb[c].pc = "idle" /\ f \notin seen
    /\ seen # {} => spent = <<0, 0>>
    /\ seen' = seen \cup {f}
    /\ \/ nonce' = nonce \cup {f} /\ UNCHANGED faults
       \/ Fault /\ UNCHANGED nonce
    /\ code' = code \cup {f}
    /\ cb' = [cb EXCEPT ![c].pc = "get", ![c].flow = f]
    /\ UNCHANGED <<setting, redis, vault, status, rows, cursor, queued, task, disc, history,
                   notes>>

\* ... and maybe follows it again.
Replay(c, f) ==
    /\ cb[c].pc = "idle" /\ f \in seen
    /\ cb' = [cb EXCEPT ![c].pc = "get", ![c].flow = f]
    /\ UNCHANGED <<setting, stores, task, disc, history, spent>>

\* decode_oauth_state reads the nonce; while Redis is out it accepts the state.
ReadNonce(c) ==
    LET f == cb[c].flow
        with == {o \in Callback \ {c} : cb[o].pc = "delete" /\ cb[o].flow = f} IN
    /\ cb[c].pc = "get"
    /\ \/ /\ cb' = IF f \notin nonce THEN [cb EXCEPT ![c] = [NoCallback EXCEPT !.pc = "done"]]
                   ELSE [o \in Callback |->
                           IF o = c THEN [cb[c] EXCEPT !.pc = "delete", !.raced = with # {}]
                           ELSE [cb[o] EXCEPT !.raced = @ \/ o \in with]]
          /\ UNCHANGED faults
       \/ Fault /\ cb' = [cb EXCEPT ![c].pc = "exchange"]
    /\ UNCHANGED <<setting, stores, task, disc, history, notes>>

\* Mutant: the nonce is checked and kept.
DeleteNonceKeeps(c) ==
    LET f == cb[c].flow IN
    /\ cb[c].pc = "delete"
    /\ reused' = (reused \/ (f \in opened /\ ~cb[c].raced))
    /\ opened' = opened \cup {f} /\ UNCHANGED <<nonce, faults>>
    /\ cb' = [cb EXCEPT ![c].pc = "exchange", ![c].raced = FALSE]
    /\ UNCHANGED <<setting, seen, code, redis, vault, status, rows, cursor, queued, task, disc,
                   latest, held, crossed, leftover, mixed, notes>>

\* Then it deletes it.
DeleteNonce(c) ==
    LET f == cb[c].flow IN
    /\ cb[c].pc = "delete"
    /\ \/ /\ nonce' = nonce \ {f}
          /\ reused' = (reused \/ (f \in opened /\ ~cb[c].raced))
          /\ opened' = opened \cup {f} /\ UNCHANGED faults
       \/ Fault /\ UNCHANGED <<nonce, opened, reused>>
    /\ cb' = [cb EXCEPT ![c].pc = "exchange", ![c].raced = FALSE]
    /\ UNCHANGED <<setting, seen, code, redis, vault, status, rows, cursor, queued, task, disc,
                   latest, held, crossed, leftover, mixed, notes>>

\* A callback stores its tokens: whoever read others before holds old ones.
StoreTokens(tok) ==
    /\ SetToken("own", tok) /\ Late("own")
    /\ latest' = tok
    /\ crossed' = (redis'["own"] # vault'["own"])
    /\ held' = {t \in Task : task[t].mem # None} \cup {s \in Source : disc[s].mem # None}

\* exchange_code_for_tokens: the provider takes a code once, and what it
\* answers is stored.
Exchange(c) ==
    LET f == cb[c].flow IN
    /\ cb[c].pc = "exchange"
    /\ \/ /\ f \in code
          /\ StoreTokens(f) /\ mixed' = (mixed \/ DiscOpen)
          /\ cb' = [cb EXCEPT ![c].pc = "merge"]
          /\ code' = code \ {f}
       \/ /\ IF f \in code THEN Fault ELSE UNCHANGED faults
          /\ cb' = [cb EXCEPT ![c] = [NoCallback EXCEPT !.pc = "done"]]
          /\ UNCHANGED <<code, redis, vault, leftover, latest, crossed, held, mixed>>
    /\ UNCHANGED <<setting, seen, nonce, status, rows, cursor, queued, task, disc,
                   opened, reused, notes>>

\* After a look at the mailbox the handler stores them again, with its address.
MergeTokens(c) ==
    /\ cb[c].pc = "merge"
    /\ StoreTokens(cb[c].flow)
    /\ cb' = [cb EXCEPT ![c].pc = "rows", ![c].flow = None]
    /\ UNCHANGED <<setting, seen, nonce, code, status, rows, cursor, queued, task, disc,
                   opened, reused, mixed, notes>>

\* _record_connector_rows, best effort; then the handler marks each source
\* "syncing" and enqueues its backfill.  A source whose message the broker
\* refuses is marked "error".  The Google route does not force the mark.
Connected(c) ==
    LET force == provider = "microsoft" IN
    /\ cb[c].pc = "rows"
    /\ \/ /\ rows' = Source /\ UNCHANGED mixed
          /\ \E bad \in SUBSET Source :
                /\ IF bad = {} THEN UNCHANGED faults ELSE Fault
                /\ status' = [s \in Source |->
                       Stamped(s, IF s \in bad THEN "error" ELSE "syncing", force)[s]]
                /\ queued' = queued \cup (Source \ bad)
       \/ /\ Fault /\ mixed' = TRUE /\ UNCHANGED rows
          /\ status' = [s \in Source |-> Stamped(s, "syncing", force)[s]]
          /\ queued' = Source
    /\ cb' = [cb EXCEPT ![c] = [NoCallback EXCEPT !.pc = "done"]]
    /\ UNCHANGED <<setting, seen, nonce, code, redis, vault, cursor, task, disc,
                   opened, reused, latest, held, crossed, leftover, notes>>

-----------------------------------------------------------------------------
(* The tasks. *)

\* Task t looks its token up; without one it ends with an error, which the
\* handler of a backfill turns into "needs_reauth".
Begin(t, key, mem, s, stat) ==
    LET tok == Lookup(key, mem) IN
    IF tok = None
    THEN /\ task' = [task EXCEPT ![t] = NoTask]
         /\ status' = IF s = None THEN stat ELSE [stat EXCEPT ![s] = "needs_reauth"]
         /\ UNCHANGED held
    ELSE /\ task' = [task EXCEPT ![t] = [pc |-> "use", key |-> key, mem |-> tok, src |-> s]]
         /\ status' = stat
         /\ held' = IF tok = mem THEN held ELSE held \ {t}

\* A worker takes a backfill.  Google's marks "syncing" with force before it
\* asks whether the user disconnected; Microsoft's does not force and stops.
BackfillStarts(t, s) ==
    /\ task[t].pc = "idle" /\ s \in queued
    /\ queued' = queued \ {s}
    /\ IF provider = "microsoft" /\ status[s] = "not_connected"
       THEN UNCHANGED <<task, status, held, mixed>>
       ELSE /\ Begin(t, "own", None, s, Stamped(s, "syncing", TRUE))
            /\ mixed' = (mixed \/ DiscOpen \/ (status[s] = "not_connected" /\ s \notin rows))
    /\ UNCHANGED <<setting, seen, nonce, code, redis, vault, rows, cursor, cb, disc,
                   opened, reused, latest, crossed, leftover, spent>>

\* A notification of a source that has a cursor, or a renewal of its watch.
\* Gmail's notification asks for a token under its cursor scope.
NotificationStarts(t, s) ==
    /\ task[t].pc = "idle" /\ s \in cursor
    /\ notes < MaxNotes /\ Cardinality(seen) <= 1 /\ notes' = notes + 1
    /\ Begin(t, IF provider = "google" /\ s = "mail" THEN "nested" ELSE "own", None, None, status)
    /\ UNCHANGED <<setting, seen, nonce, code, redis, vault, rows, cursor, queued, cb, disc,
                   opened, reused, latest, crossed, leftover, mixed, faults>>

\* While the access token is good the task does its work.  A backfill stores
\* its cursor, says "active" unless disconnected, and registers a watch, for
\* which Microsoft's asks for a token again, under the cursor scope.
UseToken(t) ==
    LET tk == task[t]
        stat == IF tk.src = None THEN status ELSE Stamped(tk.src, "active", FALSE) IN
    /\ tk.pc = "use"
    /\ cursor' = IF tk.src = None THEN cursor ELSE cursor \cup {tk.src}
    /\ IF provider = "microsoft" /\ tk.src # None
       THEN Begin(t, "nested", tk.mem, None, stat)
       ELSE task' = [task EXCEPT ![t] = NoTask] /\ status' = stat /\ UNCHANGED held
    /\ UNCHANGED <<setting, seen, nonce, code, redis, vault, rows, queued, cb, disc,
                   opened, reused, latest, crossed, leftover, mixed, spent>>

\* Once it has run out the provider is asked for another.  Any answer but 200
\* is taken for a refusal.
RefreshToken(t) ==
    LET tk == task[t] IN
    /\ tk.pc = "use"
    /\ \/ /\ task' = [task EXCEPT ![t].pc = "save"]
          /\ UNCHANGED <<status, faults>>
       \/ /\ Fault
          /\ task' = [task EXCEPT ![t] = NoTask] /\ status' = Reauth(tk.key)
    /\ UNCHANGED <<setting, seen, nonce, code, redis, vault, rows, cursor, queued, cb, disc,
                   history, notes>>

\* It stores the refreshed token under the key it was asked for.
SaveToken(t) ==
    LET key == task[t].key IN
    /\ task[t].pc = "save"
    /\ SetToken(key, task[t].mem) /\ Late(key)
    /\ crossed' = (crossed \/ (key = "own" /\ t \in held))
    /\ task' = [task EXCEPT ![t].pc = "use"]
    /\ UNCHANGED <<setting, seen, nonce, code, status, rows, cursor, queued, cb, disc,
                   opened, reused, latest, held, mixed, notes>>

-----------------------------------------------------------------------------
(* Disconnecting one source. *)

DiscGoes(s, pc) == disc' = [disc EXCEPT ![s] = [pc |-> pc, mem |-> None]]

\* The status goes first, so that the page and the tasks see it at once, then
\* the cursor, each best effort.
DiscBegins(s) ==
    /\ disc[s].pc = "idle"
    /\ \/ /\ status' = [status EXCEPT ![s] = "not_connected"]
          /\ cursor' = cursor \ {s}
          /\ mixed' = (mixed \/ Connecting(s)) /\ UNCHANGED faults
       \/ Fault /\ cursor' = cursor \ {s} /\ mixed' = TRUE /\ UNCHANGED status
       \/ /\ Fault /\ status' = [status EXCEPT ![s] = "not_connected"]
          /\ mixed' = (mixed \/ Connecting(s)) /\ UNCHANGED cursor
    /\ DiscGoes(s, IF provider = "microsoft" THEN "watch" ELSE "row")
    /\ UNCHANGED <<setting, seen, nonce, code, redis, vault, rows, queued, cb, task,
                   opened, reused, latest, held, crossed, leftover, notes>>

\* Microsoft's on_disconnect asks for a token to end the subscription, if one
\* is registered.
DiscWatch(s) ==
    LET tok == Stored("own") IN
    /\ disc[s].pc = "watch"
    /\ \/ DiscGoes(s, "row")
       \/ /\ tok # None
          /\ disc' = [disc EXCEPT ![s] = [pc |-> "refresh", mem |-> tok]]
    /\ held' = held \ {s}
    /\ UNCHANGED <<setting, stores, cb, task, opened, reused, latest, crossed, leftover, mixed,
                   spent>>

DiscRefresh(s) ==
    /\ disc[s].pc = "refresh"
    /\ \/ /\ disc' = [disc EXCEPT ![s].pc = "save"]
          /\ UNCHANGED <<status, faults>>
       \/ /\ Fault
          /\ DiscGoes(s, "row")
          /\ status' = Reauth("own")
    /\ UNCHANGED <<setting, seen, nonce, code, redis, vault, rows, cursor, queued, cb, task,
                   history, notes>>

DiscSave(s) ==
    /\ disc[s].pc = "save"
    /\ SetToken("own", disc[s].mem) /\ Late("own")
    /\ crossed' = (crossed \/ s \in held)
    /\ DiscGoes(s, "row")
    /\ UNCHANGED <<setting, seen, nonce, code, status, rows, cursor, queued, cb, task,
                   opened, reused, latest, held, mixed, notes>>

\* Mutant: the other source's row, and not its status, decides.
DiscRowByRow(s) ==
    /\ disc[s].pc = "row"
    /\ \/ rows' = rows \ {s} /\ UNCHANGED faults
       \/ Fault /\ UNCHANGED rows
    /\ DiscGoes(s, IF Other(s) \notin rows THEN "clear" ELSE "done")
    /\ UNCHANGED <<setting, seen, nonce, code, redis, vault, status, cursor, queued, cb, task,
                   history, notes>>

\* The connector row goes, best effort; then the other source's status
\* decides whether the tokens go.  An outage of Redis reads as "not_connected".
DiscRow(s) ==
    /\ disc[s].pc = "row"
    /\ \/ /\ rows' = rows \ {s}
          /\ DiscGoes(s, IF Gone(Other(s)) THEN "clear" ELSE "done")
          /\ UNCHANGED <<mixed, faults>>
       \/ /\ Fault /\ UNCHANGED <<rows, mixed>>
          /\ DiscGoes(s, IF Gone(Other(s)) THEN "clear" ELSE "done")
       \/ /\ Fault /\ rows' = rows \ {s} /\ mixed' = TRUE
          /\ DiscGoes(s, "clear")
    /\ UNCHANGED <<setting, seen, nonce, code, redis, vault, status, cursor, queued, cb, task,
                   opened, reused, latest, held, crossed, leftover, notes>>

\* clear_token of the user's key, best effort: in Redis, and in the vault
\* where its client can delete.  A blob that stays there is what get_token
\* falls back to.
DiscClear(s) ==
    LET dropped == [redis EXCEPT !["own"] = None]
        erased  == IF erases THEN [vault EXCEPT !["own"] = None] ELSE vault IN
    /\ disc[s].pc = "clear"
    /\ \/ redis' = dropped /\ vault' = erased /\ leftover' = FALSE /\ UNCHANGED faults
       \/ /\ Fault /\ leftover' = TRUE
          /\ \/ erases /\ redis' = dropped /\ UNCHANGED vault
             \/ vault' = erased /\ UNCHANGED redis
    /\ DiscGoes(s, "done")
    /\ UNCHANGED <<setting, seen, nonce, code, status, rows, cursor, queued, cb, task,
                   opened, reused, latest, held, crossed, mixed, notes>>

\* on_disconnect has three seconds; after that the handler goes on without it.
DiscCutOff(s) ==
    /\ disc[s].pc \in {"watch", "refresh", "row"}
    /\ Fault
    /\ leftover' = TRUE
    /\ DiscGoes(s, "done")
    /\ UNCHANGED <<setting, stores, cb, task, opened, reused, latest, held, crossed,
                   mixed, notes>>

Next ==
    \/ \E c \in Callback, f \in Flow : Authorize(c, f) \/ Replay(c, f)
    \/ \E c \in Callback : ReadNonce(c) \/ DeleteNonce(c) \/ Exchange(c) \/ MergeTokens(c) \/ Connected(c)
    \/ \E t \in Task : \/ \E s \in Source : BackfillStarts(t, s) \/ NotificationStarts(t, s)
                       \/ UseToken(t) \/ RefreshToken(t) \/ SaveToken(t)
    \/ \E s \in Source : DiscBegins(s) \/ DiscWatch(s) \/ DiscRefresh(s) \/ DiscSave(s)
                         \/ DiscRow(s) \/ DiscClear(s) \/ DiscCutOff(s)

Spec == Init /\ [][Next]_vars

-----------------------------------------------------------------------------
(* Properties. *)

Quiet ==
    /\ \A c \in Callback : cb[c].pc \in {"idle", "done"}
    /\ \A t \in Task : task[t].pc = "idle"
    /\ \A s \in Source : disc[s].pc \in {"idle", "done"}
    /\ queued = {}

\* What a disconnect can drop: Redis's blob, and the vault's where it erases.
Droppable == redis["own"] # None \/ (erases /\ vault["own"] # None)

\* Whatever the order in which the two sources are disconnected, together or
\* one after the other, the last of them drops every copy of the user's token
\* that clear_token can drop; what is left of those was stored by a refresh or
\* a callback that ended after both were gone, or by a disconnect that failed
\* or was cut off.  A vault that cannot delete keeps its copy, whatever
\* clear_token's docstring says (google/token_store.py 152-169).
DisconnectClears == Quiet /\ AllGone /\ ~leftover => ~Droppable

\* A source that says it is connected has a token to be synchronised with and
\* its connector row: disconnecting the other source takes neither.  The
\* exceptions are a callback or a running backfill that a disconnect
\* overlapped, a backfill still queued when its source was disconnected, a row
\* that could not be written, and a status that could not be read or written.
ConnectedHasToken ==
    \A s \in Source : Quiet /\ status[s] = "active" /\ ~mixed =>
        Stored("own") # None /\ s \in rows

\* A connected source has the user's token, and once none is connected the
\* token is gone from wherever it can be dropped.
TokenFollowsConnection == DisconnectClears /\ ConnectedHasToken

\* A consent's state parameter lets one callback through, but for those that
\* read the nonce before another had deleted it, or met an outage of Redis.
StateOnce == ~reused

\* The token under the user's key is the one of the consent that was
\* stored last, unless a refresh of an older one's was in flight when it was
\* stored, or Redis or Vault missed that write.
TokenOfLastConsent ==
    Stored("own") # None /\ ~crossed => Stored("own") = latest

=============================================================================
