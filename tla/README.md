# Verification of the SnyQ backend

TLA+ models of the parts of `src/backend` where several processes, requests or
stores have to agree: ingestion of Google and Microsoft sources, access lists,
search and the assistant, sessions and sign-in, tokens and keys, users, tenants,
signals and the graph of people. TLC checks the models on small instances; all
their safety properties are proved with TLAPS for every instance.

## 1. The system

A FastAPI process serves HTTP (`api/v1`, `connectors/router.py`), Celery workers
run the long tasks (`workers/tasks.py`, several processes per queue), beat
enqueues periodic ones. They share Postgres (control plane: tenants, users,
tokens; tenant: `canonical_documents`, `acl_entries`, `sync_cursors`,
`pending_identity_queue`, `documents`, activity), Redis (connector status,
nonces, revocations, token blobs, cached routes), a vault, Qdrant and OpenSearch
(what search reads), an object store and Neo4j. Nothing spans two stores in one
transaction, no lock is held across tasks, and most Redis and vault calls fall
back to something else when they fail. Those three facts are what the models are
about.

| Component | State | Operations | What is hard | What makes it correct |
|---|---|---|---|---|
| Connector lifecycle: `router.py`, `tasks.backfill_tenant_source`, `services/sync.py`, `status_store.py` | status, cursor, tokens, rows, points, broker messages | connect, backfill, crawl, checkpoint, disconnect, purge | disconnect against a crawl; crash between index and checkpoint; check-then-write on the status | a checkpoint never passes unprocessed pages; a disconnect stops the crawl; "syncing" always ends |
| Drive incremental: `webhooks.py`, `tasks.process_drive_notification`, `drive_service.py`, `pipeline_bridge.py`, `indexer.py` | changes token, rows, points | notify, list, read permissions, index, delete, store the token | overlapping tasks; items failing one by one; retries | no change behind the token is unprocessed; indexes end with the permissions of now |
| Gmail and its watch | history id, channel, subscription messages | backfill, pull, push, renew | one column for two kinds of cursor; expired history; acknowledgement | what the cursor passes, and what was acknowledged, is in the index |
| Microsoft: `connectors/microsoft` | delta link, subscription | crawl, purge, notify, index | one page per notification, expired links, items that fail one by one | the link never passes an item that was neither indexed nor dropped by itself |
| Identity: `identity/`, `canonical_repo.py`, `native_auth.py` | users, principals, caches, queue, ACL rows | resolve, create, queue, invite, login, drain | stale caches; a drain inside a pipeline; two creations | nobody reads what upstream did not grant; one principal per address |
| ACL compilation: `acl/` | ancestor cache | inherit, expand, override | precedence, cycles, edits meanwhile | the compiled list is what the definition says |
| Search and reader: `federated.py`, `document.py`, `document_reader/` | three indexes, objects, rows | search, fuse, decide, read, index, delete | copies that change one after the other or in one process only; a filter after a limit | what is found and opened is what the terms allow; answers fit together |
| Assistant: `services/assistant` | session rows and dictionaries | turn, search, rank, answer, save | two turns of a session; outage in between | the conversation is kept; citations are reachable; turns end |
| Sessions and sign-in: `oauth_service.py`, `token_service.py`, `revocation.py` | refresh rows, revoked ids, token versions | login, rotate, revoke | two tabs; lost answers; Redis away | a spent token mints nothing; no tab stays on a dead session |
| Connector tokens and keys: `oauth.py`, `token_store.py`, `token_crypto.py` | blobs in Redis and vault, root key | consent, refresh, disconnect, generate a key | two sources share a token; two processes make a key | the token follows the connection; what was stored can be read |
| Tenants: `tenant.py`, `users.py`, `scim_sync.py`, `org.py`, `tenant_resolver.py`, `tenant_db.py` | users, groups, connector rows, routes, engines | bootstrap, edit, SCIM, consent, route | load and commit in another order; caches; fallbacks | accounts stand as last set; engines open their own database |
| Tool gateway: `services/mcp_gateway`, `revocation.py` | revoked ids in Redis, in the process and in the gateway's own memory | call a tool, revoke, publish, hear | an event that is not heard; a token without version; Redis away | what was revoked before a call is turned away |
| Signals and graph: `services/signals`, `services/graph` | events, cached answers, nodes, edges, snapshots | ingest, answer, purge, merge, split | retries; a merge cut short | an event counts once; relations survive |

Components without a module (`PROJECT.json` gives each its reason): normalizers,
embedding, middleware, the object store's and encryption
adapters, `api/v1/connectors.py` (not mounted), scripts and configuration, the
frontend apart from its token handling; authorization codes, which no route
creates, and the SSO login, whose callback ends in an exception (section 5).

## 2. Modules

| Module | What it is |
|---|---|
| `ConnectorSync`, `ConnectorSyncProofs` | life of one Drive connector; theorems |
| `ResumableCrawl` | what a resumable crawl promises; `ConnectorSync` implements it |
| `DriveIncremental`, `DriveIncrementalProofs` | from notification to stored token; theorems |
| `PendingIdentity`, `PendingIdentityProofs` | from a shared address to access; theorems |
| `PrincipalMatch` | sources that create principals |
| `AclCompile` | compiled access lists |
| `GmailSync`, `GmailSyncProofs` | one mailbox: backfill, notifications, watch; theorems |
| `MicrosoftSync` | OneDrive and Outlook |
| `Retrieval` | what a caller finds and opens |
| `DocumentCopies` | the copies of one file in two tenants, and its reader |
| `ChatTurn` | turns of the assistant |
| `AccessProofs` | theorems about `AclCompile`, `Retrieval` and `ChatTurn` |
| `Sessions`, `SessionsProofs`, `ToolGateway` | token pairs and theorems about them; tools called with a token |
| `ConnectorTokens`, `ConnectorTokensProofs` | connectors' OAuth tokens; theorems |
| `TokenKeys` | the key that encrypts stored tokens |
| `Directory` | users and SCIM |
| `TenantConnectors`, `TenantRouting` | connector rows of an organization; the way to a tenant's database |
| `Signals`, `PersonGraph` | activity; people of the knowledge graph |
| `MC*` | model values, symmetry, small sets for TLC |
| `Services`, `ServicesProofs` | ten modules that share no state, side by side; theorems about them |
| `MCServices` | checks these ten modules in one run |

A handler is split where another process, request or task can act in between: at
an await, a call to a store, a commit. One action is everything up to the next
such point. Variables marked "history" in a module record what happened for the
properties to refer to; no guard of a code action reads them. Where the code has
a known gap, a history variable names it, and the property says that nothing
else goes wrong: the gaps are listed in section 5.

### ConnectorSync

Upstream is a listing of `NPages` pages. A cursor is a number: 0 for none,
`k < NPages` for the `nextPageToken` that came with page `k`, `NPages` for a
changes token, which is how `drive_service.fetch_delta` tells them apart. A
worker walks through `backfill_tenant_source` and `run_two_pass_sync`
(`TakeTask`, `ForceSyncing`, `Recheck`, `LoadCheckpoint`, `FetchPage`,
`PipePage`, `IndexPage`, `ReportProgress`, `CheckpointCheck`, `CheckpointWrite`,
`StoreFinal`, `Finish`, `Fail`). `set_status` is two steps, `SetStatusGuard` and
`SetStatusPut`, since the check and the write are separate Redis calls. A call to
Redis may fail, which `status_store.py` swallows: a write is lost (`WriteStatus`),
a disconnected connector reads as connected (`NotDisconnected`). `unwritten`
remembers that a status other than syncing was lost and none was written since:
then "syncing" does stay for ever, and `SyncingHasOwner` excepts that. A crash
returns the message to the broker (`acks_late`), a lost worker drops it.

### DriveIncremental

Upstream is a log of changes; a file's permissions are named by the change that
made them, so a set of changes in `acl`, `doc` or `chunks` says which version of
the permissions a store holds. The steps of a task are `TakeTask`,
`FetchChanges`, `Hydrate` per file, `BeginReplace`/`CommitReplace` per file (a
DELETE and INSERTs that do not see what others commit meanwhile), `EndBatch`,
`IndexDocs`, `IndexChunks`, `DeleteDocs`, `DeleteCanon`, `StoreCursor`.

### PendingIdentity and PrincipalMatch

An address has a users row, an `identity_principals` row without login (a ghost,
minted for Gmail) or nothing. `ResolveCached`, `ResolveFound` and `ResolveMiss`
are the three ways out of `_resolve_drive_share`, `Mint` and `Queue` what follows
a miss, `Replace` and `IndexDoc` end the pipeline; `Invite` and `Login` start
`bind_pending_drive_shares` (`Drain`, `Rebind`, `ReadRows`, `WriteIndex`,
`BindFails`). Each process has its own cache, lost at `Recycle`. Permission
levels are left out. `PrincipalMatch` has the calls of `resolve` for hints of
sources that may create a principal: match by address, by username, or create
and lose the race. The username branch is reached only through
`POST /identity/resolve`. A name lost in a write-back of the whole dictionary is
named by `overtaken`.

### AclCompile

Direct, inherited and expanded entries with levels and denies. Cycles of
containers and groups are in the instance. In the application
`get_pipeline` builds a fresh `ContainerService` per document and nothing calls
`upsert_container_edge`; the model has the cache and the edits as the class
offers them. `TrueChain` is the chain of folders above a document as it is now, to
which the cache's entries are compared. `ExactWhenSettled` compares what a compilation writes with a
definition of the access list that uses neither the recursion nor the overrides'
order.

### GmailSync

`cursor` is one column for page tokens and history ids. `Turn` names
the notification of a pull that is served next. `missed`, `silent` and
`overlap` name the events a call gave up on, the events no notification is left
for, and that two tasks were at work at once. One worker crawls, another handles
notifications. A crawl's page is processed message by message, and what fails is
dropped while another message remains (`Fetched`). A history record names
messages; one of them that was deleted meanwhile makes the task raise every time
(`Vanished`, section 5). Status and disconnect are in `ConnectorSync`.

### MicrosoftSync

A delta link is a position in the feed; a page names the next changed items and
shows each as it is now. A crawl first reads the feed from its start and deletes
what was removed (`Purge`), by the source's ids. Then the pipeline processes a
page item by item, drops what fails and stores the rest under the source's ids
(`Pipe`, `piped`, `lost`). Notifications, and a crawl that could process none of
its page, store the connector's own documents under ids with the source's name
before them (`Index`, `plain`). So an item may have two entries, of different
versions; `top` is the newest version that ever got one. An entry stands for the
name and metadata; texts are left out, since a download that fails leaves the
name alone. The connector stays connected; lost notifications are faults; `sound`
says that a lone task reached the end of the feed and that since then every
change was notified and served and no tasks overlapped.

### Retrieval and DocumentCopies

`Retrieval` keeps apart the access rows in Postgres (`inForce`) and the terms
that Qdrant and OpenSearch hold (`copy`), each as it was last given. `Due` is what
a run makes of the rows: the names in them, whether a row allows or denies, and in
a backfill the connected user's (`owned`); `Fallback` is a page that was indexed
without rows. So the properties say where search and rows differ: a denial that
search does not know (`DenialLost`), the terms lent by the connected user
(`Lent`), and documents some index was behind on during the search
(`find.stale`). One order of relevance per engine is chosen in `RetrievalInit`;
the fusion, the page and the reader's decision are computed as in the code. A
document that is deleted has `Gone` in place of rows and terms.

`DocumentCopies` follows one file of two tenants through canonical row (`kept`),
point, object, metadata row and chunks, with overlapping runs, and
`GET /document/{id}` through its three reads. Only the API connects the document
store when it starts. In a Celery worker the store raises, which the indexer logs
(`After` leads to "unsaved"), or it is the worker's own memory, which the model
leaves out because no request reads it. So body and metadata are written only by
the API, when a sign-in reindexes documents from their canonical rows
(`ReindexByIds`), and the answer says where it came from: `store`, or the point
when the store is memory and has no metadata. `indexed` and `saved` are the
versions of the last run that ended and of the last that also wrote body and
metadata. `crossed` and `missed` name tenants whose runs overlapped, and whose
point the other tenant overwrote under the shared id. There is one API process.

### ChatTurn

A turn goes `Ask`, routing, `FederatedSearch`, `Rank`, answer, `Finish`. The row
of the session and each process's dictionary are separate; `blind` and `excused`
record which turns lost their row to an outage, a crash or a later save. The
reader asks the access rows (`allowed`), the search the indexes (`findable`): an
indexing run replaces the rows (`ReplaceRows`) and writes the terms later
(`WriteTerms`), perhaps after a later run, or never (`StopRun`), and may add terms
that let the user find what the reader refuses. `could` has what the rows let the
user read during a turn, `adrift` the documents that were not settled when it
searched. Which hits are strong and what the model
answers is any outcome. Deleting a session is a no-op in the code; `put_memory`
and `kg_query` have no caller.

### Sessions and ToolGateway

`Sessions` has the refresh rows, revoked ids and token versions that can refuse a
grant, the tabs that hold it, and Redis outages in which a process writes to its
own memory. Left out are client credentials, the key set, the ids of single
access tokens, `revocation_events`, authorization codes (only tests create one, no
route calls `create_authorization_code`) and the SSO login. `ToolGateway` has one
API process, its Redis and the gateway's memory of revocation events; a token that a rotation issued carries no version, and then
the gateway alone can refuse it after its user's sessions were revoked. `open`
names the tokens that an outage, a restart or a listener that has ended let
through, and a listener that ends does so for good, as in the code. It also names
those whose version lies between the two numbers when one of several revocations
that overlap sets the version back: four of them do, which the bound of two
does not show, and which the attempt to prove the property found.

### ConnectorTokens and TokenKeys

`ConnectorTokens`: nonce, code exchange, both blobs of a token under its own and
its nested key, refreshes by tasks, and the disconnect of one of two sources of
a provider. `Init` chooses the provider and whether the vault's client has a
delete (`erases`): only the mock of one process has, in Azure's and HashiCorp's
vaults the blob stays and `get_token` falls back to it. `Connecting` says that a callback or a worker is about
to write a status of the source. `set_status` is one step here. The histories record
which consent is the latest and which of the code's gaps (a refresh or a
disconnect that crosses a later consent) was met. `TokenKeys`: a process takes
the root key from the environment or the vault or makes one; `forked` says that
a key took the place of another, `behind` that a write of a token was lost or
overtaken.

### Directory, TenantConnectors, TenantRouting

`Directory`: a request loads a row and commits the columns it changed
(`Emit`, SQLAlchemy's unit of work). `is_active` and `status`, which the handlers
set together, are one field. SCIM runs only from `scripts/`, and commits its
users before its groups: a run that stops in between leaves new accounts and the
old group. `TenantConnectors`: personal and organization row of one Google
source. `standing` is who connected the organization since the last removal,
`named` whom the console's edits of its row have named since: the console stores
the configuration of the request's body, `connected_by` included (`AdminUpsert`).
A crawl carries both as they were when it read its credentials (`vouched`).
`TenantRouting`: row, cached row, password and engine of
one tenant for several processes; `old`, `guess` and `outdated` mark an engine
built of a superseded row or password, of the control plane's password, or of a
Redis copy that is behind.

### Signals and PersonGraph

`Signals` has both activity stores: the one in memory with its answer cache and
the one in Postgres whose reads and writes are separate connections. A client
may give an event's time and its term (`Happened`, `Given`), and a document's
numbers count the events of the last `Window` days.
`set_config` is called by seeds and tests only. `PersonGraph`: each statement of
a merge or split commits by itself and the operation may stop between any two;
snapshots live in the process and go with it. A split's request may carry a
snapshot of its own (`graph.py:222-224`); the answer to a merge hands none out, so
no caller has one, and it is left out. `halfway` and `apart` mark what the
snapshots cannot undo.

## 3. Runs

All bounds are constants whose comment says "bound". They cap the environment
(requests, upstream changes, failures), never what the program does in between.

| Run | Shows | Bounds, and why they are enough |
|---|---|---|
| `sync_safety` | `CheckpointCovered`, `BoundedLateIndexing`, `SyncingHasOwner`, implements `ResumableCrawl` | two workers, two pages, two requests, one each of disconnect, fault, crash, loss, or two troubles of which one or both are failed calls to Redis: every pair of actors overlaps, a page has a predecessor and a successor, and two failed reads let a worker index a page more |
| `sync_live` | `SyncingSettles` | the same without faults, losses and failed calls to Redis: a lost message or closing write does leave "syncing" for ever |
| `inc_single` | `CursorCovered`, `SettledIsCurrent` | two files, three changes, two faults, a crash, one worker: pages of two files with one failing |
| `inc_live` | `CatchesUp` | two workers, pages of one change: the token can move back |
| `id_share` | `NoStranger`, `AdminSeesAddress`, `QueuedIsDrained` | one address, a Drive file and a message, two processes, two upstream changes, a failing call: each process's cache can be stale while the other acts |
| `sess_rotate` | `RotationRetires`, `NeverMintsAgain`, `DeadSessionEnds` | two tabs, two requests, two grants, a revocation, a fault (Redis away, a dead request or a lost answer) |
| `acl_exact` | `StaleOnlyWithinTTL`, `ExactWhenSettled` | three folders with cycles, two persons, two groups, two levels, a cache that expires, four edits |
| `gmail_pull` | `CursorCovered`, `AcknowledgedIsIndexed` | four messages, of which two are there at first, two events, pages of two, history of one record, one crawl beside notifications, pulled or pushed, a fault, the end of a watch: a page can lose one message and keep one, and a notified message can vanish before it is read; the two that arrive are symmetric |
| `chat_turns` | `ConversationKept`, `CitesReachable`, `EveryTurnEnds` | two turns of one session in two processes, one each of outage, exception, crash; or one turn and two indexing runs that change its access |
| `tokens_connect` | `TokenFollowsConnection`, `StateOnce`, `TokenOfLastConsent` | one consent with two callbacks, a worker, both disconnects, a notification and a failing call; or two consents, the second while work of the first connection goes on |
| `retrieval` | `PageIsExact`, `OpenedIsVisible` | three documents, a page of one, one change, removal, indexing without rows or failing engine, every order of relevance: the limit of the shared collection bites |
| `services` | see below | |

`services` checks ten modules that share no state. `Init` picks one (`part`) and
every step is that module's; the values are shared between them so that one
symmetry serves all. Its properties, by module:

| Module | Property | Instance |
|---|---|---|
| `Directory` | `AccountStands`, `FeedApplied` | two native accounts, a SCIM subject, two requests, two SCIM runs, a fault |
| `MicrosoftSync` | `LinkCovered`, `NotifiedIsIndexed` | two items, two workers, pages of one, three changes, two crawls, a fault: a crawl and a notification give one item two entries |
| `Signals` | `IngestedOnce`, `AnswerStands` | three events, one with a term of its own and one older than the others, two processes, two configurations, a window of one day, three days: events leave the window before they expire |
| `PersonGraph` | `RelationsStand` | three persons, three relations, two merges, a fault |
| `TenantConnectors` | `ConsentStands` | two persons, three requests of which two overlap, edits that name nobody or either person, a timeout |
| `DocumentCopies` | `AnswerFits` | two tenants, three runs in workers or the API of which two overlap, two versions, one request that reads, a fault |
| `TenantRouting` | `EngineOpens` | two processes, a rotation or a move, a fault |
| `TokenKeys` | `TokenReadable` | two processes, two writes, two faults |
| `PrincipalMatch` | `SameIdentity` | two workers, two addresses, two sources, three calls |
| `ToolGateway` | `RevokedTurnedAway` | a user, one access token, two requests, two revocations, two faults |

Each property has a mutant in `PROJECT.json`: a change of one definition, as a
plausible bug would make it, under which the same run finds the property
violated.

`CHECK_DEADLOCK FALSE` is set for `ConnectorSync`, `GmailSync`,
`ConnectorTokens`, `Sessions` and `MCServices`, where the system stops once the
requests of the bound are used up.

Fairness. `ConnectorSync`: workers and handlers keep running (Celery restarts
pool children, a handler is not abandoned half way); nothing is assumed of
users, faults or crashes. `DriveIncremental`: beat enqueues for ever
(`beat_schedule.py`) and workers run. `PendingIdentity`: a bind in progress ends,
and each user logs in again and again, which is what the drain at login counts
on; pipelines are not assumed to run. `ChatTurn`: each turn's steps go on, since
every call a turn makes has a timeout or raises. All of that is weak fairness.
`Sessions`: requests are served (weak), and a tab whose refresh is possible again
and again sends it (strong: its timer keeps firing, although other requests keep
taking the model's few slots).

## 4. Proofs

Every theorem holds for all values of the constants that satisfy the ASSUMEs of
its module (bounds are naturals, sizes at least one, finitely many files, model
values that are told apart); a further hypothesis is in the statement. Each
invariant a run checks and a theorem states was found by TLC first, and is
seldom inductive: the theorem's module defines the strengthening, proves that
`Init` establishes it and that each action preserves it, one lemma per action or
per part, and combines the steps with PTL.

| Module | Theorems | Property |
|---|---|---|
| `ConnectorSyncProofs` | `TypeCorrect`; `CheckpointsAreCovered`; `SyncingIsOwned`; `LateIndexingIsBounded`; `CrawlIsResumable` | `CheckpointCovered`; `SyncingHasOwner`; `BoundedLateIndexing`; `CrawlSpec` |
| `DriveIncrementalProofs` | `TypeCorrect`; `TokenCoversChanges`; `SettledIndexesAreCurrent` | `CursorCovered`; `SettledIsCurrent` |
| `PendingIdentityProofs` | `TypeCorrect`; `OnlyNamedReaders`; `AdminSeesEveryAddress` | `NoStranger`; `AdminSeesAddress` |
| `GmailSyncProofs` | `TypeCorrect`; `NothingPassed`; `NothingForgotten` | `CursorCovered`; `AcknowledgedIsIndexed` |
| `SessionsProofs` | `TypeCorrect`; `RotationAlwaysRetires`; `RetiredMintsNothing` | `RotationRetires`; `NeverMintsAgain` (an action property) |
| `ConnectorTokensProofs` | `StateOpensOnce`; `TokenIsOfLastConsent`; `TokenTracksConnection` | `StateOnce`; `TokenOfLastConsent`; `TokenFollowsConnection` |
| `AccessProofs` (access lists) | `CacheSettles`; `CompiledExactly` | `StaleOnlyWithinTTL`; `ExactWhenSettled` (an action property) |
| `AccessProofs` (search, reader) | `PageShowsWhatItMay`; `OpenedCouldBeFound` | `PageIsExact`; `OpenedIsVisible` |
| `AccessProofs` (assistant) | `CitedWasReadable`; `ConversationIsKept` | `CitesReachable`; `ConversationKept` |
| `ServicesProofs` (tokens, routes) | `StoredTokensOpen`; `RevokedTokensAreTurnedAway`; `EnginesOpenTheirOwn` | `TokenReadable`; `RevokedTurnedAway`; `EngineOpens` |
| `ServicesProofs` (people, consent) | `OnePrincipalPerAddress`; `OrganizationNeedsConsent`; `AccountsStand`; `FeedIsApplied`; `RelationsAreKept` | `SameIdentity`; `ConsentStands`; `AccountStands` (an action property); `FeedApplied`; `RelationsStand` |
| `ServicesProofs` (mail, documents, events) | `StoredLinksAreCovered`; `NotificationsSuffice`; `AnswersFit`; `EventsAreIngestedOnce`; `SignalsAnswerRightly` | `LinkCovered`; `NotifiedIsIndexed`; `AnswerFits`; `IngestedOnce`; `AnswerStands` |

`TypeOK` of these modules documents the variables and is proved; no run lists it.

**ConnectorSync.** A checkpoint is written from what the worker holds, so
`CoverInv` adds that every token a worker holds (`pos`, `fin`, `nxt`) is covered,
together with the page in hand. `SyncingIsOwned` is inductive with the types.
`LateInv` counts what a worker that indexed a page after the disconnect still
has to pass (`Due`): two questions about the status before each further page,
and each is passed only by a read that fails.
`CrawlIsResumable` is the refinement of `ResumableCrawl`: with `Prefix` (what is
indexed is an initial part of the listing) every step is a step of the abstract
crawl or leaves its variable unchanged; only `IndexPage` moves it. The theorem is
about `ResumableCrawl`'s `[][Next]`; no fairness is refined.

**DriveIncremental.** `CoverInv` adds to `CursorCovered` what a task's token
covers while its page is in hand: `Ahead`, `Held`, `OnPage`, `InBatch`,
`Handled`; `PageIsPrefix` says that the new token of a page only passes changes
the page shows. `SettledIndexesAreCurrent` assumes one worker (`OneWorker`): with
two the property is false (section 5). `SettleInv` follows a file from the page
(`Paged`, `Seen`) through the pipeline (`Piped`) to the indexes (`Removed`,
`Fresh`): a store that is behind upstream belongs to a change some token has not
passed.

**PendingIdentity.** `StrangerInv` follows an address from the permissions
(`Recorded`) into the job (`JobNamed`), the cache (`CacheKnown`), the compiled
entries (`GotRightful`) and the rows a bind holds (`BindRightful`); `PeopleStay`
says that users, principals and the history only grow. `AdminInv`: an address a
process has cached as unknown has a queue row or a principal
(`CacheAccounted`), and so has each address of a document, unless a pipeline
has yet to resolve it (`SharesAccounted`).

**GmailSync.** `ArriveInv`: a history id in a row or in a worker's hands is of
this history (`KnownInv`) and covers the arrivals up to it, or the messages in
hand do (`ReadInv`); a crawl's pages cover what its `top` promised (`CrawlInv`).
`CleanInv` is the same for deletions while no two tasks overlap. `PushInv` and
`PulledInv` follow a notification, pushed and pulled, until its event is done or
named by a history variable. `OnceInv` needs the messages of `Present` to be
different, as Gmail's ids are.

**Sessions.** `RotationInv`: grants are numbered as they are minted (`Issued`),
and a request that is about to insert the successor has committed the
revocation of its predecessor (`PersistsRetired`).

**ConnectorTokens.** `NonceInv` and `ConsentInv` extend the properties to what
callbacks, tasks and disconnects hold in memory. `TokenInv` has four parts: who
refreshes holds a token (`MemInv`); before the first status is written only a
callback can have stored one (`FirstInv`); while what can be dropped of the token outlives both
sources the disconnect that drops it is under way (`DropInv`); and while nothing is mixed
no callback meets a disconnect and none drops the token while the other source
stands (`ApartInv`).

**AclCompile.** `StaleInv`: a climb takes less than a tick of the clock, so one
that is under way after a quiet tick follows the edges as they are, and an
entry younger than the quiet time holds the whole chain. `ExactInv`: as long as
nothing was edited since it began, and no folder for the life of a cache entry
before, a compilation holds for each identity the nearest deny and the first
allow of the places it has been to (`SeenIs` over `Done`). It need not go where
the definition goes: beyond a whole chain there is no folder, or one met nearer
by (`NoneNewAbove`), and such places add nothing (`RepeatsAddNothing`). What it
writes also takes the walk over groups, which finds the least set of groups
closed under membership (`VisitsWithin`). `Visit` and `Above` are recursive
functions; that the functions they choose exist is shown (`LadderStands`,
`ReachedWalks`), and that the walk has one outcome because each step enters one
more of the finitely many groups (`GroupAssumption`) or shortens the stack
(`WalksAgree`). The inductions on numbers go by the least member of a set of
naturals, which needs no theorem with an operator parameter.

**Retrieval.** `RetrievalInv`: while a search runs, a document whose terms differ
in some index from those that are due, or changed, is in its `stale` (`Noted`); what
each backend returned has, but for those, only the caller's (`Clean`); and once
OpenSearch has answered, it gave a page of the caller's documents or all of them
that match (`Ample`). That the page is full then takes what the fusion does with
lists: each document of a list is in the merged one once (`OnceIsMany`,
`MergedIsFull`), and the best of the merged are as many as fit
(`BestAreEnough`). What the due terms let a caller see is then compared with what
the rows let (`DueIsGranted`). The score of a document is opaque in these proofs: that there
is an order by it, which TLA+'s CHOOSE needs, is shown by taking the document of
the greatest score away again and again (`OrderIsSequence`).

**ChatTurn.** `AccessInv`: a document that no history names has at most one
indexing run left, that run has the terms of the rows in force, and without one
the indexes agree with the rows (`Agreed`); so what a search finds, the rows allow
or the turn's `adrift` names. `ChatInv`: what a turn in flight has found is within
that (`Reaches`); the row, each process's dictionary and the copy a turn works
on have every answer behind its question, and the copy ends on the question of
the turn (`Follow`); a saved answer that nothing excuses is in the row (`Keeps`),
and in the copy of every turn in flight that read the row (`Knows`), which is why
its save does not lose it. The fairness in `ChatSpec` is not used.

**Services.** `Services` puts the ten modules side by side, so an invariant of
one module is kept by its own steps and by every step that leaves its variables
alone. `KeysInv`: while no key took the place of another, all processes that have
a key have the same one and every stored token is of it; while no write was lost
or overtaken, the newest token is in Redis until every vault has it. `IdentityInv`: a call that is about to
write a row back holds a copy of the row of its address, whose id never changes
(`HoldsItsRow`).

The other invariants of `ServicesProofs` follow what a request, a task or a
cache holds between two steps:

* `RoutesInv` (`TenantRouting`): the host in Redis and the secret in the vault
  are the tenant's but for what `outdated` and `rotating` say, and so is what a
  request in progress and an engine hold, unless they are marked as old.
* `ConsentInv` (`TenantConnectors`): the organization's row stands on a consent,
  and is of somebody who gave one or whom an edit of it named (`Standing`); a
  request that is about to write it was sent by whoever it names or edits a row
  that is there (`Edits`); a crawl is of somebody the row stood on when the crawl
  began (`Crawls`).
* `GatewayInv` (`ToolGateway`): no token claims a version ahead of its user's
  (`Claims`); a token whose revocation ended is known to Redis, to the process or
  to the gateway's memory, unless `open` names it (`Ended`); a call that has
  passed one look will be refused by a coming one (`Sure`).
* `SignalsInv` (`Signals`): a cached answer counts all events it should, those of
  the window and still kept, and what it counts beyond them left less than a
  cache period ago (`Proper`); a finite set's cardinality is used, hence
  `IsFiniteSet(Event)`.
* `MailInv` and `NotifyInv` (`MicrosoftSync`): an item whose changes are all behind
  the stored link was indexed (`top`) or dropped (`lost`) at its version, and the
  same holds of the link in a task's hands, or the item is on the page it has yet
  to index (`JobOK`); while nothing unsound happened, one task runs at a
  time and for each change not behind the link a notification waits or is
  served (`Accounted`, where the page size of at least one is used).
* `CopiesInv` (`DocumentCopies`): no copy of a tenant is ahead of its canonical
  row, and the copies are ordered by the steps of the run that writes them
  (`Ordered`); a run brings the version of that row and has written what it
  passed (`RunFits`); what a reader has is not ahead of what it reads next
  (`ReadingFits`). What answers come of the point is followed only where the store
  is memory and nobody overwrote it (`ByPoint`).
* `UsersInv` (`Directory`): an account's row holds the password issued last
  (`Openings`), and rows that requests and feed runs hold are of accounts that
  are there (`CallFits`, `FeedFits`); lemma `Emitted` says what the unit of work
  writes, and from it each step keeps addresses and deactivations. `FeedInv`
  adds that a run that met no other has the tenant for itself (`Lone`) and what
  it has done so far (`Doing`); `Rowed` is the table of groups it leaves.
* `GraphInv` (`PersonGraph`): the merges that stand are a stack. For each height
  there is a map of merges and a map of where everyone is found (`Layered`; an
  existential over two families of functions); the snapshot of a merge has what
  it moved and created nothing that a source asserted below it (`Fitting`); and
  undoing the merges one after the other leads back over the edges each had found
  (`Undoing`). `Now` is a recursive function: that there is exactly one solution of
  its equation is kept by each merge (`ResolvesOnto`), so no induction over the
  persons is needed.

`NoneAssumption`, `DirectoryAssumption` and `GraphAssumption` tell None apart from what stands in
its place; relations are pairs. `PageAssumption` asks for pages of at least one,
`SignalsAssumption` for finitely many events and for numbers as terms and
thresholds.

Every safety property a run checks, invariant or action property, is stated by
one of these theorems. Only model-checked, because it is out of the prover's
reach: liveness (`SyncingSettles`, `CatchesUp`, `QueuedIsDrained`,
`DeadSessionEnds`, `EveryTurnEnds`) and everything about ENABLED.

## 5. Disagreements with the code's own words

Seven claims of docs and comments were met that the code does not keep. Each is
a definition of its module, so that a run that lists it alone ends in a
counterexample:

| Definition | Claim | What the code does |
|---|---|---|
| `ConnectorSync.BackfillStoresStartPageToken` | `drive_service.py:100` "After backfill we store startPageToken for incremental webhooks" | with several pages `final_cursor` is the last `nextPageToken` (`tasks.py:549`), which `process_drive_notification` then passes to `changes.list` |
| `ConnectorSync.QueuedBackfillHonoursDisconnect` | `tasks.py:403` "Now check if the user explicitly disconnected AFTER this task was queued." | `tasks.py:395` has stored "syncing" with `force=True` before, so the disconnect is erased |
| `DriveIncremental.AdvanceMeansPersisted` | `pipeline_bridge.py:130-132` "Raise instead so Celery retries and nothing is mistaken for a successful ACL persist." | `_run_pipeline` drops the files that failed and returns the rest (`:99`), nothing is raised, and `tasks.py:735-737` moves the token past them |
| `DriveIncremental.RevokedCannotLinger` | `src/backend/README.md:855-856` "Revoked permissions cannot linger." | two tasks of a tenant overlap; the DELETE of `replace_acl_entries` (`canonical_repo.py:480`) does not see rows committed meanwhile, and an older list overwrites a newer one |
| `PendingIdentity.NothingInvented` | `DRIVE_PERMISSION_SIGNOFF_REPORT.md:259` "mirror, don't invent" | the drain (`canonical_repo.py:803`) grants every unresolved row of an address, also when the permission was withdrawn since and when the address was only the last modifier |
| `PendingIdentity.ResolvedIsReadable` | `canonical_repo.py:982` "write acl_entries, mark queue resolved, reindex those documents" | `process_raw` replaces the rows at its end, and a drain in between writes rows that the replacement deletes while their queue rows are resolved |
| `Sessions.RevokeTakesEffect` | `sessions.py:46` "so ``validate_token`` / ``get_current_user`` reject older tokens immediately" | the new version is read, incremented and published before the commit, so a slower request publishes an older number over a newer one |

What else the models show, by component. These are readings of the code, and the
properties above are stated so that they hold beside them.

*Connector and Drive*

* `services/sync.py:320-326` with `tasks.py:552`: a first listing that fails
  leaves no cursor, the task stores a changes token, and later backfills skip
  the listing (`drive_service.py:97-108`).
* `services/sync.py:235` "without loss": a page with failing items is
  checkpointed like any other (`sync.py:391-399` after
  `pipeline_bridge.py:82-105`), of Drive, Gmail, OneDrive and Outlook alike.
* `gmail_service.py:378` names a `logger` the module does not define: when a
  message is deleted before its notification is read, the handler of the failed
  `messages.get` raises NameError, the task raises whenever it comes to that
  record, and the mailbox's cursor stays before it.
* `status_store.py:111` "Never let an in-flight backfill resurrect a
  disconnected connector": a disconnect between the check and the write is
  overwritten.
* `indexer.py:360-373`: the purge deletes points under the row ids
  (`google_drive_<id>`), `bulk_index` stored them under `<id>`; `delete_by_ids`
  leaves the lexical, chunk and object copies.
* `drive_credentials.py:77-112`: `ingest_paused` is written and never read, and
  `set_drive_ingest_paused` has no caller.

*Identity and access lists*

* `resolver.py:173`: the second document of an address cached as unknown is
  neither bound nor queued, against the docstring at line 145, nor are documents
  processed after the user was created, until the worker process is recycled.
* A deny is forgotten once it was inherited (`src/backend/README.md:848`), group
  rows collapse, `get_pipeline` makes a `ContainerService` per document, and
  `upsert_container_edge` has no caller.

*Search, reader, assistant*

* `qdrant_store.py:204`: `fetch_k` is unbound, so that the vector backend answers
  nothing and reports "ok"; failures inside of a store are swallowed and
  `degraded` stays false.
* `document.py:39-42` connects the document store when the API starts, and nothing
  does in a worker: there `upsert` raises (`store.py:199-200`), which
  `indexer.py:215-218` logs. With MinIO a document that only tasks have indexed is
  found by search and is a 404 to the reader, until a sign-in happens to reindex it.
* The merged list is cut to `size` before a page is sliced from it, and the
  indexed backend filters by access after its limit.
* A document visible to a group is found by search and refused by the reader.
* A denial is indexed like an allowance (`pipeline.py:257`, `indexer.py:397`), the
  user who connected a source finds all of its documents whatever their rows, and
  a page that the pipeline handed back empty is indexed without rows.
* The owner of a document is its first access term, structured metadata is not
  redacted, and two tenants share a point id.

*Sessions, tokens and the gateway*

* `admin/sessions.py:66-67` reads, increments and later commits `token_version`
  without a lock: of two revocations of one user that overlap, the slower can set
  the version back, after which tokens of a revoked version carry the current
  one again.
* The SSO callback's `SsoLoginResponse` is undefined: a NameError after the
  tokens were issued, whose pair is never persisted.
* Access tokens of a rotation have no `token_version`, so that after a
  revocation of the sessions only the gateway refuses them. The gateway's
  `_revoked_principals` never forgets: a user whose sessions were revoked stays
  locked out of it after a new login until a restart. Its listener ends for good
  when Redis is away at the start or `get_message` raises; `_entries` decides
  nothing.
* `plugin.py:98` "Clear watches, tokens (when sibling Google source is gone), and
  DB rows.": the blob under the nested key stays, and `clear_token` leaves the
  vault's copy.
* The proof of `TokenTracksConnection` showed that with two workers a backfill
  that is still running when its source is disconnected can mark it "active"
  after the token was cleared; `leftover` and `mixed` are as narrow as they are
  because of it.

*Microsoft and organization connectors, tenants*

* Notifications delete nothing. Items removed from OneDrive or Outlook leave the
  index only by the first pass of a crawl, and only the entry under the source's
  id: the one with the source's name before it stays.
* `process_onedrive_notification` passes `self` twice, and
  `renew_subscription` has no caller.
* The token of an organization's consent is never used, `connection_scope` is
  never set in a crawl's configuration, one user's disconnect deletes the shared
  personal row and purges everybody's documents, `org.py` removes without the
  purge that `admin/connectors.py` has, the toggle changes the status alone, and
  the status reads a cursor under `{tenant}_organization` that no crawl writes.
* `org.py:87-118` and `admin/connectors.py:83-114` store a free-form configuration,
  which a console got from a GET: one that is stale writes an older `connected_by`
  back, and the organization's crawl then runs under that person.
* `scim_sync.py:90` commits the users before it writes the groups (`:157`): a feed
  that fails in between is half applied.
* Routing falls back silently to the control plane's password, and a cloud URL
  replaces a tenant's credentials. `provisioning.py` is imported by nothing.

## 6. Not modelled, and the plan

Left out: the content of documents and answers, scores and rankings within an
engine, permission levels outside of `AclCompile`, validation of webhook
channels, Drive's push channels (Gmail's are in `GmailSync`), counters, the
components of section 1 without a module.

Next: the composition of `ConnectorSync` and
`DriveIncremental` over the shared cursor.
