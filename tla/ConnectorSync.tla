--------------------------- MODULE ConnectorSync ---------------------------
(***************************************************************************)
(* The life of one Google Drive connector: one tenant, one user, one       *)
(* source.  The HTTP handlers of connectors/router.py (manual backfill,    *)
(* OAuth callback, disconnect) race with the Celery tasks of               *)
(* workers/tasks.py (backfill, purge).  They share four stores:            *)
(*                                                                         *)
(*   status   the Redis key of status_store.py                             *)
(*   cursor   the sync_cursors row of cursor_store.py                      *)
(*   token    whether PersistentGoogleTokenStore holds OAuth tokens        *)
(*   the index: canonical rows in Postgres and points in Qdrant            *)
(*                                                                         *)
(* The upstream corpus is NPages pages of files.list.  Page tokens are     *)
(* numbers: 0 is "no cursor", k \in 1..NPages-1 is the nextPageToken that  *)
(* came with page k, and NPages stands for a numeric changes.list token.   *)
(***************************************************************************)
EXTENDS Naturals, FiniteSets

CONSTANTS
    NPages,          \* pages of the upstream listing
    Workers,         \* Celery worker processes of the "google" queue
    MaxRequests,     \* bound: backfill and callback requests
    MaxDisconnects,  \* bound: disconnect requests
    MaxFaults,       \* bound: failed calls to Google, Postgres, Qdrant, broker
    MaxRedis,        \* bound: failed calls to Redis
    MaxCrashes,      \* bound: worker deaths whose message is redelivered
    MaxLost          \* bound: backfill messages that never reach a worker's end

ASSUME NPagesAssumption == NPages \in Nat \ {0}
ASSUME BoundsAssumption == /\ MaxRequests \in Nat
                           /\ MaxDisconnects \in Nat
                           /\ MaxFaults \in Nat
                           /\ MaxRedis \in Nat
                           /\ MaxCrashes \in Nat
                           /\ MaxLost \in Nat

VARIABLES
    status,      \* connection_status in Redis, or "absent"
    cursor,      \* sync_cursors.cursor
    token,       \* OAuth tokens are stored
    canon,       \* pages with canonical_documents rows
    vectors,     \* pages whose documents are all in Qdrant
    partial,     \* pages indexed with some of their items dropped
    queue,       \* backfill messages waiting in the broker
    purges,      \* purge messages waiting in the broker
    pc,          \* where each worker stands in backfill_tenant_source
    pos,         \* delta_cursor of run_two_pass_sync
    fin,         \* stats["final_cursor"]
    nxt,         \* next_cursor of the page in hand, 0 when there is none
    reset,       \* invalid_token_retried
    val,         \* the connection_status a set_status call is about to store
    ret,         \* where the worker continues after set_status
    dpc,         \* where the disconnect handler stands
    rpc,         \* where the backfill/callback handler stands
    wanted,      \* history: the user's last request was a connect, not a disconnect
    late,        \* history: pages a worker indexed since status is not_connected
    unwritten,   \* history: a status other than syncing was not written, and none since
    redis,       \* calls to Redis that failed
    requests, disconnects, faults, crashes, lost   \* spent bounds

stores  == <<status, cursor, token, canon, vectors, partial>>
broker  == <<queue, purges>>
task    == <<pc, pos, fin, nxt, reset, val, ret>>
history == <<wanted, late, unwritten, redis>>
bounds  == <<requests, disconnects, faults, crashes, lost>>
vars    == <<stores, broker, task, dpc, rpc, history, bounds>>

Pages        == 1..NPages
Tokens       == 0..NPages
ChangesToken == NPages
Statuses     == {"not_connected", "syncing", "active", "error", "needs_reauth"}

WorkerPCs == {"idle", "begun", "recheck", "resume", "crawl", "pipe", "index",
              "report", "ckptcheck", "ckptwrite", "store", "finish",
              "guard", "put", "exit"}
RequestPCs == {"none", "enqueue", "cguard", "cput", "cenqueue", "eguard", "eput"}
DisconnectPCs == {"none", "cursor", "plugin", "purge"}

TypeOK ==
    /\ status \in Statuses \cup {"absent"}
    /\ cursor \in Tokens
    /\ token \in BOOLEAN
    /\ canon \in SUBSET Pages
    /\ vectors \in SUBSET Pages
    /\ partial \in SUBSET Pages
    /\ queue \in Nat
    /\ purges \in Nat
    /\ pc \in [Workers -> WorkerPCs]
    /\ pos \in [Workers -> Tokens]
    /\ fin \in [Workers -> Tokens]
    /\ nxt \in [Workers -> 0..NPages - 1]
    /\ reset \in [Workers -> BOOLEAN]
    /\ val \in [Workers -> Statuses]
    /\ ret \in [Workers -> WorkerPCs]
    /\ dpc \in DisconnectPCs
    /\ rpc \in RequestPCs
    /\ wanted \in BOOLEAN
    /\ late \in [Workers -> Nat]
    /\ unwritten \in BOOLEAN
    /\ redis \in Nat
    /\ requests \in Nat
    /\ disconnects \in Nat
    /\ faults \in Nat
    /\ crashes \in Nat
    /\ lost \in Nat

Init ==
    /\ status = "absent"
    /\ cursor = 0
    /\ token = FALSE
    /\ canon = {} /\ vectors = {} /\ partial = {}
    /\ queue = 0 /\ purges = 0
    /\ pc = [w \in Workers |-> "idle"]
    /\ pos = [w \in Workers |-> 0]
    /\ fin = [w \in Workers |-> 0]
    /\ nxt = [w \in Workers |-> 0]
    /\ reset = [w \in Workers |-> FALSE]
    /\ val = [w \in Workers |-> "syncing"]
    /\ ret = [w \in Workers |-> "idle"]
    /\ dpc = "none" /\ rpc = "none"
    /\ wanted = FALSE
    /\ late = [w \in Workers |-> 0]
    /\ unwritten = FALSE /\ redis = 0
    /\ requests = 0 /\ disconnects = 0 /\ faults = 0 /\ crashes = 0 /\ lost = 0

-----------------------------------------------------------------------------
(* Shared operations of the stores. *)

\* A call to Redis fails; status_store swallows that.
RedisFails == /\ redis < MaxRedis
              /\ redis' = redis + 1

\* is_disconnected answers TRUE, or FALSE: the key says otherwise, or was not
\* read.
IsDisconnected == /\ status = "not_connected"
                  /\ UNCHANGED <<wanted, late, unwritten, redis>>
NotDisconnected == /\ \/ status # "not_connected" /\ UNCHANGED redis
                      \/ status = "not_connected" /\ RedisFails
                   /\ UNCHANGED <<wanted, late, unwritten>>

\* A write of the Redis key, which may get lost; the count of late pages
\* restarts when the connector is connected again.
WriteStatus(v) ==
    \/ /\ status' = v
       /\ late' = IF v = "not_connected" THEN late ELSE [w \in Workers |-> 0]
       /\ unwritten' = FALSE
       /\ UNCHANGED redis
    \/ /\ RedisFails
       /\ unwritten' = (unwritten \/ v # "syncing")
       /\ UNCHANGED <<status, late>>

\* Spend one of the faults of the bound.
Fault == /\ faults < MaxFaults
         /\ faults' = faults + 1

Goto(w, there) == /\ pc[w] # there
                  /\ pc' = [pc EXCEPT ![w] = there]

\* A worker calls set_status(connection_status = v) without force and will
\* go on at r: first the guard, then the read-modify-write.
CallSetStatus(w, v, r) ==
    /\ Goto(w, "guard")
    /\ val' = [val EXCEPT ![w] = v]
    /\ ret' = [ret EXCEPT ![w] = r]

-----------------------------------------------------------------------------
(* The handlers of connectors/router.py.  One connect request and one      *)
(* disconnect request are in flight at a time.                             *)

\* trigger_backfill: stamp "syncing" with force, then enqueue.
TriggerStatus ==
    /\ rpc = "none" /\ requests < MaxRequests
    /\ requests' = requests + 1
    /\ rpc' = "enqueue"
    /\ wanted' = TRUE
    /\ WriteStatus("syncing")
    /\ UNCHANGED <<cursor, token, canon, vectors, partial, broker, task, dpc,
                   disconnects, faults, crashes, lost>>

TriggerEnqueue ==
    /\ rpc = "enqueue"
    /\ rpc' = "none"
    /\ queue' = queue + 1
    /\ UNCHANGED <<stores, purges, task, dpc, history, bounds>>

\* .delay() raises: the request answers 500 and the stamp stays.
TriggerEnqueueFails ==
    /\ rpc = "enqueue" /\ lost < MaxLost
    /\ lost' = lost + 1
    /\ rpc' = "none"
    /\ UNCHANGED <<stores, broker, task, dpc, history,
                   requests, disconnects, faults, crashes>>

\* google_oauth_callback: exchange the code and store the tokens.
CallbackToken ==
    /\ rpc = "none" /\ requests < MaxRequests
    /\ requests' = requests + 1
    /\ token' = TRUE
    /\ wanted' = TRUE
    /\ rpc' = "cguard"
    /\ UNCHANGED <<status, cursor, canon, vectors, partial, broker, task, dpc,
                   late, unwritten, redis, disconnects, faults, crashes, lost>>

\* set_status(syncing) without force, in its two steps.
CallbackGuard ==
    /\ rpc \in {"cguard", "eguard"}
    /\ \/ IsDisconnected  /\ rpc' = IF rpc = "cguard" THEN "cenqueue" ELSE "none"
       \/ NotDisconnected /\ rpc' = IF rpc = "cguard" THEN "cput" ELSE "eput"
    /\ UNCHANGED <<stores, broker, task, dpc, bounds>>

CallbackPut ==
    /\ rpc \in {"cput", "eput"}
    /\ WriteStatus(IF rpc = "cput" THEN "syncing" ELSE "error")
    /\ rpc' = IF rpc = "cput" THEN "cenqueue" ELSE "none"
    /\ UNCHANGED <<cursor, token, canon, vectors, partial, broker, task, dpc,
                   wanted, bounds>>

\* Mutant: a failed enqueue is only logged.
CallbackEnqueueSilent ==
    /\ rpc = "cenqueue"
    /\ rpc' = "none"
    /\ \/ queue' = queue + 1 /\ UNCHANGED bounds
       \/ Fault /\ UNCHANGED <<queue, requests, disconnects, crashes, lost>>
    /\ UNCHANGED <<stores, purges, task, dpc, history>>

\* backfill_source.delay(); when it raises the handler stores "error".
CallbackEnqueue ==
    /\ rpc = "cenqueue"
    /\ \/ /\ queue' = queue + 1
          /\ rpc' = "none"
          /\ UNCHANGED bounds
       \/ /\ Fault
          /\ rpc' = "eguard"
          /\ UNCHANGED <<queue, requests, disconnects, crashes, lost>>
    /\ UNCHANGED <<stores, purges, task, dpc, history>>

\* disconnect_connector, step 1: clear_status.
DisconnectStatus ==
    /\ dpc = "none" /\ disconnects < MaxDisconnects
    /\ disconnects' = disconnects + 1
    /\ dpc' = "cursor"
    /\ wanted' = FALSE
    /\ WriteStatus("not_connected")
    /\ UNCHANGED <<cursor, token, canon, vectors, partial, broker, task, rpc,
                   requests, faults, crashes, lost>>

\* Step 2: clear the cursor; a timeout or an error is not fatal.
DisconnectCursor ==
    /\ dpc = "cursor"
    /\ dpc' = "plugin"
    /\ \/ cursor' = 0 /\ UNCHANGED bounds
       \/ Fault /\ UNCHANGED <<cursor, requests, disconnects, crashes, lost>>
    /\ UNCHANGED <<status, token, canon, vectors, partial, broker, task, rpc, history>>

\* Step 3: the plugin's on_disconnect drops the tokens unless the sibling
\* Google source still uses them.
DisconnectPlugin ==
    /\ dpc = "plugin"
    /\ dpc' = "purge"
    /\ token' \in {token, FALSE}
    /\ UNCHANGED <<status, cursor, canon, vectors, partial, broker, task, rpc,
                   history, bounds>>

\* All rows of the source and their ACL entries go in one transaction.
PurgedRows == {}

\* Step 4: enqueue the purge; without a broker purge in the request, and
\* give up when that fails as well.
DisconnectPurge ==
    /\ dpc = "purge"
    /\ dpc' = "none"
    /\ \/ purges' = purges + 1 /\ UNCHANGED <<canon, bounds>>
       \/ /\ Fault
          /\ canon' \in {canon, PurgedRows}
          /\ UNCHANGED <<purges, requests, disconnects, crashes, lost>>
    /\ UNCHANGED <<status, cursor, token, vectors, partial, queue, task, rpc, history>>
-----------------------------------------------------------------------------
(* purge_connector_documents_task and Indexer.delete_by_source: after the  *)
(* canonical rows come the points.  The point ids that are sent to Qdrant  *)
(* are the canonical ids, while points were stored under the source id, so *)
(* no point matches.                                                       *)

PurgedVectors(points) == points

Purge ==
    /\ purges > 0
    /\ purges' = purges - 1
    /\ canon' = PurgedRows
    /\ vectors' = PurgedVectors(vectors)
    /\ partial' = PurgedVectors(partial)
    /\ UNCHANGED <<status, cursor, token, queue, task, dpc, rpc, history, bounds>>

\* The last retry has failed.
PurgeGivesUp ==
    /\ purges > 0
    /\ Fault
    /\ purges' = purges - 1
    /\ UNCHANGED <<stores, queue, task, dpc, rpc, history,
                   requests, disconnects, crashes, lost>>

-----------------------------------------------------------------------------
(* backfill_tenant_source *)

TakeTask(w) ==
    /\ pc[w] = "idle" /\ queue > 0
    /\ queue' = queue - 1
    /\ Goto(w, "begun")
    /\ UNCHANGED <<stores, purges, pos, fin, nxt, reset, val, ret, dpc, rpc,
                   history, bounds>>

\* set_status(syncing, force=True): the guard is skipped.
ForceSyncing(w) ==
    /\ pc[w] = "begun"
    /\ Goto(w, "recheck")
    /\ WriteStatus("syncing")
    /\ UNCHANGED <<cursor, token, canon, vectors, partial, broker, pos, fin, nxt,
                   reset, val, ret, dpc, rpc, wanted, bounds>>

\* "Now check if the user explicitly disconnected".
Recheck(w) ==
    /\ pc[w] = "recheck"
    /\ \/ IsDisconnected  /\ Goto(w, "idle")
       \/ NotDisconnected /\ Goto(w, "resume")
    /\ UNCHANGED <<stores, broker, pos, fin, nxt, reset, val, ret, dpc, rpc,
                   bounds>>

\* resume_cursor = get_cursor(); run_two_pass_sync starts from it.
LoadCheckpoint(w) ==
    /\ pc[w] = "resume"
    /\ pos' = [pos EXCEPT ![w] = cursor]
    /\ fin' = [fin EXCEPT ![w] = cursor]
    /\ nxt' = [nxt EXCEPT ![w] = 0]
    /\ reset' = [reset EXCEPT ![w] = FALSE]
    /\ Goto(w, "crawl")
    /\ UNCHANGED <<stores, broker, val, ret, dpc, rpc, history, bounds>>

\* fetch_delta: a changes token skips the listing and ends the loop.
SkipListing(w) ==
    /\ pc[w] = "crawl" /\ token
    /\ pos[w] = ChangesToken
    /\ Goto(w, "store")
    /\ UNCHANGED <<stores, broker, pos, fin, nxt, reset, val, ret, dpc, rpc,
                   history, bounds>>

\* Mutant: the page is checkpointed before it is indexed.
FetchPageUnindexed(w) ==
    /\ pc[w] = "crawl" /\ token
    /\ pos[w] < ChangesToken
    /\ nxt' = [nxt EXCEPT ![w] = IF pos[w] + 1 < NPages THEN pos[w] + 1 ELSE 0]
    /\ Goto(w, "report")
    /\ UNCHANGED <<stores, broker, pos, fin, reset, val, ret, dpc, rpc,
                   history, bounds>>

\* fetch_delta: files.list returns the page after pos.
FetchPage(w) ==
    /\ pc[w] = "crawl" /\ token
    /\ pos[w] < ChangesToken
    /\ nxt' = [nxt EXCEPT ![w] = IF pos[w] + 1 < NPages THEN pos[w] + 1 ELSE 0]
    /\ Goto(w, "pipe")
    /\ UNCHANGED <<stores, broker, pos, fin, reset, val, ret, dpc, rpc,
                   history, bounds>>

\* fetch_delta rejects the page token: start over, once.  The checkpoint is
\* cleared through the same callback as an advance.
FetchInvalidCursor(w) ==
    /\ pc[w] = "crawl" /\ token
    /\ pos[w] \in 1..ChangesToken - 1 /\ ~reset[w]
    /\ Fault
    /\ fin' = [fin EXCEPT ![w] = 0]
    /\ nxt' = [nxt EXCEPT ![w] = 0]
    /\ reset' = [reset EXCEPT ![w] = TRUE]
    /\ Goto(w, "ckptcheck")
    /\ UNCHANGED <<stores, broker, pos, val, ret, dpc, rpc, history,
                   requests, disconnects, crashes, lost>>

\* Any other exception of fetch_delta is logged and ends the loop.
FetchBreak(w) ==
    /\ pc[w] = "crawl"
    /\ Fault
    /\ Goto(w, "store")
    /\ UNCHANGED <<stores, broker, pos, fin, nxt, reset, val, ret, dpc, rpc,
                   history, requests, disconnects, crashes, lost>>

\* Mutant: the page is checkpointed before it is indexed.
PipePageCheckpoints(w) ==
    /\ pc[w] = "pipe"
    /\ canon' = canon \cup {pos[w] + 1}
    /\ cursor' = IF nxt[w] # 0 THEN nxt[w] ELSE cursor
    /\ Goto(w, "index")
    /\ UNCHANGED <<status, token, vectors, partial, broker, pos, fin, nxt,
                   reset, val, ret, dpc, rpc, history, bounds>>

\* process_raw_batch writes canonical rows, or the page falls back to
\* connector.transform and writes none.
PipePage(w) ==
    /\ pc[w] = "pipe"
    /\ \/ canon' = canon \cup {pos[w] + 1} /\ UNCHANGED bounds
       \/ Fault /\ UNCHANGED <<canon, requests, disconnects, crashes, lost>>
    /\ Goto(w, "index")
    /\ UNCHANGED <<status, cursor, token, vectors, partial, broker, pos, fin, nxt,
                   reset, val, ret, dpc, rpc, history>>

\* bulk_index of what the pipeline returned: every document of the page, or
\* only those whose item did not fail.
IndexPage(w) ==
    /\ pc[w] = "index"
    /\ \/ /\ vectors' = vectors \cup {pos[w] + 1}
          /\ UNCHANGED <<partial, bounds>>
       \/ /\ Fault
          /\ partial' = partial \cup {pos[w] + 1}
          /\ UNCHANGED <<vectors, requests, disconnects, crashes, lost>>
    /\ late' = IF status = "not_connected" THEN [late EXCEPT ![w] = @ + 1] ELSE late
    /\ Goto(w, "report")
    /\ UNCHANGED <<status, cursor, token, canon, broker, pos, fin, nxt, reset,
                   val, ret, dpc, rpc, wanted, unwritten, redis>>

\* Mutant: the loop logs the abort of the callbacks like any other exception.
ReportProgressLogged(w) ==
    /\ pc[w] = "report"
    /\ \/ /\ IsDisconnected
          /\ Goto(w, IF nxt[w] # 0 THEN "crawl" ELSE "store")
          /\ pos' = [pos EXCEPT ![w] = nxt[w]]
          /\ UNCHANGED <<val, ret>>
       \/ /\ NotDisconnected
          /\ CallSetStatus(w, "syncing", IF nxt[w] # 0 THEN "ckptcheck" ELSE "store")
          /\ UNCHANGED pos
    /\ UNCHANGED <<stores, broker, fin, nxt, reset, dpc, rpc, bounds>>

\* _report_progress: abort when disconnected, else set_status(syncing).
ReportProgress(w) ==
    /\ pc[w] = "report"
    /\ \/ /\ IsDisconnected
          /\ Goto(w, "idle")
          /\ UNCHANGED <<val, ret>>
       \/ /\ NotDisconnected
          /\ CallSetStatus(w, "syncing", IF nxt[w] # 0 THEN "ckptcheck" ELSE "store")
    /\ UNCHANGED <<stores, broker, pos, fin, nxt, reset, dpc, rpc, bounds>>

\* _persist_checkpoint: the check ...
CheckpointCheck(w) ==
    /\ pc[w] = "ckptcheck"
    /\ \/ IsDisconnected  /\ Goto(w, "idle")
       \/ NotDisconnected /\ Goto(w, "ckptwrite")
    /\ UNCHANGED <<stores, broker, pos, fin, nxt, reset, val, ret, dpc, rpc,
                   bounds>>

\* ... and the awaited update_cursor; then the next turn of the loop.
CheckpointWrite(w) ==
    /\ pc[w] = "ckptwrite"
    /\ cursor' = nxt[w]
    /\ pos' = [pos EXCEPT ![w] = nxt[w]]
    /\ fin' = [fin EXCEPT ![w] = nxt[w]]
    /\ Goto(w, "crawl")
    /\ UNCHANGED <<status, token, canon, vectors, partial, broker, nxt, reset,
                   val, ret, dpc, rpc, history, bounds>>

\* After the crawl: store final_cursor, or a fresh startPageToken when there
\* is none; failing to get one is only logged.
StoreFinal(w) ==
    /\ pc[w] = "store"
    /\ \/ /\ fin[w] # 0
          /\ cursor' = fin[w]
          /\ UNCHANGED bounds
       \/ /\ fin[w] = 0 /\ token
          /\ cursor' = ChangesToken
          /\ UNCHANGED bounds
       \/ /\ fin[w] = 0 /\ ~token
          /\ UNCHANGED <<cursor, bounds>>
       \/ /\ fin[w] = 0 /\ Fault
          /\ UNCHANGED <<cursor, requests, disconnects, crashes, lost>>
    /\ Goto(w, "finish")
    /\ UNCHANGED <<status, token, canon, vectors, partial, broker, pos, fin, nxt,
                   reset, val, ret, dpc, rpc, history>>

\* Mutant: the task ends without stamping "active".
FinishSilent(w) ==
    /\ pc[w] = "finish"
    /\ Goto(w, "idle")
    /\ UNCHANGED <<stores, broker, pos, fin, nxt, reset, val, ret, dpc, rpc,
                   history, bounds>>

\* Abort when disconnected, else set_status(active).
Finish(w) ==
    /\ pc[w] = "finish"
    /\ \/ /\ IsDisconnected
          /\ Goto(w, "idle")
          /\ UNCHANGED <<val, ret>>
       \/ /\ NotDisconnected
          /\ CallSetStatus(w, "active", "idle")
    /\ UNCHANGED <<stores, broker, pos, fin, nxt, reset, dpc, rpc, bounds>>

\* set_status: skip the update of a disconnected connector.
SetStatusGuard(w) ==
    /\ pc[w] = "guard"
    /\ \/ IsDisconnected  /\ Goto(w, ret[w])
       \/ NotDisconnected /\ Goto(w, "put")
    /\ UNCHANGED <<stores, broker, pos, fin, nxt, reset, val, ret, dpc, rpc,
                   bounds>>

\* set_status: read, modify and write the key.
SetStatusPut(w) ==
    /\ pc[w] = "put"
    /\ WriteStatus(val[w])
    /\ Goto(w, ret[w])
    /\ UNCHANGED <<cursor, token, canon, vectors, partial, broker, pos, fin, nxt,
                   reset, val, ret, dpc, rpc, wanted, bounds>>

\* The except clause: missing tokens ("needs_reauth"), or any call that raises.
Fail(w) ==
    /\ \/ /\ pc[w] = "crawl" /\ ~token
          /\ CallSetStatus(w, "needs_reauth", "exit")
          /\ UNCHANGED bounds
       \/ /\ \/ pc[w] \in {"begun", "resume", "crawl", "pipe", "index", "ckptwrite"}
             \/ pc[w] = "store" /\ fin[w] # 0
          /\ Fault
          /\ \E v \in {"error", "needs_reauth"} : CallSetStatus(w, v, "exit")
          /\ UNCHANGED <<requests, disconnects, crashes, lost>>
    /\ UNCHANGED <<stores, broker, pos, fin, nxt, reset, dpc, rpc, history>>

\* The end of the except clause: raise, or self.retry on 429 and quota.
Exit(w) ==
    /\ pc[w] = "exit"
    /\ \/ UNCHANGED <<queue, bounds>>
       \/ /\ Fault
          /\ queue' = queue + 1
          /\ UNCHANGED <<requests, disconnects, crashes, lost>>
    /\ Goto(w, "idle")
    /\ UNCHANGED <<stores, purges, pos, fin, nxt, reset, val, ret, dpc, rpc, history>>

BackfillStep(w) ==
    \/ ForceSyncing(w) \/ Recheck(w) \/ LoadCheckpoint(w)
    \/ SkipListing(w) \/ FetchPage(w) \/ FetchInvalidCursor(w) \/ FetchBreak(w)
    \/ PipePage(w) \/ IndexPage(w) \/ ReportProgress(w)
    \/ CheckpointCheck(w) \/ CheckpointWrite(w)
    \/ StoreFinal(w) \/ Finish(w)
    \/ SetStatusGuard(w) \/ SetStatusPut(w) \/ Fail(w) \/ Exit(w)

\* task_acks_late: the message of a worker that dies is delivered again.
Crash(w) ==
    /\ pc[w] # "idle" /\ crashes < MaxCrashes
    /\ crashes' = crashes + 1
    /\ queue' = queue + 1
    /\ Goto(w, "idle")
    /\ UNCHANGED <<stores, purges, pos, fin, nxt, reset, val, ret, dpc, rpc,
                   history, requests, disconnects, faults, lost>>

\* The hard time limit or the loss of a pool child acknowledges the message.
WorkerLost(w) ==
    /\ pc[w] # "idle" /\ lost < MaxLost
    /\ lost' = lost + 1
    /\ Goto(w, "idle")
    /\ UNCHANGED <<stores, broker, pos, fin, nxt, reset, val, ret, dpc, rpc,
                   history, requests, disconnects, faults, crashes>>

-----------------------------------------------------------------------------

RequestStep == TriggerEnqueue \/ CallbackGuard \/ CallbackPut \/ CallbackEnqueue
DisconnectStep == DisconnectCursor \/ DisconnectPlugin \/ DisconnectPurge

Next ==
    \/ TriggerStatus \/ TriggerEnqueueFails \/ CallbackToken \/ RequestStep
    \/ DisconnectStatus \/ DisconnectStep
    \/ Purge \/ PurgeGivesUp
    \/ \E w \in Workers : TakeTask(w) \/ BackfillStep(w) \/ Crash(w) \/ WorkerLost(w)

Spec == Init /\ [][Next]_vars

\* Worker processes keep running: each takes queued messages and executes the
\* task it holds, and a request handler runs to its end.
Fairness ==
    /\ WF_vars(RequestStep)
    /\ WF_vars(DisconnectStep)
    /\ \A w \in Workers : WF_vars(TakeTask(w) \/ BackfillStep(w))

FairSpec == Spec /\ Fairness

-----------------------------------------------------------------------------
(* Properties. *)

Reached(k) == \A p \in 1..k : p \in vectors \cup partial

\* A stored list token never points past a page that was not processed, over
\* any interleaving of backfills, disconnects, crashes and redeliveries: the
\* checkpoint is written after bulk_index (sync.py, "Persist checkpoint AFTER
\* successful index of this page").
CheckpointCovered == cursor # ChangesToken => Reached(cursor)

\* While the connector stays disconnected, a backfill in flight indexes at
\* most the page it already had in hand, and each further page takes two failed
\* reads of the status: _report_progress and _persist_checkpoint stop it before
\* the next one.
BoundedLateIndexing == \A w \in Workers : 2 * late[w] <= 2 + redis

\* Somebody will still change a "syncing" status: a message waits, a request
\* is about to send one, or a worker holds a task it has not finished.  Holds
\* as long as no message was lost, and Redis took the status that was to
\* follow the syncing one (status_store.py only logs that it did not).
SyncingOwner == \/ queue > 0
                \/ rpc \in {"enqueue", "cenqueue", "eguard", "eput"}
                \/ \E w \in Workers : pc[w] \notin {"idle", "exit"}
SyncingHasOwner == lost = 0 /\ ~unwritten /\ status = "syncing" => SyncingOwner

\* The UI never shows "syncing" for ever: the status of every backfill is
\* settled by a task's end, its except clause or a disconnect.
SyncingSettles == (status = "syncing") ~> (status # "syncing")

\* The listing is crawled in order, whatever runs concurrently: the pages
\* processed are always a prefix, which grows by one page at a time, and a
\* resumable checkpoint lies inside it.
Crawled == Cardinality(vectors \cup partial)
Crawl == INSTANCE ResumableCrawl WITH
            hw <- Crawled, ckpt <- IF cursor = ChangesToken THEN 0 ELSE cursor
CrawlSpec == Crawl!Spec

(* Claims of the repository that the code does not keep. *)

\* drive_service.py: "After backfill we store startPageToken for incremental
\* webhooks".
BackfillStoresStartPageToken ==
    /\ status = "active" /\ queue = 0 /\ rpc = "none"
    /\ \A w \in Workers : pc[w] = "idle"
    => cursor = ChangesToken

\* tasks.py: "check if the user explicitly disconnected AFTER this task was
\* queued" - a task gets past the check only while the user wants the
\* connector.
QueuedBackfillHonoursDisconnect ==
    [][\A w \in Workers : pc[w] = "recheck" /\ pc'[w] = "resume" => wanted]_vars

=============================================================================
