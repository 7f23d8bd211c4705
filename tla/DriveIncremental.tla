-------------------------- MODULE DriveIncremental --------------------------
(***************************************************************************)
(* The incremental path of Google Drive: process_drive_notification of     *)
(* workers/tasks.py, enqueued by the webhook and, every three minutes, by  *)
(* the beat task poll_drive_acl_delta.  Several tasks of one tenant may    *)
(* run at a time.  A task reads the changes token, lists one page of       *)
(* changes, lists the permissions of each file, runs the pipeline on each, *)
(* indexes what the pipeline returned, deletes what was removed and stores *)
(* the new token.                                                          *)
(*                                                                         *)
(* Upstream is a log of changes numbered 1..head; changes.list shows a     *)
(* file at its latest change only.  A file's permissions are named by the  *)
(* change that made them, so a set of changes stands for who can see the   *)
(* file: {} is nobody.                                                     *)
(***************************************************************************)
EXTENDS Naturals, FiniteSets

CONSTANTS
    Files,
    Workers,       \* Celery worker processes of the "google" queue
    PageSize,      \* changes per page of changes.list
    MaxChanges,    \* bound: upstream changes
    MaxQueue,      \* bound: notifications waiting in the broker
    MaxFaults,     \* bound: failed calls to Google, Postgres, Qdrant
    MaxCrashes     \* bound: worker deaths

ASSUME FilesAssumption == IsFiniteSet(Files)
ASSUME PageSizeAssumption == PageSize \in Nat \ {0}
ASSUME BoundsAssumption == /\ MaxChanges \in Nat
                           /\ MaxQueue \in Nat \ {0}
                           /\ MaxFaults \in Nat
                           /\ MaxCrashes \in Nat

VARIABLES
    head,      \* upstream: the last change
    ver,       \* upstream: the latest change of each file, 0 before any
    live,      \* upstream: the file exists and is visible to the connector
    cursor,    \* sync_cursors.cursor, a changes token
    acl,       \* acl_entries rows
    doc,       \* acl_terms of the file's point in the documents collection
    chunks,    \* acl_terms of its points in the chunk collection
    queue,     \* notifications waiting in the broker
    pc,        \* where each worker stands in process_drive_notification
    page,      \* change at which the page in hand shows each file, 0 if not
    gone,      \* files the page in hand shows as removed
    token,     \* page_token of the task, then next_page_token of its page
    perms,     \* permissions read for each file of the page
    stage,     \* how far _run_pipeline is with each file of the page
    old,       \* rows the DELETE of replace_acl_entries has seen
    applied,   \* history: latest change of each file a task has persisted
    dropped,   \* history: latest change of each file a task has passed over
    faults, crashes   \* spent bounds

upstream == <<head, ver, live>>
indexes  == <<acl, doc, chunks>>
task     == <<page, gone, token, perms, stage, old>>
history  == <<applied, dropped>>
bounds   == <<faults, crashes>>
vars     == <<upstream, cursor, indexes, queue, pc, task, history, bounds>>

Changes == 0..MaxChanges
Stages  == {"out", "listed", "read", "replacing", "done", "failed"}

TypeOK ==
    /\ head \in Changes
    /\ ver \in [Files -> Changes]
    /\ live \in [Files -> BOOLEAN]
    /\ cursor \in Changes
    /\ acl \in [Files -> SUBSET Changes]
    /\ doc \in [Files -> SUBSET Changes]
    /\ chunks \in [Files -> SUBSET Changes]
    /\ queue \in Nat
    /\ pc \in [Workers -> {"idle", "fetch", "batch", "docs", "chunks", "delete", "canon", "cursor"}]
    /\ page \in [Workers -> [Files -> Changes]]
    /\ gone \in [Workers -> SUBSET Files]
    /\ token \in [Workers -> Changes]
    /\ perms \in [Workers -> [Files -> SUBSET Changes]]
    /\ stage \in [Workers -> [Files -> Stages]]
    /\ old \in [Workers -> [Files -> SUBSET Changes]]
    /\ applied \in [Files -> Changes]
    /\ dropped \in [Files -> Changes]
    /\ faults \in Nat
    /\ crashes \in Nat

\* The backfill has crawled every file and stored a startPageToken.
Init ==
    /\ head = 0 /\ cursor = 0 /\ queue = 0
    /\ ver = [f \in Files |-> 0]
    /\ live = [f \in Files |-> TRUE]
    /\ acl = [f \in Files |-> {0}] /\ doc = acl /\ chunks = acl
    /\ pc = [w \in Workers |-> "idle"]
    /\ page = [w \in Workers |-> [f \in Files |-> 0]]
    /\ gone = [w \in Workers |-> {}]
    /\ token = [w \in Workers |-> 0]
    /\ perms = [w \in Workers |-> [f \in Files |-> {}]]
    /\ stage = [w \in Workers |-> [f \in Files |-> "out"]]
    /\ old = [w \in Workers |-> [f \in Files |-> {}]]
    /\ applied = [f \in Files |-> 0]
    /\ dropped = [f \in Files |-> 0]
    /\ faults = 0 /\ crashes = 0

-----------------------------------------------------------------------------
(* Upstream and the two sources of notifications. *)

\* A file is edited, shared, unshared, removed or shown again.
Change(f) ==
    /\ head < MaxChanges
    /\ head' = head + 1
    /\ ver' = [ver EXCEPT ![f] = head + 1]
    /\ \E l \in BOOLEAN : /\ live[f] \/ l
                          /\ live' = [live EXCEPT ![f] = l]
    /\ UNCHANGED <<cursor, indexes, queue, pc, task, history, bounds>>

\* drive_webhook accepts a push, or the beat's poll enqueues the tenant.
Notify ==
    /\ queue < MaxQueue
    /\ queue' = queue + 1
    /\ UNCHANGED <<upstream, cursor, indexes, pc, task, history, bounds>>

-----------------------------------------------------------------------------
(* process_drive_notification *)

Todo(w)    == {f \in Files : page[w][f] # 0 /\ f \notin gone[w]}
Staged(w, s) == {f \in Files : stage[w][f] = s}

\* Back to the worker's loop; the task's locals are gone.
Leave(w) ==
    /\ pc' = [pc EXCEPT ![w] = "idle"]
    /\ page' = [page EXCEPT ![w] = [f \in Files |-> 0]]
    /\ gone' = [gone EXCEPT ![w] = {}]
    /\ token' = [token EXCEPT ![w] = 0]
    /\ perms' = [perms EXCEPT ![w] = [f \in Files |-> {}]]
    /\ stage' = [stage EXCEPT ![w] = [f \in Files |-> "out"]]
    /\ old' = [old EXCEPT ![w] = [f \in Files |-> {}]]

Fault == faults < MaxFaults /\ faults' = faults + 1 /\ UNCHANGED crashes

Later(a, b) == IF a >= b THEN a ELSE b

\* The changes after a token, and the page of them changes.list answers.
After(t) == {f \in Files : ver[f] > t}
PageAfter(t) == {f \in After(t) : Cardinality({g \in After(t) : ver[g] < ver[f]}) < PageSize}

\* Mutant: the new start token is stored although more pages follow.
NextTokenSkipsPages(t) == {head}

\* newStartPageToken on the last page, else nextPageToken: the last change of
\* the page.
NextToken(t) ==
    IF PageAfter(t) = After(t) THEN {head}
    ELSE {n \in Changes : /\ \E f \in PageAfter(t) : ver[f] = n
                          /\ \A f \in PageAfter(t) : ver[f] <= n}

\* A worker takes the message; get_cursor.
TakeTask(w) ==
    /\ pc[w] = "idle" /\ queue > 0
    /\ queue' = queue - 1
    /\ token' = [token EXCEPT ![w] = cursor]
    /\ pc' = [pc EXCEPT ![w] = "fetch"]
    /\ UNCHANGED <<upstream, cursor, indexes, page, gone, perms, stage, old, history, bounds>>

\* changes.list from the token.
FetchChanges(w) ==
    /\ pc[w] = "fetch"
    /\ LET files == PageAfter(token[w]) IN
       /\ page' = [page EXCEPT ![w] = [f \in Files |-> IF f \in files THEN ver[f] ELSE 0]]
       /\ gone' = [gone EXCEPT ![w] = {f \in files : ~live[f]}]
       /\ stage' = [stage EXCEPT ![w] =
                      [f \in Files |-> IF f \in files /\ live[f] THEN "listed" ELSE "out"]]
    /\ \E n \in NextToken(token[w]) : token' = [token EXCEPT ![w] = n]
    /\ pc' = [pc EXCEPT ![w] = "batch"]
    /\ UNCHANGED <<upstream, cursor, indexes, queue, perms, old, history, bounds>>

\* _hydrate_files: permissions.list answers with the permissions of now; an
\* error, also that of a file removed since, leaves the empty list.
Hydrate(w, f) ==
    /\ stage[w][f] = "listed"
    /\ stage' = [stage EXCEPT ![w][f] = "read"]
    /\ \/ /\ perms' = [perms EXCEPT ![w][f] = IF live[f] THEN {ver[f]} ELSE {}]
          /\ UNCHANGED bounds
       \/ Fault /\ UNCHANGED perms
    /\ UNCHANGED <<upstream, cursor, indexes, queue, pc, page, gone, token, old, history>>

\* process_raw on one file, up to the DELETE of replace_acl_entries.  The
\* files of a page run concurrently, each in a session of its own.
BeginReplace(w, f) ==
    /\ stage[w][f] = "read" /\ Staged(w, "listed") = {}
    /\ stage' = [stage EXCEPT ![w][f] = "replacing"]
    /\ old' = [old EXCEPT ![w][f] = acl[f]]
    /\ UNCHANGED <<upstream, cursor, indexes, queue, pc, page, gone, token, perms,
                   history, bounds>>

\* Rows that vanish, or come after the snapshot, are not in the rows another
\* transaction's DELETE will remove.
Overtake(f, rows) == old' = [x \in Workers |-> [old[x] EXCEPT ![f] = @ \ rows]]

\* Mutant: the rows are added to the old ones.
CommitReplaceAppends(w, f) ==
    /\ stage[w][f] = "replacing"
    /\ stage' = [stage EXCEPT ![w][f] = "done"]
    /\ acl' = [acl EXCEPT ![f] = @ \cup perms[w][f]]
    /\ Overtake(f, old[w][f] \cup perms[w][f])
    /\ applied' = [applied EXCEPT ![f] = Later(@, page[w][f])]
    /\ UNCHANGED <<upstream, cursor, doc, chunks, queue, pc, page, gone, token, perms,
                   dropped, bounds>>

\* Its INSERTs and the commit.
CommitReplace(w, f) ==
    /\ stage[w][f] = "replacing"
    /\ stage' = [stage EXCEPT ![w][f] = "done"]
    /\ acl' = [acl EXCEPT ![f] = (@ \ old[w][f]) \cup perms[w][f]]
    /\ Overtake(f, old[w][f] \cup perms[w][f])
    /\ applied' = [applied EXCEPT ![f] = Later(@, page[w][f])]
    /\ UNCHANGED <<upstream, cursor, doc, chunks, queue, pc, page, gone, token, perms,
                   dropped, bounds>>

\* An exception of process_raw drops the file from the batch.
ItemFails(w, f) ==
    /\ stage[w][f] \in {"read", "replacing"} /\ Staged(w, "listed") = {}
    /\ Fault
    /\ stage' = [stage EXCEPT ![w][f] = "failed"]
    /\ old' = [old EXCEPT ![w][f] = {}]
    /\ UNCHANGED <<upstream, cursor, indexes, queue, pc, page, gone, token, perms, history>>

AfterIndexing(w) == IF gone[w] = {} THEN "cursor" ELSE "delete"

\* Mutant: "no documents" and "all failed" are taken for the same.
EndBatchIgnoresNone(w) ==
    /\ pc[w] = "batch"
    /\ Todo(w) = Staged(w, "done") \cup Staged(w, "failed")
    /\ pc' = [pc EXCEPT ![w] = IF Staged(w, "done") = {} THEN AfterIndexing(w) ELSE "docs"]
    /\ UNCHANGED <<upstream, cursor, indexes, queue, task, history, bounds>>

\* Every file is done or has failed, and not all have failed.
EndBatch(w) ==
    /\ pc[w] = "batch"
    /\ Todo(w) = Staged(w, "done") \cup Staged(w, "failed")
    /\ \/ /\ Todo(w) = {}
          /\ pc' = [pc EXCEPT ![w] = AfterIndexing(w)]
          /\ UNCHANGED dropped
       \/ /\ Staged(w, "done") # {}
          /\ pc' = [pc EXCEPT ![w] = "docs"]
          /\ dropped' = [f \in Files |-> IF f \in Staged(w, "failed")
                                         THEN Later(dropped[f], page[w][f])
                                         ELSE dropped[f]]
    /\ UNCHANGED <<upstream, cursor, indexes, queue, task, applied, bounds>>

\* bulk_index: one upsert of the page's document points ...
IndexDocs(w) ==
    /\ pc[w] = "docs"
    /\ doc' = [f \in Files |-> IF f \in Staged(w, "done") THEN perms[w][f] ELSE doc[f]]
    /\ pc' = [pc EXCEPT ![w] = "chunks"]
    /\ UNCHANGED <<upstream, cursor, acl, chunks, queue, task, history, bounds>>

\* ... then the chunk points, file after file.
IndexChunks(w, f) ==
    /\ pc[w] = "chunks"
    /\ stage[w][f] = "done"
    /\ stage' = [stage EXCEPT ![w][f] = "out"]
    /\ chunks' = [chunks EXCEPT ![f] = perms[w][f]]
    /\ pc' = [pc EXCEPT ![w] = IF Staged(w, "done") = {f} THEN AfterIndexing(w) ELSE "chunks"]
    /\ UNCHANGED <<upstream, cursor, acl, doc, queue, page, gone, token, perms, old,
                   history, bounds>>

\* delete_by_ids: the document points; the chunk points stay.
DeleteDocs(w) ==
    /\ pc[w] = "delete"
    /\ doc' = [f \in Files |-> IF f \in gone[w] THEN {} ELSE doc[f]]
    /\ pc' = [pc EXCEPT ![w] = "canon"]
    /\ UNCHANGED <<upstream, cursor, acl, chunks, queue, task, history, bounds>>

\* Then the canonical rows, in one transaction.
DeleteCanon(w) ==
    /\ pc[w] = "canon"
    /\ acl' = [f \in Files |-> IF f \in gone[w] THEN {} ELSE acl[f]]
    /\ old' = [x \in Workers |-> [f \in Files |->
                  IF f \in gone[w] THEN old[x][f] \ acl[f] ELSE old[x][f]]]
    /\ applied' = [f \in Files |-> IF f \in gone[w] THEN Later(applied[f], page[w][f])
                                   ELSE applied[f]]
    /\ pc' = [pc EXCEPT ![w] = "cursor"]
    /\ UNCHANGED <<upstream, cursor, doc, chunks, queue, page, gone, token, perms, stage,
                   dropped, bounds>>

\* Mutant: the token is stored only when documents were indexed.
StoreCursorIfIndexed(w) ==
    /\ pc[w] = "cursor"
    /\ cursor' = IF Todo(w) # {} THEN token[w] ELSE cursor
    /\ Leave(w)
    /\ UNCHANGED <<upstream, indexes, queue, history, bounds>>

\* update_cursor, "always advance if Drive API returned a new cursor".
StoreCursor(w) ==
    /\ pc[w] = "cursor"
    /\ cursor' = token[w]
    /\ Leave(w)
    /\ UNCHANGED <<upstream, indexes, queue, history, bounds>>

\* The except clause: raise, or self.retry on 429 and quota.  It is reached
\* by a failing call, and when every file of the batch has failed.
Raise(w) ==
    /\ \/ /\ pc[w] # "idle"
          /\ Fault
          /\ queue' \in {queue, queue + 1}
       \/ /\ pc[w] = "batch"
          /\ Todo(w) # {} /\ Todo(w) = Staged(w, "failed")
          /\ UNCHANGED <<queue, bounds>>
    /\ Leave(w)
    /\ UNCHANGED <<upstream, cursor, indexes, history>>

\* task_acks_late: the message is delivered again.
Crash(w) ==
    /\ pc[w] # "idle" /\ crashes < MaxCrashes
    /\ crashes' = crashes + 1
    /\ queue' = queue + 1
    /\ Leave(w)
    /\ UNCHANGED <<upstream, cursor, indexes, history, faults>>

Work(w) ==
    \/ TakeTask(w) \/ FetchChanges(w) \/ EndBatch(w) \/ IndexDocs(w)
    \/ DeleteDocs(w) \/ DeleteCanon(w) \/ StoreCursor(w) \/ Raise(w)
    \/ \E f \in Files : \/ Hydrate(w, f) \/ BeginReplace(w, f) \/ CommitReplace(w, f)
                        \/ ItemFails(w, f) \/ IndexChunks(w, f)

Next ==
    \/ \E f \in Files : Change(f)
    \/ Notify
    \/ \E w \in Workers : Work(w) \/ Crash(w)

Spec == Init /\ [][Next]_vars

\* The beat polls for ever and the worker processes keep running.
FairSpec == Spec /\ WF_vars(Notify) /\ \A w \in Workers : WF_vars(Work(w))

-----------------------------------------------------------------------------
(* Properties. *)

\* Whatever tasks overlap, fail or are delivered twice: a change behind the
\* stored token has been persisted or is one whose file the pipeline dropped.
CursorCovered ==
    \A f \in Files : ver[f] <= cursor => applied[f] >= ver[f] \/ dropped[f] >= ver[f]

Settled == /\ queue = 0 /\ cursor = head
           /\ \A w \in Workers : pc[w] = "idle"
Visible(f) == IF live[f] THEN {ver[f]} ELSE {}
Dropped(f) == ver[f] > 0 /\ dropped[f] = ver[f]

\* With one worker process, once every change has been processed each index
\* lets in at most those who can see the file upstream, the indexes agree on
\* it, and a removed file is gone from Postgres and the documents collection.
SettledIsCurrent ==
    Settled => \A f \in Files : ~Dropped(f) =>
                  /\ acl[f] \subseteq Visible(f)
                  /\ doc[f] = acl[f]
                  /\ live[f] => chunks[f] = acl[f]

\* The stored token catches up with the last change and stays there, through
\* pages, failing calls, crashes and tasks that overlap.
CatchesUp == <>[](cursor = head)

(* Claims of the repository that the code does not keep. *)

\* pipeline_bridge.py, on the webhook path: "Raise instead so Celery retries
\* and nothing is mistaken for a successful ACL persist."
AdvanceMeansPersisted == \A f \in Files : ver[f] <= cursor => applied[f] >= ver[f]

\* README: replace_acl_entries "Atomically DELETE old rows, INSERT new ones.
\* Revoked permissions cannot linger."
RevokedCannotLinger ==
    Settled => \A f \in Files : live[f] => acl[f] \subseteq {ver[f]}

=============================================================================
