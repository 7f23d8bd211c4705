--------------------------- MODULE DocumentCopies ---------------------------
(***************************************************************************)
(* The copies the indexer makes of one source file that two tenants may    *)
(* both have connected, and the reader that puts an answer together from   *)
(* them.  The point of a document in the collection "documents" is named   *)
(* by the document alone, so that the tenants share it; the object and its *)
(* metadata row in the document store, and the chunks, are each tenant's.  *)
(* Only the API connects the document store when it starts: what a Celery  *)
(* worker gives it is refused, or stays in the worker's own memory.        *)
(* Contents are version numbers; the terms of an ACL are Retrieval's.      *)
(***************************************************************************)
EXTENDS Integers

CONSTANTS
    None,
    Tenant,
    Writer,     \* the tasks and requests that index or delete
    Reader,     \* the requests GET /document under way
    MaxVersion, \* bound: versions at the source
    MaxRuns,    \* bound: runs that index or delete
    MaxFaults   \* bound: failing calls

VARIABLES
    backend,    \* STORAGE_BACKEND: "minio", or each process's "memory"
    latest,     \* the version at the source
    kept,       \* tenant -> the version of its row in canonical_documents, 0 for none
    point,      \* the tenant and the version in the shared collection, or None
    object,     \* tenant -> the version of the body the API finds, 0 for none
    meta,       \* tenant -> the version of the metadata row
    chunks,     \* the tenants that have chunks of the document
    access,     \* tenant -> the caller is in the document's ACL rows
    job,        \* worker -> what it does, or None
    reading,    \* request -> what it has so far, or None
    indexed,    \* tenant -> the version of the last run that came to its end
    saved,      \* tenant -> of the last that had written body and metadata
    crossed,    \* history: tenants two of whose runs overlapped
    missed,     \* history: tenants whose point was overwritten
    runs,       \* bound
    faults      \* bound

vars == <<backend, latest, kept, point, object, meta, chunks, access, job, reading, indexed,
          saved, crossed, missed, runs, faults>>

copies == <<kept, point, object, meta, chunks, access>>
ends == <<indexed, saved>>
history == <<crossed, missed>>

\* One API process: its memory is the one that is read.
Shared == backend = "minio"

\* Nothing is indexed; or each tenant's first task has stored its rows, and
\* failed before the point.
Init ==
    /\ backend \in {"minio", "memory"}
    /\ latest = 1
    /\ kept \in {[t \in Tenant |-> 0], [t \in Tenant |-> 1]}
    /\ point = None
    /\ object = [t \in Tenant |-> 0] /\ meta = [t \in Tenant |-> 0]
    /\ chunks = {}
    /\ access = [t \in Tenant |-> kept[t] = 1]
    /\ job = [w \in Writer |-> None] /\ reading = [r \in Reader |-> None]
    /\ indexed = [t \in Tenant |-> 0] /\ saved = [t \in Tenant |-> 0]
    /\ crossed = {} /\ missed = {}
    /\ runs = 0 /\ faults = 0

Fault == faults < MaxFaults /\ faults' = faults + 1

Change ==
    /\ latest < MaxVersion
    /\ latest' = latest + 1
    /\ UNCHANGED <<backend, copies, job, reading, ends, history, runs, faults>>

Begin(w, t, at, version, step) ==
    /\ job[w] = None
    /\ runs < MaxRuns /\ runs' = runs + 1
    /\ job' = [job EXCEPT ![w] = [tenant |-> t, at |-> at, version |-> version, step |-> step]]
    /\ crossed' = IF \E v \in Writer : job[v] # None /\ job[v].tenant = t
                  THEN crossed \cup {t} ELSE crossed

\* In a task, when the pipeline has written the canonical row and the ACL rows.
BulkIndex(w, t) ==
    /\ Begin(w, t, "worker", latest, "point")
    /\ kept' = [kept EXCEPT ![t] = latest]
    /\ access' = [access EXCEPT ![t] = TRUE]
    /\ UNCHANGED <<backend, latest, point, object, meta, chunks, reading,
                   ends, missed, faults>>

\* From the canonical row: a sign-in that binds pending shares, the caller's or
\* somebody else's, or the reindexing task.
ReindexByIds(w, t, at) ==
    /\ kept[t] # 0
    /\ Begin(w, t, at, kept[t], "point")
    /\ access' \in {access, [access EXCEPT ![t] = at = "api" \/ @]}
    /\ UNCHANGED <<backend, latest, kept, point, object, meta, chunks, reading,
                   ends, missed, faults>>

DeleteByIds(w, t) ==
    /\ indexed[t] # 0
    /\ Begin(w, t, "worker", latest, "unpoint")
    /\ indexed' = [indexed EXCEPT ![t] = 0] /\ saved' = [saved EXCEPT ![t] = 0]
    /\ UNCHANGED <<backend, latest, copies, reading, missed, faults>>

\* Mutant: the row is written before the body.
AfterRowFirst(at, step) ==
    CASE step = "point"  -> IF at = "worker" THEN "unsaved" ELSE IF Shared THEN "row" ELSE "local"
      [] step = "row"    -> "object"
      [] OTHER           -> "chunks"

\* The fan-out of a document: body, metadata row, chunks.  A worker's store is
\* not connected and raises, or is its own memory.
After(at, step) ==
    CASE step = "point"  -> IF at = "worker" THEN "unsaved" ELSE IF Shared THEN "object" ELSE "local"
      [] step = "object" -> "row"
      [] OTHER           -> "chunks"

Goes(w, step) == job[w] # None /\ job[w].step = step
Advance(w)    == job' = [job EXCEPT ![w].step = After(job[w].at, job[w].step)]
Ends(w)       == job' = [job EXCEPT ![w] = None]

PutPoint(w) ==
    /\ Goes(w, "point")
    /\ point' = [tenant |-> job[w].tenant, version |-> job[w].version]
    /\ missed' = IF ~Shared /\ point # None /\ point.tenant # job[w].tenant
                 THEN missed \cup {point.tenant} ELSE missed
    /\ Advance(w)
    /\ UNCHANGED <<backend, latest, kept, object, meta, chunks, access, reading,
                   ends, crossed, runs, faults>>

PutObject(w) ==
    /\ Goes(w, "object")
    /\ object' = [object EXCEPT ![job[w].tenant] = job[w].version]
    /\ Advance(w)
    /\ UNCHANGED <<backend, latest, kept, point, meta, chunks, access, reading,
                   ends, history, runs, faults>>

PutRow(w) ==
    /\ Goes(w, "row")
    /\ meta' = [meta EXCEPT ![job[w].tenant] = job[w].version]
    /\ Advance(w)
    /\ UNCHANGED <<backend, latest, kept, point, object, chunks, access, reading,
                   ends, history, runs, faults>>

\* In memory at once.
PutLocal(w) ==
    LET t == job[w].tenant IN
    /\ Goes(w, "local")
    /\ object' = [object EXCEPT ![t] = job[w].version]
    /\ meta' = [meta EXCEPT ![t] = job[w].version]
    /\ Advance(w)
    /\ UNCHANGED <<backend, latest, kept, point, chunks, access, reading, ends, history, runs, faults>>

\* What the document store raises is logged, and the fan-out goes on.
StoreFails(w) ==
    /\ Goes(w, "object") \/ Goes(w, "row")
    /\ Fault
    /\ job' = [job EXCEPT ![w].step = "unsaved"]
    /\ UNCHANGED <<backend, latest, copies, reading, ends, history, runs>>

PutChunks(w) ==
    LET t == job[w].tenant IN
    /\ Goes(w, "chunks") \/ Goes(w, "unsaved")
    /\ chunks' = chunks \cup {t}
    /\ indexed' = [indexed EXCEPT ![t] = job[w].version]
    /\ saved' = [saved EXCEPT ![t] = IF Goes(w, "chunks") THEN job[w].version ELSE @]
    /\ Ends(w)
    /\ UNCHANGED <<backend, latest, kept, point, object, meta, access, reading, history, runs, faults>>

\* The id names the document alone, and the payload the tenant.
Own(t) == point # None /\ point.tenant = t

\* Only a point of the tenant itself; the store and the chunks keep theirs.
RemovePoint(w) ==
    /\ Goes(w, "unpoint")
    /\ point' = IF Own(job[w].tenant) THEN None ELSE point
    /\ job' = [job EXCEPT ![w].step = "unrows"]
    /\ UNCHANGED <<backend, latest, kept, object, meta, chunks, access, reading,
                   ends, history, runs, faults>>

RemoveRows(w) ==
    /\ Goes(w, "unrows")
    /\ access' = [access EXCEPT ![job[w].tenant] = FALSE]
    /\ Ends(w)
    /\ UNCHANGED <<backend, latest, kept, point, object, meta, chunks, reading,
                   ends, history, runs, faults>>

\* Qdrant or Postgres raises, and so does the run.
RunFails(w) ==
    /\ \E step \in {"point", "chunks", "unsaved", "unpoint", "unrows"} : Goes(w, step)
    /\ Fault
    /\ Ends(w)
    /\ UNCHANGED <<backend, latest, copies, reading, ends, history, runs>>

-----------------------------------------------------------------------------
(* GET /document/{id}, asked by the id of the document or of a chunk. *)

\* find_parent_document_id.
Parent(t, by) == by = "document" \/ t \in chunks

\* _load_indexed_document, where the store is memory and has no metadata.
Payload(t, by) == IF ~Shared /\ Own(t) /\ Parent(t, by) THEN point.version ELSE 0

Stored(t, by) == by = "document" /\ meta[t] # 0

GetDocument(r, t, by) ==
    /\ reading[r] = None
    /\ LET found == IF Stored(t, by) THEN meta[t] ELSE Payload(t, by) IN
       reading' = [reading EXCEPT ![r] =
                     [tenant |-> t, by |-> by, of |-> IF Stored(t, by) THEN "store" ELSE "point",
                      ended |-> indexed[t], since |-> saved[t],
                      row |-> found, structure |-> found, body |-> found,
                      step |-> IF found = 0 THEN "missing" ELSE "decide"]]
    /\ UNCHANGED <<backend, latest, copies, job, ends, history, runs, faults>>

At(r, step) == reading[r] # None /\ reading[r].step = step

Decide(r) ==
    /\ At(r, "decide")
    /\ reading' = [reading EXCEPT ![r].step =
                     IF ~access[reading[r].tenant] THEN "forbidden"
                     ELSE IF reading[r].of = "store" THEN "structure" ELSE "answered"]
    /\ UNCHANGED <<backend, latest, copies, job, ends, history, runs, faults>>

\* A second look at the row, for the structured metadata.
GetStructure(r) ==
    /\ At(r, "structure")
    /\ reading' = [reading EXCEPT ![r].step = "body", ![r].structure = meta[reading[r].tenant]]
    /\ UNCHANGED <<backend, latest, copies, job, ends, history, runs, faults>>

Answered(q, body) == [q EXCEPT !.step = "answered", !.body = body]

\* At once, or as a stream that is opened when the answer has begun.
GetBody(r) ==
    /\ At(r, "body")
    /\ reading' = [reading EXCEPT ![r] = Answered(@, object[@.tenant])]
    /\ UNCHANGED <<backend, latest, copies, job, ends, history, runs, faults>>

Close(r) ==
    /\ \E step \in {"missing", "forbidden", "answered"} : At(r, step)
    /\ reading' = [reading EXCEPT ![r] = None]
    /\ UNCHANGED <<backend, latest, copies, job, ends, history, runs, faults>>

Next ==
    \/ Change
    \/ \E t \in Tenant :
         \/ \E w \in Writer : \/ BulkIndex(w, t) \/ DeleteByIds(w, t)
                            \/ \E at \in {"api", "worker"} : ReindexByIds(w, t, at)
         \/ \E r \in Reader, by \in {"document", "chunk"} : GetDocument(r, t, by)
    \/ \E w \in Writer :
         \/ PutPoint(w) \/ PutObject(w) \/ PutRow(w) \/ PutLocal(w) \/ StoreFails(w) \/ PutChunks(w)
         \/ RemovePoint(w) \/ RemoveRows(w) \/ RunFails(w)
    \/ \E r \in Reader : Decide(r) \/ GetStructure(r) \/ GetBody(r) \/ Close(r)

Spec == Init /\ [][Next]_vars

-----------------------------------------------------------------------------
\* What a request answers fits: the body is no older than the metadata it was
\* asked by; what comes from the store is no older than the last run that had
\* saved there when the request began, and a document so saved is found; what
\* comes of the point, for want of metadata in the API's memory, is no older
\* than the last run that ended, and it is found if one has.  Excepted are
\* tenants whose runs crossed, and for the point those whose point the other
\* tenant overwrote.  What only workers index is never found in MinIO
\* (store.py 181-262, indexer.py 192-218, document.py 39-42 and 154-258,
\* qdrant_client.py 137-252).
AnswerFits ==
    \A r \in Reader : LET q == reading[r] IN
        q # None /\ q.tenant \notin crossed =>
            /\ q.step = "answered" => q.row <= q.structure /\ q.structure <= q.body
            /\ q.step = "answered" /\ q.of = "store" => q.since <= q.row
            /\ q.step = "missing" /\ q.by = "document" => q.since = 0
            /\ ~Shared /\ q.tenant \notin missed =>
                 /\ q.step = "answered" /\ q.of = "point" => q.ended <= q.row
                 /\ q.step = "missing" /\ q.by = "document" => q.ended = 0
=============================================================================
