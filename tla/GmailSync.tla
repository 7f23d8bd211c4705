------------------------------- MODULE GmailSync -------------------------------
(***************************************************************************)
(* Gmail of one mailbox: the backfill (tasks.backfill_tenant_source with   *)
(* GmailConnector.fetch_delta), the push notifications (poll_gmail_pubsub  *)
(* or webhooks.gmail_webhook, then process_gmail_notification) and the     *)
(* watch that causes them (watch_manager).                                 *)
(*                                                                         *)
(* Upstream is a history of events, each the arrival or the deletion of a  *)
(* message; a history id is a length of it.  One column, cursor, holds     *)
(* either the page token of an unfinished listing or a history id, and     *)
(* nothing in it says which.  A listing goes from new to old, and the      *)
(* token of a page stands for the arrivals before the page's last.         *)
(*                                                                         *)
(* Status and disconnect are in ConnectorSync; they are left out here.     *)
(***************************************************************************)
EXTENDS Integers, Sequences, FiniteSetsExt

CONSTANTS
    Msg,         \* messages that _is_otp_or_promo lets pass
    Present,     \* the messages there at the start, oldest first
    Crawler,     \* the workers that take backfills
    Notifier,    \* the workers that take polls and notifications
    PageSize,    \* messages of a page of the listing
    HistoryMax,  \* records of one history.list
    PullMax,     \* notifications of one pull
    MaxEvents,   \* bound: length of the history
    MaxCrawls,   \* bound: backfills
    MaxFaults,   \* bound: failing calls
    MaxTerms     \* bound: terms of a watch that pass

ASSUME MessagesAssumption ==
    Present \in Seq(Msg) /\ \A i, j \in DOMAIN Present : Present[i] = Present[j] => i = j
ASSUME SizesAssumption == {PageSize, HistoryMax, PullMax} \subseteq Nat \ {0}
ASSUME BoundsAssumption ==
    {MaxEvents, MaxCrawls, MaxFaults, MaxTerms} \subseteq Nat /\ Len(Present) <= MaxEvents

VARIABLES
    box,      \* upstream history
    floor,    \* upstream keeps the events after this one
    armed,    \* upstream publishes notifications
    notes,    \* Pub/Sub: the events whose notification is not acknowledged
    push,     \* the subscription pushes to the webhook, or is pulled
    cursor,   \* sync_cursors.cursor
    watch,    \* sync_cursors.watch_data: the history id of the watch, -1 for none
    term,     \* the term of that watch against watch_expiration
    queue,    \* process_gmail_notification messages in the broker
    index,    \* messages in the index
    pc, from, held, ids, next, pulled, acks,  \* of each worker
    renew,    \* where renew_watch_channels stands
    crawls, faults, terms,                    \* spent bounds
    top, missed, silent, overlap              \* history

\* from    the cursor a task works from
\* held    the event it read up to
\* ids     the messages in hand
\* next    the page token that came with them, NoCursor when there is none
\* pulled  the notifications of a pull it has still to handle
\* acks    those it will acknowledge
\* top     history: how long box was when the last listing from the start began
\* missed  history: the events a call gave up on, a history.list left out,
\*         or a backfill stepped over
\* silent  history: the events no notification is left for
\* overlap history: two tasks were at work at once

upstream == <<box, floor, armed, notes>>
rows     == <<cursor, watch, term>>
worker   == <<pc, from, held, ids, next, pulled, acks>>
bounds   == <<crawls, faults, terms>>
vars     == <<upstream, push, rows, queue, index, worker, renew, bounds, top, missed, silent, overlap>>

Worker == Crawler \cup Notifier

NoCursor    == [kind |-> "none", at |-> 0]
Page(n)     == [kind |-> "page", at |-> n]
History(n)  == [kind |-> "history", at |-> n]
Cursor      == [kind : {"none", "page", "history"}, at : 0..MaxEvents]
Event       == [msg : Msg, gone : BOOLEAN]
Now         == Len(box)
Events      == 1..Now

Stages == {"idle", "list", "index", "checkpoint", "final", "register", "override",
           "pull", "read", "pipe", "delete", "store"}

TypeOK ==
    /\ box \in Seq(Event) /\ Now <= MaxEvents
    /\ floor \in 0..Now
    /\ {armed, push, overlap} \subseteq BOOLEAN
    /\ notes \subseteq Events
    /\ cursor \in Cursor
    /\ watch \in -1..Now
    /\ term \in {"none", "far", "due"}
    /\ (term = "none") = (watch = -1)
    /\ queue \in Nat
    /\ index \subseteq Msg
    /\ pc \in [Worker -> Stages]
    /\ from \in [Worker -> Cursor] /\ next \in [Worker -> Cursor]
    /\ held \in [Worker -> 0..Now]
    /\ ids \in [Worker -> SUBSET Msg]
    /\ pulled \in [Worker -> SUBSET Events] /\ acks \in [Worker -> SUBSET Events]
    /\ renew \in {"idle", "stop", "register"}
    /\ crawls \in 0..MaxCrawls /\ faults \in 0..MaxFaults /\ terms \in 0..MaxTerms
    /\ top \in 0..Now /\ missed \cup silent \subseteq Events

\* Never connected, or connected and up to date since long.
Init ==
    /\ box = [i \in DOMAIN Present |-> [msg |-> Present[i], gone |-> FALSE]]
    /\ floor = 0 /\ notes = {}
    /\ push \in BOOLEAN
    /\ \/ /\ cursor = NoCursor /\ watch = -1 /\ term = "none"
          /\ armed = FALSE /\ index = {}
       \/ /\ cursor = History(Now) /\ watch = Now /\ term = "far"
          /\ armed = TRUE /\ index = {Present[i] : i \in DOMAIN Present}
    /\ queue = 0
    /\ pc = [w \in Worker |-> "idle"]
    /\ from = [w \in Worker |-> NoCursor] /\ next = [w \in Worker |-> NoCursor]
    /\ held = [w \in Worker |-> 0]
    /\ ids = [w \in Worker |-> {}] /\ pulled = [w \in Worker |-> {}] /\ acks = [w \in Worker |-> {}]
    /\ renew = "idle"
    /\ crawls = 0 /\ faults = 0 /\ terms = 0
    /\ top = 0 /\ missed = {} /\ silent = {} /\ overlap = FALSE

Goto(w, p) == pc' = [pc EXCEPT ![w] = p]
Forget(w) ==
    /\ from' = [from EXCEPT ![w] = NoCursor] /\ next' = [next EXCEPT ![w] = NoCursor]
    /\ held' = [held EXCEPT ![w] = 0] /\ ids' = [ids EXCEPT ![w] = {}]
Fault == faults < MaxFaults /\ faults' = faults + 1

Arrived(m) == CHOOSE i \in Events : box[i].msg = m /\ ~box[i].gone
Added(m)   == \E i \in Events : box[i].msg = m /\ ~box[i].gone
Deleted(m) == \E i \in Events : box[i].msg = m /\ box[i].gone
Alive      == {m \in Msg : Added(m) /\ ~Deleted(m)}

-----------------------------------------------------------------------------
(* Upstream and the other tenants. *)

Happen(m, gone) ==
    /\ Now < MaxEvents
    /\ box' = Append(box, [msg |-> m, gone |-> gone])
    /\ notes' = IF armed THEN notes \cup {Now + 1} ELSE notes
    /\ silent' = IF armed THEN silent ELSE silent \cup {Now + 1}
    /\ UNCHANGED <<floor, armed, push, rows, queue, index, worker, renew, bounds, top, missed, overlap>>

Arrive(m) == ~Added(m) /\ Happen(m, FALSE)
Remove(m) == m \in Alive /\ Happen(m, TRUE)

\* Google keeps history records for a limited time.
Forgotten ==
    /\ floor < Now /\ Fault
    /\ floor' = Now
    /\ UNCHANGED <<box, armed, notes, push, rows, queue, index, worker, renew, crawls, terms, top, missed, silent, overlap>>

\* The window before watch_expiration begins, and the watch may end as well
\* before anything looks.
TermPasses ==
    /\ term = "far" /\ terms < MaxTerms
    /\ terms' = terms + 1
    /\ term' = "due"
    /\ armed' \in {armed, FALSE}
    /\ UNCHANGED <<box, floor, notes, push, cursor, watch, queue, index, worker, renew, crawls, faults, top, missed, silent, overlap>>

-----------------------------------------------------------------------------
(* Watches. *)

\* register_gmail_watch: users.watch, then set_watch_info.
Watched ==
    /\ armed' = TRUE
    /\ watch' = Now
    /\ term' = "far"

\* get_expiring_watches: every watch that ends within the window or has ended.
RenewBegin ==
    /\ renew = "idle" /\ term = "due"
    /\ renew' = "stop"
    /\ UNCHANGED <<upstream, push, rows, queue, index, worker, bounds, top, missed, silent, overlap>>

\* The old watch, or the one a backfill registered meanwhile, is stopped
\* before the new one is there.
RenewStop ==
    /\ renew = "stop"
    /\ armed' = FALSE
    /\ renew' = "register"
    /\ UNCHANGED <<box, floor, notes, push, rows, queue, index, worker, bounds, top, missed, silent, overlap>>

RenewRegister ==
    /\ renew = "register"
    /\ Watched
    /\ renew' = "idle"
    /\ UNCHANGED <<box, floor, notes, push, cursor, queue, index, worker, bounds, top, missed, silent, overlap>>

\* Counted among the errors of the run; the row stays as it is.
RenewFails ==
    /\ renew \in {"stop", "register"} /\ Fault
    /\ renew' = "idle"
    /\ UNCHANGED <<upstream, push, rows, queue, index, worker, crawls, terms, top, missed, silent, overlap>>

-----------------------------------------------------------------------------
(* The backfill. *)

Crawling(w) == pc[w] \in {"list", "index", "checkpoint", "final", "register", "override"}

BeginCrawl(w) ==
    /\ pc[w] = "idle" /\ pulled[w] = {} /\ acks[w] = {}
    /\ \A v \in Worker : ~Crawling(v)
    /\ crawls < MaxCrawls /\ crawls' = crawls + 1
    /\ from' = [from EXCEPT ![w] = cursor]
    /\ Goto(w, "list")
    /\ overlap' = (overlap \/ \E v \in Worker \ {w} : pc[v] # "idle")
    /\ UNCHANGED <<upstream, push, rows, queue, index, held, ids, next, pulled, acks, renew, faults, terms, top, missed, silent>>

\* A history id is no page token: the listing starts again, without a checkpoint.
ResetListing(w) ==
    /\ pc[w] = "list" /\ from[w].kind = "history"
    /\ from' = [from EXCEPT ![w] = NoCursor]
    /\ cursor' = NoCursor
    /\ UNCHANGED <<upstream, push, watch, term, queue, index, pc, held, ids, next, pulled, acks, renew, bounds, top, missed, silent, overlap>>

\* The arrivals that a listing from this token has still to show.
Rest(c) == {m \in Alive : c.kind = "page" => Arrived(m) < c.at}

\* The messages a task got, less one that fails in the pipeline: if all of them
\* do, a backfill indexes them without it and a notification raises.  A
\* messages.get that fails for good raises as well: its handler names a logger
\* that the module does not have.
Fetched(w, found, passed) ==
    \/ /\ ids' = [ids EXCEPT ![w] = found]
       /\ missed' = missed \cup passed
       /\ UNCHANGED faults
    \/ /\ Fault
       /\ \E m \in found :
             /\ found # {m}
             /\ ids' = [ids EXCEPT ![w] = found \ {m}]
             /\ missed' = missed \cup passed \cup {Arrived(m)}

\* messages.list, a page of ids, and messages.get of each.  A listing from the
\* start says nothing of the deletions that no notification brought.
List(w) ==
    /\ pc[w] = "list" /\ from[w].kind # "history"
    /\ LET rest == Rest(from[w])
           unseen == {e \in Events : from[w] = NoCursor /\ box[e].gone /\ box[e].msg \in index}
       IN \E page \in SUBSET rest :
             /\ Cardinality(page) <= PageSize /\ (page # rest => Cardinality(page) = PageSize)
             /\ \A m \in page, n \in rest \ page : Arrived(n) < Arrived(m)
             /\ Fetched(w, page, unseen)
             /\ IF page = rest THEN next' = [next EXCEPT ![w] = NoCursor]
                ELSE \E last \in page :
                        /\ \A m \in page : Arrived(last) <= Arrived(m)
                        /\ next' = [next EXCEPT ![w] = Page(Arrived(last))]
    /\ top' = IF from[w] = NoCursor THEN Now ELSE top
    /\ Goto(w, "index")
    /\ UNCHANGED <<upstream, push, rows, queue, index, from, held, pulled, acks, renew, crawls, terms, silent, overlap>>

\* The listing fails for another reason, or a message of it: the crawl ends as
\* if it were done.
ListBreaks(w) ==
    /\ pc[w] = "list" /\ from[w].kind # "history" /\ Fault
    /\ missed' = missed \cup {Arrived(m) : m \in Rest(from[w])}
    /\ Goto(w, "final")
    /\ UNCHANGED <<upstream, push, rows, queue, index, from, held, ids, next, pulled, acks, renew, crawls, terms, top, silent, overlap>>

\* process_raw_batch and bulk_index.
Index(w, to) ==
    /\ index' = index \cup ids[w]
    /\ ids' = [ids EXCEPT ![w] = {}]
    /\ Goto(w, to)
    /\ UNCHANGED <<upstream, push, rows, queue, from, held, next, pulled, acks, renew, bounds, top, missed, silent, overlap>>

CrawlIndex(w) == pc[w] = "index" /\ Index(w, "checkpoint")

Checkpoint(w) ==
    /\ pc[w] = "checkpoint"
    /\ IF next[w] = NoCursor
       THEN Goto(w, "final") /\ UNCHANGED <<cursor, from, next>>
       ELSE /\ cursor' = next[w]
            /\ from' = [from EXCEPT ![w] = next[w]]
            /\ next' = [next EXCEPT ![w] = NoCursor]
            /\ Goto(w, "list")
    /\ UNCHANGED <<upstream, push, watch, term, queue, index, held, ids, pulled, acks, renew, bounds, top, missed, silent, overlap>>

\* The last page has no token: final_cursor is the token it was fetched with,
\* and a listing of one page stores none and registers no watch.
StoreFinal(w) ==
    /\ pc[w] = "final"
    /\ IF from[w] = NoCursor
       THEN Goto(w, "override") /\ UNCHANGED cursor
       ELSE Goto(w, "register") /\ cursor' = from[w]
    /\ UNCHANGED <<upstream, push, watch, term, queue, index, from, held, ids, next, pulled, acks, renew, bounds, top, missed, silent, overlap>>

Register(w) ==
    /\ pc[w] = "register"
    /\ Watched
    /\ Goto(w, "override")
    /\ UNCHANGED <<box, floor, notes, push, cursor, queue, index, from, held, ids, next, pulled, acks, renew, bounds, top, missed, silent, overlap>>

\* Best effort: the crawl is done all the same.
RegisterFails(w) ==
    /\ pc[w] = "register" /\ Fault
    /\ Goto(w, "override")
    /\ UNCHANGED <<upstream, push, rows, queue, index, from, held, ids, next, pulled, acks, renew, crawls, terms, top, missed, silent, overlap>>

\* Mutant: the history id is taken without a look whether there is a watch.
OverrideBlindly(w) ==
    /\ pc[w] = "override"
    /\ cursor' = History(watch)
    /\ missed' = missed \cup ((top + 1)..watch)
    /\ top' = 0
    /\ Goto(w, "idle") /\ Forget(w)
    /\ UNCHANGED <<upstream, push, watch, term, queue, index, pulled, acks, renew, bounds, silent, overlap>>

\* The history id of the watch replaces the page token.  What happened after
\* the listing began is on no page and not after that id either.
Override(w) ==
    /\ pc[w] = "override"
    /\ IF watch = -1 THEN UNCHANGED <<cursor, missed>>
       ELSE /\ cursor' = History(watch)
            /\ missed' = missed \cup ((top + 1)..watch)
    /\ top' = 0
    /\ Goto(w, "idle") /\ Forget(w)
    /\ UNCHANGED <<upstream, push, watch, term, queue, index, pulled, acks, renew, bounds, silent, overlap>>

-----------------------------------------------------------------------------
(* Notifications. *)

\* poll_gmail_pubsub: what is not acknowledged can be pulled again meanwhile.
Pull(w) ==
    /\ ~push /\ pc[w] = "idle" /\ pulled[w] = {} /\ acks[w] = {}
    /\ \E S \in SUBSET notes :
          /\ S # {} /\ Cardinality(S) <= PullMax
          /\ pulled' = [pulled EXCEPT ![w] = S]
    /\ Goto(w, "pull")
    /\ overlap' = (overlap \/ \E v \in Worker \ {w} : pc[v] # "idle")
    /\ UNCHANGED <<upstream, push, rows, queue, index, from, held, ids, next, acks, renew, bounds, top, missed, silent>>

\* The notification of the pull whose turn it is.
Turn(w, e) == e \in pulled[w] /\ \A f \in pulled[w] : e <= f

\* The lookup of the tenant fails: acknowledged and forgotten.
PullUnmapped(w) ==
    /\ pc[w] = "pull" /\ Fault
    /\ \E e \in pulled[w] :
          /\ Turn(w, e)
          /\ acks' = [acks EXCEPT ![w] = @ \cup {e}]
          /\ silent' = silent \cup {e}
          /\ pulled' = [pulled EXCEPT ![w] = @ \ {e}]
    /\ UNCHANGED <<upstream, push, rows, queue, index, pc, from, held, ids, next, renew, crawls, terms, top, missed, overlap>>

PullDone(w) ==
    /\ pc[w] = "pull" /\ pulled[w] = {}
    /\ notes' = notes \ acks[w]
    /\ acks' = [acks EXCEPT ![w] = {}]
    /\ Goto(w, "idle")
    /\ UNCHANGED <<box, floor, armed, push, rows, queue, index, from, held, ids, next, pulled, renew, bounds, top, missed, silent, overlap>>

\* gmail_webhook: any row will do, there is one of Gmail; the answer 200
\* acknowledges the notification, 403 leaves it to be delivered again.
Webhook ==
    /\ push /\ (cursor # NoCursor \/ watch # -1)
    /\ \E e \in notes : notes' = notes \ {e}
    /\ queue' = queue + 1
    /\ UNCHANGED <<box, floor, armed, push, rows, index, worker, renew, bounds, top, missed, silent, overlap>>

TakeTask(w) ==
    /\ pc[w] = "idle" /\ queue > 0
    /\ queue' = queue - 1
    /\ Goto(w, "read")
    /\ from' = [from EXCEPT ![w] = cursor]
    /\ overlap' = (overlap \/ \E v \in Worker \ {w} : pc[v] # "idle")
    /\ UNCHANGED <<upstream, push, rows, index, held, ids, next, pulled, acks, renew, bounds, top, missed, silent>>

\* process_gmail_notification is called within the poll.
Process(w) ==
    /\ pc[w] = "pull" /\ pulled[w] # {}
    /\ IF cursor = NoCursor
       THEN /\ \E e \in pulled[w] : Turn(w, e) /\ pulled' = [pulled EXCEPT ![w] = @ \ {e}]
            /\ UNCHANGED <<pc, from>>
       ELSE /\ from' = [from EXCEPT ![w] = cursor]
            /\ Goto(w, "read")
            /\ UNCHANGED pulled
    /\ UNCHANGED <<upstream, push, rows, queue, index, held, ids, next, acks, renew, bounds, top, missed, silent, overlap>>

\* Mutant: what failed is acknowledged as well.
EndTaskAcked(w, success) ==
    /\ Forget(w)
    /\ IF pulled[w] = {} THEN Goto(w, "idle") /\ UNCHANGED <<pulled, acks>>
       ELSE /\ Goto(w, "pull")
            /\ \E e \in pulled[w] :
                  /\ Turn(w, e)
                  /\ pulled' = [pulled EXCEPT ![w] = @ \ {e}]
                  /\ acks' = [acks EXCEPT ![w] = @ \cup {e}]

\* The task or the call in the poll ends; only success is acknowledged.
EndTask(w, success) ==
    /\ Forget(w)
    /\ IF pulled[w] = {} THEN Goto(w, "idle") /\ UNCHANGED <<pulled, acks>>
       ELSE /\ Goto(w, "pull")
            /\ \E e \in pulled[w] :
                  /\ Turn(w, e)
                  /\ pulled' = [pulled EXCEPT ![w] = @ \ {e}]
                  /\ acks' = IF success THEN [acks EXCEPT ![w] = @ \cup {e}] ELSE acks

\* A message among the next records is there no more, and messages.get fails.
Vanished(w) ==
    /\ pc[w] = "read" /\ from[w].kind = "history" /\ from[w].at >= floor
    /\ \E e \in (from[w].at + 1)..Min({Now, from[w].at + HistoryMax}) :
          ~box[e].gone /\ box[e].msg \notin Alive

\* history.list from a history id, the first records and the id of now, and
\* messages.get of what they name.  A page token, or an id upstream no longer
\* knows, is answered with 404: no records, and the same id.
Read(w) ==
    /\ pc[w] = "read" /\ from[w].kind = "history" /\ from[w].at >= floor /\ ~Vanished(w)
    /\ LET last  == Min({Now, from[w].at + HistoryMax})
           added == {box[e].msg : e \in (from[w].at + 1)..last} \cap Alive
       IN /\ Fetched(w, added, (last + 1)..Now)
          /\ held' = [held EXCEPT ![w] = last]
          /\ next' = [next EXCEPT ![w] = History(Now)]
    /\ Goto(w, "pipe")
    /\ UNCHANGED <<upstream, push, rows, queue, index, from, pulled, acks, renew, crawls, terms, top, silent, overlap>>

ReadUnknown(w) ==
    /\ pc[w] = "read" /\ from[w] # NoCursor
    /\ from[w].kind = "history" => from[w].at < floor
    /\ next' = [next EXCEPT ![w] = from[w]]
    /\ IF from[w].kind = "history"
       THEN missed' = missed \cup (from[w].at + 1)..Now /\ UNCHANGED silent
       ELSE silent' = Events /\ UNCHANGED missed
    /\ Goto(w, "store")
    /\ UNCHANGED <<upstream, push, rows, queue, index, from, held, ids, pulled, acks, renew, bounds, top, overlap>>

\* A queued task that finds no cursor has nothing to do.
NoCursorTask(w) ==
    /\ pc[w] = "read" /\ from[w] = NoCursor
    /\ EndTask(w, FALSE)
    /\ silent' = Events
    /\ UNCHANGED <<upstream, push, rows, queue, index, renew, bounds, top, missed, overlap>>

Pipe(w)    == pc[w] = "pipe" /\ Index(w, "delete")

Deletions(first, last) == {box[e].msg : e \in {i \in first..last : box[i].gone}}

\* delete_by_ids of the removals among the records.
Delete(w) ==
    /\ pc[w] = "delete"
    /\ index' = index \ Deletions(from[w].at + 1, held[w])
    /\ Goto(w, "store")
    /\ UNCHANGED <<upstream, push, rows, queue, from, held, ids, next, pulled, acks, renew, bounds, top, missed, silent, overlap>>

\* Mutant: the id of now is stored, not the one the answer came with.
StoreNow(w) ==
    /\ pc[w] = "store"
    /\ cursor' = History(Now)
    /\ EndTask(w, TRUE)
    /\ UNCHANGED <<upstream, push, watch, term, queue, index, renew, bounds, top, missed, silent, overlap>>

Store(w) ==
    /\ pc[w] = "store"
    /\ cursor' = next[w]
    /\ EndTask(w, TRUE)
    /\ UNCHANGED <<upstream, push, watch, term, queue, index, renew, bounds, top, missed, silent, overlap>>

\* A call raises before the cursor is stored: a pulled notification stays, a
\* queued one is gone unless Celery retries it.
Raise(w) ==
    /\ pc[w] \in {"read", "pipe", "delete", "store"}
    /\ IF Vanished(w) THEN UNCHANGED faults ELSE Fault
    /\ EndTask(w, FALSE)
    /\ \/ UNCHANGED queue /\ silent' = IF pulled[w] = {} THEN Events ELSE silent
       \/ pulled[w] = {} /\ queue' = queue + 1 /\ UNCHANGED silent
    /\ UNCHANGED <<upstream, push, rows, index, renew, crawls, terms, top, missed, overlap>>

-----------------------------------------------------------------------------
Crawl(w) ==
    \/ ResetListing(w) \/ List(w) \/ ListBreaks(w) \/ CrawlIndex(w)
    \/ Checkpoint(w) \/ StoreFinal(w) \/ Register(w) \/ RegisterFails(w) \/ Override(w)

Notify(w) ==
    \/ Pull(w) \/ PullUnmapped(w) \/ PullDone(w) \/ TakeTask(w) \/ Process(w)
    \/ Read(w) \/ ReadUnknown(w) \/ NoCursorTask(w) \/ Pipe(w) \/ Delete(w) \/ Store(w) \/ Raise(w)

Renewal == RenewBegin \/ RenewStop \/ RenewRegister \/ RenewFails

Next ==
    \/ \E m \in Msg : Arrive(m) \/ Remove(m)
    \/ Forgotten \/ TermPasses
    \/ Renewal \/ Webhook
    \/ \E w \in Crawler : BeginCrawl(w) \/ Crawl(w)
    \/ \E w \in Notifier : Notify(w)

Spec == Init /\ [][Next]_vars

-----------------------------------------------------------------------------
(* Properties. *)

\* A stored history id passes no arrival that is not in the index, unless the
\* message is gone, or is among those the code is known to miss.
ArrivalsCovered ==
    cursor.kind = "history" =>
        \A e \in 1..cursor.at :
            ~box[e].gone /\ e \notin missed /\ box[e].msg \in Alive => box[e].msg \in index

\* When no two tasks overlapped, a message whose deletion is passed is out of
\* the index as soon as nothing is in progress.
DeletionsCovered ==
    cursor.kind = "history" /\ ~overlap /\ (\A w \in Worker : pc[w] \in {"idle", "pull"}) =>
        \A e \in 1..cursor.at : box[e].gone /\ e \notin missed => box[e].msg \notin index

\* What a stored history id passes was done.
CursorCovered == ArrivalsCovered /\ DeletionsCovered

\* When nothing is in progress, an arrival whose notification was acknowledged
\* is in the index: a failed run never takes a notification with it.
AcknowledgedIsIndexed ==
    cursor.kind = "history" /\ queue = 0 /\ (\A w \in Worker : pc[w] = "idle") =>
        \A e \in Events \ (notes \cup silent \cup missed) :
            ~box[e].gone /\ box[e].msg \in Alive => box[e].msg \in index
=============================================================================
