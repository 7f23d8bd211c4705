--------------------------- MODULE MicrosoftSync ---------------------------
(***************************************************************************)
(* OneDrive and Outlook: the crawl of services/sync.py over a Graph delta  *)
(* feed and the notifications of connectors/microsoft.  The tokens and the *)
(* disconnect are in ConnectorTokens; here the connector stays connected.  *)
(*                                                                         *)
(* The feed is the sequence of changes of a drive or an inbox.  A delta    *)
(* link is a position in it, a page after a position names the items that  *)
(* changed next and shows each as it is NOW.  Folders and drafts, which    *)
(* the connectors drop, are no items here.                                 *)
(*                                                                         *)
(* A crawl has its pages processed item by item: what fails is dropped, the *)
(* rest is stored under the source's ids.  A notification, and a crawl of   *)
(* which no item could be processed, store the connector's own documents,  *)
(* whose ids have the source's name before them.  So an item may have two   *)
(* entries, of different versions.  An entry stands for a name and its      *)
(* metadata: the text is left out, as the processing of a crawl never has   *)
(* that of a file, and a download that fails leaves the name.              *)
(***************************************************************************)
EXTENDS Integers, FiniteSets, Sequences

CONSTANTS
    Item,
    Worker,      \* Celery workers of the queue "microsoft"
    PageSize,
    MaxChanges,  \* bound: changes in the mailbox or drive
    MaxCrawls,   \* bound: backfills
    MaxFaults    \* bound: failures, expiries and notifications lost

VARIABLES
    feed,      \* changes so far
    version,   \* of each item, 0 before it exists
    present,   \* items that are not deleted
    piped,     \* version indexed under the source's id, 0 when not indexed
    plain,     \* version indexed under the connector's id, 0 when not indexed
    top,       \* history: highest version ever indexed
    lost,      \* history: highest version that was dropped from its page
    stored,    \* cursor_store: position of the stored link, or NoCursor
    gone,      \* Graph no longer accepts the stored link
    watch,     \* the subscription is registered and has not expired
    queue,     \* notifications accepted and waiting
    task,      \* what each worker does
    sound,     \* history: see Account
    crawls, faults

vars == <<feed, version, present, piped, plain, top, lost, stored, gone, watch, queue, task, sound, crawls, faults>>

NoCursor == -1
Idle == [pc |-> "idle", crawl |-> FALSE, at |-> NoCursor, docs |-> <<>>, next |-> NoCursor, more |-> FALSE]

Init ==
    /\ feed = <<>> /\ present = {}
    /\ version = [i \in Item |-> 0]
    /\ piped = version /\ plain = version /\ top = version /\ lost = version
    /\ stored = NoCursor /\ gone = FALSE /\ watch = FALSE /\ queue = 0
    /\ task = [w \in Worker |-> Idle]
    /\ sound = FALSE /\ crawls = 0 /\ faults = 0

Fault == faults < MaxFaults /\ faults' = faults + 1
Busy  == {w \in Worker : task[w].pc # "idle"}

-----------------------------------------------------------------------------
(* The account, as far as Graph shows it. *)

\* With a subscription, graph_webhook hears of the change and queues a task.
Announce(i) ==
    /\ Len(feed) < MaxChanges
    /\ feed' = Append(feed, i)
    /\ \/ watch /\ queue' = queue + 1 /\ UNCHANGED <<sound, faults>>
       \/ ~watch /\ sound' = FALSE /\ UNCHANGED <<queue, faults>>
       \/ watch /\ Fault /\ sound' = FALSE /\ UNCHANGED queue
    /\ UNCHANGED <<piped, plain, top, lost, stored, gone, watch, task, crawls>>

Write(i) ==
    /\ version' = [version EXCEPT ![i] = @ + 1]
    /\ present' = present \cup {i}
    /\ Announce(i)

Delete(i) ==
    /\ i \in present
    /\ present' = present \ {i}
    /\ Announce(i) /\ UNCHANGED version

\* Subscriptions last 4000 minutes and nothing renews them.
Expire ==
    /\ watch /\ Fault
    /\ watch' = FALSE
    /\ UNCHANGED <<feed, version, present, piped, plain, top, lost, stored, gone, queue, task, sound, crawls>>

\* A link that was not used for too long is refused (410) from then on: only
\* a message about an invalid token resets the cursor.
LinkExpires ==
    /\ stored # NoCursor /\ ~gone /\ Fault
    /\ gone' = TRUE
    /\ UNCHANGED <<feed, version, present, piped, plain, top, lost, stored, watch, queue, task, sound, crawls>>

-----------------------------------------------------------------------------
(* Tasks.  Two that overlap are no longer sound. *)

Begin(w, crawl) ==
    /\ task[w].pc = "idle"
    /\ task' = [task EXCEPT ![w] = [Idle EXCEPT !.pc = IF crawl THEN "purge" ELSE "fetch",
                                               !.crawl = crawl, !.at = stored]]
    /\ sound' = (sound /\ Busy = {})

\* backfill_tenant_source resumes at the stored link.
Crawl(w) ==
    /\ crawls < MaxCrawls /\ crawls' = crawls + 1
    /\ Begin(w, TRUE)
    /\ UNCHANGED <<feed, version, present, piped, plain, top, lost, stored, gone, watch, queue, faults>>

\* The first pass of a crawl reads the feed from its start and deletes the
\* removed items it is shown, by the source's ids; a failure ends the pass.
Purge(w) ==
    /\ task[w].pc = "purge"
    /\ \E shown \in SUBSET (Item \ present) :
           piped' = [i \in Item |-> IF i \in shown THEN 0 ELSE piped[i]]
    /\ task' = [task EXCEPT ![w].pc = "fetch"]
    /\ UNCHANGED <<feed, version, present, plain, top, lost, stored, gone, watch, queue, sound, crawls, faults>>

\* process_notification returns at once when no cursor is stored.
Notify(w) ==
    /\ queue > 0 /\ queue' = queue - 1
    /\ IF stored = NoCursor THEN UNCHANGED <<task, sound>> ELSE Begin(w, FALSE)
    /\ UNCHANGED <<feed, version, present, piped, plain, top, lost, stored, gone, watch, crawls, faults>>

From(w) == IF task[w].at = NoCursor THEN 0 ELSE task[w].at
PageEnd(w) == IF From(w) + PageSize < Len(feed) THEN From(w) + PageSize ELSE Len(feed)
Changed(w) == {feed[p] : p \in From(w) + 1 .. PageEnd(w)}

\* Removed items and drafts are dropped; the others are read as they are now.
Live(items) == items \cap present
Documents(items) == [i \in items |-> version[i]]

\* One page: the documents, and a next link or, at the end, a delta link.
Fetch(w) ==
    LET t == task[w] IN
    /\ t.pc = "fetch" /\ (t.at = NoCursor \/ ~gone)
    /\ task' = [task EXCEPT ![w] = [t EXCEPT !.pc = "index", !.next = PageEnd(w),
                                             !.more = PageEnd(w) < Len(feed),
                                             !.docs = Documents(Live(Changed(w)))]]
    /\ UNCHANGED <<feed, version, present, piped, plain, top, lost, stored, gone, watch, queue, sound, crawls, faults>>

\* A crawl that cannot fetch ends as if it were complete; a notification is
\* retried when the quota is used up, otherwise it is lost.
FetchFails(w) ==
    LET t == task[w] IN
    /\ t.pc = "fetch"
    /\ IF gone /\ t.at # NoCursor THEN UNCHANGED faults ELSE Fault
    /\ IF t.crawl
       THEN task' = [task EXCEPT ![w].pc = "finish"] /\ UNCHANGED <<queue, sound>>
       ELSE /\ task' = [task EXCEPT ![w] = Idle]
            /\ \/ ~gone /\ queue' = queue + 1 /\ UNCHANGED sound
               \/ sound' = FALSE /\ UNCHANGED queue
    /\ UNCHANGED <<feed, version, present, piped, plain, top, lost, stored, gone, watch, crawls>>

\* bulk_index does not look at the version it replaces.
Put(entries, docs) == [i \in Item |-> IF i \in DOMAIN docs THEN docs[i] ELSE entries[i]]
Raise(marks, docs) == [i \in Item |-> IF i \in DOMAIN docs /\ docs[i] > marks[i] THEN docs[i] ELSE marks[i]]

\* What a crawl could process of its page is indexed, if it is anything.
Pipe(w) ==
    LET docs == task[w].docs
        Of(items) == [i \in items |-> docs[i]] IN
    /\ task[w].pc = "index" /\ task[w].crawl
    /\ \E dropped \in SUBSET DOMAIN docs :
          /\ dropped # DOMAIN docs
          /\ IF dropped = {} THEN UNCHANGED faults ELSE Fault
          /\ piped' = Put(piped, Of(DOMAIN docs \ dropped))
          /\ top' = Raise(top, Of(DOMAIN docs \ dropped))
          /\ lost' = Raise(lost, Of(dropped))
    /\ task' = [task EXCEPT ![w].pc = "store"]
    /\ UNCHANGED <<feed, version, present, plain, stored, gone, watch, queue, sound, crawls>>

\* A notification, or a crawl that could process nothing: all that transform
\* made of the page.
Index(w) ==
    LET docs == task[w].docs IN
    /\ task[w].pc = "index"
    /\ IF task[w].crawl /\ DOMAIN docs # {} THEN Fault ELSE UNCHANGED faults
    /\ plain' = Put(plain, docs) /\ top' = Raise(top, docs)
    /\ task' = [task EXCEPT ![w].pc = "store"]
    /\ UNCHANGED <<feed, version, present, piped, lost, stored, gone, watch, queue, sound, crawls>>

\* Mutant: a page that cannot be indexed is passed over.
IndexFailsOn(w) ==
    /\ task[w].pc = "index" /\ Fault
    /\ task' = [task EXCEPT ![w].pc = "store"]
    /\ UNCHANGED <<feed, version, present, piped, plain, top, lost, stored, gone, watch, queue, sound, crawls>>

\* An exception of bulk_index, of the token or of the routing ends the task
\* before its cursor is stored; a notification may be retried.
IndexFails(w) ==
    /\ task[w].pc = "index" /\ Fault
    /\ task' = [task EXCEPT ![w] = Idle]
    /\ \/ ~task[w].crawl /\ queue' = queue + 1 /\ UNCHANGED sound
       \/ sound' = FALSE /\ UNCHANGED queue
    /\ UNCHANGED <<feed, version, present, piped, plain, top, lost, stored, gone, watch, crawls>>

\* History: from a lone task that reached the end of the feed on, as long as
\* every change is notified, every notification served and no task meets
\* another, all changes are accounted for.
Account(w, p) == sound' = (sound \/ (watch' /\ p = Len(feed) /\ Busy = {w}))

\* Mutant: a notification does its page and leaves the cursor as it was.
StoreByCrawl(w) ==
    LET t == task[w] IN
    /\ t.pc = "store"
    /\ stored' = IF t.crawl THEN t.next ELSE stored
    /\ task' = [task EXCEPT ![w] = IF ~t.crawl THEN Idle
                                   ELSE [t EXCEPT !.pc = IF t.more THEN "fetch" ELSE "finish",
                                                  !.at = t.next, !.docs = <<>>]]
    /\ UNCHANGED watch /\ Account(w, t.next)
    /\ UNCHANGED <<feed, version, present, piped, plain, top, lost, gone, queue, crawls, faults>>

\* The crawl goes on while there is a next link; a notification has done its page.
Store(w) ==
    LET t == task[w] IN
    /\ t.pc = "store"
    /\ stored' = t.next
    /\ task' = [task EXCEPT ![w] = IF ~t.crawl THEN Idle
                                   ELSE [t EXCEPT !.pc = IF t.more THEN "fetch" ELSE "finish",
                                                  !.at = t.next, !.docs = <<>>]]
    /\ UNCHANGED watch /\ Account(w, t.next)
    /\ UNCHANGED <<feed, version, present, piped, plain, top, lost, gone, queue, crawls, faults>>

\* The new subscription is the one looked up from here on.
Register == watch' = TRUE

\* The end of a crawl stores its last cursor once more and registers a
\* subscription, if it can.
Finish(w) ==
    LET t == task[w] IN
    /\ t.pc = "finish"
    /\ stored' = IF t.at = NoCursor THEN stored ELSE t.at
    /\ \/ t.at # NoCursor /\ Register /\ UNCHANGED faults
       \/ t.at = NoCursor /\ UNCHANGED <<watch, faults>>
       \/ t.at # NoCursor /\ Fault /\ UNCHANGED watch
    /\ task' = [task EXCEPT ![w] = Idle]
    /\ Account(w, t.at)
    /\ UNCHANGED <<feed, version, present, piped, plain, top, lost, gone, queue, crawls>>

-----------------------------------------------------------------------------

Next ==
    \/ \E i \in Item : Write(i) \/ Delete(i)
    \/ Expire \/ LinkExpires
    \/ \E w \in Worker : \/ Crawl(w) \/ Purge(w) \/ Notify(w) \/ Fetch(w) \/ FetchFails(w)
                         \/ Pipe(w) \/ Index(w) \/ IndexFails(w) \/ Store(w) \/ Finish(w)

Spec == Init /\ [][Next]_vars

-----------------------------------------------------------------------------
(* Properties. *)

\* An item whose changes are all behind the stored link has been indexed at
\* its version, or was dropped at that version by itself: whatever tasks
\* overlap or fail, no cursor passes a document that was not taken up.  (Its
\* entry may since have been replaced by an older one, of a slower task.)
LinkCovered ==
    \A i \in present : (\A p \in 1..Len(feed) : feed[p] = i => p <= stored)
                        => version[i] \in {top[i], lost[i]}

\* Once the end of the feed was reached, one page per notification is enough:
\* when the queue is empty the link is at the end and every item, unless it
\* was dropped at its version or its newest entry was replaced by an older
\* one, has an entry of its version.  (The other entry may be older.)
NotifiedIsIndexed ==
    (sound /\ queue = 0 /\ Busy = {}) =>
        /\ stored = Len(feed)
        /\ \A i \in present : top[i] \in {piped[i], plain[i]}
                                => version[i] \in {piped[i], plain[i], lost[i]}

=============================================================================
