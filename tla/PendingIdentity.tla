--------------------------- MODULE PendingIdentity ---------------------------
(***************************************************************************)
(* From a shared e-mail address to a principal's access.  The pipeline     *)
(* (services/pipeline.py, identity/resolver.py, acl/compiler.py) resolves  *)
(* the addresses of a document: to the login user, to an identity_         *)
(* principals row without a login (a "ghost"), or to nobody yet, which     *)
(* leaves a row in pending_identity_queue.  Invite and login               *)
(* (services/native_auth.py, api/v1/auth.py) run bind_pending_drive_shares *)
(* of storage/canonical_repo.py, which turns those rows into ACL rows.     *)
(* The resolver caches its answers, also the negative ones, in a           *)
(* dictionary of the worker process.                                       *)
(*                                                                         *)
(* A document is in at most one pipeline at a time (DriveIncremental has   *)
(* the overlap), and a process runs one document at a time.                *)
(***************************************************************************)
EXTENDS Naturals, FiniteSets

CONSTANTS
    Emails,
    Docs,
    Mailbox,      \* the documents that are Gmail messages; the rest are Drive files
    Procs,        \* worker processes
    NoDoc, Nobody,
    MaxChanges,   \* bound: upstream changes of who a document names
    MaxFaults     \* bound: failed calls to Postgres or the index

ASSUME MailboxAssumption == Mailbox \subseteq Docs
ASSUME NoneAssumption == NoDoc \notin Docs /\ Nobody \notin Emails
ASSUME BoundsAssumption == MaxChanges \in Nat /\ MaxFaults \in Nat

VARIABLES
    perms,     \* upstream: the addresses each document is shared with
    modifier,  \* upstream: lastModifyingUser
    users,     \* addresses with a row in the users table
    ghosts,    \* addresses with a row in identity_principals
    cache,     \* _GLOBAL_EMAIL_PRINCIPAL_CACHE of each process
    stored,    \* documents with a canonical row
    row,       \* pending_identity_queue
    acl,       \* acl_entries: principals that may read each document
    point,     \* permissions of the document's point in the index
    pc,        \* where each process stands in process_raw
    job,       \* the document in hand
    read,      \* the addresses its permission list had
    todo,      \* hints not resolved yet
    hand,      \* the address whose lookup found nobody
    got,       \* principals of the entries compiled so far
    bpc,       \* where bind_pending_drive_shares stands
    bemail,    \* the address it binds
    bdocs,     \* the documents it has to reindex
    bread,     \* the rows it has read of them
    ever,      \* history: the addresses upstream ever named for a document
    stale,     \* history: documents changed since they were last read
    changes, faults   \* spent bounds

upstream == <<perms, modifier, ever>>
people   == <<users, ghosts>>
pipe     == <<pc, job, read, todo, hand, got>>
binder   == <<bpc, bemail, bdocs, bread>>
vars     == <<upstream, people, cache, stored, row, acl, point, pipe, binder, stale, changes, faults>>

\* The principal of an address: its login user or its ghost.
Principals == Emails \X {"ghost", "user"}

TypeOK ==
    /\ perms \in [Docs -> SUBSET Emails]
    /\ modifier \in [Docs -> Emails \cup {Nobody}]
    /\ users \in SUBSET Emails
    /\ ghosts \in SUBSET Emails
    /\ cache \in [Procs -> [Emails -> {"absent", "pending", "ghost", "user"}]]
    /\ stored \in SUBSET Docs
    /\ row \in [Docs -> [Emails -> {"none", "open", "resolved"}]]
    /\ acl \in [Docs -> SUBSET Principals]
    /\ point \in [Docs -> SUBSET Principals]
    /\ pc \in [Procs -> {"idle", "resolve", "miss", "index"}]
    /\ job \in [Procs -> Docs \cup {NoDoc}]
    /\ read \in [Procs -> SUBSET Emails]
    /\ todo \in [Procs -> SUBSET Emails]
    /\ hand \in [Procs -> Emails \cup {Nobody}]
    /\ got \in [Procs -> SUBSET Principals]
    /\ bpc \in {"idle", "drain", "rebind", "read", "write"}
    /\ bemail \in Emails \cup {Nobody}
    /\ bdocs \in SUBSET Docs
    /\ bread \in [Docs -> SUBSET Principals]
    /\ ever \in [Docs -> SUBSET Emails]
    /\ stale \in SUBSET Docs
    /\ changes \in Nat
    /\ faults \in Nat

Init ==
    /\ perms = [d \in Docs |-> {}] /\ ever = [d \in Docs |-> {}]
    /\ modifier = [d \in Docs |-> Nobody]
    /\ users = {} /\ ghosts = {}
    /\ cache = [p \in Procs |-> [e \in Emails |-> "absent"]]
    /\ stored = {}
    /\ row = [d \in Docs |-> [e \in Emails |-> "none"]]
    /\ acl = [d \in Docs |-> {}] /\ point = [d \in Docs |-> {}]
    /\ pc = [p \in Procs |-> "idle"]
    /\ job = [p \in Procs |-> NoDoc]
    /\ read = [p \in Procs |-> {}] /\ todo = [p \in Procs |-> {}]
    /\ hand = [p \in Procs |-> Nobody]
    /\ got = [p \in Procs |-> {}]
    /\ bpc = "idle" /\ bemail = Nobody /\ bdocs = {}
    /\ bread = [d \in Docs |-> {}]
    /\ stale = {} /\ changes = 0 /\ faults = 0

Fault == faults < MaxFaults /\ faults' = faults + 1

-----------------------------------------------------------------------------
(* Upstream. *)

Changed(d) ==
    /\ changes < MaxChanges
    /\ changes' = changes + 1
    /\ stale' = stale \cup {d}
    /\ UNCHANGED <<people, stored, cache, row, acl, point, pipe, binder, faults>>

Share(d, e) ==
    /\ e \notin perms[d]
    /\ perms' = [perms EXCEPT ![d] = @ \cup {e}]
    /\ ever' = [ever EXCEPT ![d] = @ \cup {e}]
    /\ UNCHANGED modifier
    /\ Changed(d)

Unshare(d, e) ==
    /\ e \in perms[d] /\ d \notin Mailbox
    /\ perms' = [perms EXCEPT ![d] = @ \ {e}]
    /\ UNCHANGED <<modifier, ever>>
    /\ Changed(d)

Edit(d, e) ==
    /\ e \in perms[d] /\ d \notin Mailbox
    /\ modifier' = [modifier EXCEPT ![d] = e]
    /\ UNCHANGED <<perms, ever>>
    /\ Changed(d)

-----------------------------------------------------------------------------
(* process_raw on one document. *)

\* The document's permissions are read, and every address it names will be
\* resolved: those of the identity hints and those of the permission hints.
Begin(p, d) ==
    /\ pc[p] = "idle" /\ d \notin {job[q] : q \in Procs}
    /\ pc' = [pc EXCEPT ![p] = "resolve"]
    /\ job' = [job EXCEPT ![p] = d]
    /\ read' = [read EXCEPT ![p] = perms[d]]
    /\ todo' = [todo EXCEPT ![p] = perms[d] \cup ({modifier[d]} \ {Nobody})]
    /\ got' = [got EXCEPT ![p] = {}]
    /\ stale' = stale \ {d}
    /\ UNCHANGED <<upstream, stored, people, cache, row, acl, point, hand, binder, changes, faults>>

\* The address is resolved.  An entry is compiled only for an address of the
\* permission list.
Take(p, e, id) ==
    /\ todo' = [todo EXCEPT ![p] = @ \ {e}]
    /\ got' = [got EXCEPT ![p] =
                 IF id \in {"ghost", "user"} /\ e \in read[p] THEN @ \cup {<<e, id>>} ELSE @]

\* _resolve_drive_share answers from the cache.
ResolveCached(p, e) ==
    /\ pc[p] = "resolve" /\ e \in todo[p]
    /\ cache[p][e] # "absent"
    /\ Take(p, e, cache[p][e])
    /\ UNCHANGED <<upstream, stored, people, cache, row, acl, point, pc, job, read, hand,
                   binder, stale, changes, faults>>

\* get_login_user_by_email looks in users, then in identity_principals; a
\* failing first lookup finds nobody there.
ResolveFound(p, e) ==
    /\ pc[p] = "resolve" /\ e \in todo[p]
    /\ cache[p][e] = "absent"
    /\ \E id \in {"ghost", "user"} :
          /\ \/ id = "user" /\ e \in users /\ UNCHANGED faults
             \/ id = "ghost" /\ e \in ghosts \ users /\ UNCHANGED faults
             \/ id = "ghost" /\ e \in ghosts \cap users /\ Fault
          /\ cache' = [cache EXCEPT ![p][e] = id]
          /\ Take(p, e, id)
    /\ UNCHANGED <<upstream, stored, people, row, acl, point, pc, job, read, hand,
                   binder, stale, changes>>

\* It finds nobody, or both lookups raise, which is taken for the same.
ResolveMiss(p, e) ==
    /\ pc[p] = "resolve" /\ e \in todo[p]
    /\ cache[p][e] = "absent"
    /\ \/ e \notin users \cup ghosts /\ UNCHANGED faults
       \/ Fault
    /\ pc' = [pc EXCEPT ![p] = "miss"]
    /\ hand' = [hand EXCEPT ![p] = e]
    /\ UNCHANGED <<upstream, stored, people, cache, row, acl, point, job, read, todo, got,
                   binder, stale, changes>>

\* Gmail mints the principal; a unique constraint keeps one per address.  If
\* that fails the address counts as unknown.
Mint(p) ==
    /\ pc[p] = "miss" /\ job[p] \in Mailbox
    /\ \E id \in {"ghost", "pending"} :
          /\ \/ id = "ghost" /\ ghosts' = ghosts \cup {hand[p]} /\ UNCHANGED faults
             \/ id = "pending" /\ Fault /\ UNCHANGED ghosts
          /\ cache' = [cache EXCEPT ![p][hand[p]] = id]
          /\ Take(p, hand[p], id)
    /\ hand' = [hand EXCEPT ![p] = Nobody]
    /\ pc' = [pc EXCEPT ![p] = "resolve"]
    /\ UNCHANGED <<upstream, stored, users, row, acl, point, job, read, binder, stale, changes>>

\* Mutant: the address is cached as unknown and not queued.
QueueNothing(p) ==
    /\ pc[p] = "miss" /\ job[p] \notin Mailbox
    /\ cache' = [cache EXCEPT ![p][hand[p]] = "pending"]
    /\ Take(p, hand[p], "pending")
    /\ hand' = [hand EXCEPT ![p] = Nobody]
    /\ pc' = [pc EXCEPT ![p] = "resolve"]
    /\ UNCHANGED <<upstream, stored, people, row, acl, point, job, read, binder, stale,
                   changes, faults>>

\* Drive queues the address, unless the document's row exists; a failing
\* upsert_pending_identity is logged.
Queue(p) ==
    /\ pc[p] = "miss" /\ job[p] \notin Mailbox
    /\ cache' = [cache EXCEPT ![p][hand[p]] = "pending"]
    /\ \/ /\ row' = [row EXCEPT ![job[p]][hand[p]] = IF @ = "none" THEN "open" ELSE @]
          /\ UNCHANGED faults
       \/ Fault /\ UNCHANGED row
    /\ Take(p, hand[p], "pending")
    /\ hand' = [hand EXCEPT ![p] = Nobody]
    /\ pc' = [pc EXCEPT ![p] = "resolve"]
    /\ UNCHANGED <<upstream, stored, people, acl, point, job, read, binder, stale, changes>>

\* upsert_document and replace_acl_entries.
Replace(p) ==
    /\ pc[p] = "resolve" /\ todo[p] = {}
    /\ stored' = stored \cup {job[p]}
    /\ acl' = [acl EXCEPT ![job[p]] = got[p]]
    /\ pc' = [pc EXCEPT ![p] = "index"]
    /\ UNCHANGED <<upstream, people, cache, row, point, job, read, todo, hand, got,
                   binder, stale, changes, faults>>

\* bulk_index of the document as it was compiled.
IndexDoc(p) ==
    /\ pc[p] = "index"
    /\ point' = [point EXCEPT ![job[p]] = got[p]]
    /\ pc' = [pc EXCEPT ![p] = "idle"]
    /\ job' = [job EXCEPT ![p] = NoDoc]
    /\ read' = [read EXCEPT ![p] = {}]
    /\ got' = [got EXCEPT ![p] = {}]
    /\ UNCHANGED <<upstream, stored, people, cache, row, acl, todo, hand, binder, stale,
                   changes, faults>>

\* worker_max_tasks_per_child or a deployment starts a new process.
Recycle(p) ==
    /\ pc[p] = "idle"
    /\ cache' = [cache EXCEPT ![p] = [e \in Emails |-> "absent"]]
    /\ UNCHANGED <<upstream, stored, people, row, acl, point, pipe, binder, stale, changes, faults>>

-----------------------------------------------------------------------------
(* Invite, login and bind_pending_drive_shares. *)

\* Mutant: it binds before it inserts the row.
InviteBindsFirst(e) ==
    /\ bpc = "idle" /\ e \notin users
    /\ bpc' = "drain" /\ bemail' = e
    /\ UNCHANGED <<upstream, stored, people, cache, row, acl, point, pipe, bdocs, bread, stale,
                   changes, faults>>

\* create_user commits the users row and binds.
Invite(e) ==
    /\ bpc = "idle" /\ e \notin users
    /\ users' = users \cup {e}
    /\ bpc' = "drain" /\ bemail' = e
    /\ UNCHANGED <<upstream, stored, ghosts, cache, row, acl, point, pipe, bdocs, bread, stale,
                   changes, faults>>

\* native_login binds on every login.
Login(e) ==
    /\ bpc = "idle" /\ e \in users
    /\ bpc' = "drain" /\ bemail' = e
    /\ UNCHANGED <<upstream, stored, people, cache, row, acl, point, pipe, bdocs, bread, stale,
                   changes, faults>>

Open(e) == {d \in Docs : row[d][e] = "open"}

\* insert_acl_entry, for the address that is bound.
Inserted(docs) == [d \in Docs |-> IF d \in docs THEN acl[d] \cup {<<bemail, "user">>} ELSE acl[d]]

\* Mutant: the documents are not restricted to those of the rows.
DrainEveryDocument ==
    /\ bpc = "drain"
    /\ LET open == IF Open(bemail) = {} THEN {} ELSE Docs IN
       /\ acl' = Inserted(open)
       /\ row' = [d \in Docs |-> IF row[d][bemail] = "open" THEN [row[d] EXCEPT ![bemail] = "resolved"]
                                 ELSE row[d]]
       /\ bdocs' = open
    /\ bpc' = "rebind"
    /\ UNCHANGED <<upstream, stored, people, cache, point, pipe, bemail, bread, stale, changes, faults>>

\* Mutant: the rows are marked only after the reindex, which is forgotten.
DrainKeepsRows ==
    /\ bpc = "drain"
    /\ LET open == Open(bemail) IN
       /\ acl' = Inserted(open)
       /\ bdocs' = open
    /\ bpc' = "rebind"
    /\ UNCHANGED <<upstream, stored, people, cache, row, point, pipe, bemail, bread, stale,
                   changes, faults>>

\* drain_pending_identity_queue, one commit.
Drain ==
    /\ bpc = "drain"
    /\ LET open == Open(bemail) IN
       /\ acl' = Inserted(open)
       /\ row' = [d \in Docs |-> IF d \in open THEN [row[d] EXCEPT ![bemail] = "resolved"]
                                 ELSE row[d]]
       /\ bdocs' = open
    /\ bpc' = "rebind"
    /\ UNCHANGED <<upstream, stored, people, cache, point, pipe, bemail, bread, stale, changes, faults>>

\* rebind_acl_principal: the ghost's rows become the user's.
Rebind ==
    /\ bpc = "rebind"
    /\ LET haunted == {d \in Docs : bemail \in ghosts /\ <<bemail, "ghost">> \in acl[d]} IN
       /\ acl' = [d \in Docs |->
                    IF d \in haunted
                    THEN (acl[d] \ {<<bemail, "ghost">>}) \cup {<<bemail, "user">>}
                    ELSE acl[d]]
       /\ bdocs' = bdocs \cup haunted
    /\ bpc' = "read"
    /\ UNCHANGED <<upstream, stored, people, cache, row, point, pipe, bemail, bread, stale,
                   changes, faults>>

\* reindex_by_ids reads the rows of the documents, where they exist ...
ReadRows ==
    /\ bpc = "read"
    /\ bdocs' = bdocs \cap stored
    /\ bread' = [d \in Docs |-> IF d \in bdocs' THEN acl[d] ELSE {}]
    /\ bpc' = "write"
    /\ UNCHANGED <<upstream, stored, people, cache, row, acl, point, pipe, bemail, stale,
                   changes, faults>>

Unbind == /\ bpc' = "idle" /\ bemail' = Nobody /\ bdocs' = {}
          /\ bread' = [d \in Docs |-> {}]

\* ... and calls bulk_index.
WriteIndex ==
    /\ bpc = "write"
    /\ point' = [d \in Docs |-> IF d \in bdocs THEN bread[d] ELSE point[d]]
    /\ Unbind
    /\ UNCHANGED <<upstream, stored, people, cache, row, acl, pipe, stale, changes, faults>>

\* The database or the index raises, also because a pipeline replaced a row
\* being rebound.  The caller logs it and goes on.
BindFails ==
    /\ bpc # "idle"
    /\ Fault
    /\ Unbind
    /\ UNCHANGED <<upstream, stored, people, cache, row, acl, point, pipe, stale, changes>>

-----------------------------------------------------------------------------

Bind == Drain \/ Rebind \/ ReadRows \/ WriteIndex
Work(p) == \/ \E e \in Emails : ResolveCached(p, e) \/ ResolveFound(p, e) \/ ResolveMiss(p, e)
           \/ Mint(p) \/ Queue(p) \/ Replace(p) \/ IndexDoc(p)

Next ==
    \/ \E d \in Docs, e \in Emails : Share(d, e) \/ Unshare(d, e) \/ Edit(d, e)
    \/ \E p \in Procs : Work(p) \/ Recycle(p) \/ \E d \in Docs : Begin(p, d)
    \/ \E e \in Emails : Invite(e) \/ Login(e)
    \/ Bind \/ BindFails

Spec == Init /\ [][Next]_vars

\* A call of bind_pending_drive_shares runs to its end, and a user logs in
\* again and again.
FairSpec == Spec /\ WF_vars(Bind) /\ \A e \in Emails : WF_vars(Login(e))

-----------------------------------------------------------------------------
(* Properties. *)

\* x may read d: upstream named its address for d, and its principal exists.
Rightful(d, x) == /\ x[1] \in ever[d]
                  /\ x[1] \in IF x[2] = "user" THEN users ELSE ghosts

\* Nobody gets into a document upstream never named them for, whichever
\* caches are stale and however pipelines, logins and failures interleave;
\* and nobody is indexed or granted as a user before the users row exists.
NoStranger ==
    \A d \in Docs : /\ \A x \in acl[d] \cup point[d] : Rightful(d, x)
                    /\ \A e \in Emails : row[d][e] # "none" => e \in ever[d]

Settled == bpc = "idle" /\ stale = {} /\ \A p \in Procs : pc[p] = "idle"

\* The administrator's list of pending identities names every address a Drive
\* file is shared with and nobody holds, as long as no write of the queue
\* failed: the cached negative answer hides documents, never an address.
AdminSeesAddress ==
    Settled /\ faults = 0 =>
        \A d \in Docs \ Mailbox : \A e \in perms[d] :
            e \notin users \cup ghosts => \E x \in Docs : row[x][e] = "open"

\* A queued share of a user who keeps logging in does not stay queued, even
\* if a bind fails or the row was queued after the first one.
QueuedIsDrained ==
    \A d \in Docs, e \in Emails :
        (row[d][e] = "open" /\ e \in users) ~> (row[d][e] = "resolved")

(* Claims of the repository that the code does not keep. *)

\* The sign-off report's principle "mirror, don't invent": when nothing is in
\* progress the rows are among the permissions upstream.
NothingInvented ==
    Settled => \A d \in Docs : \A x \in acl[d] : x[1] \in perms[d]

\* canonical_repo.py: "write acl_entries, mark queue resolved, reindex those
\* documents."
ResolvedIsReadable ==
    Settled /\ faults = 0 =>
        \A d \in Docs : \A e \in perms[d] :
            row[d][e] = "resolved" => <<e, "user">> \in acl[d] \cap point[d]

=============================================================================
