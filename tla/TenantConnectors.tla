------------------------- MODULE TenantConnectors -------------------------
(***************************************************************************)
(* The tenant's connector rows of one Google source: the personal row that *)
(* every user's consent writes, the organization row that an admin's       *)
(* consent or service account writes, the admin console that picks a row   *)
(* without naming its scope, and the crawl that reads on behalf of the     *)
(* organization.  A request loads a row, writes the columns it changed and *)
(* commits; another request may commit in between.                         *)
(***************************************************************************)
EXTENDS Integers, FiniteSets

CONSTANTS
    None,
    Person,         \* the admins and users who give consent
    Request,        \* the requests that may be under way at a time
    MaxRequests,    \* bound: requests in a behaviour
    MaxTimeouts     \* bound: disconnects whose clean-up does not finish in 3 s

Scope == {"personal", "organization"}

VARIABLES
    row,        \* scope -> the tenant_connectors row, or None
    tokens,     \* the persons with a stored personal Google token
    enabled,    \* Tenant.google_org_workspace_enabled
    pending,    \* the requests between their SELECT and their COMMIT
    queued,     \* an organization backfill waits in the queue
    crawl,       \* the organization backfill that runs, or None
    read,       \* as whom the last organization crawl read the source, or None
    standing,   \* history: who connected the organization since its last removal
    named,      \* history: whom edits of its row have named since its last removal
    sent,       \* bound
    timeouts    \* bound

vars == <<row, tokens, enabled, pending, queued, crawl, read, standing, named, sent, timeouts>>

Plain == [mode |-> "oauth", by |-> None]

Init ==
    /\ row = [s \in Scope |-> None]
    /\ tokens = {}
    /\ enabled \in BOOLEAN
    /\ pending = [r \in Request |-> None]
    /\ queued = FALSE
    /\ crawl = None
    /\ read = None
    /\ standing = {}
    /\ named = {}
    /\ sent = 0
    /\ timeouts = 0

Load(r, kind, config, ref, s) ==
    /\ pending[r] = None
    /\ sent < MaxRequests
    /\ sent' = sent + 1
    /\ pending' = [pending EXCEPT ![r] =
                      [kind |-> kind, config |-> config, ref |-> ref, scope |-> s,
                       loaded |-> row[s], held |-> TRUE]]

ConnectServiceAccount(r) ==
    /\ Load(r, "organization", [mode |-> "dwd", by |-> None], "key", "organization")
    /\ UNCHANGED <<row, tokens, enabled, queued, crawl, read, standing, named, timeouts>>

OrganizationConsent(r, p) ==
    /\ Load(r, "organization", [mode |-> "admin", by |-> p], p, "organization")
    /\ UNCHANGED <<row, tokens, enabled, queued, crawl, read, standing, named, timeouts>>

\* The consent's configuration is merged into the row's: a mode stays.
PersonalConsent(r, p) ==
    /\ Load(r, "personal",
            [mode |-> IF row["personal"] = None THEN "oauth" ELSE row["personal"].config.mode,
             by |-> p], p, "personal")
    /\ tokens' = tokens \cup {p}
    /\ UNCHANGED <<row, enabled, queued, crawl, read, standing, named, timeouts>>

\* The admin console selects by tenant and source: with a row of each scope
\* scalar_one_or_none raises, and the request ends.  The configuration is the
\* body's, which may send back what an earlier GET has shown: it names anybody.
Chosen == {s \in Scope : row[s] # None}

AdminUpsert(r, config, ref) ==
    /\ Chosen # Scope
    /\ LET s == IF Chosen = {} THEN "personal" ELSE CHOOSE c \in Chosen : TRUE
       IN Load(r, "upsert", config,
               IF ref = None /\ row[s] # None THEN row[s].ref ELSE ref, s)
    /\ UNCHANGED <<row, tokens, enabled, queued, crawl, read, standing, named, timeouts>>

AdminRemove(r) ==
    /\ \E s \in Scope : Chosen = {s} /\ Load(r, "delete", Plain, None, s)
    /\ UNCHANGED <<row, tokens, enabled, queued, crawl, read, standing, named, timeouts>>

DisconnectOrganization(r) ==
    /\ Load(r, "delete", Plain, None, "organization")
    /\ UNCHANGED <<row, tokens, enabled, queued, crawl, read, standing, named, timeouts>>

\* Only the columns that differ from the loaded row are written.
Changed(q, old) ==
    [config |-> IF q.config = q.loaded.config THEN old.config ELSE q.config,
     ref |-> IF q.ref = q.loaded.ref THEN old.ref ELSE q.ref]

\* A second row of a scope breaks the unique constraint, an update of a row
\* that is gone matches nothing: either way nothing is written.
Saves(q) == IF q.loaded = None THEN row[q.scope] = None ELSE q.held

\* The callbacks swallow a failed write and queue the crawl all the same.
Save(r) ==
    LET q == pending[r] IN
    /\ q # None /\ q.kind # "delete"
    /\ row' = IF ~Saves(q) THEN row
              ELSE [row EXCEPT ![q.scope] =
                      IF q.loaded = None THEN [config |-> q.config, ref |-> q.ref]
                      ELSE Changed(q, row[q.scope])]
    /\ standing' = IF Saves(q) /\ q.kind = "organization"
                   THEN standing \cup {q.ref} ELSE standing
    /\ named' = IF Saves(q) /\ q.kind = "upsert" /\ q.scope = "organization"
                THEN named \cup {q.config.by} ELSE named
    /\ queued' = (queued \/ (q.kind = "organization" /\ q.config.by # None))
    /\ pending' = [pending EXCEPT ![r] = None]
    /\ UNCHANGED <<tokens, enabled, crawl, read, sent, timeouts>>

\* The requests that loaded a row which is deleted under them.
Without(s, requests) ==
    [r \in Request |-> IF requests[r] # None /\ requests[r].scope = s
                       THEN [requests[r] EXCEPT !.held = FALSE] ELSE requests[r]]

Delete(r) ==
    LET q == pending[r]
        done == [pending EXCEPT ![r] = None]
    IN
    /\ q # None /\ q.kind = "delete"
    /\ IF q.loaded # None /\ q.held
       THEN /\ row' = [row EXCEPT ![q.scope] = None]
            /\ pending' = Without(q.scope, done)
            /\ standing' = IF q.scope = "organization" THEN {} ELSE standing
            /\ named' = IF q.scope = "organization" THEN {} ELSE named
       ELSE /\ pending' = done
            /\ UNCHANGED <<row, standing, named>>
    /\ UNCHANGED <<tokens, enabled, queued, crawl, read, sent, timeouts>>

\* wait_for cancels the clean-up: the rows stay, the answer is "disconnected".
DeleteTimesOut(r) ==
    /\ pending[r] # None /\ pending[r].kind = "delete" /\ pending[r].scope = "organization"
    /\ timeouts < MaxTimeouts
    /\ timeouts' = timeouts + 1
    /\ pending' = [pending EXCEPT ![r] = None]
    /\ UNCHANGED <<row, tokens, enabled, queued, crawl, read, standing, named, sent>>

\* One user's disconnect deletes the personal row, whoever wrote it last; his
\* token stays while another Google source of his is connected.
PersonalDisconnect(p) ==
    /\ tokens' \in {tokens, tokens \ {p}}
    /\ row' = [row EXCEPT !["personal"] = None]
    /\ pending' = Without("personal", pending)
    /\ UNCHANGED <<enabled, queued, crawl, read, standing, named, sent, timeouts>>

Toggle ==
    /\ enabled' = ~enabled
    /\ UNCHANGED <<row, tokens, pending, queued, crawl, read, standing, named, sent, timeouts>>

Backfill ==
    /\ ~queued
    /\ queued' = TRUE
    /\ UNCHANGED <<row, tokens, enabled, pending, crawl, read, standing, named, sent, timeouts>>

\* The principal of an organization crawl: who connected it, or nobody.
ConnectedBy ==
    IF row["organization"] = None THEN None ELSE row["organization"].config.by

\* Mutant: whichever row there is, as the console reads it.
ResolveAny ==
    /\ queued /\ crawl = None
    /\ queued' = FALSE
    /\ crawl' = [as |-> IF Cardinality(Chosen) # 1 THEN None
                       ELSE row[CHOOSE c \in Chosen : TRUE].config.by,
                vouched |-> standing \cup named]
    /\ UNCHANGED <<row, tokens, enabled, pending, read, standing, named, sent, timeouts>>

Resolve ==
    /\ queued /\ crawl = None
    /\ queued' = FALSE
    /\ crawl' = [as |-> ConnectedBy, vouched |-> standing \cup named]
    /\ UNCHANGED <<row, tokens, enabled, pending, read, standing, named, sent, timeouts>>

\* The crawl's configuration names no scope: the credential mode is the
\* personal row's, the token the principal's personal one.
Mode == IF row["personal"] = None THEN "oauth" ELSE row["personal"].config.mode

Impersonates == row["personal"].ref = "key"

Authorize ==
    /\ crawl # None
    /\ crawl' = None
    /\ read' = IF Mode = "dwd" THEN IF Impersonates THEN "key" ELSE None
               ELSE IF crawl.as \in tokens THEN crawl.as ELSE None
    /\ UNCHANGED <<row, tokens, enabled, pending, queued, standing, named, sent, timeouts>>

Next ==
    \/ \E r \in Request :
         \/ ConnectServiceAccount(r)
         \/ \E p \in Person : OrganizationConsent(r, p) \/ PersonalConsent(r, p)
         \/ \E config \in [mode : {"oauth", "dwd"}, by : Person \cup {None}], ref \in {"key", None} :
              AdminUpsert(r, config, ref)
         \/ AdminRemove(r)
         \/ DisconnectOrganization(r)
         \/ Save(r)
         \/ Delete(r)
         \/ DeleteTimesOut(r)
    \/ \E p \in Person : PersonalDisconnect(p)
    \/ Toggle
    \/ Backfill
    \/ Resolve
    \/ Authorize

Spec == Init /\ [][Next]_vars

\* What a member sees on the organization's card.
Connected == enabled /\ row["organization"] # None

\* The organization shows as connected, and its crawl runs under a person,
\* only while somebody connected it since its last removal, and the crawl only
\* under one of those who did or whom an admin wrote into that row since: not
\* after a removal that overtook a consent or an edit, and never under whoever
\* connected only for himself (router.py 966-1040, 273-291; org.py 87-118;
\* tasks.py 277-317).
ConsentStands ==
    /\ Connected => standing # {}
    /\ crawl # None /\ crawl.as # None => crawl.as \in crawl.vouched
=============================================================================
