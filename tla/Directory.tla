----------------------------- MODULE Directory -----------------------------
(***************************************************************************)
(* The users of one tenant: its bootstrap (api/v1/admin/tenant.py), the    *)
(* administrators' requests (api/v1/admin/users.py), a change of password  *)
(* (api/v1/me.py) and the runs of services/scim_sync.py.                   *)
(*                                                                         *)
(* A request loads rows, later commits.  What SQLAlchemy commits are the   *)
(* columns the handler made different from the row it LOADED (operator     *)
(* Emit), on top of the row as it is by then; the guard and the handler    *)
(* share a session, so an administrator who asks about himself is loaded   *)
(* once.  An UPDATE waits for the row lock of an earlier one, so commits   *)
(* of one row follow each other.                                           *)
(*                                                                         *)
(* A principal is a native account or an IdP subject; each is also its     *)
(* own email address, except that the IdP may give a subject another one.  *)
(* A password is the number of its issue, 0 for an account without one.    *)
(***************************************************************************)
EXTENDS Integers, FiniteSets, Sequences

CONSTANTS
    Native,       \* native accounts
    First,        \* the one the bootstrap creates
    Subject,      \* IdP subjects
    Caller,       \* requests served at a time
    Feeder,       \* SCIM runs at a time
    None,
    MaxWork,      \* bound: requests and SCIM runs
    MaxFaults     \* bound: failures

VARIABLES
    setup,      \* of the tenant: "none", "row", "ready", or "stuck"
    users,      \* the users table: a row, or None
    groups,     \* members of each row of groups with the feed's one key
    caller,     \* requests
    feeder,     \* SCIM runs
    issued,     \* history: the last password committed for each principal
    passwords,  \* number of passwords made so far
    work, faults  \* spent bounds

vars == <<setup, users, groups, caller, feeder, issued, passwords, work, faults>>

Principal == Native \cup Subject
Row == [email : Principal, pw : Nat, must : BOOLEAN, role : {"admin", "member"}, active : BOOLEAN]
Feed == [email : [Subject -> Principal \cup {None}], members : SUBSET Subject]

Idle == [pc |-> "idle", op |-> None, actor |-> None, of |-> None, ask |-> None,
         self |-> None, row |-> None]
Rest == [pc |-> "idle", feed |-> None, rows |-> None, members |-> None, crossed |-> FALSE]

Init ==
    /\ setup = "none"
    /\ users = [p \in Principal |-> None]
    /\ groups = <<>>
    /\ caller = [c \in Caller |-> Idle]
    /\ feeder = [f \in Feeder |-> Rest]
    /\ issued = [p \in Principal |-> 0]
    /\ passwords = 0 /\ work = 0 /\ faults = 0

Fault == faults < MaxFaults /\ faults' = faults + 1

\* Mutant: the whole row is written back.
EmitAll(cur, old, new) == new

\* What the unit of work writes over cur when old was loaded and new is wanted.
Emit(cur, old, new) ==
    [x \in DOMAIN cur |-> IF new[x] # old[x] THEN new[x] ELSE cur[x]]

\* users.email is unique.
Taken(e) == \E p \in Principal : users[p] # None /\ users[p].email = e

-----------------------------------------------------------------------------
(* create_tenant. *)

\* The row of the control plane is committed on its own.
BootstrapTenant ==
    /\ setup = "none"
    /\ setup' = "row"
    /\ UNCHANGED <<users, groups, caller, feeder, issued, passwords, work, faults>>

\* Tables and the first administrator, whose password is in the answer.
BootstrapAdmin ==
    /\ setup = "row"
    /\ setup' = "ready"
    /\ passwords' = passwords + 1
    /\ users' = [users EXCEPT ![First] = [email |-> First, pw |-> passwords', must |-> TRUE,
                                          role |-> "admin", active |-> TRUE]]
    /\ issued' = [issued EXCEPT ![First] = passwords']
    /\ UNCHANGED <<groups, caller, feeder, work, faults>>

\* After a failure the subdomain is taken: a second attempt is refused.
BootstrapFails ==
    /\ setup = "row" /\ Fault
    /\ setup' = "stuck"
    /\ UNCHANGED <<users, groups, caller, feeder, issued, passwords, work>>

-----------------------------------------------------------------------------
(* Administrators and users. *)

Open(c, op, actor, p, ask) ==
    /\ caller[c].pc = "idle" /\ setup = "ready"
    /\ work < MaxWork /\ work' = work + 1
    /\ users[actor] # None
    /\ caller' = [caller EXCEPT ![c] = [pc |-> "load", op |-> op, actor |-> actor, of |-> p,
                                        ask |-> ask, self |-> users[actor], row |-> None]]
    /\ UNCHANGED <<setup, users, groups, feeder, issued, passwords, faults>>

\* Fields of the body that are set.
Ask(role, active) == [role |-> role, active |-> active]

\* require_admin asks the table, not the token.
Admitted(a) == users[a] # None /\ users[a].active /\ users[a].role = "admin"

Invite(c) == \E a \in Principal, p \in Native, r \in {"admin", "member"} :
    Admitted(a) /\ Open(c, "invite", a, p, Ask(r, None))

Patch(c) == \E a, p \in Principal, r \in {"admin", "member", None}, on \in BOOLEAN \cup {None} :
    Admitted(a) /\ (r # None \/ on # None) /\ Open(c, "patch", a, p, Ask(r, on))

Deactivate(c) == \E a, p \in Principal :
    Admitted(a) /\ p # a /\ Open(c, "patch", a, p, Ask(None, FALSE))

Reset(c) == \E a, p \in Principal : Admitted(a) /\ Open(c, "reset", a, p, Ask(None, None))

\* POST /me/change-password: the token names the account.
Change(c) == \E p \in Principal : Open(c, "change", p, p, Ask(None, None))

\* The handler's own select.  For an invitation it looks for the address.
Load(c) ==
    LET q   == caller[c]
        row == IF q.of = q.actor /\ q.op # "change" THEN q.self ELSE users[q.of]
        ok  == CASE q.op = "invite" -> ~Taken(q.of)
                 [] q.op = "patch"  -> row # None
                 [] OTHER           -> row # None /\ row.pw # 0
    IN  /\ q.pc = "load"
        /\ caller' = [caller EXCEPT ![c] = IF ok THEN [q EXCEPT !.pc = "commit", !.row = row] ELSE Idle]
        /\ UNCHANGED <<setup, users, groups, feeder, issued, passwords, work, faults>>

\* The row as each handler leaves it; pw is the new password.
Patched(row, ask) == [x \in DOMAIN row |->
    IF x \in DOMAIN ask /\ ask[x] # None THEN ask[x] ELSE row[x]]
Renewed(row, pw) == [row EXCEPT !.pw = pw, !.must = TRUE]
Changed(row, pw) == [row EXCEPT !.pw = pw, !.must = FALSE]

\* patch_user, deactivate_user, reset_password, change_password.
CommitEdit(c) ==
    LET q   == caller[c]
        new == CASE q.op = "patch"  -> Patched(q.row, q.ask)
                 [] q.op = "reset"  -> Renewed(q.row, passwords + 1)
                 [] q.op = "change" -> Changed(q.row, passwords + 1)
    IN
    /\ q.pc = "commit" /\ q.op # "invite"
    /\ users' = [users EXCEPT ![q.of] = Emit(@, q.row, new)]
    /\ IF q.op = "patch"
       THEN UNCHANGED <<issued, passwords>>
       ELSE /\ passwords' = passwords + 1
            /\ issued' = [issued EXCEPT ![q.of] = passwords']
    /\ caller' = [caller EXCEPT ![c] = Idle]
    /\ UNCHANGED <<setup, groups, feeder, work, faults>>

\* create_native_user commits on its own: the unique address decides between
\* two invitations, and the audit row of create_user comes in a second
\* transaction whose failure undoes nothing.
CommitInvite(c) ==
    LET q == caller[c] IN
    /\ q.pc = "commit" /\ q.op = "invite"
    /\ IF Taken(q.of) \/ users[q.of] # None
       THEN UNCHANGED <<users, issued, passwords>>
       ELSE /\ passwords' = passwords + 1
            /\ issued' = [issued EXCEPT ![q.of] = passwords']
            /\ users' = [users EXCEPT ![q.of] = [email |-> q.of, pw |-> passwords', must |-> TRUE,
                                                 role |-> q.ask.role, active |-> TRUE]]
    /\ caller' = [caller EXCEPT ![c] = Idle]
    /\ UNCHANGED <<setup, groups, feeder, work, faults>>

\* The audit row or the commit fails: the whole transaction is rolled back.
Abort(c) ==
    /\ caller[c].pc = "commit" /\ Fault
    /\ caller' = [caller EXCEPT ![c] = Idle]
    /\ UNCHANGED <<setup, users, groups, feeder, issued, passwords, work>>

-----------------------------------------------------------------------------
(* run_scim_sync: users, then groups, each in one transaction. *)

Edit(f, r) == feeder' = [feeder EXCEPT ![f] = r]

\* What the IdP says at the start; a subject it leaves out has no address.
Fetch(f) ==
    /\ feeder[f].pc = "idle" /\ setup = "ready"
    /\ work < MaxWork /\ work' = work + 1
    /\ \E feed \in Feed :
         LET busy == {g \in Feeder : feeder[g].pc # "idle"} IN
         feeder' = [g \in Feeder |->
            IF g = f THEN [Rest EXCEPT !.pc = "users", !.feed = feed, !.crossed = busy # {}]
            ELSE [feeder[g] EXCEPT !.crossed = @ \/ g \in busy]]
    /\ UNCHANGED <<setup, users, groups, caller, issued, passwords, faults>>

Fed(r) == {s \in Subject : r.feed.email[s] # None}

LoadUsers(f) ==
    /\ feeder[f].pc = "users"
    /\ Edit(f, [feeder[f] EXCEPT !.pc = "put users", !.rows = users])
    /\ UNCHANGED <<setup, users, groups, caller, issued, passwords, work, faults>>

\* Mutant: a user whose address is taken is passed over, the rest is kept.
SyncedRest(r) ==
    [p \in Principal |->
        IF p \notin Subject \/ p \notin Fed(r) \/ Taken(r.feed.email[p]) THEN users[p]
        ELSE [email |-> r.feed.email[p], pw |-> 0, must |-> FALSE, role |-> "member", active |-> TRUE]]

\* The table after the run's inserts and updates.
Synced(r) ==
    [p \in Principal |->
        IF p \notin Subject \/ p \notin Fed(r) THEN users[p]
        ELSE IF r.rows[p] # None
        THEN Emit(users[p], r.rows[p], [r.rows[p] EXCEPT !.email = r.feed.email[p]])
        ELSE [email |-> r.feed.email[p], pw |-> 0, must |-> FALSE, role |-> "member", active |-> TRUE]]

\* Neither a primary key nor an address may occur twice.
Clash(r, table) ==
    \/ \E p \in Fed(r) : r.rows[p] = None /\ users[p] # None
    \/ \E p, q \in Principal : p # q /\ table[p] # None /\ table[q] # None /\ table[p].email = table[q].email

SyncUsers(f) ==
    LET r == feeder[f]  table == Synced(r) IN
    /\ r.pc = "put users"
    /\ IF Clash(r, table)
       THEN Edit(f, Rest) /\ UNCHANGED users
       ELSE Edit(f, [r EXCEPT !.pc = "groups", !.rows = None]) /\ users' = table
    /\ UNCHANGED <<setup, groups, caller, issued, passwords, work, faults>>

\* No constraint keeps the key of a group unique; with two rows the lookup
\* raises, in this run and in every later one.
LoadGroup(f) ==
    /\ feeder[f].pc = "groups"
    /\ Edit(f, CASE Len(groups) = 0 -> [feeder[f] EXCEPT !.pc = "new group"]
                 [] Len(groups) = 1 -> [feeder[f] EXCEPT !.pc = "put group", !.members = groups[1]]
                 [] OTHER -> Rest)
    /\ UNCHANGED <<setup, users, groups, caller, issued, passwords, work, faults>>

\* A member must be a user, and is inserted once.
Added(r)   == r.feed.members \ (IF r.members = None THEN {} ELSE r.members)
Removed(r) == (IF r.members = None THEN {} ELSE r.members) \ r.feed.members

SyncGroup(f) ==
    LET r == feeder[f]
        now == IF r.pc = "new group" THEN {} ELSE groups[1]
        then == (now \ Removed(r)) \cup Added(r)
    IN  /\ r.pc \in {"new group", "put group"}
        /\ IF \/ \E s \in Added(r) : users[s] = None
              \/ Added(r) \cap now # {}
           THEN Edit(f, Rest) /\ UNCHANGED groups
           ELSE /\ groups' = IF r.pc = "new group" THEN Append(groups, then) ELSE [groups EXCEPT ![1] = then]
                /\ Edit(f, [r EXCEPT !.pc = "done", !.members = None])
        /\ UNCHANGED <<setup, users, caller, issued, passwords, work, faults>>

\* The script ends, or dies before one of its two commits.
Finish(f) ==
    /\ feeder[f].pc = "done"
    /\ Edit(f, Rest)
    /\ UNCHANGED <<setup, users, groups, caller, issued, passwords, work, faults>>

Die(f) ==
    /\ feeder[f].pc \notin {"idle", "done"} /\ Fault
    /\ Edit(f, Rest)
    /\ UNCHANGED <<setup, users, groups, caller, issued, passwords, work>>

-----------------------------------------------------------------------------

Next ==
    \/ BootstrapTenant \/ BootstrapAdmin \/ BootstrapFails
    \/ \E c \in Caller : \/ Invite(c) \/ Patch(c) \/ Deactivate(c) \/ Reset(c) \/ Change(c)
                         \/ Load(c) \/ CommitEdit(c) \/ CommitInvite(c) \/ Abort(c)
    \/ \E f \in Feeder : \/ Fetch(f) \/ LoadUsers(f) \/ SyncUsers(f) \/ LoadGroup(f)
                         \/ SyncGroup(f) \/ Finish(f) \/ Die(f)

Spec == Init /\ [][Next]_vars

-----------------------------------------------------------------------------
(* Properties. *)

\* The password that opens an account is the last one an invitation, a reset
\* or a change committed: a patch or a SCIM run that loaded the row earlier
\* brings no older one back.
LastPasswordOpens == \A p \in Principal : users[p] # None => users[p].pw = issued[p]

\* A deactivated account becomes active only by a request that asked for it
\* and saw it inactive; one that is about the role or the password, and a
\* SCIM run, leaves the deactivation that overtook it alone.
DeactivationStands ==
    \A p \in Principal :
        (users[p] # None /\ ~users[p].active /\ users'[p].active) =>
            \E c \in Caller : /\ caller[c].pc = "commit" /\ caller[c].of = p
                              /\ caller[c].ask.active = TRUE /\ ~caller[c].row.active

\* An account stays what the last request about it made it.
AccountStands == [][LastPasswordOpens' /\ DeactivationStands]_vars

\* The accounts of a SCIM run are committed before its group: from then on each
\* fed subject's account is under the fed address, also in a run that then stops
\* and leaves the group of an earlier feed, whatever an administrator's request
\* or the bootstrap of the tenant commits meanwhile.  A run that ends without an
\* error leaves the group with exactly the fed members.  This is said of runs
\* that met no other run.
FeedApplied ==
    \A f \in Feeder : ~feeder[f].crossed =>
        /\ feeder[f].pc \in {"groups", "new group", "put group", "done"} =>
             \A s \in Fed(feeder[f]) : users[s] # None /\ users[s].email = feeder[f].feed.email[s]
        /\ feeder[f].pc = "done" => groups = <<feeder[f].feed.members>>

=============================================================================
