------------------------------ MODULE Sessions ------------------------------
(***************************************************************************)
(* Login sessions: the pairs of JWTs that api/v1/auth.py issues, the       *)
(* rotation of refresh tokens (services/oauth_service.py), their           *)
(* revocation (services/revocation.py, api/v1/admin/sessions.py) and the   *)
(* browser tabs that hold them (frontend lib/api/client.ts, auth-store.ts).*)
(*                                                                         *)
(* A grant is one access token with one refresh token.  Three stores can   *)
(* refuse it: the refresh_tokens row, the revoked jti in Redis, and the    *)
(* token_version in Redis, which only access tokens issued at a login      *)
(* carry.  When a Redis call fails the client falls back to a dictionary   *)
(* of the process (storage/redis_client.py), so what was written while     *)
(* Redis was away is not seen once it is back.                             *)
(*                                                                         *)
(* A request is a coroutine of the one API process; a step ends at an      *)
(* await whose order against other requests matters.                       *)
(***************************************************************************)
EXTENDS Integers, FiniteSets

CONSTANTS
    User,
    Tab,          \* tabs of one browser, which share one localStorage
    Request,      \* requests the API serves at a time
    None,
    MaxGrants,    \* bound: pairs of tokens issued
    MaxRevokes,   \* bound: revocations, and so token versions
    MaxFaults     \* bound: lost answers, dead requests and Redis outages

ASSUME NoneAssumption == None \notin User \cup Request
ASSUME RequestAssumption == IsFiniteSet(Request)
ASSUME BoundsAssumption ==
    MaxGrants \in Nat /\ MaxRevokes \in Nat /\ MaxFaults \in Nat

VARIABLES
    version,    \* users.token_version as committed
    row,        \* refresh_tokens: revoked flag by token
    up,         \* Redis answers
    blocked,    \* revoked:<jti> of refresh tokens, in Redis and in the process
    published,  \* token_version:<user>, likewise; 0 when there is no key
    minted,     \* number of grants issued
    owner,      \* sub claim
    claim,      \* token_version claim of the access token, NoClaim when absent
    parent,     \* the grant whose refresh token was exchanged, 0 for a login
    pc,         \* where each request stands
    who,        \* the user it is about
    of,         \* the grant it is about
    ver,        \* the version a login read or a revocation writes
    held,       \* the rows a revocation has selected
    holds,      \* refresh token in the memory of each tab, 0 when signed out
    waits,      \* the request whose answer the tab awaits (refreshInFlight)
    disk,       \* the same in localStorage
    revokes, faults  \* spent bounds

redis  == <<up, blocked, published>>
tokens == <<minted, owner, claim, parent, row>>
server == <<pc, who, of, ver, held>>
client == <<holds, waits, disk>>
vars   == <<version, redis, tokens, server, client, revokes, faults>>

Grant   == 1..MaxGrants
NoClaim == -1
Store   == {"redis", "process"}

TypeOK ==
    /\ version \in [User -> Nat]
    /\ row \in [Grant -> {"none", "live", "revoked"}]
    /\ up \in BOOLEAN
    /\ blocked \in [Store -> SUBSET Grant]
    /\ published \in [Store -> [User -> Nat]]
    /\ minted \in 0..MaxGrants
    /\ owner \in [Grant -> User \cup {None}]
    /\ claim \in [Grant -> Nat \cup {NoClaim}]
    /\ parent \in [Grant -> 0..MaxGrants]
    /\ pc \in [Request -> {"idle", "login", "check", "select", "block", "retire", "persist",
                           "answer", "row", "publish", "collect", "mark", "commit"}]
    /\ who \in [Request -> User \cup {None}]
    /\ of \in [Request -> 0..MaxGrants]
    /\ ver \in [Request -> Nat]
    /\ held \in [Request -> SUBSET Grant]
    /\ holds \in [Tab -> 0..MaxGrants]
    /\ waits \in [Tab -> Request \cup {None}]
    /\ disk \in 0..MaxGrants
    /\ revokes \in Nat /\ faults \in Nat

Init ==
    /\ version = [u \in User |-> 0]
    /\ row = [g \in Grant |-> "none"]
    /\ up = TRUE
    /\ blocked = [s \in Store |-> {}]
    /\ published = [s \in Store |-> [u \in User |-> 0]]
    /\ minted = 0
    /\ owner = [g \in Grant |-> None]
    /\ claim = [g \in Grant |-> NoClaim] /\ parent = [g \in Grant |-> 0]
    /\ pc = [r \in Request |-> "idle"] /\ who = [r \in Request |-> None]
    /\ of = [r \in Request |-> 0] /\ ver = [r \in Request |-> 0]
    /\ held = [r \in Request |-> {}]
    /\ holds = [t \in Tab |-> 0] /\ waits = [t \in Tab |-> None] /\ disk = 0
    /\ revokes = 0 /\ faults = 0

\* The store a Redis call reaches.
Reached == IF up THEN "redis" ELSE "process"

Goto(r, p) == pc' = [pc EXCEPT ![r] = p]

\* A request ends and forgets what it held.
Finish(r) ==
    /\ pc'   = [pc EXCEPT ![r] = "idle"]
    /\ who'  = [who EXCEPT ![r] = None]
    /\ of'   = [of EXCEPT ![r] = 0]
    /\ ver'  = [ver EXCEPT ![r] = 0]
    /\ held' = [held EXCEPT ![r] = {}]

\* issue_access_token and issue_refresh_token: the claims of a new pair.
Issue(u, c, p) ==
    /\ minted < MaxGrants
    /\ minted' = minted + 1
    /\ owner'  = [owner EXCEPT ![minted'] = u]
    /\ claim'  = [claim EXCEPT ![minted'] = c]
    /\ parent' = [parent EXCEPT ![minted'] = p]

\* persist_refresh_token inserts the row and commits: the pair exists for
\* others from here on.
Mint(r, u, c, p) ==
    /\ Issue(u, c, p)
    /\ row' = [row EXCEPT ![minted'] = "live"]
    /\ of'  = [of EXCEPT ![r] = minted']
    /\ Goto(r, "answer")
    /\ UNCHANGED <<version, redis, who, ver, held, client, revokes, faults>>

-----------------------------------------------------------------------------
(* Login. *)

\* A tab sends the password; authenticate_user reads the users row.
Login(r, t, u) ==
    /\ pc[r] = "idle" /\ waits[t] = None /\ holds[t] = 0
    /\ Goto(r, "login")
    /\ who' = [who EXCEPT ![r] = u]
    /\ ver' = [ver EXCEPT ![r] = version[u]]
    /\ waits' = [waits EXCEPT ![t] = r]
    /\ UNCHANGED <<version, redis, tokens, of, held, holds, disk, revokes, faults>>

LoginMint(r) == pc[r] = "login" /\ Mint(r, who[r], ver[r], 0)

-----------------------------------------------------------------------------
(* Rotation: the refresh_token grant of POST /oauth/token. *)

\* exchangeRefreshToken, when the access token has expired or got a 401: one
\* exchange per tab at a time.
Refresh(r, t) ==
    /\ pc[r] = "idle" /\ waits[t] = None /\ holds[t] # 0
    /\ Goto(r, "check")
    /\ of' = [of EXCEPT ![r] = holds[t]]
    /\ waits' = [waits EXCEPT ![t] = r]
    /\ UNCHANGED <<version, redis, tokens, who, ver, held, holds, disk, revokes, faults>>

\* validate_token: the jti is not in the revoked set.
Validate(r) ==
    /\ pc[r] = "check" /\ of[r] \notin blocked[Reached]
    /\ Goto(r, "select")
    /\ UNCHANGED <<version, redis, tokens, who, of, ver, held, client, revokes, faults>>

\* Mutant: the row's revoked flag is not looked at.
SelectAnyRow(r) ==
    /\ pc[r] = "select"
    /\ Goto(r, "block")
    /\ UNCHANGED <<version, redis, tokens, who, of, ver, held, client, revokes, faults>>

\* The refresh_tokens row is read.
SelectRow(r) ==
    /\ pc[r] = "select" /\ row[of[r]] = "live"
    /\ Goto(r, "block")
    /\ UNCHANGED <<version, redis, tokens, who, of, ver, held, client, revokes, faults>>

\* sadd of the old jti.
BlockOld(r) ==
    /\ pc[r] = "block"
    /\ blocked' = [blocked EXCEPT ![Reached] = @ \cup {of[r]}]
    /\ Goto(r, "retire")
    /\ UNCHANGED <<version, up, published, tokens, who, of, ver, held, client, revokes, faults>>

\* Mutant: the new pair is inserted without the commit of the old row.
RetireUncommitted(r) ==
    /\ pc[r] = "retire"
    /\ Goto(r, "persist")
    /\ UNCHANGED <<version, redis, tokens, who, of, ver, held, client, revokes, faults>>

\* The first commit: the old row is revoked.
RetireOld(r) ==
    /\ pc[r] = "retire"
    /\ row' = [row EXCEPT ![of[r]] = "revoked"]
    /\ Goto(r, "persist")
    /\ UNCHANGED <<version, redis, minted, owner, claim, parent, who, of, ver, held,
                   client, revokes, faults>>

\* The second commit: the new pair, whose access token has no version claim.
PersistNew(r) == pc[r] = "persist" /\ Mint(r, owner[of[r]], NoClaim, of[r])

-----------------------------------------------------------------------------
(* Answers and the browser. *)

Awaiting(r) == {t \in Tab : waits[t] = r}

\* setSession: the tab and localStorage hold the new pair.
Answer(r) ==
    /\ pc[r] = "answer"
    /\ holds' = [t \in Tab |-> IF t \in Awaiting(r) THEN of[r] ELSE holds[t]]
    /\ waits' = [t \in Tab |-> IF t \in Awaiting(r) THEN None ELSE waits[t]]
    /\ disk'  = IF Awaiting(r) # {} THEN of[r] ELSE disk
    /\ Finish(r)
    /\ UNCHANGED <<version, redis, tokens, revokes, faults>>

\* Mutant: a refused refresh leaves the stored pair in place.
SignOutNot(r) ==
    /\ waits' = [t \in Tab |-> IF t \in Awaiting(r) THEN None ELSE waits[t]]
    /\ UNCHANGED <<holds, disk>>

\* clearSession: a refresh that is not ok empties the tab and localStorage; a
\* login that is not ok leaves them (only a refreshing tab holds a token).
SignOut(r) ==
    /\ holds' = [t \in Tab |-> IF t \in Awaiting(r) THEN 0 ELSE holds[t]]
    /\ waits' = [t \in Tab |-> IF t \in Awaiting(r) THEN None ELSE waits[t]]
    /\ disk'  = IF \E t \in Awaiting(r) : holds[t] # 0 THEN 0 ELSE disk

\* The 401 of either check.
Refused(r) ==
    /\ \/ pc[r] = "check" /\ of[r] \in blocked[Reached]
       \/ pc[r] = "select" /\ row[of[r]] # "live"
    /\ SignOut(r)
    /\ Finish(r)
    /\ UNCHANGED <<version, redis, tokens, revokes, faults>>

Fault == faults < MaxFaults /\ faults' = faults + 1

\* An exception ends a request; a rotation or login answers 500.
Fail(r) ==
    /\ pc[r] # "idle"
    /\ Fault
    /\ SignOut(r)
    /\ Finish(r)
    /\ UNCHANGED <<version, redis, tokens, revokes>>

\* fetch throws, or the page goes: the tab keeps its token, the server goes on.
Drop(t) ==
    /\ waits[t] # None
    /\ Fault
    /\ waits' = [waits EXCEPT ![t] = None]
    /\ UNCHANGED <<version, redis, tokens, server, holds, disk, revokes>>

\* A tab is opened or reloaded: the store is rehydrated from localStorage.
Reload(t) ==
    /\ waits[t] = None
    /\ holds' = [holds EXCEPT ![t] = disk]
    /\ UNCHANGED <<version, redis, tokens, server, waits, disk, revokes, faults>>

-----------------------------------------------------------------------------
(* Revocation of one refresh token: POST /oauth/revoke. *)

\* revoke_token marks the row and commits.
RevokeRow(r, g) ==
    /\ pc[r] = "idle" /\ row[g] # "none"
    /\ revokes < MaxRevokes /\ revokes' = revokes + 1
    /\ row' = [row EXCEPT ![g] = "revoked"]
    /\ of' = [of EXCEPT ![r] = g]
    /\ Goto(r, "row")
    /\ UNCHANGED <<version, redis, minted, owner, claim, parent, who, ver, held,
                   client, faults>>

RevokeJti(r) ==
    /\ pc[r] = "row"
    /\ blocked' = [blocked EXCEPT ![Reached] = @ \cup {of[r]}]
    /\ Finish(r)
    /\ UNCHANGED <<version, up, published, tokens, client, revokes, faults>>

-----------------------------------------------------------------------------
(* Revocation of all sessions of a user: POST /admin/sessions/revoke. *)

\* The users row is read and its version incremented in the session.
ReadUser(r, u) ==
    /\ pc[r] = "idle"
    /\ revokes < MaxRevokes /\ revokes' = revokes + 1
    /\ who' = [who EXCEPT ![r] = u]
    /\ ver' = [ver EXCEPT ![r] = version[u] + 1]
    /\ Goto(r, "publish")
    /\ UNCHANGED <<version, redis, tokens, of, held, client, faults>>

\* "Redis first so get_current_user sees revoke even if DB commit lags."
PublishVersion(r) ==
    /\ pc[r] = "publish"
    /\ published' = [published EXCEPT ![Reached][who[r]] = ver[r]]
    /\ Goto(r, "collect")
    /\ UNCHANGED <<version, up, blocked, tokens, who, of, ver, held, client, revokes, faults>>

\* The flush of token_version takes the lock of the users row until the commit.
Locked(u) == \E r \in Request : pc[r] \in {"mark", "commit"} /\ who[r] = u

\* revoke_session selects the user's live refresh tokens, after that flush.
CollectRows(r) ==
    /\ pc[r] = "collect" /\ ~Locked(who[r])
    /\ held' = [held EXCEPT ![r] = {g \in Grant : row[g] = "live" /\ owner[g] = who[r]}]
    /\ Goto(r, "mark")
    /\ UNCHANGED <<version, redis, tokens, who, of, ver, client, revokes, faults>>

\* The sadds of the loop are one step: whoever validates between two of them
\* would also have validated before them.
BlockHeld(r) ==
    /\ pc[r] = "mark"
    /\ blocked' = [blocked EXCEPT ![Reached] = @ \cup held[r]]
    /\ Goto(r, "commit")
    /\ UNCHANGED <<version, up, published, tokens, who, of, ver, held, client, revokes, faults>>

CommitSession(r) ==
    /\ pc[r] = "commit"
    /\ row' = [g \in Grant |-> IF g \in held[r] THEN "revoked" ELSE row[g]]
    /\ version' = [version EXCEPT ![who[r]] = ver[r]]
    /\ Finish(r)
    /\ UNCHANGED <<redis, minted, owner, claim, parent, client, revokes, faults>>

-----------------------------------------------------------------------------
(* Redis goes away and comes back with what it had. *)

RedisDown ==
    /\ up /\ Fault
    /\ up' = FALSE
    /\ UNCHANGED <<version, blocked, published, tokens, server, client, revokes>>

RedisUp ==
    /\ ~up
    /\ up' = TRUE
    /\ UNCHANGED <<version, blocked, published, tokens, server, client, revokes, faults>>

-----------------------------------------------------------------------------
\* The steps of a request under way.
Serve(r) ==
    \/ LoginMint(r)
    \/ Validate(r) \/ SelectRow(r) \/ BlockOld(r) \/ RetireOld(r) \/ PersistNew(r)
    \/ Answer(r) \/ Refused(r)
    \/ RevokeJti(r)
    \/ PublishVersion(r) \/ CollectRows(r) \/ BlockHeld(r) \/ CommitSession(r)

Next ==
    \/ \E r \in Request : Serve(r) \/ Fail(r)
    \/ \E r \in Request, t \in Tab : Refresh(r, t) \/ \E u \in User : Login(r, t, u)
    \/ \E r \in Request, g \in Grant : RevokeRow(r, g)
    \/ \E r \in Request, u \in User : ReadUser(r, u)
    \/ \E t \in Tab : Drop(t) \/ Reload(t)
    \/ RedisDown \/ RedisUp

Spec == Init /\ [][Next]_vars

\* Requests run on; a tab in use sends its refresh in the end, although other
\* requests keep taking the model's few slots.
Fairness ==
    /\ \A r \in Request : WF_vars(Serve(r))
    /\ \A t \in Tab : SF_vars(\E r \in Request : Refresh(r, t))

FairSpec == Spec /\ Fairness

-----------------------------------------------------------------------------
(* Properties. *)

\* A refresh token that was exchanged for a new pair is revoked in Postgres
\* by the time the new pair exists, whatever Redis did and wherever requests
\* died (oauth_service.py commits the old row before it inserts the new one).
RotationRetires ==
    \A g \in Grant : parent[g] # 0 => row[parent[g]] = "revoked"

Children(g) == {h \in Grant : parent[h] = g}

\* Once a refresh token is revoked, by rotation, by /oauth/revoke or by an
\* administrator, and no request is past its check, no pair is minted from it
\* again, also when its jti was written to a Redis that was away.
InExchange(g) == \E r \in Request : of[r] = g /\ pc[r] \in {"block", "retire", "persist"}
Retired(g)    == row[g] = "revoked" /\ ~InExchange(g)

NeverMintsAgain ==
    [][\A g \in Grant : Retired(g) => Retired(g)' /\ Children(g)' = Children(g)]_vars

\* A tab does not stay signed in on a revoked refresh token: it gets the pair
\* that replaced it or is signed out (unless the bound holds a request up).
HeldUp == minted = MaxGrants /\ \E r \in Request : pc[r] \in {"login", "persist"}

DeadSessionEnds ==
    \A t \in Tab, g \in Grant :
        (holds[t] = g /\ row[g] = "revoked") ~> (holds[t] # g \/ HeldUp)

\* When no revocation of a user's sessions is under way, Redis refuses every
\* version older than the users row: the docstring of revoke_sessions says the
\* version is published "so validate_token / get_current_user reject older
\* tokens immediately".
RevokeTakesEffect ==
    \A u \in User :
        (\A r \in Request : ~(who[r] = u /\ pc[r] \in {"publish", "collect", "mark", "commit"}))
            => published["redis"][u] >= version[u]
=============================================================================
