---------------------------- MODULE ToolGateway ----------------------------
(***************************************************************************)
(* The MCP gateway (services/mcp_gateway) and the revocations it hears of. *)
(* A call of a tool carries an access token; validate_token asks Redis     *)
(* about it, and the gateway asks a memory of its own, which a listener    *)
(* fills with the events that services/revocation.py publishes.  The       *)
(* memory covers what Redis cannot say: an access token that a rotation    *)
(* issued has no token_version, so that a revocation of its user's         *)
(* sessions is known to the gateway alone.                                 *)
(*                                                                         *)
(* One API process serves all.  The listener subscribes when the process   *)
(* starts, if Redis answers then; it may end when Redis goes away and does *)
(* not come back.  Sessions has refresh tokens and the races of token      *)
(* versions; a call here is one of an allowed tool, and expiry is left out.*)
(***************************************************************************)
EXTENDS Integers, Sequences

CONSTANTS
    None,
    User,
    Request,
    MaxPasses,   \* bound: access tokens
    MaxRevokes,  \* bound: revocations
    MaxFaults    \* bound: outages of Redis, restarts and failed commits

VARIABLES
    passes,   \* the access tokens: a user, and a token_version or NoClaim
    level,    \* users.token_version
    reach,    \* Redis answers
    barred,   \* revoked:<jti>, in Redis and in the process
    stamp,    \* token_version:<user>, likewise; 0 when there is no key
    hearing,  \* the listener is subscribed
    wire,     \* events published to it and not yet applied
    away,     \* the events applied: _revoked_jtis and _revoked_principals
    inquiry,  \* request -> the call or revocation it serves, or None
    ended,    \* history: the tokens a finished revocation was about
    frail,    \* history: those of them only the gateway can refuse
    open,     \* history: those an outage, a restart or a deaf listener let through
    revokes, faults

vars == <<passes, level, reach, barred, stamp, hearing, wire, away, inquiry,
          ended, frail, open, revokes, faults>>

history == <<ended, frail, open>>

NoClaim == -1
Store == {"redis", "process"}
Pass == 1..Len(passes)

Init ==
    /\ passes = <<>> /\ level = [u \in User |-> 0]
    /\ reach = TRUE /\ hearing = TRUE
    /\ barred = [s \in Store |-> {}] /\ stamp = [s \in Store |-> [u \in User |-> 0]]
    /\ wire = {} /\ away = {}
    /\ inquiry = [r \in Request |-> None]
    /\ ended = {} /\ frail = {} /\ open = {}
    /\ revokes = 0 /\ faults = 0

Fault == faults < MaxFaults /\ faults' = faults + 1

\* The store a Redis call reaches.
Reached == IF reach THEN "redis" ELSE "process"

At(r, step) == inquiry[r] # None /\ inquiry[r].step = step
Steps(r, step) == inquiry' = [inquiry EXCEPT ![r].step = step]
Ends(r) == inquiry' = [inquiry EXCEPT ![r] = None]

About(e, t) == IF e.kind = "token" THEN e.of = t ELSE e.of = passes[t].user

-----------------------------------------------------------------------------
(* Tokens: a login's has the version of its user, a rotation's has none. *)

Issue(u, claim) ==
    /\ Len(passes) < MaxPasses
    /\ passes' = Append(passes, [user |-> u, claim |-> claim])
    /\ UNCHANGED <<level, reach, barred, stamp, hearing, wire, away, inquiry, history, revokes, faults>>

-----------------------------------------------------------------------------
(* Revocations *)

Revoke == revokes < MaxRevokes /\ revokes' = revokes + 1

\* What cannot reach Redis is kept by the process.
Unless(reached, tokens) == open' = IF reached THEN open ELSE open \cup tokens

\* revoke_token: sadd of the jti.
RevokeToken(r, t) ==
    /\ inquiry[r] = None /\ Revoke
    /\ barred' = [barred EXCEPT ![Reached] = @ \cup {t}]
    /\ inquiry' = [inquiry EXCEPT ![r] = [step |-> "publish", kind |-> "token", of |-> t, tokens |-> {t}]]
    /\ Unless(reach, {t})
    /\ UNCHANGED <<passes, level, reach, stamp, hearing, wire, away, ended, frail, faults>>

\* revoke_sessions reads the user and adds one to the version.
RevokeSession(r, u) ==
    /\ inquiry[r] = None /\ Revoke
    /\ inquiry' = [inquiry EXCEPT ![r] =
         [step |-> "stamp", kind |-> "session", of |-> u, ver |-> level[u] + 1,
          tokens |-> {t \in Pass : passes[t].user = u}]]
    /\ UNCHANGED <<passes, level, reach, barred, stamp, hearing, wire, away, history, faults>>

\* A lower number over a higher one, in Redis or in the row, lets the tokens
\* in between pass again.
Between(q, low, high) == {t \in Pass : passes[t].user = q.of /\ passes[t].claim \in low..high}

Stamp(r) ==
    LET q == inquiry[r] IN
    /\ At(r, "stamp")
    /\ stamp' = [stamp EXCEPT ![Reached][q.of] = q.ver]
    /\ open' = open \cup IF reach THEN Between(q, q.ver, stamp["redis"][q.of] - 1) ELSE q.tokens
    /\ Steps(r, "commit")
    /\ UNCHANGED <<passes, level, reach, barred, hearing, wire, away, ended, frail, revokes, faults>>

Commit(r) ==
    /\ At(r, "commit")
    /\ level' = [level EXCEPT ![inquiry[r].of] = inquiry[r].ver]
    /\ open' = open \cup Between(inquiry[r], inquiry[r].ver + 1, level[inquiry[r].of])
    /\ Steps(r, "publish")
    /\ UNCHANGED <<passes, reach, barred, stamp, hearing, wire, away, ended, frail, revokes, faults>>

\* The administrator is told.
CommitFails(r) ==
    /\ At(r, "commit") /\ Fault
    /\ Ends(r)
    /\ UNCHANGED <<passes, level, reach, barred, stamp, hearing, wire, away, history, revokes>>

\* Those of q that Redis has nothing about.
Versionless(q) == {t \in q.tokens : q.kind = "session" /\ passes[t].claim = NoClaim}

\* publish reaches whoever is subscribed at the time, and fails silently.
Publish(r) ==
    LET q == inquiry[r] IN
    /\ At(r, "publish")
    /\ wire' = IF reach /\ hearing THEN wire \cup {[kind |-> q.kind, of |-> q.of]} ELSE wire
    /\ ended' = ended \cup q.tokens
    /\ frail' = frail \cup Versionless(q)
    /\ Unless(reach /\ hearing, Versionless(q))
    /\ Ends(r)
    /\ UNCHANGED <<passes, level, reach, barred, stamp, hearing, away, revokes, faults>>

\* Mutant: a revoked session only drops the cached entries of its user.
HeardTokens(e) == IF e.kind = "token" THEN away \cup {e} ELSE away

\* apply_event.  (The cached entries, which it drops too, decide nothing.)
Heard(e) == away \cup {e}

Hear(e) ==
    /\ hearing
    /\ wire' = wire \ {e}
    /\ away' = Heard(e)
    /\ UNCHANGED <<passes, level, reach, barred, stamp, hearing, inquiry, history, revokes, faults>>

-----------------------------------------------------------------------------
(* Calls of a tool *)

Turned(t) == \E e \in away : About(e, t)

\* settled: a revocation of the token was through when the call came, and the
\* gateway had heard of it or Redis can be asked.
Call(r, t) ==
    /\ inquiry[r] = None
    /\ inquiry' = [inquiry EXCEPT ![r] =
         [step |-> "jti", of |-> t,
          settled |-> t \in ended /\ (\A e \in wire : ~About(e, t)) /\ (reach \/ Turned(t))]]
    /\ UNCHANGED <<passes, level, reach, barred, stamp, hearing, wire, away, history, revokes, faults>>

\* validate_token, first look.
CheckJti(r) ==
    /\ At(r, "jti")
    /\ IF inquiry[r].of \in barred[Reached] THEN Ends(r) ELSE Steps(r, "version")
    /\ UNCHANGED <<passes, level, reach, barred, stamp, hearing, wire, away, history, revokes, faults>>

Outdated(pass) == pass.claim # NoClaim /\ stamp[Reached][pass.user] > pass.claim

\* Its second look, and get_mcp_identity without an await in between.
Identify(r) ==
    LET t == inquiry[r].of IN
    /\ At(r, "version")
    /\ IF Outdated(passes[t]) \/ Turned(t) THEN Ends(r) ELSE Steps(r, "serve")
    /\ UNCHANGED <<passes, level, reach, barred, stamp, hearing, wire, away, history, revokes, faults>>

\* dispatch_tool and the audit row, which is written whatever happens.
Dispatch(r) ==
    /\ At(r, "serve")
    /\ Ends(r)
    /\ UNCHANGED <<passes, level, reach, barred, stamp, hearing, wire, away, history, revokes, faults>>

-----------------------------------------------------------------------------
(* Redis and the process *)

\* What is on the wire is lost, and the listener may be.
RedisDown ==
    /\ reach /\ Fault
    /\ reach' = FALSE
    /\ wire' = {}
    /\ hearing' \in {hearing, FALSE}
    /\ open' = open \cup {t \in frail : \E e \in wire : About(e, t)}
    /\ inquiry' = [r \in Request |->
         IF inquiry[r] # None /\ inquiry[r].step \in {"jti", "version"} /\ ~Turned(inquiry[r].of)
         THEN [inquiry[r] EXCEPT !.settled = FALSE] ELSE inquiry[r]]
    /\ UNCHANGED <<passes, level, barred, stamp, away, ended, frail, revokes>>

RedisUp ==
    /\ ~reach
    /\ reach' = TRUE
    /\ UNCHANGED <<passes, level, barred, stamp, hearing, wire, away, inquiry, history, revokes, faults>>

Restart ==
    /\ Fault
    /\ barred' = [barred EXCEPT !["process"] = {}]
    /\ stamp' = [stamp EXCEPT !["process"] = [u \in User |-> 0]]
    /\ hearing' = reach
    /\ wire' = {} /\ away' = {}
    /\ inquiry' = [r \in Request |-> None]
    /\ open' = open \cup frail
    /\ UNCHANGED <<passes, level, reach, ended, frail, revokes>>

Next ==
    \/ \E u \in User : Issue(u, level[u]) \/ Issue(u, NoClaim)
    \/ \E r \in Request :
         \/ \E t \in Pass : RevokeToken(r, t) \/ Call(r, t)
         \/ \E u \in User : RevokeSession(r, u)
         \/ Stamp(r) \/ Commit(r) \/ CommitFails(r) \/ Publish(r)
         \/ CheckJti(r) \/ Identify(r) \/ Dispatch(r)
    \/ \E e \in wire : Hear(e)
    \/ RedisDown \/ RedisUp \/ Restart

Spec == Init /\ [][Next]_vars

-----------------------------------------------------------------------------
\* No tool serves a token whose revocation was through when the call came, of
\* one token or of a user's sessions, with a version or without, unless an
\* outage, a restart or a deaf listener lost what the refusal rests on, or two
\* revocations that overlapped set the version back below the token's
\* (mcp_gateway/revocation.py 27-148, identity.py 44-64, services/revocation.py
\* 29-119, token_service.py 249-274).
RevokedTurnedAway ==
    \A r \in Request : At(r, "serve") =>
        ~inquiry[r].settled \/ inquiry[r].of \in open
=============================================================================
