---------------------------- MODULE TenantRouting ----------------------------
(***************************************************************************)
(* How a process gets to the database of a tenant: the routing row of the  *)
(* control plane, its copy in Redis, the password in the vault, and the    *)
(* engine that is built of them once and kept until the process ends.      *)
(*                                                                         *)
(* A vault that fails is answered, without a word, by the password of the  *)
(* control plane's own database; the mock vault prefers that password to   *)
(* the one it was given.  An address the process cannot reach is replaced  *)
(* by the cloud URL of the environment, credentials included.              *)
(***************************************************************************)
EXTENDS Integers

CONSTANTS
    None,
    Process,
    MaxChanges,   \* bound: new passwords, and moves of the database
    MaxFaults     \* bound: calls to the vault that fail

Host == {"direct", "other"}   \* one the process cannot reach, such as IPv6-only Supabase, or any other

VARIABLES
    vault,      \* "shared" by the processes, or each process's "mock"
    control,    \* the password in the control plane's URL, 0 for none
    cloud,      \* the host of the cloud URL in the environment, or None
    real,       \* the password of the tenant's database
    secret,     \* process -> the password its vault holds, 0 for none
    address,    \* the host in the tenant's row, or None before it is created
    hint,       \* the host in Redis, or None
    resolving,  \* process -> a request that resolves the tenant, or None
    engine,     \* process -> what its engine was built of, or None
    rotating,   \* the database has a password that the vault has not
    changes,    \* bound
    outdated,   \* history: what Redis holds is older than a move
    faults      \* bound

vars == <<vault, control, cloud, real, secret, address, hint, resolving, engine,
          rotating, outdated, changes, faults>>

setting == <<vault, control, cloud>>

Init ==
    /\ vault \in {"shared", "mock"}
    /\ control \in {0, 1}
    /\ cloud \in {None, "pooler", "direct"}
    /\ real = 1 /\ secret = [p \in Process |-> 0]
    /\ address = None /\ hint = None
    /\ resolving = [p \in Process |-> None] /\ engine = [p \in Process |-> None]
    /\ rotating = FALSE /\ outdated = FALSE
    /\ changes = 0 /\ faults = 0

Fault == faults < MaxFaults /\ faults' = faults + 1

\* set_secret: for everybody, or for this process alone.
Stored(p, password) ==
    [q \in Process |-> IF vault = "shared" \/ q = p THEN password ELSE secret[q]]

CreateTenant(p, h) ==
    /\ address = None
    /\ secret' = Stored(p, real)
    /\ address' = h
    /\ UNCHANGED <<setting, real, hint, resolving, engine, rotating, outdated, changes,
                   faults>>

At(p, step) == resolving[p] # None /\ resolving[p].step = step

Read(h, hit) == [step |-> "secret", hit |-> hit, host |-> h, password |-> 0, guess |-> FALSE,
                 old |-> hit /\ outdated]

\* A request looks into Redis, and then at the row.
Resolve(p) ==
    /\ resolving[p] = None /\ address # None
    /\ resolving' = [resolving EXCEPT ![p] = IF hint # None THEN Read(hint, TRUE) ELSE Read(address, FALSE)]
    /\ UNCHANGED <<setting, real, secret, address, hint, engine, rotating, outdated, changes,
                   faults>>

\* Mutant: the control plane's password is preferred, as the mock vault does.
FoundControl(p) == IF control # 0 THEN control ELSE secret[p]

\* get_secret of a vault that answers; the mock vault knows a default.
Found(p) ==
    IF vault = "shared" THEN secret[p]
    ELSE IF control # 0 THEN control ELSE IF secret[p] # 0 THEN secret[p] ELSE 1

Holds(p, password, guess) ==
    LET r == resolving[p] IN
    resolving' = [resolving EXCEPT ![p] = [r EXCEPT
        !.step = "engine", !.password = password, !.guess = guess, !.old = r.old \/ rotating]]

\* Only names are kept in Redis, after a miss.
Remember(p) ==
    IF resolving[p].hit THEN UNCHANGED <<hint, outdated>>
    ELSE hint' = resolving[p].host /\ outdated' = resolving[p].old

GetSecret(p) ==
    /\ At(p, "secret")
    /\ secret[p] # 0 \/ vault = "mock"
    /\ Holds(p, Found(p), vault = "mock")
    /\ secret' = IF vault = "mock" /\ control # 0 THEN Stored(p, control) ELSE secret
    /\ Remember(p)
    /\ UNCHANGED <<setting, real, address, engine, rotating, changes, faults>>

\* The vault does not answer, and the control plane's password does.
FallBack(p) ==
    /\ At(p, "secret") /\ vault = "shared" /\ control # 0
    /\ Fault
    /\ Holds(p, control, TRUE)
    /\ Remember(p)
    /\ UNCHANGED <<setting, real, secret, address, engine, rotating, changes>>

\* It raises: after a hit the row is asked, after a miss the request fails.
VaultFails(p) ==
    /\ At(p, "secret") /\ vault = "shared" /\ control = 0
    /\ Fault
    /\ resolving' = [resolving EXCEPT ![p] =
                       IF @.hit THEN Read(address, FALSE) ELSE None]
    /\ UNCHANGED <<setting, real, secret, address, hint, engine, rotating, outdated, changes>>

\* prepare_database_url: where the engine of a host connects.  It calls itself
\* with the cloud URL, and without end when that is a direct one, too.
Prepared(h) ==
    IF cloud = None \/ h = "other" THEN "own"
    ELSE IF cloud = "direct" THEN "nowhere" ELSE "cloud"

\* get_session_factory: an engine the process has is used whatever was resolved.
GetEngine(p) ==
    LET r == resolving[p] IN
    /\ At(p, "engine")
    /\ resolving' = [resolving EXCEPT ![p] = None]
    /\ engine' = [engine EXCEPT ![p] =
                    IF @ # None \/ Prepared(r.host) = "nowhere" THEN @
                    ELSE [to |-> Prepared(r.host), host |-> r.host, password |-> r.password,
                          guess |-> r.guess, old |-> r.old]]
    /\ UNCHANGED <<setting, real, secret, address, hint, rotating, outdated, changes, faults>>

CloseAll(p) ==
    /\ engine[p] # None
    /\ engine' = [engine EXCEPT ![p] = None]
    /\ resolving' = [resolving EXCEPT ![p] = None]
    /\ secret' = IF vault = "mock" THEN [secret EXCEPT ![p] = 0] ELSE secret
    /\ UNCHANGED <<setting, real, address, hint, rotating, outdated, changes, faults>>

Expire ==
    /\ hint # None
    /\ hint' = None /\ outdated' = FALSE
    /\ UNCHANGED <<setting, real, secret, address, resolving, engine, rotating, changes, faults>>

-----------------------------------------------------------------------------
(* The operators' doing.  Nothing calls invalidate_cache. *)

Outdated(f) == [p \in Process |-> IF f[p] = None THEN None ELSE [f[p] EXCEPT !.old = TRUE]]

\* The password is changed in the database and then in the vault.
AlterPassword ==
    /\ address # None /\ vault = "shared" /\ ~rotating
    /\ changes < MaxChanges /\ changes' = changes + 1
    /\ real' = real + 1
    /\ rotating' = TRUE
    /\ engine' = Outdated(engine) /\ resolving' = Outdated(resolving)
    /\ UNCHANGED <<setting, secret, address, hint, outdated, faults>>

StorePassword(p) ==
    /\ rotating
    /\ secret' = Stored(p, real)
    /\ rotating' = FALSE
    /\ UNCHANGED <<setting, real, address, hint, resolving, engine, outdated, changes, faults>>

\* The seed script rewrites the row.
Move(h) ==
    /\ address \notin {None, h}
    /\ changes < MaxChanges /\ changes' = changes + 1
    /\ address' = h
    /\ outdated' = (hint # None)
    /\ engine' = Outdated(engine) /\ resolving' = Outdated(resolving)
    /\ UNCHANGED <<setting, real, secret, hint, rotating, faults>>

Next ==
    \/ \E p \in Process :
         \/ \E h \in Host : CreateTenant(p, h)
         \/ Resolve(p) \/ GetSecret(p) \/ FallBack(p) \/ VaultFails(p)
         \/ GetEngine(p) \/ CloseAll(p) \/ StorePassword(p)
    \/ Expire \/ AlterPassword
    \/ \E h \in Host : Move(h)

Spec == Init /\ [][Next]_vars

-----------------------------------------------------------------------------
\* An engine opens the tenant's database: it was built of the row's host and
\* of the password the vault held, unless the row or the password changed since
\* it was resolved (or Redis held an older row), or the password was a guess,
\* or the environment sends it elsewhere (tenant_resolver.py 56-140,
\* tenant_db.py 28-108, vault_client.py 137-176).
EngineOpens ==
    \A p \in Process : LET e == engine[p] IN
        e # None /\ ~e.guess /\ ~e.old /\ e.to = "own" => e.host = address /\ e.password = real
=============================================================================
