------------------------------ MODULE TokenKeys ------------------------------
(***************************************************************************)
(* The root key that encrypts OAuth tokens, and the Microsoft tokens that  *)
(* are encrypted with it.  The root is the environment's key or is kept in *)
(* the vault; a process that finds none generates one, stores it, and only *)
(* then uses it, until it ends.  A token is kept in Redis and in the vault *)
(* and read from the first that has it.                                    *)
(*                                                                         *)
(* A vault that cannot be read looks like one that holds no key, and       *)
(* nothing stops two processes that both find none: the later key takes    *)
(* the place of the earlier one.                                           *)
(***************************************************************************)
EXTENDS Integers

CONSTANTS
    None,
    Process,
    MaxKeys,      \* bound: keys that are generated
    MaxTokens,    \* bound: tokens that are stored
    MaxFaults     \* bound: calls to the vault or to Redis that fail, and losses of Redis

VARIABLES
    custody,    \* "shared" by the processes, or each process's "mock"
    seeded,     \* TOKEN_ENCRYPTION_KEY is set, to key 1
    root,       \* process -> the key its vault holds, 0 for none
    key,        \* process -> the key it has cached, 0 for none
    loading,    \* the processes that found no key and are about to store one
    minted,     \* the number of the last key
    blob,       \* the token in Redis: its key and its number, or None
    copy,       \* process -> the token in its vault, or None
    saving,     \* process -> the token it has yet to put into the vault, or None
    numbered,   \* bound
    newest,     \* the number of the token stored last, 0 after it was cleared
    forked,     \* history: a key took the place of another
    behind,     \* history: a write was lost or overtaken
    faults      \* bound

vars == <<custody, seeded, root, key, loading, minted, blob, copy, saving, numbered, newest,
          forked, behind, faults>>

keys == <<root, key, loading, minted, forked>>
store == <<blob, copy, saving, numbered, newest, behind>>

\* get_vault_client: without a vault, or with half of its settings, the mock.
Init ==
    /\ custody \in {"shared", "mock"}
    /\ seeded \in BOOLEAN
    /\ root = [p \in Process |-> 0] /\ key = [p \in Process |-> 0]
    /\ loading = {} /\ minted = 1
    /\ blob = None /\ copy = [p \in Process |-> None]
    /\ saving = [p \in Process |-> None]
    /\ numbered = 0 /\ newest = 0
    /\ forked = (custody = "mock" /\ ~seeded)
    /\ behind = FALSE
    /\ faults = 0

Fault == faults < MaxFaults /\ faults' = faults + 1

\* What p's vault, or everybody's, holds after p stores v.
Stored(f, p, v) == [q \in Process |-> IF custody = "shared" \/ q = p THEN v ELSE f[q]]

-----------------------------------------------------------------------------
(* load_root_fernet_key, under the process's lock *)

Cold(p) == key[p] = 0 /\ p \notin loading

\* The environment's key is used whether or not the vault takes it.
LoadSeed(p) ==
    /\ Cold(p) /\ seeded
    /\ key' = [key EXCEPT ![p] = 1]
    /\ \/ root' = Stored(root, p, 1) /\ UNCHANGED faults
       \/ Fault /\ UNCHANGED root
    /\ UNCHANGED <<custody, seeded, loading, minted, forked, store>>

LoadVault(p) ==
    /\ Cold(p) /\ ~seeded
    /\ IF root[p] # 0
       THEN key' = [key EXCEPT ![p] = root[p]] /\ UNCHANGED loading
       ELSE loading' = loading \cup {p} /\ UNCHANGED key
    /\ UNCHANGED <<custody, seeded, root, minted, forked, faults, store>>

\* _vault_get_root answers None to an outage, too.
LoadVaultFails(p) ==
    /\ Cold(p) /\ ~seeded /\ custody = "shared"
    /\ Fault
    /\ loading' = loading \cup {p}
    /\ UNCHANGED <<custody, seeded, root, key, minted, forked, store>>

Mint(p) ==
    /\ p \in loading /\ minted < MaxKeys
    /\ minted' = minted + 1
    /\ loading' = loading \ {p}

Replaces(p) == forked' = (forked \/ root[p] # 0)

Generate(p) ==
    /\ Mint(p)
    /\ root' = Stored(root, p, minted')
    /\ Replaces(p)
    /\ key' = [key EXCEPT ![p] = minted']
    /\ UNCHANGED <<custody, seeded, faults, store>>

\* Mutant: the key is used although the vault did not confirm it.
CachedAnyway(p) == [key EXCEPT ![p] = minted']

\* TokenEncryptionError: a key that is not in the vault is not used.
Cached(p) == key

\* The vault raises, before or after it took the key.
GenerateFails(p) ==
    /\ Mint(p) /\ custody = "shared"
    /\ Fault
    /\ \/ root' = Stored(root, p, minted') /\ Replaces(p)
       \/ UNCHANGED <<root, forked>>
    /\ key' = Cached(p)
    /\ UNCHANGED <<custody, seeded, store>>

\* A process that starts again has no key, and no mock vault.
Restart(p) ==
    /\ key[p] # 0 \/ p \in loading
    /\ key' = [key EXCEPT ![p] = 0] /\ loading' = loading \ {p}
    /\ saving' = [saving EXCEPT ![p] = None]
    /\ root' = IF custody = "mock" THEN [root EXCEPT ![p] = 0] ELSE root
    /\ copy' = IF custody = "mock" THEN [copy EXCEPT ![p] = None] ELSE copy
    /\ behind' = (behind \/ saving[p] # None)
    /\ UNCHANGED <<custody, seeded, minted, forked, blob, numbered, newest, faults>>

-----------------------------------------------------------------------------
(* PersistentMicrosoftTokenStore: a store is made for every request *)

\* encrypt_token_blob and decrypt_token_blob: 0 for a key that does not fit.
Encrypted(p, number) == [key |-> key[p], number |-> number]
Decrypted(p, token) == IF token # None /\ token.key = key[p] THEN token.number ELSE 0

Overlap == \E p \in Process : saving[p] # None

\* set_token encrypts and writes to Redis, and goes on if that fails.
SetToken(p) ==
    /\ key[p] # 0 /\ saving[p] = None
    /\ numbered < MaxTokens /\ numbered' = numbered + 1
    /\ newest' = numbered'
    /\ LET new == Encrypted(p, numbered') IN
       /\ saving' = [saving EXCEPT ![p] = new]
       /\ \/ blob' = new /\ behind' = (behind \/ Overlap) /\ UNCHANGED faults
          \/ Fault /\ behind' = TRUE /\ UNCHANGED blob
    /\ UNCHANGED <<custody, seeded, copy, keys>>

SetTokenInVault(p) ==
    /\ saving[p] # None
    /\ saving' = [saving EXCEPT ![p] = None]
    /\ \/ copy' = Stored(copy, p, saving[p]) /\ UNCHANGED <<behind, faults>>
       \/ custody = "shared" /\ Fault /\ behind' = TRUE /\ UNCHANGED copy
    /\ UNCHANGED <<custody, seeded, blob, numbered, newest, keys>>

\* clear_token: only the mock vault has a delete.
ClearToken(p) ==
    /\ newest # 0
    /\ newest' = 0
    /\ \/ blob' = None /\ UNCHANGED faults
       \/ Fault /\ UNCHANGED blob
    /\ copy' = IF custody = "mock" THEN [copy EXCEPT ![p] = None] ELSE copy
    /\ behind' = (behind \/ Overlap)
    /\ UNCHANGED <<custody, seeded, saving, numbered, keys>>

\* Redis comes back empty; a mock vault has only what its process stored.
LoseRedis ==
    /\ blob # None
    /\ Fault
    /\ blob' = None
    /\ behind' = (behind \/ custody = "mock" \/ Overlap)
    /\ UNCHANGED <<custody, seeded, copy, saving, numbered, newest, keys>>

\* get_token: Redis, and then the vault.
GetToken(p) == IF blob # None THEN blob ELSE copy[p]

Next ==
    \/ \E p \in Process :
         \/ LoadSeed(p) \/ LoadVault(p) \/ LoadVaultFails(p)
         \/ Generate(p) \/ GenerateFails(p) \/ Restart(p)
         \/ SetToken(p) \/ SetTokenInVault(p) \/ ClearToken(p)
    \/ LoseRedis

Spec == Init /\ [][Next]_vars

-----------------------------------------------------------------------------
\* The token stored last can be decrypted by every process that has a key,
\* whatever restarts and whichever calls failed, unless a key took the place
\* of another or a write of a token was lost or overtaken (token_crypto.py
\* 74-157, microsoft/token_store.py 58-118).
TokenReadable ==
    ~forked /\ ~behind /\ newest # 0
        => \A p \in Process :
             key[p] # 0 => Decrypted(p, GetToken(p)) = newest
=============================================================================
