--------------------------- MODULE ServicesProofs ---------------------------
(***************************************************************************)
(* Theorems about the services, for all values of their constants: an      *)
(* invariant of one service is one of its own steps, and the steps of the  *)
(* others leave its variables alone.                                       *)
(***************************************************************************)
EXTENDS Services, Sequences, FiniteSetTheorems, TLAPS

-----------------------------------------------------------------------------
(* TokenKeys: the root key and the Microsoft tokens. *)

Token == [key : Nat, number : Nat]

\* Types.
KeysOK ==
    /\ custody \in {"shared", "mock"} /\ seeded \in BOOLEAN /\ forked \in BOOLEAN /\ behind \in BOOLEAN
    /\ root \in [Process -> Nat] /\ key \in [Process -> Nat] /\ loading \subseteq Process
    /\ minted \in Nat /\ minted # 0 /\ numbered \in Nat /\ newest \in Nat

StoreOK ==
    /\ blob \in Token \cup {None}
    /\ copy \in [Process -> Token \cup {None}] /\ saving \in [Process -> Token \cup {None}]

\* The key that all use while none took the place of another.
TheKey(p) == IF seeded THEN 1 ELSE root[p]

OneKey ==
    /\ custody = "shared" \/ seeded
    /\ seeded => loading = {}
    /\ \A p, q \in Process : TheKey(p) = TheKey(q)
    /\ \A p \in Process : key[p] \in {0, TheKey(p)}

Opens(token) == token # None => \A p \in Process : token.key = TheKey(p) /\ token.key # 0

\* Every token is of that key.
OfTheKey == Opens(blob) /\ \A p \in Process : Opens(copy[p]) /\ Opens(saving[p])

\* What is stored last is in Redis until every vault has it.
Fresh ==
    /\ \A p, q \in Process : saving[p] # None /\ saving[q] # None => p = q
    /\ \A p \in Process : saving[p] # None => blob # None /\ newest # 0 /\ saving[p].number = newest
    /\ newest # 0 =>
          /\ blob # None => blob.number = newest
          /\ blob = None => custody = "shared"
          /\ custody = "shared" /\ (\A p \in Process : saving[p] = None) =>
                \A p \in Process : copy[p] # None /\ copy[p].number = newest

KeysInv == KeysOK /\ StoreOK /\ (~forked => OneKey /\ OfTheKey) /\ (~behind => Fresh)

LEMMA KeysInit == ASSUME Keys!Init PROVE KeysInv
<1>1. forked \in BOOLEAN /\ seeded \in BOOLEAN /\ behind \in BOOLEAN /\ (~forked => custody = "shared" \/ seeded)
  BY Zenon DEF Keys!Init
<1>2. /\ custody \in {"shared", "mock"} /\ loading = {} /\ minted = 1 /\ numbered = 0 /\ newest = 0 /\ blob = None
      /\ root = [p \in Process |-> 0] /\ key = [p \in Process |-> 0]
      /\ copy = [p \in Process |-> None] /\ saving = [p \in Process |-> None]
  BY Zenon DEF Keys!Init
<1>3. KeysOK /\ StoreOK
  BY <1>1, <1>2 DEF KeysOK, StoreOK
<1>4. ~forked => OneKey /\ OfTheKey
  BY <1>1, <1>2 DEF OneKey, OfTheKey, Opens, TheKey
<1>5. Fresh
  BY <1>2 DEF Fresh
<1>. QED
  BY <1>3, <1>4, <1>5 DEF KeysInv

\* What a step makes of the keys.
LEMMA KeysStep ==
  ASSUME KeysInv, NEW p \in Process,
         \/ Keys!LoadSeed(p) \/ Keys!LoadVault(p) \/ Keys!LoadVaultFails(p) \/ Keys!Generate(p) \/ Keys!GenerateFails(p)
  PROVE  KeysInv'
<1>. USE DEF KeysOK
<1>0. KeysOK /\ StoreOK
  BY DEF KeysInv
<1>1. UNCHANGED <<blob, copy, saving, numbered, newest, behind, custody, seeded>>
  BY DEF Keys!LoadSeed, Keys!LoadVault, Keys!LoadVaultFails, Keys!Generate, Keys!GenerateFails, Keys!store
<1>2. StoreOK' /\ (~behind' => Fresh')
  BY <1>1 DEF KeysInv, StoreOK, Fresh
<1>3. ASSUME Keys!LoadSeed(p) PROVE KeysOK' /\ (~forked' => OneKey' /\ OfTheKey')
  <2>1. /\ seeded /\ key' = [key EXCEPT ![p] = 1] /\ UNCHANGED <<loading, minted, forked>>
        /\ root' = root \/ root' = Keys!Stored(root, p, 1)
    BY <1>3 DEF Keys!LoadSeed
  <2>2. root' \in [Process -> Nat]
    BY <1>0, <2>1 DEF Keys!Stored
  <2>3. KeysOK'
    BY <1>0, <1>1, <2>1, <2>2
  <2>4. \A q \in Process : TheKey(q) = 1 /\ TheKey(q)' = 1
    BY <1>1, <2>1 DEF TheKey
  <2>5. ~forked' => OneKey'
    BY <1>0, <1>1, <2>1, <2>4 DEF KeysInv, OneKey
  <2>6. ~forked' => OfTheKey'
    BY <1>0, <1>1, <2>1, <2>4 DEF KeysInv, OfTheKey, Opens
  <2>. QED
    BY <2>3, <2>5, <2>6
<1>4. ASSUME Keys!LoadVault(p) \/ Keys!LoadVaultFails(p) PROVE KeysOK' /\ (~forked' => OneKey' /\ OfTheKey')
  <2>1. /\ ~seeded /\ UNCHANGED <<root, minted, forked>>
        /\ \/ key' = [key EXCEPT ![p] = root[p]] /\ loading' = loading
           \/ key' = key /\ loading' = loading \cup {p}
    BY <1>4 DEF Keys!LoadVault, Keys!LoadVaultFails
  <2>2. KeysOK'
    BY <1>0, <1>1, <2>1
  <2>3. ~forked' => OneKey'
    BY <1>0, <1>1, <2>1 DEF KeysInv, OneKey, TheKey
  <2>4. ~forked' => OfTheKey'
    BY <1>0, <1>1, <2>1 DEF KeysInv, OfTheKey, Opens, TheKey
  <2>. QED
    BY <2>2, <2>3, <2>4
<1>5. ASSUME Keys!Generate(p) \/ Keys!GenerateFails(p) PROVE KeysOK' /\ (~forked' => OneKey' /\ OfTheKey')
  <2>1. /\ p \in loading /\ minted' = minted + 1 /\ loading' = loading \ {p}
        /\ key' = [key EXCEPT ![p] = minted'] \/ key' = key
        /\ \/ root' = root /\ forked' = forked /\ key' = key
           \/ root' = Keys!Stored(root, p, minted') /\ forked' = (forked \/ root[p] # 0)
    BY <1>5 DEF Keys!Generate, Keys!GenerateFails, Keys!Mint, Keys!Replaces, Keys!Cached
  <2>2. forked' \in BOOLEAN
    BY <1>0, <2>1, Zenon
  <2>3. root' \in [Process -> Nat]
    BY <1>0, <2>1 DEF Keys!Stored
  <2>4. minted' \in Nat /\ minted' # 0
    BY <1>0, <2>1
  <2>5. key' \in [Process -> Nat]
    BY <1>0, <2>1, <2>4
  <2>6. KeysOK'
    BY <1>0, <1>1, <2>1, <2>2, <2>3, <2>4, <2>5
  <2>7. ASSUME ~forked' PROVE OneKey' /\ OfTheKey'
    <3>1. ~forked
      BY <2>1, <2>7, Zenon
    <3>2. OneKey /\ OfTheKey /\ ~seeded /\ custody = "shared"
      BY <2>1, <3>1 DEF KeysInv, OneKey
    <3>3. CASE root' = root /\ key' = key
      BY <1>0, <1>1, <2>1, <3>2, <3>3 DEF OneKey, OfTheKey, Opens, TheKey
    <3>4. CASE root' = Keys!Stored(root, p, minted') /\ root[p] = 0
      <4>1. \A q \in Process : root[q] = 0 /\ key[q] = 0
        BY <1>0, <3>2, <3>4 DEF OneKey, TheKey
      <4>2. \A q \in Process : root'[q] = minted'
        BY <3>2, <3>4 DEF Keys!Stored
      <4>3. \A q \in Process : key'[q] \in {0, minted'}
        BY <1>0, <2>1, <4>1
      <4>4. blob = None /\ \A q \in Process : copy[q] = None /\ saving[q] = None
        BY <3>2, <4>1 DEF OfTheKey, Opens, TheKey
      <4>5. OneKey'
        BY <1>1, <3>2, <4>2, <4>3 DEF OneKey, TheKey
      <4>. QED
        BY <1>1, <4>4, <4>5 DEF OfTheKey, Opens
    <3>. QED
      BY <2>1, <2>7, <3>3, <3>4, Zenon
  <2>. QED
    BY <2>6, <2>7
<1>. QED
  BY <1>2, <1>3, <1>4, <1>5 DEF KeysInv

\* A process that starts again, and a token that is stored or goes.
LEMMA StoreStep ==
  ASSUME KeysInv, NEW p \in Process,
         \/ Keys!Restart(p) \/ Keys!SetToken(p) \/ Keys!SetTokenInVault(p) \/ Keys!ClearToken(p)
  PROVE  KeysInv'
<1>. USE DEF KeysOK, StoreOK
<1>0. KeysOK /\ StoreOK
  BY DEF KeysInv
<1>1. CASE Keys!Restart(p)
  <2>1. /\ key' = [key EXCEPT ![p] = 0] /\ loading' = loading \ {p} /\ saving' = [saving EXCEPT ![p] = None]
        /\ IF custody = "mock" THEN root' = [root EXCEPT ![p] = 0] /\ copy' = [copy EXCEPT ![p] = None]
                               ELSE root' = root /\ copy' = copy
        /\ UNCHANGED <<custody, seeded, minted, forked, blob, numbered, newest>>
    BY <1>1 DEF Keys!Restart
  <2>2. behind' \in BOOLEAN /\ (~behind' => ~behind /\ saving[p] = None)
    BY <1>1, Zenon DEF Keys!Restart
  <2>3. KeysOK' /\ StoreOK'
    BY <1>0, <2>1, <2>2
  <2>4. ASSUME ~forked PROVE OneKey' /\ OfTheKey'
    <3>1. OneKey /\ OfTheKey
      BY <2>4 DEF KeysInv
    <3>2. \A q \in Process : TheKey(q)' = TheKey(q)
      BY <1>0, <2>1, <3>1 DEF TheKey, OneKey
    <3>3. OneKey'
      BY <1>0, <2>1, <3>1, <3>2 DEF OneKey
    <3>4. OfTheKey'
      BY <1>0, <2>1, <3>1, <3>2 DEF OfTheKey, Opens
    <3>. QED
      BY <3>3, <3>4
  <2>5. ASSUME ~behind' PROVE Fresh'
    <3>1. Fresh /\ saving' = saving
      BY <1>0, <2>1, <2>2, <2>5 DEF KeysInv
    <3>. QED
      BY <1>0, <2>1, <3>1 DEF Fresh
  <2>. QED
    BY <2>1, <2>3, <2>4, <2>5 DEF KeysInv
<1>2. CASE Keys!SetToken(p)
  <2>. DEFINE new == [key |-> key[p], number |-> numbered']
  <2>1. /\ key[p] # 0 /\ saving[p] = None /\ numbered' = numbered + 1 /\ newest' = numbered'
        /\ saving' = [saving EXCEPT ![p] = new] /\ blob' \in {blob, new}
        /\ UNCHANGED <<custody, seeded, copy, root, key, loading, minted, forked>>
    BY <1>2 DEF Keys!SetToken, Keys!Encrypted, Keys!keys
  <2>2. /\ behind' \in BOOLEAN
        /\ ~behind' => ~behind /\ blob' = new /\ \A q \in Process : saving[q] = None
    BY <1>2, Zenon DEF Keys!SetToken, Keys!Overlap, Keys!Encrypted
  <2>3. new \in Token /\ new.key = key[p] /\ new.number = numbered' /\ numbered' # 0 /\ numbered' \in Nat
    BY <1>0, <2>1 DEF Token
  <2>. HIDE DEF new
  <2>4. KeysOK' /\ StoreOK'
    BY <1>0, <2>1, <2>2, <2>3
  <2>5. ASSUME ~forked PROVE OneKey' /\ OfTheKey'
    <3>1. OneKey /\ OfTheKey
      BY <2>5 DEF KeysInv
    <3>2. \A q \in Process : TheKey(q)' = TheKey(q)
      BY <2>1 DEF TheKey
    <3>3. \A q \in Process : new.key = TheKey(q)
      BY <1>0, <2>1, <2>3, <3>1 DEF OneKey
    <3>. QED
      BY <1>0, <2>1, <2>3, <3>1, <3>2, <3>3 DEF OneKey, OfTheKey, Opens
  <2>6. ASSUME ~behind' PROVE Fresh'
    <3>1. blob' # None /\ blob'.number = newest' /\ newest' # 0
      BY NoneAssumption, <2>1, <2>2, <2>3, <2>6 DEF Token
    <3>2. saving'[p] = new /\ \A q \in Process : q # p => saving'[q] = None
      BY <1>0, <2>1, <2>2, <2>6
    <3>. QED
      BY NoneAssumption, <2>1, <2>3, <3>1, <3>2 DEF Fresh, Token
  <2>. QED
    BY <2>1, <2>4, <2>5, <2>6 DEF KeysInv
<1>3. CASE Keys!SetTokenInVault(p)
  <2>1. /\ saving[p] # None /\ saving' = [saving EXCEPT ![p] = None]
        /\ \/ copy' = Keys!Stored(copy, p, saving[p]) /\ behind' = behind
           \/ behind' = TRUE /\ copy' = copy
        /\ UNCHANGED <<custody, seeded, blob, numbered, newest, root, key, loading, minted, forked>>
    BY <1>3 DEF Keys!SetTokenInVault, Keys!keys
  <2>2. copy' \in [Process -> Token \cup {None}]
    BY <1>0, <2>1 DEF Keys!Stored
  <2>3. KeysOK' /\ StoreOK'
    BY <1>0, <2>1, <2>2
  <2>4. ASSUME ~forked PROVE OneKey' /\ OfTheKey'
    <3>1. OneKey /\ OfTheKey
      BY <2>4 DEF KeysInv
    <3>2. \A q \in Process : TheKey(q)' = TheKey(q)
      BY <2>1 DEF TheKey
    <3>3. \A q \in Process : copy'[q] \in {copy[q], saving[p]}
      BY <1>0, <2>1 DEF Keys!Stored
    <3>. QED
      BY <1>0, <2>1, <3>1, <3>2, <3>3 DEF OneKey, OfTheKey, Opens
  <2>5. ASSUME ~behind' PROVE Fresh'
    <3>1. Fresh /\ copy' = Keys!Stored(copy, p, saving[p])
      BY <2>1, <2>5 DEF KeysInv
    <3>2. blob # None /\ newest # 0 /\ saving[p].number = newest
      BY <2>1, <3>1 DEF Fresh
    <3>3. \A q \in Process : saving'[q] = None
      BY <1>0, <2>1, <3>1 DEF Fresh
    <3>4. custody = "shared" => \A q \in Process : copy'[q] = saving[p]
      BY <3>1 DEF Keys!Stored
    <3>. QED
      BY <2>1, <3>1, <3>2, <3>3, <3>4 DEF Fresh
  <2>. QED
    BY <2>1, <2>3, <2>4, <2>5 DEF KeysInv
<1>4. CASE Keys!ClearToken(p)
  <2>1. /\ newest' = 0 /\ blob' \in {None, blob}
        /\ copy' = copy \/ copy' = [copy EXCEPT ![p] = None]
        /\ UNCHANGED <<custody, seeded, saving, numbered, root, key, loading, minted, forked>>
    BY <1>4 DEF Keys!ClearToken, Keys!keys
  <2>2. behind' \in BOOLEAN /\ (~behind' => ~behind /\ \A q \in Process : saving[q] = None)
    BY <1>4, Zenon DEF Keys!ClearToken, Keys!Overlap
  <2>3. KeysOK' /\ StoreOK'
    BY <1>0, <2>1, <2>2
  <2>4. ASSUME ~forked PROVE OneKey' /\ OfTheKey'
    <3>1. OneKey /\ OfTheKey
      BY <2>4 DEF KeysInv
    <3>2. \A q \in Process : TheKey(q)' = TheKey(q)
      BY <2>1 DEF TheKey
    <3>. QED
      BY <1>0, <2>1, <3>1, <3>2 DEF OneKey, OfTheKey, Opens
  <2>5. ~behind' => Fresh'
    BY <1>0, <2>1, <2>2 DEF Fresh
  <2>. QED
    BY <2>1, <2>3, <2>4, <2>5 DEF KeysInv
<1>. QED
  BY <1>1, <1>2, <1>3, <1>4

\* Redis comes back empty: the shared vault has the token, or behind says so.
LEMMA LoseStep ==
  ASSUME KeysInv, Keys!LoseRedis
  PROVE  KeysInv'
<1>. USE DEF KeysOK, StoreOK
<1>0. KeysOK /\ StoreOK
  BY DEF KeysInv
<1>1. blob' = None /\ UNCHANGED <<custody, seeded, copy, saving, numbered, newest, root, key, loading, minted, forked>>
  BY DEF Keys!LoseRedis, Keys!keys
<1>2. /\ behind' \in BOOLEAN
      /\ ~behind' => ~behind /\ custody # "mock" /\ \A q \in Process : saving[q] = None
  BY Zenon DEF Keys!LoseRedis, Keys!Overlap
<1>3. KeysOK' /\ StoreOK'
  BY <1>0, <1>1, <1>2
<1>4. ASSUME ~forked PROVE OneKey' /\ OfTheKey'
  <2>1. OneKey /\ OfTheKey
    BY <1>4 DEF KeysInv
  <2>. QED
    BY <1>1, <2>1 DEF OneKey, OfTheKey, Opens, TheKey
<1>5. ~behind' => Fresh'
  BY <1>0, <1>1, <1>2 DEF KeysInv, Fresh
<1>. QED
  BY <1>1, <1>3, <1>4, <1>5 DEF KeysInv

LEMMA KeysNext ==
  ASSUME KeysInv, Keys!Next PROVE KeysInv'
<1>1. CASE \E p \in Process : \/ Keys!LoadSeed(p) \/ Keys!LoadVault(p) \/ Keys!LoadVaultFails(p)
                              \/ Keys!Generate(p) \/ Keys!GenerateFails(p)
  BY <1>1, KeysStep
<1>2. CASE \E p \in Process : \/ Keys!Restart(p) \/ Keys!SetToken(p) \/ Keys!SetTokenInVault(p) \/ Keys!ClearToken(p)
  BY <1>2, StoreStep
<1>. QED
  BY <1>1, <1>2, LoseStep DEF Keys!Next

\* The token stored last can be decrypted by every process that has a key, unless
\* a key took the place of another or a write was lost or overtaken; for any
\* processes, keys, tokens and failures (TokenKeys).
THEOREM StoredTokensOpen == Spec => []TokenReadable
<1>1. Init => KeysInv
  BY KeysInit DEF Init
<1>2. KeysInv /\ [Next]_all => KeysInv'
  <2>. SUFFICES ASSUME KeysInv, [Next]_all PROVE KeysInv'
    OBVIOUS
  <2>1. Keys!Next \/ UNCHANGED tokenkeys
    BY Zenon DEF Next, all
  <2>2. CASE UNCHANGED tokenkeys
    BY <2>2 DEF tokenkeys, KeysInv, KeysOK, StoreOK, OneKey, OfTheKey, Opens, TheKey, Fresh
  <2>. QED
    BY <2>1, <2>2, KeysNext
<1>3. KeysInv => TokenReadable
  <2>. SUFFICES ASSUME KeysInv, ~forked, ~behind, newest # 0, NEW p \in Process, key[p] # 0
                PROVE  Keys!Decrypted(p, Keys!GetToken(p)) = newest
    BY DEF TokenReadable, Keys!TokenReadable
  <2>1. KeysOK /\ StoreOK /\ OneKey /\ OfTheKey /\ Fresh
    BY DEF KeysInv
  <2>2. key[p] = TheKey(p)
    BY <2>1 DEF OneKey
  <2>3. CASE blob # None
    BY <2>1, <2>2, <2>3 DEF Keys!GetToken, Keys!Decrypted, OfTheKey, Opens, Fresh
  <2>4. CASE blob = None
    <3>1. copy[p] # None /\ copy[p].number = newest
      BY <2>1, <2>4 DEF Fresh
    <3>. QED
      BY <2>1, <2>2, <2>4, <3>1 DEF Keys!GetToken, Keys!Decrypted, OfTheKey, Opens
  <2>. QED
    BY <2>3, <2>4
<1>. QED
  BY <1>1, <1>2, <1>3, PTL DEF Spec
-----------------------------------------------------------------------------
(* PrincipalMatch: which principal an address has. *)

IdentityRow == [id : Nat, names : [Source -> Name \cup {None}]]

Call == [step : {"address", "username", "create", "update"}, id : Nat,
         address : Address \cup {None}, source : Source, name : Name,
         username : Name \cup {None}, read : IdentityRow \cup {None}]

\* What the theorems assume of the constants.
NoneApart ==
    /\ None \notin IdentityRow /\ None \notin Call /\ None \notin Name
    /\ None \notin Address

\* Types, HoldsItsRow and the property itself are the inductive invariant.
MatchOK ==
    /\ principals \in [Address -> IdentityRow \cup {None}]
    /\ matching \in [Worker -> Call \cup {None}]
    /\ matched \subseteq [address : Address, source : Source, id : Nat]
    /\ overtaken \subseteq Address
    /\ calls \in Nat

\* A call that looks an address up has one, and a call that is about to write a
\* row back holds a copy of the row its address has, whose id never changes.
HoldsItsRow ==
    \A w \in Worker : LET c == matching[w] IN
        c # None =>
            /\ c.step \in {"address", "create", "update"} => c.address \in Address
            /\ c.step = "update" =>
                 /\ c.read \in IdentityRow
                 /\ principals[c.address] # None
                 /\ principals[c.address].id = c.read.id

IdentityInv == MatchOK /\ HoldsItsRow /\ Match!SameIdentity

-----------------------------------------------------------------------------
\* Nothing is stored and nobody asks in the initial state.
LEMMA InitIdentity == Match!Init => IdentityInv
BY DEF Match!Init, IdentityInv, MatchOK, HoldsItsRow, Match!SameIdentity

\* A call is put into its first step.
LEMMA ResolveKeeps ==
    ASSUME NoneApart, IdentityInv, NEW w \in Worker, NEW a \in Match!Normalized, NEW s \in Source,
           NEW n \in Name, NEW u \in Name \cup {None}, Match!Resolve(w, a, s, n, u)
    PROVE  IdentityInv'
<1> DEFINE c == [step |-> IF a = None THEN "username" ELSE "address", id |-> calls',
                 address |-> a, source |-> s, name |-> n, username |-> u, read |-> None]
<1>1. c \in Call /\ calls' \in Nat
  BY DEF Match!Resolve, Match!Normalized, Call, IdentityInv, MatchOK
<1>2. MatchOK'
  BY <1>1 DEF Match!Resolve, IdentityInv, MatchOK
<1>3. c.step # "update" /\ (c.step = "address" => c.address \in Address) /\ c.step # "create"
  BY DEF Match!Normalized
<1>4. matching' = [matching EXCEPT ![w] = c]
  BY DEF Match!Resolve
<1>5. HoldsItsRow'
  BY <1>3, <1>4 DEF Match!Resolve, IdentityInv, MatchOK, HoldsItsRow
<1>6. Match!SameIdentity'
  BY DEF Match!Resolve, IdentityInv, Match!SameIdentity
<1> QED  BY <1>2, <1>5, <1>6 DEF IdentityInv

\* A call of which a row was found answers, or goes on to write the row back.
LEMMA FoundKeeps ==
    ASSUME NoneApart, IdentityInv, NEW w \in Worker, matching[w] # None,
           matching[w].address \in Address, principals[matching[w].address] # None,
           Match!Found(w, principals[matching[w].address]),
           UNCHANGED <<principals, overtaken, calls>>
    PROVE  IdentityInv'
<1> DEFINE c == matching[w]
           found == principals[c.address]
<1>1. c \in Call /\ found \in IdentityRow
  BY DEF IdentityInv, MatchOK
<1>2. CASE found.names[c.source] # None
  <2>1. matching' = [matching EXCEPT ![w] = None]
        /\ matched' = matched \cup {[address |-> c.address, source |-> c.source, id |-> found.id]}
    BY <1>2 DEF Match!Found, Match!Answers
  <2>2. MatchOK'
    BY <1>1, <2>1 DEF IdentityInv, MatchOK, Call, IdentityRow
  <2>3. HoldsItsRow'
    BY <2>1 DEF IdentityInv, MatchOK, HoldsItsRow
  <2>4. Match!SameIdentity'
    BY <1>2, <2>1 DEF IdentityInv, Match!SameIdentity
  <2> QED  BY <2>2, <2>3, <2>4 DEF IdentityInv
<1>3. CASE found.names[c.source] = None
  <2> DEFINE d == [[c EXCEPT !.step = "update"] EXCEPT !.read = found]
  <2>1. matching' = [matching EXCEPT ![w] = d] /\ matched' = matched
    BY <1>1, <1>3 DEF Match!Found, IdentityInv, MatchOK
  <2>2. d \in Call /\ d.step = "update" /\ d.address = c.address /\ d.read = found
    BY <1>1 DEF Call
  <2>3. MatchOK'
    BY <2>1, <2>2 DEF IdentityInv, MatchOK
  <2>4. HoldsItsRow'
    BY <1>1, <2>1, <2>2 DEF IdentityInv, MatchOK, HoldsItsRow
  <2>5. Match!SameIdentity'
    BY <2>1 DEF IdentityInv, Match!SameIdentity
  <2> QED  BY <2>3, <2>4, <2>5 DEF IdentityInv
<1> QED  BY <1>2, <1>3

\* A call that ends without an answer, or goes on to another look.
LEMMA MovesKeep ==
    ASSUME NoneApart, IdentityInv, NEW w \in Worker, matching[w] # None,
           \/ Match!Leaves(w)
           \/ Match!Steps(w, "username") /\ UNCHANGED matched
           \/ matching[w].address \in Address /\ Match!Steps(w, "create") /\ UNCHANGED matched,
           UNCHANGED <<principals, overtaken, calls>>
    PROVE  IdentityInv'
<1>1. matched' = matched
  BY DEF Match!Leaves
<1>2. matching' \in [Worker -> Call \cup {None}]
  BY DEF IdentityInv, MatchOK, Match!Leaves, Match!Steps, Call
<1>3. MatchOK'
  BY <1>1, <1>2 DEF IdentityInv, MatchOK
<1>4. HoldsItsRow'
  BY DEF IdentityInv, MatchOK, HoldsItsRow, Match!Leaves, Match!Steps, Call
<1>5. Match!SameIdentity'
  BY <1>1 DEF IdentityInv, Match!SameIdentity
<1> QED  BY <1>3, <1>4, <1>5 DEF IdentityInv

\* A row is created where there was none, so that no held copy is of it.
LEMMA CreateKeeps ==
    ASSUME NoneApart, IdentityInv, NEW w \in Worker, Match!CreatePrincipal(w)
    PROVE  IdentityInv'
<1> DEFINE c == matching[w]
           new == Match!Row(c.id, c.source, c.name)
<1>1. c # None /\ c \in Call /\ c.address \in Address /\ principals[c.address] = None
  BY DEF Match!CreatePrincipal, Match!At, IdentityInv, MatchOK, HoldsItsRow
<1>2. new \in IdentityRow /\ new.id = c.id /\ new.names[c.source] = c.name
  BY <1>1 DEF Match!Row, IdentityRow, Call
<1>3. principals' = [principals EXCEPT ![c.address] = new]
      /\ matching' = [matching EXCEPT ![w] = None]
      /\ matched' = matched \cup {[address |-> c.address, source |-> c.source, id |-> c.id]}
      /\ overtaken' = overtaken /\ calls' = calls
  BY DEF Match!CreatePrincipal, Match!Answers
<1>4. MatchOK'
  BY <1>1, <1>2, <1>3 DEF IdentityInv, MatchOK, Call
<1>5. HoldsItsRow'
  BY <1>1, <1>2, <1>3 DEF IdentityInv, MatchOK, HoldsItsRow
<1>6. c.name # None /\ new # None
  BY <1>1, <1>2 DEF NoneApart, Call
<1>7. Match!SameIdentity'
  BY <1>1, <1>2, <1>3, <1>6 DEF IdentityInv, MatchOK, Match!SameIdentity
<1> QED  BY <1>4, <1>5, <1>7 DEF IdentityInv

\* The copy written back has the row's id; the names it lacks are lost, and
\* then the address counts as overtaken.
LEMMA UpdateKeeps ==
    ASSUME NoneApart, IdentityInv, NEW w \in Worker, Match!UpdatePrincipal(w)
    PROVE  IdentityInv'
<1> DEFINE c == matching[w]
           new == [c.read EXCEPT !.names[c.source] = c.name]
<1>1. c # None /\ c \in Call /\ c.address \in Address /\ c.read \in IdentityRow
      /\ principals[c.address] # None /\ principals[c.address].id = c.read.id
  BY DEF Match!UpdatePrincipal, Match!At, IdentityInv, MatchOK, HoldsItsRow
<1>2. new \in IdentityRow /\ new.id = c.read.id /\ new.names[c.source] = c.name
      /\ \A s \in Source : c.read.names[s] # None => new.names[s] # None
  BY <1>1 DEF IdentityRow, Call, NoneApart
<1>3. principals' = [principals EXCEPT ![c.address] = new]
      /\ matching' = [matching EXCEPT ![w] = None]
      /\ matched' = matched \cup {[address |-> c.address, source |-> c.source, id |-> c.read.id]}
      /\ overtaken' = (IF principals[c.address] = c.read THEN overtaken
                       ELSE overtaken \cup {c.address})
      /\ calls' = calls
  BY DEF Match!UpdatePrincipal, Match!Answers
<1>4. MatchOK'
  BY <1>1, <1>2, <1>3 DEF IdentityInv, MatchOK, Call, IdentityRow
<1>5. HoldsItsRow'
  BY <1>1, <1>2, <1>3 DEF IdentityInv, MatchOK, HoldsItsRow, NoneApart
<1>6. c.name # None /\ new # None
  BY <1>1, <1>2 DEF NoneApart, Call
<1>7. Match!SameIdentity'
  <2> SUFFICES ASSUME NEW m \in matched'
               PROVE  /\ principals'[m.address] # None /\ principals'[m.address].id = m.id
                      /\ m.address \in overtaken' \/ principals'[m.address].names[m.source] # None
    BY DEF Match!SameIdentity
  <2>1. m.address \in Address /\ m.source \in Source
    BY <1>1, <1>3 DEF IdentityInv, MatchOK, Call
  <2>2. CASE m.address # c.address
    BY <1>3, <2>1, <2>2 DEF IdentityInv, MatchOK, Match!SameIdentity
  <2>3. CASE m.address = c.address
    <3>1. principals'[m.address] = new
      BY <1>1, <1>3, <2>3 DEF IdentityInv, MatchOK
    <3>2. m.id = c.read.id
      BY <1>1, <1>3, <2>3 DEF IdentityInv, Match!SameIdentity
    <3>3. CASE principals[c.address] = c.read
      <4>1. CASE m \in matched
        <5>1. m.address \in overtaken \/ principals[m.address].names[m.source] # None
          BY <4>1 DEF IdentityInv, Match!SameIdentity
        <5>2. m.address \in overtaken' \/ c.read.names[m.source] # None
          BY <1>3, <2>3, <3>3, <5>1
        <5>3. m.address \in overtaken' \/ new.names[m.source] # None
          BY <1>2, <2>1, <5>2
        <5> QED  BY <1>2, <1>6, <3>1, <3>2, <5>3
      <4>2. CASE m \notin matched
        <5>1. m.source = c.source
          BY <1>3, <4>2
        <5>2. new.names[m.source] # None
          BY <1>2, <1>6, <5>1
        <5> QED  BY <1>2, <1>6, <3>1, <3>2, <5>2
      <4> QED  BY <4>1, <4>2
    <3>4. CASE principals[c.address] # c.read
      BY <1>2, <1>3, <1>6, <2>3, <3>1, <3>2, <3>4
    <3> QED  BY <3>3, <3>4
  <2> QED  BY <2>2, <2>3
<1> QED  BY <1>4, <1>5, <1>7 DEF IdentityInv

\* Every step keeps the invariant: one case per action.
LEMMA NextKeeps ==
    ASSUME NoneApart, IdentityInv, Match!Next
    PROVE  IdentityInv'
<1>2. ASSUME NEW w \in Worker, Match!MatchByEmail(w)  PROVE IdentityInv'
  <2>1. matching[w] # None /\ matching[w].address \in Address
    BY <1>2 DEF Match!MatchByEmail, Match!At, IdentityInv, HoldsItsRow
  <2>2. CASE principals[matching[w].address] # None
    BY <1>2, <2>1, <2>2, FoundKeeps DEF Match!MatchByEmail
  <2>3. CASE principals[matching[w].address] = None
    BY <1>2, <2>1, <2>3, MovesKeep DEF Match!MatchByEmail
  <2> QED  BY <2>2, <2>3
<1>3. ASSUME NEW w \in Worker, Match!MatchByUsername(w)  PROVE IdentityInv'
  <2>1. matching[w] # None /\ matching[w] \in Call
    BY <1>3 DEF Match!MatchByUsername, Match!At, IdentityInv, MatchOK
  <2>2. matching[w].address # None => matching[w].address \in Address
    BY <2>1 DEF Call
  <2> QED  BY <1>3, <2>1, <2>2, MovesKeep DEF Match!MatchByUsername
<1>4. ASSUME NEW w \in Worker, Match!CreateRefused(w)  PROVE IdentityInv'
  <2>1. matching[w] # None /\ matching[w].address \in Address
    BY <1>4 DEF Match!CreateRefused, Match!At, IdentityInv, HoldsItsRow
  <2> QED  BY <1>4, <2>1, FoundKeeps DEF Match!CreateRefused, Match!LoseRace
<1>5. ASSUME NEW w \in Worker, Match!WriteFails(w)  PROVE IdentityInv'
  <2>1. matching[w] # None
    BY <1>5 DEF Match!WriteFails, Match!At
  <2> QED  BY <1>5, <2>1, MovesKeep DEF Match!WriteFails
<1> QED
  BY <1>2, <1>3, <1>4, <1>5, ResolveKeeps, CreateKeeps, UpdateKeeps DEF Match!Next

\* However calls overlap, an address keeps the principal it was answered with,
\* and a source that matched it stays known to it unless a write-back of an
\* older copy took it away; for any addresses, sources, names and workers
\* (PrincipalMatch).
THEOREM OnePrincipalPerAddress == Spec => []SameIdentity
<1>0. NoneApart
  BY NoneAssumption DEF NoneApart, IdentityRow, Call
<1>1. Init => IdentityInv
  BY <1>0, InitIdentity DEF Init
<1>2. IdentityInv /\ [Next]_all => IdentityInv'
  <2>. SUFFICES ASSUME IdentityInv, [Next]_all PROVE IdentityInv'
    OBVIOUS
  <2>1. Match!Next \/ UNCHANGED people
    BY Zenon DEF Next, all
  <2>2. CASE UNCHANGED people
    BY <2>2 DEF people, IdentityInv, MatchOK, HoldsItsRow, Match!SameIdentity
  <2>. QED
    BY <1>0, <2>1, <2>2, NextKeeps
<1>3. IdentityInv => SameIdentity
  BY DEF IdentityInv, SameIdentity
<1>. QED
  BY <1>1, <1>2, <1>3, PTL DEF Spec
-----------------------------------------------------------------------------
(* TenantRouting: the way to a tenant's database. *)

Resolution == [step : {"secret", "engine"}, hit : BOOLEAN, host : Routes!Host, password : Nat,
               guess : BOOLEAN, old : BOOLEAN]
Engine == [to : {"own", "cloud"}, host : Routes!Host, password : Nat, guess : BOOLEAN, old : BOOLEAN]

RoutesOK ==
    /\ vault \in {"shared", "mock"} /\ control \in Nat /\ real \in Nat
    /\ secret \in [Process -> Nat]
    /\ address \in Routes!Host \cup {None} /\ hint \in Routes!Host \cup {None}
    /\ resolving \in [Process -> Resolution \cup {None}]
    /\ engine \in [Process -> Engine \cup {None}]
    /\ rotating \in BOOLEAN /\ outdated \in BOOLEAN

\* Before the tenant is there, nobody resolves it.
NotYet == address = None =>
    /\ hint = None /\ ~rotating
    /\ \A p \in Process : resolving[p] = None /\ engine[p] = None

\* Redis holds the row's host, and the vault the database's password, but for
\* what outdated and rotating say.
Names   == hint # None /\ ~outdated => hint = address
Secrets == /\ rotating => vault = "shared"
           /\ vault = "shared" /\ ~rotating => \A p \in Process : secret[p] \in {0, real}

\* A request in progress has what the row and the vault hold.
Resolved(r) == /\ ~r.old => r.host = address
               /\ r.step = "engine" /\ ~r.guess /\ ~r.old => r.password = real
Opened(e) == ~e.guess /\ ~e.old /\ e.to = "own" => e.host = address /\ e.password = real
Requests == \A p \in Process : resolving[p] # None => Resolved(resolving[p])
Engines  == \A p \in Process : engine[p] # None => Opened(engine[p])

RoutesInv == RoutesOK /\ NotYet /\ Names /\ Secrets /\ Requests /\ Engines

RouteApart == None \notin Resolution /\ None \notin Engine /\ None \notin Routes!Host

LEMMA RoutesInit == ASSUME Routes!Init PROVE RoutesInv
<1>1. /\ vault \in {"shared", "mock"} /\ control \in {0, 1} /\ real = 1 /\ secret = [p \in Process |-> 0]
      /\ address = None /\ hint = None /\ rotating = FALSE /\ outdated = FALSE
      /\ resolving = [p \in Process |-> None] /\ engine = [p \in Process |-> None]
  BY Zenon DEF Routes!Init
<1>2. RoutesOK
  <2>1. rotating \in BOOLEAN /\ outdated \in BOOLEAN
    BY <1>1, Zenon
  <2>. QED
    BY <1>1, <2>1 DEF RoutesOK
<1>3. NotYet /\ Names /\ Requests /\ Engines
  BY <1>1 DEF NotYet, Names, Requests, Engines
<1>4. Secrets
  BY <1>1 DEF Secrets
<1>. QED
  BY <1>2, <1>3, <1>4 DEF RoutesInv

\* The tenant is created, Redis forgets, or the password reaches the vault.
LEMMA StoredStep ==
  ASSUME RouteApart, RoutesInv,
         \/ \E p \in Process, h \in Routes!Host : Routes!CreateTenant(p, h)
         \/ \E p \in Process : Routes!StorePassword(p)
         \/ Routes!Expire
  PROVE  RoutesInv'
<1>1. CASE \E p \in Process, h \in Routes!Host : Routes!CreateTenant(p, h)
  <2>1. PICK p \in Process, h \in Routes!Host : Routes!CreateTenant(p, h)
    BY <1>1
  <2>2. /\ address = None /\ address' = h
        /\ secret' = [q \in Process |-> IF vault = "shared" \/ q = p THEN real ELSE secret[q]]
        /\ UNCHANGED <<vault, control, real, hint, resolving, engine, rotating, outdated>>
    BY <2>1 DEF Routes!CreateTenant, Routes!Stored, Routes!setting
  <2>3. RoutesOK' /\ Secrets'
    BY <2>2 DEF RoutesInv, RoutesOK, Secrets
  <2>. QED
    BY <2>2, <2>3 DEF RouteApart, RoutesInv, NotYet, Names, Requests, Engines
<1>2. CASE \E p \in Process : Routes!StorePassword(p)
  <2>1. PICK p \in Process : Routes!StorePassword(p)
    BY <1>2
  <2>2. /\ rotating /\ rotating' = FALSE
        /\ secret' = [q \in Process |-> IF vault = "shared" \/ q = p THEN real ELSE secret[q]]
        /\ UNCHANGED <<vault, control, real, address, hint, resolving, engine, outdated>>
    BY <2>1 DEF Routes!StorePassword, Routes!Stored, Routes!setting
  <2>3. RoutesOK' /\ Secrets'
    BY <2>2 DEF RoutesInv, RoutesOK, Secrets
  <2>. QED
    BY <2>2, <2>3 DEF RoutesInv, NotYet, Names, Requests, Engines, Resolved, Opened
<1>3. CASE Routes!Expire
  <2>1. /\ hint' = None /\ outdated' = FALSE
        /\ UNCHANGED <<vault, control, real, secret, address, resolving, engine, rotating>>
    BY <1>3 DEF Routes!Expire, Routes!setting
  <2>. QED
    BY <2>1 DEF RoutesInv, RoutesOK, NotYet, Names, Secrets, Requests, Engines, Resolved, Opened
<1>. QED
  BY <1>1, <1>2, <1>3

\* A request of p goes on as r.
LEMMA RequestStep ==
  ASSUME RouteApart, RoutesInv, NEW p \in Process, NEW r \in Resolution \cup {None},
         resolving' = [resolving EXCEPT ![p] = r],
         r # None => Resolved(r) /\ address # None,
         UNCHANGED <<vault, control, real, address, engine, rotating>>,
         vault = "shared" => secret' = secret, secret' \in [Process -> Nat],
         \/ UNCHANGED <<hint, outdated>>
         \/ /\ hint' \in Routes!Host /\ outdated' \in BOOLEAN /\ address # None
            /\ ~outdated' => hint' = address
  PROVE  RoutesInv'
<1>1. RoutesOK'
  BY DEF RoutesInv, RoutesOK
<1>2. NotYet' /\ Names' /\ Secrets'
  BY DEF RoutesInv, RoutesOK, NotYet, Names, Secrets
<1>3. Requests' /\ Engines'
  BY DEF RoutesInv, RoutesOK, Requests, Engines, Resolved, Opened
<1>. QED
  BY <1>1, <1>2, <1>3 DEF RoutesInv

\* What a request has read is what Redis or the row holds.
LEMMA ReadResolved ==
  ASSUME RouteApart, RoutesInv, address # None
  PROVE  /\ hint # None => Routes!Read(hint, TRUE) \in Resolution /\ Resolved(Routes!Read(hint, TRUE))
         /\ Routes!Read(address, FALSE) \in Resolution /\ Resolved(Routes!Read(address, FALSE))
<1>1. (TRUE /\ outdated) \in BOOLEAN /\ (FALSE /\ outdated) \in BOOLEAN /\ ((TRUE /\ outdated) <=> outdated)
  BY Zenon DEF RoutesInv, RoutesOK
<1>2. address \in Routes!Host /\ (hint # None => hint \in Routes!Host)
  BY DEF RoutesInv, RoutesOK
<1>. QED
  BY <1>1, <1>2 DEF Routes!Read, Resolution, Resolved, RoutesInv, Names

LEMMA ResolveStep ==
  ASSUME RouteApart, RoutesInv, NEW p \in Process, Routes!Resolve(p) PROVE RoutesInv'
<1>. DEFINE r == IF hint # None THEN Routes!Read(hint, TRUE) ELSE Routes!Read(address, FALSE)
<1>1. /\ address # None /\ resolving' = [resolving EXCEPT ![p] = r]
      /\ UNCHANGED <<vault, control, real, secret, address, engine, rotating, hint, outdated>>
  BY DEF Routes!Resolve, Routes!setting
<1>2. r \in Resolution /\ Resolved(r)
  BY <1>1, ReadResolved
<1>3. secret' \in [Process -> Nat]
  BY <1>1 DEF RoutesInv, RoutesOK
<1>. HIDE DEF r
<1>. QED
  BY <1>1, <1>2, <1>3, RequestStep

\* The password a request goes on with is the database's, or a guess, or old.
LEMMA HoldsStep ==
  ASSUME RouteApart, RoutesInv, NEW p \in Process, Routes!At(p, "secret"),
         NEW password \in Nat, NEW guess \in BOOLEAN,
         Routes!Holds(p, password, guess), Routes!Remember(p),
         ~guess /\ ~rotating => password = real,
         vault = "shared" => secret' = secret, secret' \in [Process -> Nat],
         UNCHANGED <<vault, control, real, address, engine, rotating>>
  PROVE  RoutesInv'
<1>. DEFINE r == resolving[p]
            old == r.old \/ rotating
            d == [r EXCEPT !.step = "engine", !.password = password, !.guess = guess, !.old = old]
<1>1. r # None /\ r \in Resolution /\ Resolved(r) /\ address # None
  BY DEF Routes!At, RoutesInv, RoutesOK, Requests, NotYet
<1>2. resolving' = [resolving EXCEPT ![p] = d]
  BY Zenon DEF Routes!Holds
<1>3. r.old \in BOOLEAN /\ r.host \in Routes!Host
  BY <1>1 DEF Resolution
<1>4. old \in BOOLEAN /\ (~old => ~r.old /\ ~rotating)
  BY <1>3, Zenon DEF RoutesInv, RoutesOK
<1>. HIDE DEF old
<1>5. /\ d \in Resolution /\ d.host = r.host /\ d.old = old /\ d.password = password /\ d.guess = guess
  BY <1>1, <1>4 DEF Resolution
<1>. HIDE DEF d
<1>6. Resolved(d)
  BY <1>1, <1>4, <1>5 DEF Resolved
<1>7. \/ UNCHANGED <<hint, outdated>>
      \/ hint' = r.host /\ outdated' = r.old
  BY DEF Routes!Remember
<1>8. \/ UNCHANGED <<hint, outdated>>
      \/ /\ hint' \in Routes!Host /\ outdated' \in BOOLEAN /\ address # None
         /\ ~outdated' => hint' = address
  BY <1>1, <1>3, <1>7 DEF Resolved
<1>. QED
  BY <1>1, <1>2, <1>5, <1>6, <1>8, RequestStep

LEMMA SecretStep ==
  ASSUME RouteApart, RoutesInv, NEW p \in Process, Routes!GetSecret(p) \/ Routes!FallBack(p) PROVE RoutesInv'
<1>1. CASE Routes!GetSecret(p)
  <2>. DEFINE guess == vault = "mock"
  <2>1. /\ Routes!At(p, "secret") /\ (secret[p] # 0 \/ vault = "mock")
        /\ Routes!Holds(p, Routes!Found(p), guess) /\ Routes!Remember(p)
        /\ secret' = IF vault = "mock" /\ control # 0 THEN Routes!Stored(p, control) ELSE secret
        /\ UNCHANGED <<vault, control, real, address, engine, rotating>>
    BY <1>1 DEF Routes!GetSecret, Routes!setting
  <2>2. guess \in BOOLEAN /\ (~guess => vault = "shared")
    BY Zenon DEF RoutesInv, RoutesOK
  <2>3. Routes!Found(p) \in Nat
    BY DEF Routes!Found, RoutesInv, RoutesOK
  <2>4. ~guess /\ ~rotating => Routes!Found(p) = real
    BY <2>1, <2>2 DEF Routes!Found, RoutesInv, Secrets
  <2>5. secret' \in [Process -> Nat] /\ (vault = "shared" => secret' = secret)
    BY <2>1 DEF Routes!Stored, RoutesInv, RoutesOK
  <2>. HIDE DEF guess
  <2>. QED
    BY <2>1, <2>2, <2>3, <2>4, <2>5, HoldsStep
<1>2. CASE Routes!FallBack(p)
  <2>1. /\ Routes!At(p, "secret") /\ Routes!Holds(p, control, TRUE) /\ Routes!Remember(p)
        /\ UNCHANGED <<vault, control, real, secret, address, engine, rotating>>
    BY <1>2 DEF Routes!FallBack, Routes!setting
  <2>2. control \in Nat /\ secret' \in [Process -> Nat]
    BY <2>1 DEF RoutesInv, RoutesOK
  <2>. QED
    BY <2>1, <2>2, HoldsStep
<1>. QED
  BY <1>1, <1>2

LEMMA FailsStep ==
  ASSUME RouteApart, RoutesInv, NEW p \in Process, Routes!VaultFails(p) PROVE RoutesInv'
<1>. DEFINE r == IF resolving[p].hit THEN Routes!Read(address, FALSE) ELSE None
<1>1. /\ resolving[p] # None /\ resolving' = [resolving EXCEPT ![p] = r]
      /\ UNCHANGED <<vault, control, real, secret, address, engine, rotating, hint, outdated>>
  BY DEF Routes!VaultFails, Routes!At, Routes!setting
<1>2. address # None
  BY <1>1 DEF RoutesInv, NotYet
<1>3. r \in Resolution \cup {None} /\ (r # None => Resolved(r))
  BY <1>2, ReadResolved
<1>4. secret' \in [Process -> Nat]
  BY <1>1 DEF RoutesInv, RoutesOK
<1>. HIDE DEF r
<1>. QED
  BY <1>1, <1>2, <1>3, <1>4, RequestStep

\* A process builds an engine of what was resolved, or closes it.
LEMMA EngineStep ==
  ASSUME RouteApart, RoutesInv, NEW p \in Process, Routes!GetEngine(p) \/ Routes!CloseAll(p) PROVE RoutesInv'
<1>1. PICK e \in Engine \cup {None} :
          /\ engine' = [engine EXCEPT ![p] = e]
          /\ e # None => Opened(e) /\ address # None
  <2>1. CASE Routes!CloseAll(p)
    BY <2>1 DEF Routes!CloseAll
  <2>2. CASE Routes!GetEngine(p)
    <3>. DEFINE r == resolving[p]
                new == [to |-> Routes!Prepared(r.host), host |-> r.host, password |-> r.password,
                        guess |-> r.guess, old |-> r.old]
    <3>1. /\ r # None /\ r.step = "engine" /\ r \in Resolution /\ Resolved(r) /\ address # None
          /\ engine' = [engine EXCEPT ![p] = IF engine[p] # None \/ Routes!Prepared(r.host) = "nowhere"
                                             THEN engine[p] ELSE new]
      BY <2>2 DEF Routes!GetEngine, Routes!At, RoutesInv, RoutesOK, Requests, NotYet
    <3>2. CASE engine[p] # None \/ Routes!Prepared(r.host) = "nowhere"
      BY <3>1, <3>2 DEF RoutesInv, RoutesOK, Engines
    <3>3. CASE ~(engine[p] # None \/ Routes!Prepared(r.host) = "nowhere")
      <4>1. new \in Engine
        BY <3>1, <3>3 DEF Engine, Resolution, Routes!Prepared
      <4>2. Opened(new)
        BY <3>1 DEF Opened, Resolved
      <4>. QED
        BY <3>1, <3>3, <4>1, <4>2
    <3>. QED
      BY <3>2, <3>3
  <2>. QED
    BY <2>1, <2>2
<1>2. /\ resolving' = [resolving EXCEPT ![p] = None]
      /\ UNCHANGED <<vault, control, real, address, hint, rotating, outdated>>
      /\ secret' \in [Process -> Nat] /\ (vault = "shared" => secret' = secret)
  BY DEF Routes!GetEngine, Routes!CloseAll, Routes!setting, RoutesInv, RoutesOK
<1>3. RoutesOK'
  BY <1>1, <1>2 DEF RoutesInv, RoutesOK
<1>4. NotYet' /\ Names' /\ Secrets'
  BY <1>1, <1>2 DEF RoutesInv, RoutesOK, NotYet, Names, Secrets
<1>5. Requests' /\ Engines'
  BY <1>1, <1>2 DEF RoutesInv, RoutesOK, Requests, Engines, Resolved, Opened
<1>. QED
  BY <1>3, <1>4, <1>5 DEF RoutesInv

\* What was resolved before a change is old.
LEMMA ChangeStep ==
  ASSUME RouteApart, RoutesInv, Routes!AlterPassword \/ \E h \in Routes!Host : Routes!Move(h) PROVE RoutesInv'
<1>1. /\ engine' = Routes!Outdated(engine) /\ resolving' = Routes!Outdated(resolving)
      /\ UNCHANGED <<vault, control, secret, hint>> /\ address # None /\ address' \in Routes!Host
      /\ \/ real' = real + 1 /\ rotating' = TRUE /\ vault = "shared"
         \/ UNCHANGED <<real, rotating>>
  BY DEF Routes!AlterPassword, Routes!Move, Routes!setting, RoutesInv, RoutesOK
<1>2. outdated' \in BOOLEAN /\ (hint # None /\ ~outdated' => ~outdated /\ address' = address)
  <2>1. CASE Routes!AlterPassword
    <3>1. UNCHANGED <<address, outdated>>
      BY <2>1 DEF Routes!AlterPassword
    <3>. QED
      BY <3>1 DEF RoutesInv, RoutesOK
  <2>2. CASE \E h \in Routes!Host : Routes!Move(h)
    <3>1. outdated' = (hint # None)
      BY <2>2, Zenon DEF Routes!Move
    <3>. QED
      BY <3>1, Zenon
  <2>. QED
    BY <2>1, <2>2
<1>3. \A p \in Process : resolving'[p] # None => resolving'[p] \in Resolution /\ resolving'[p].old
  BY <1>1 DEF Routes!Outdated, RoutesInv, RoutesOK, Resolution
<1>4. \A p \in Process : engine'[p] # None => engine'[p] \in Engine /\ engine'[p].old
  BY <1>1 DEF Routes!Outdated, RoutesInv, RoutesOK, Engine
<1>5. RoutesOK'
  <2>1. resolving' \in [Process -> Resolution \cup {None}] /\ engine' \in [Process -> Engine \cup {None}]
    BY <1>1, <1>3, <1>4 DEF Routes!Outdated
  <2>2. real' \in Nat
    BY <1>1 DEF RoutesInv, RoutesOK
  <2>3. rotating' \in BOOLEAN
    BY <1>1, Zenon DEF RoutesInv, RoutesOK
  <2>. QED
    BY <1>1, <1>2, <2>1, <2>2, <2>3 DEF RoutesInv, RoutesOK
<1>6. NotYet' /\ Names' /\ Secrets'
  BY <1>1, <1>2 DEF RouteApart, RoutesInv, RoutesOK, NotYet, Names, Secrets
<1>7. Requests' /\ Engines'
  BY <1>3, <1>4 DEF Requests, Engines, Resolved, Opened
<1>. QED
  BY <1>5, <1>6, <1>7 DEF RoutesInv

LEMMA RoutesNext == ASSUME RouteApart, RoutesInv, Routes!Next PROVE RoutesInv'
BY StoredStep, ResolveStep, SecretStep, FailsStep, EngineStep, ChangeStep DEF Routes!Next

\* An engine opens its tenant's database, whatever Redis, the vault and the
\* other processes hold, unless the row or the password changed since it was
\* resolved, the password was a guess, or the environment sends it elsewhere;
\* for any processes, moves and failures (TenantRouting).
THEOREM EnginesOpenTheirOwn == Spec => []EngineOpens
<1>0. RouteApart
  BY NoneAssumption DEF RouteApart, Resolution, Engine, Routes!Host
<1>1. Init => RoutesInv
  BY RoutesInit DEF Init
<1>2. RoutesInv /\ [Next]_all => RoutesInv'
  <2>. SUFFICES ASSUME RoutesInv, [Next]_all PROVE RoutesInv'
    OBVIOUS
  <2>1. Routes!Next \/ UNCHANGED routing
    BY Zenon DEF Next, all
  <2>2. CASE UNCHANGED routing
    BY <2>2 DEF routing, RoutesInv, RoutesOK, NotYet, Names, Secrets, Requests, Engines, Resolved, Opened
  <2>. QED
    BY <1>0, <2>1, <2>2, RoutesNext
<1>3. RoutesInv => EngineOpens
  BY DEF EngineOpens, Routes!EngineOpens, RoutesInv, Engines, Opened
<1>. QED
  BY <1>1, <1>2, <1>3, PTL DEF Spec
-----------------------------------------------------------------------------
(* TenantConnectors: who connected the organization. *)

Credential == {"key", None} \cup Admin
Setting    == [mode : {"oauth", "dwd", "admin"}, by : Admin \cup {None}]
Connector  == [config : Setting, ref : Credential]
Edit == [kind : {"organization", "personal", "upsert", "delete"}, config : Setting, ref : Credential,
         scope : Consents!Scope, loaded : Connector \cup {None}, held : BOOLEAN]
Crawl == [as : Admin \cup {None}, vouched : SUBSET Credential]

ConsentsOK ==
    /\ row \in [Consents!Scope -> Connector \cup {None}]
    /\ pending \in [Request -> Edit \cup {None}]
    /\ crawl \in Crawl \cup {None}
    /\ standing \subseteq Credential /\ named \subseteq Credential

\* The organization's row is of somebody who connected it, or of whom an edit
\* of it named.
Standing == LET org == row["organization"] IN
    org # None => standing # {} /\ org.config.by \in standing \cup named \cup {None}

\* A request that is about to write the organization's row was sent by whoever
\* it names, or edits a row it has found; and the row it edits is there until
\* somebody deletes it.
Fits(q) ==
    /\ q.kind = "organization" => q.scope = "organization" /\ q.config.by \in {None, q.ref}
    /\ q.kind = "personal" => q.scope = "personal"
    /\ q.kind = "upsert" /\ q.scope = "organization" => q.loaded # None
Edits == \A r \in Request : pending[r] # None =>
    /\ Fits(pending[r])
    /\ pending[r].held /\ pending[r].loaded # None => row[pending[r].scope] # None

Crawls == crawl # None /\ crawl.as # None => crawl.as \in crawl.vouched

ConsentInv == ConsentsOK /\ Standing /\ Edits /\ Crawls

ConsentApart == None \notin Connector /\ None \notin Edit /\ None \notin Crawl

LEMMA ConsentInit == ASSUME Consents!Init PROVE ConsentInv
<1>1. /\ row = [s \in Consents!Scope |-> None] /\ pending = [r \in Request |-> None]
      /\ crawl = None /\ standing = {} /\ named = {}
  BY Zenon DEF Consents!Init
<1>. QED
  BY <1>1 DEF ConsentInv, ConsentsOK, Standing, Edits, Crawls, Consents!Scope

\* A request that loads a row of scope s.
LEMMA LoadStep ==
  ASSUME ConsentApart, ConsentInv, NEW r \in Request, NEW kind \in {"organization", "personal", "upsert", "delete"},
         NEW setting \in Setting, NEW ref \in Credential, NEW s \in Consents!Scope,
         Consents!Load(r, kind, setting, ref, s), UNCHANGED <<row, standing, named, crawl>>,
         kind = "organization" => s = "organization" /\ setting.by \in {None, ref},
         kind = "personal" => s = "personal",
         kind = "upsert" /\ s = "organization" => row[s] # None
  PROVE  ConsentInv'
<1>. DEFINE q == [kind |-> kind, config |-> setting, ref |-> ref, scope |-> s, loaded |-> row[s], held |-> TRUE]
<1>1. pending' = [pending EXCEPT ![r] = q]
  BY DEF Consents!Load
<1>2. q \in Edit /\ q.loaded = row[s] /\ q.scope = s /\ Fits(q)
  BY DEF Edit, Fits, ConsentInv, ConsentsOK
<1>. HIDE DEF q
<1>3. ConsentsOK' /\ Standing' /\ Crawls'
  BY <1>1, <1>2 DEF ConsentInv, ConsentsOK, Standing, Crawls
<1>4. Edits'
  BY <1>1, <1>2 DEF ConsentInv, ConsentsOK, Edits
<1>. QED
  BY <1>3, <1>4 DEF ConsentInv

LEMMA RequestsStep ==
  ASSUME ConsentApart, ConsentInv, NEW r \in Request,
         \/ Consents!ConnectServiceAccount(r)
         \/ \E p \in Admin : Consents!OrganizationConsent(r, p) \/ Consents!PersonalConsent(r, p)
         \/ \E setting \in [mode : {"oauth", "dwd"}, by : Admin \cup {None}], ref \in {"key", None} :
              Consents!AdminUpsert(r, setting, ref)
         \/ Consents!AdminRemove(r)
         \/ Consents!DisconnectOrganization(r)
  PROVE  ConsentInv'
<1>. USE DEF Setting, Credential, Consents!Scope
<1>1. CASE Consents!ConnectServiceAccount(r)
  BY <1>1, LoadStep DEF Consents!ConnectServiceAccount
<1>2. ASSUME NEW p \in Admin, Consents!OrganizationConsent(r, p) PROVE ConsentInv'
  BY <1>2, LoadStep DEF Consents!OrganizationConsent
<1>3. ASSUME NEW p \in Admin, Consents!PersonalConsent(r, p) PROVE ConsentInv'
  <2>. DEFINE new == [mode |-> IF row["personal"] = None THEN "oauth" ELSE row["personal"].config.mode, by |-> p]
  <2>1. new \in Setting
    BY DEF ConsentInv, ConsentsOK, Connector
  <2>2. Consents!Load(r, "personal", new, p, "personal") /\ UNCHANGED <<row, standing, named, crawl>>
    BY <1>3 DEF Consents!PersonalConsent
  <2>. HIDE DEF new
  <2>. QED
    BY <2>1, <2>2, LoadStep
<1>4. ASSUME NEW setting \in [mode : {"oauth", "dwd"}, by : Admin \cup {None}], NEW key_ \in {"key", None},
             Consents!AdminUpsert(r, setting, key_)
      PROVE  ConsentInv'
  <2>. DEFINE s == IF Consents!Chosen = {} THEN "personal" ELSE CHOOSE c \in Consents!Chosen : TRUE
              ref == IF key_ = None /\ row[s] # None THEN row[s].ref ELSE key_
  <2>1. /\ Consents!Load(r, "upsert", setting, ref, s) /\ setting \in Setting
        /\ UNCHANGED <<row, standing, named, crawl>>
    BY <1>4 DEF Consents!AdminUpsert
  <2>2. s \in Consents!Scope /\ (s = "organization" => row[s] # None)
    BY DEF Consents!Chosen
  <2>. HIDE DEF s
  <2>3. ref \in Credential
    BY <2>2 DEF ConsentInv, ConsentsOK, Connector
  <2>. HIDE DEF ref
  <2>. QED
    BY <2>1, <2>2, <2>3, LoadStep
<1>5. CASE Consents!AdminRemove(r)
  <2>1. PICK s \in Consents!Scope : Consents!Load(r, "delete", Consents!Plain, None, s)
    BY <1>5 DEF Consents!AdminRemove
  <2>2. UNCHANGED <<row, standing, named, crawl>>
    BY <1>5 DEF Consents!AdminRemove
  <2>. QED
    BY <2>1, <2>2, LoadStep DEF Consents!Plain
<1>6. CASE Consents!DisconnectOrganization(r)
  BY <1>6, LoadStep DEF Consents!DisconnectOrganization, Consents!Plain
<1>. QED
  BY <1>1, <1>2, <1>3, <1>4, <1>5, <1>6

\* A request writes its row.
LEMMA SaveStep ==
  ASSUME ConsentApart, ConsentInv, NEW r \in Request, Consents!Save(r)
  PROVE  ConsentInv'
<1>. DEFINE q == pending[r]
            new == IF q.loaded = None THEN [config |-> q.config, ref |-> q.ref]
                   ELSE Consents!Changed(q, row[q.scope])
<1>1. /\ q # None /\ q \in Edit /\ q.kind # "delete" /\ Fits(q)
      /\ row' = IF ~Consents!Saves(q) THEN row ELSE [row EXCEPT ![q.scope] = new]
      /\ standing' = IF Consents!Saves(q) /\ q.kind = "organization" THEN standing \cup {q.ref} ELSE standing
      /\ named' = IF Consents!Saves(q) /\ q.kind = "upsert" /\ q.scope = "organization"
                  THEN named \cup {q.config.by} ELSE named
      /\ pending' = [pending EXCEPT ![r] = None] /\ crawl' = crawl
  BY DEF Consents!Save, ConsentInv, ConsentsOK, Edits
<1>2. \A t \in Request : pending'[t] # None => t # r /\ pending'[t] = pending[t]
  BY <1>1 DEF ConsentInv, ConsentsOK
<1>3. pending' \in [Request -> Edit \cup {None}] /\ q.ref \in Credential /\ q.config.by \in Credential
      /\ q.scope \in Consents!Scope
  BY <1>1 DEF ConsentInv, ConsentsOK, Edit, Setting, Credential
<1>4. CASE ~Consents!Saves(q)
  <2>1. row' = row /\ standing' = standing /\ named' = named
    BY <1>1, <1>4
  <2>. QED
    BY <1>1, <1>2, <1>3, <2>1 DEF ConsentInv, ConsentsOK, Standing, Edits, Crawls
<1>5. CASE Consents!Saves(q)
  <2>1. q.loaded # None => row[q.scope] # None /\ row[q.scope] \in Connector
    BY <1>1, <1>3, <1>5 DEF Consents!Saves, ConsentInv, ConsentsOK, Edits
  <2>2. new \in Connector /\ (new.config = q.config \/ (q.loaded # None /\ new.config = row[q.scope].config))
    BY <1>1, <2>1 DEF Consents!Changed, Connector, Edit
  <2>. HIDE DEF new
  <2>3. row' = [row EXCEPT ![q.scope] = new] /\ standing \subseteq standing'
        /\ (q.kind = "organization" => q.ref \in standing') /\ standing' \subseteq standing \cup {q.ref}
        /\ named \subseteq named' /\ named' \subseteq named \cup {q.config.by}
        /\ (q.kind = "upsert" /\ q.scope = "organization" => q.config.by \in named')
    BY <1>1, <1>5
  <2>4. ConsentsOK'
    BY <1>1, <1>3, <2>2, <2>3 DEF ConsentInv, ConsentsOK
  <2>5. Standing'
    <3>1. CASE q.scope = "organization"
      <4>1. row'["organization"] = new
        BY <1>3, <2>3, <3>1 DEF ConsentInv, ConsentsOK
      <4>2. q.loaded # None => standing # {} /\ row["organization"].config.by \in standing \cup named \cup {None}
        BY <2>1, <3>1 DEF ConsentInv, Standing
      <4>3. q.kind \in {"organization", "upsert"}
        BY <1>1, <3>1 DEF Fits, Edit
      <4>4. CASE q.kind = "organization"
        BY <1>1, <2>2, <2>3, <3>1, <4>1, <4>2, <4>4 DEF Standing, Fits
      <4>5. CASE q.kind = "upsert"
        BY <1>1, <2>2, <2>3, <3>1, <4>1, <4>2, <4>5 DEF Standing, Fits
      <4>. QED
        BY <4>3, <4>4, <4>5
    <3>2. CASE q.scope # "organization"
      <4>1. row'["organization"] = row["organization"]
        BY <2>3, <3>2 DEF ConsentInv, ConsentsOK, Consents!Scope
      <4>. QED
        BY <2>3, <4>1 DEF ConsentInv, Standing
    <3>. QED
      BY <3>1, <3>2
  <2>6. \A s \in Consents!Scope : row[s] # None => row'[s] # None
    BY <2>2, <2>3 DEF ConsentApart, ConsentInv, ConsentsOK
  <2>7. Edits'
    BY <1>2, <2>6 DEF ConsentInv, ConsentsOK, Edits, Edit
  <2>. QED
    BY <1>1, <2>4, <2>5, <2>7 DEF ConsentInv, Crawls
<1>. QED
  BY <1>4, <1>5

\* A row goes, and the requests that have loaded it hold it no longer.
LEMMA GoneStep ==
  ASSUME ConsentApart, ConsentInv, NEW s \in Consents!Scope, NEW before \in [Request -> Edit \cup {None}],
         \A t \in Request : before[t] # None => before[t] = pending[t],
         row' = [row EXCEPT ![s] = None], pending' = Consents!Without(s, before), crawl' = crawl,
         \/ standing' = standing /\ named' = named
         \/ s = "organization" /\ standing' = {} /\ named' = {}
  PROVE  ConsentInv'
<1>1. \A t \in Request : pending'[t] # None =>
          /\ before[t] # None /\ pending'[t] \in Edit /\ pending'[t].scope = pending[t].scope
          /\ pending'[t].loaded = pending[t].loaded /\ (Fits(pending[t]) => Fits(pending'[t]))
          /\ pending'[t].held => pending[t].held /\ pending[t].scope # s
  BY DEF Consents!Without, ConsentInv, ConsentsOK, Edit, Fits
<1>2. pending' \in [Request -> Edit \cup {None}]
  BY <1>1 DEF Consents!Without
<1>3. ConsentsOK'
  BY <1>2 DEF ConsentInv, ConsentsOK
<1>4. \A c \in Consents!Scope : c # s => row'[c] = row[c]
  BY DEF ConsentInv, ConsentsOK
<1>5. row'[s] = None
  BY DEF ConsentInv, ConsentsOK
<1>6. Standing'
  BY <1>4, <1>5 DEF ConsentInv, Standing, Consents!Scope
<1>7. Edits'
  <2>. SUFFICES ASSUME NEW t \in Request, pending'[t] # None
                PROVE  /\ Fits(pending'[t])
                       /\ pending'[t].held /\ pending'[t].loaded # None => row'[pending'[t].scope] # None
    BY DEF Edits
  <2>1. before[t] # None /\ pending[t] # None /\ pending[t] \in Edit
    BY <1>1 DEF ConsentInv, ConsentsOK
  <2>2. pending[t].scope \in Consents!Scope
    BY <2>1 DEF Edit
  <2>. QED
    BY <1>1, <1>4, <2>1, <2>2 DEF ConsentInv, Edits
<1>. QED
  BY <1>3, <1>6, <1>7 DEF ConsentInv, Crawls

LEMMA DeletesStep ==
  ASSUME ConsentApart, ConsentInv,
         \/ \E r \in Request : Consents!Delete(r) \/ Consents!DeleteTimesOut(r)
         \/ \E p \in Admin : Consents!PersonalDisconnect(p)
  PROVE  ConsentInv'
<1>1. ASSUME NEW r \in Request, pending' = [pending EXCEPT ![r] = None], UNCHANGED <<row, standing, named, crawl>>
      PROVE  ConsentInv'
  BY <1>1 DEF ConsentInv, ConsentsOK, Standing, Edits, Crawls
<1>2. ASSUME NEW r \in Request, Consents!Delete(r) PROVE ConsentInv'
  <2>. DEFINE q == pending[r]
              done == [pending EXCEPT ![r] = None]
  <2>1. q # None /\ q \in Edit /\ q.scope \in Consents!Scope
    BY <1>2 DEF Consents!Delete, ConsentInv, ConsentsOK, Edit
  <2>2. /\ done \in [Request -> Edit \cup {None}]
        /\ \A t \in Request : done[t] # None => done[t] = pending[t]
    BY DEF ConsentInv, ConsentsOK
  <2>3. CASE q.loaded # None /\ q.held
    <3>1. /\ row' = [row EXCEPT ![q.scope] = None] /\ pending' = Consents!Without(q.scope, done)
          /\ standing' = IF q.scope = "organization" THEN {} ELSE standing
          /\ named' = IF q.scope = "organization" THEN {} ELSE named
          /\ crawl' = crawl
      BY <1>2, <2>3 DEF Consents!Delete
    <3>. HIDE DEF done
    <3>. QED
      BY <2>1, <2>2, <3>1, GoneStep
  <2>4. CASE ~(q.loaded # None /\ q.held)
    BY <1>1, <1>2, <2>4 DEF Consents!Delete
  <2>. QED
    BY <2>3, <2>4
<1>3. ASSUME NEW r \in Request, Consents!DeleteTimesOut(r) PROVE ConsentInv'
  BY <1>1, <1>3 DEF Consents!DeleteTimesOut
<1>4. ASSUME NEW p \in Admin, Consents!PersonalDisconnect(p) PROVE ConsentInv'
  <2>1. /\ row' = [row EXCEPT !["personal"] = None] /\ pending' = Consents!Without("personal", pending)
        /\ standing' = standing /\ named' = named /\ crawl' = crawl
    BY <1>4 DEF Consents!PersonalDisconnect
  <2>2. pending \in [Request -> Edit \cup {None}] /\ "personal" \in Consents!Scope
    BY DEF ConsentInv, ConsentsOK, Consents!Scope
  <2>. QED
    BY <2>1, <2>2, GoneStep
<1>. QED
  BY <1>2, <1>3, <1>4

\* A crawl runs under whoever the organization's row names.
LEMMA CrawlStep ==
  ASSUME ConsentApart, ConsentInv,
         Consents!Toggle \/ Consents!Backfill \/ Consents!Resolve \/ Consents!Authorize
  PROVE  ConsentInv'
<1>1. CASE Consents!Toggle \/ Consents!Backfill
  BY <1>1 DEF Consents!Toggle, Consents!Backfill, ConsentInv, ConsentsOK, Standing, Edits, Crawls
<1>2. CASE Consents!Resolve
  <2>. DEFINE c == [as |-> Consents!ConnectedBy, vouched |-> standing \cup named]
  <2>1. crawl' = c /\ UNCHANGED <<row, pending, standing, named>>
    BY <1>2 DEF Consents!Resolve
  <2>2. Consents!ConnectedBy \in Admin \cup {None} /\ Consents!ConnectedBy \in standing \cup named \cup {None}
    BY DEF Consents!ConnectedBy, ConsentInv, ConsentsOK, Standing, Connector, Setting, Consents!Scope
  <2>3. c \in Crawl
    BY <2>2 DEF Crawl, ConsentInv, ConsentsOK
  <2>. QED
    BY <2>1, <2>2, <2>3 DEF ConsentInv, ConsentsOK, Standing, Edits, Crawls
<1>3. CASE Consents!Authorize
  BY <1>3 DEF Consents!Authorize, ConsentInv, ConsentsOK, Standing, Edits, Crawls
<1>. QED
  BY <1>1, <1>2, <1>3

LEMMA ConsentsNext == ASSUME ConsentApart, ConsentInv, Consents!Next PROVE ConsentInv'
BY RequestsStep, SaveStep, DeletesStep, CrawlStep DEF Consents!Next

\* The organization shows as connected only while somebody has connected it
\* since its last removal, and its crawl runs only under one of those or under
\* whom an admin has written into its row since, however consents, console
\* edits, removals and disconnects overlap; for any persons and requests
\* (TenantConnectors).
THEOREM OrganizationNeedsConsent == Spec => []ConsentStands
<1>0. ConsentApart
  BY Zenon, NoneAssumption DEF ConsentApart, Connector, Edit, Crawl, Setting, Credential, Consents!Scope
<1>1. Init => ConsentInv
  BY ConsentInit DEF Init
<1>2. ConsentInv /\ [Next]_all => ConsentInv'
  <2>. SUFFICES ASSUME ConsentInv, [Next]_all PROVE ConsentInv'
    OBVIOUS
  <2>1. Consents!Next \/ UNCHANGED connectors
    BY Zenon DEF Next, all
  <2>2. CASE UNCHANGED connectors
    BY <2>2 DEF connectors, ConsentInv, ConsentsOK, Standing, Edits, Crawls
  <2>. QED
    BY <1>0, <2>1, <2>2, ConsentsNext
<1>3. ConsentInv => ConsentStands
  BY DEF ConsentStands, Consents!ConsentStands, Consents!Connected, ConsentInv, Standing, Crawls
<1>. QED
  BY <1>1, <1>2, <1>3, PTL DEF Spec
-----------------------------------------------------------------------------
(* ToolGateway: revoked tokens are turned away. *)

\* What a request may be at.
Banning == [step : {"publish"}, kind : {"token"}, of : Nat, tokens : SUBSET Nat]
Closing == [step : {"stamp", "commit", "publish"}, kind : {"session"}, of : User, ver : Nat, tokens : SUBSET Nat]
Calling == [step : {"jti", "version", "serve"}, of : Nat, settled : BOOLEAN]
Inquiry == Banning \cup Closing \cup Calling

GatewayOK ==
    /\ passes \in Seq([user : User, claim : Int])
    /\ level \in [User -> Nat]
    /\ barred \in [Tools!Store -> SUBSET Nat]
    /\ stamp \in [Tools!Store -> [User -> Nat]]
    /\ inquiry \in [Request -> Inquiry \cup {None}]
    /\ ended \subseteq Tools!Pass /\ frail \subseteq ended

\* Redis refuses the token by its version, or by either; the gateway knows of
\* the revocation or is about to.
Stamped(t) == passes[t].claim # Tools!NoClaim /\ stamp["redis"][passes[t].user] > passes[t].claim
Covered(t) == t \in barred["redis"] \/ Stamped(t)
Known(t)   == Tools!Turned(t) \/ \E e \in wire : Tools!About(e, t)

Claims == \A t \in Tools!Pass : t \in open \/ passes[t].claim <= level[passes[t].user]
Ended  == \A t \in ended : t \in open \/ (t \in frail /\ Known(t)) \/ (t \notin frail /\ Covered(t))

\* A revocation has its tokens covered once it has told Redis, and a settled
\* call at each of its looks is one that a coming look refuses.
Sure(q) ==
    /\ q.step = "stamp" => \A t \in q.tokens :
          t \in Tools!Pass /\ passes[t].user = q.of /\ (t \in open \/ passes[t].claim < q.ver)
    /\ q.step \in {"commit", "publish"} => \A t \in q.tokens :
          /\ t \in Tools!Pass /\ Tools!About([kind |-> q.kind, of |-> q.of], t)
          /\ t \in open \/ Covered(t) \/ (q.kind = "session" /\ passes[t].claim = Tools!NoClaim)
    /\ q.step = "jti" => q.of \in Tools!Pass /\
          (q.settled => q.of \in open \/ Tools!Turned(q.of) \/ (reach /\ Covered(q.of)))
    /\ q.step = "version" => q.of \in Tools!Pass /\
          (q.settled => q.of \in open \/ Tools!Turned(q.of) \/ (reach /\ Stamped(q.of)))
    /\ q.step = "serve" => q.of \in Tools!Pass /\ (q.settled => q.of \in open)
Sured == \A r \in Request, q \in Inquiry : inquiry[r] = q => Sure(q)

GatewayInv == GatewayOK /\ Claims /\ Ended /\ Sured

InquiryApart == None \notin Inquiry

LEMMA GatewayInit == ASSUME InquiryApart, Tools!Init PROVE GatewayInv
<1>1. /\ passes = <<>> /\ level = [u \in User |-> 0] /\ ended = {} /\ frail = {}
      /\ barred = [s \in Tools!Store |-> {}] /\ stamp = [s \in Tools!Store |-> [u \in User |-> 0]]
      /\ inquiry = [r \in Request |-> None]
  BY Zenon DEF Tools!Init
<1>2. Tools!Pass = {}
  BY <1>1 DEF Tools!Pass
<1>3. GatewayOK
  BY <1>1 DEF GatewayOK
<1>4. Claims /\ Ended /\ Sured
  BY <1>1, <1>2 DEF Claims, Ended, Sured, InquiryApart
<1>. QED
  BY <1>3, <1>4 DEF GatewayInv

\* A step that forgets nothing: tokens stay as they were issued, and what
\* refuses one refuses it still, or the token is counted open.
Onward ==
    /\ \A t \in Tools!Pass : t \in Tools!Pass' /\ passes'[t] = passes[t]
    /\ open \subseteq open' /\ barred["redis"] \subseteq barred'["redis"]
    /\ \A t \in Tools!Pass : Stamped(t) => Stamped(t)' \/ t \in open'
    /\ \A t \in Tools!Pass : Tools!Turned(t) => Tools!Turned(t)'

\* What a request is sure of, such a step leaves true while Redis stays up or
\* the gateway knows of the token.
LEMMA SureStays ==
  ASSUME Onward, NEW q \in Inquiry, Sure(q),
         (reach => reach') \/ (q.step \in {"jti", "version"} => Tools!Turned(q.of))
  PROVE  Sure(q)'
<1>1. \A t \in Tools!Pass : Covered(t) => Covered(t)' \/ t \in open'
  BY DEF Onward, Covered
<1>2. q.step = "stamp" => \A t \in q.tokens :
          t \in Tools!Pass' /\ passes'[t].user = q.of /\ (t \in open' \/ passes'[t].claim < q.ver)
  BY DEF Sure, Onward
<1>3. q.step \in {"commit", "publish"} => \A t \in q.tokens :
          /\ t \in Tools!Pass' /\ Tools!About([kind |-> q.kind, of |-> q.of], t)'
          /\ t \in open' \/ Covered(t)' \/ (q.kind = "session" /\ passes'[t].claim = Tools!NoClaim)
  BY <1>1 DEF Sure, Onward, Tools!About, Tools!NoClaim
<1>4. q.step = "jti" => q.of \in Tools!Pass' /\
          (q.settled => q.of \in open' \/ Tools!Turned(q.of)' \/ (reach' /\ Covered(q.of)'))
  BY <1>1, Zenon DEF Sure, Onward
<1>5. q.step = "version" => q.of \in Tools!Pass' /\
          (q.settled => q.of \in open' \/ Tools!Turned(q.of)' \/ (reach' /\ Stamped(q.of)'))
  BY Zenon DEF Sure, Onward
<1>6. q.step = "serve" => q.of \in Tools!Pass' /\ (q.settled => q.of \in open')
  BY Zenon DEF Sure, Onward
<1>. QED
  BY <1>2, <1>3, <1>4, <1>5, <1>6, Zenon DEF Sure, Tools!NoClaim

\* And so are the revocations that have ended.
LEMMA EndedStays ==
  ASSUME GatewayInv, Onward, ended' = ended, frail' = frail,
         \A t \in Tools!Pass : Known(t) => Known(t)'
  PROVE  Ended'
<1>1. \A t \in Tools!Pass : Covered(t) => Covered(t)' \/ t \in open'
  BY DEF Onward, Covered
<1>. QED
  BY <1>1 DEF GatewayInv, GatewayOK, Ended, Onward

\* The steps that change neither what refuses a token nor the tokens.
LEMMA OnwardSame ==
  ASSUME UNCHANGED <<passes, barred, stamp, away>>, open \subseteq open'
  PROVE  Onward
BY Zenon DEF Onward, Tools!Pass, Stamped, Tools!Turned, Tools!About

LEMMA SuredStays ==
  ASSUME GatewayInv, Onward, reach => reach', NEW r \in Request, \A s \in Request \ {r} : inquiry'[s] = inquiry[s],
         \A q \in Inquiry : inquiry'[r] = q => Sure(q)'
  PROVE  Sured'
BY SureStays DEF GatewayInv, Sured

\* Tokens: a new one is known to nobody and has its user's version or none.
LEMMA IssueStep ==
  ASSUME GatewayInv, NEW u \in User, Tools!Issue(u, level[u]) \/ Tools!Issue(u, Tools!NoClaim)
  PROVE  GatewayInv'
<1>. DEFINE n == Len(passes) + 1
<1>1. /\ UNCHANGED <<level, reach, barred, stamp, wire, away, inquiry, ended, frail, open>>
      /\ \E c \in {level[u], Tools!NoClaim} : passes' = Append(passes, [user |-> u, claim |-> c])
  BY DEF Tools!Issue, Tools!history
<1>2. PICK c \in {level[u], Tools!NoClaim} : passes' = Append(passes, [user |-> u, claim |-> c])
  BY <1>1
<1>3. level[u] \in Nat /\ c \in Int /\ c <= level[u] /\ passes \in Seq([user : User, claim : Int]) /\ Len(passes) \in Nat
  BY <1>2 DEF GatewayInv, GatewayOK, Tools!NoClaim
<1>4. /\ passes' \in Seq([user : User, claim : Int]) /\ Tools!Pass' = Tools!Pass \cup {n}
      /\ \A t \in Tools!Pass : passes'[t] = passes[t]
      /\ passes'[n] = [user |-> u, claim |-> c]
  BY <1>2, <1>3 DEF Tools!Pass
<1>5. Onward
  <2>1. \A t \in Tools!Pass : t \in Tools!Pass' /\ passes'[t] = passes[t]
    BY <1>4
  <2>2. \A t \in Tools!Pass : Stamped(t) => Stamped(t)'
    BY <1>1, <2>1 DEF Stamped, Tools!NoClaim
  <2>3. \A t \in Tools!Pass : Tools!Turned(t) => Tools!Turned(t)'
    BY <1>1, <2>1 DEF Tools!Turned, Tools!About
  <2>. QED
    BY <1>1, <2>1, <2>2, <2>3 DEF Onward
<1>6. \A t \in Tools!Pass : Known(t) => Known(t)'
  BY <1>1, <1>4 DEF Known, Tools!Turned, Tools!About
<1>7. Ended'
  BY <1>1, <1>5, <1>6, EndedStays
<1>8. Sured'
  BY <1>1, <1>5, SureStays DEF GatewayInv, Sured
<1>9. GatewayOK'
  BY <1>1, <1>4 DEF GatewayInv, GatewayOK
<1>10. Claims'
  <2>. SUFFICES ASSUME NEW t \in Tools!Pass' PROVE t \in open' \/ passes'[t].claim <= level'[passes'[t].user]
    BY DEF Claims
  <2>1. CASE t \in Tools!Pass
    BY <1>1, <1>4, <2>1 DEF GatewayInv, Claims
  <2>2. CASE t = n
    BY <1>1, <1>3, <1>4, <2>2
  <2>. QED
    BY <1>4, <2>1, <2>2
<1>. QED
  BY <1>7, <1>8, <1>9, <1>10 DEF GatewayInv

\* revoke_token: Redis has the jti, or the token is counted open.
LEMMA RevokeTokenStep ==
  ASSUME InquiryApart, GatewayInv, NEW r \in Request, NEW t \in Tools!Pass, Tools!RevokeToken(r, t)
  PROVE  GatewayInv'
<1>. DEFINE w == [step |-> "publish", kind |-> "token", of |-> t, tokens |-> {t}]
<1>1. /\ barred' = [barred EXCEPT ![Tools!Reached] = @ \cup {t}]
      /\ inquiry' = [inquiry EXCEPT ![r] = w]
      /\ open' = IF reach THEN open ELSE open \cup {t}
      /\ UNCHANGED <<passes, level, reach, stamp, wire, away, ended, frail>>
  BY DEF Tools!RevokeToken, Tools!Unless
<1>2. t \in Nat /\ w \in Inquiry
  BY DEF GatewayInv, GatewayOK, Tools!Pass, Inquiry, Banning
<1>3. /\ barred' \in [Tools!Store -> SUBSET Nat] /\ barred["redis"] \subseteq barred'["redis"]
      /\ t \in open' \/ t \in barred'["redis"]
  BY <1>1, <1>2 DEF GatewayInv, GatewayOK, Tools!Store, Tools!Reached
<1>4. Onward
  BY <1>1, <1>3, Zenon DEF Onward, Tools!Pass, Stamped, Tools!Turned, Tools!About
<1>5. \A s \in Tools!Pass : Known(s) => Known(s)'
  BY <1>1, Zenon DEF Known, Tools!Turned, Tools!About
<1>6. Sure(w)'
  BY <1>1, <1>3 DEF Sure, Covered, Tools!Pass, Tools!About
<1>. HIDE DEF w
<1>7. Sured'
  BY <1>1, <1>2, <1>4, <1>6, SuredStays DEF GatewayInv, GatewayOK
<1>8. GatewayOK'
  BY <1>1, <1>2, <1>3 DEF GatewayInv, GatewayOK, Tools!Pass
<1>9. Claims'
  BY <1>1 DEF GatewayInv, Claims, Tools!Pass
<1>. QED
  BY <1>1, <1>4, <1>5, <1>7, <1>8, <1>9, EndedStays DEF GatewayInv

LEMMA PassTyped == ASSUME GatewayInv, NEW t \in Tools!Pass PROVE t \in Nat /\ passes[t] \in [user : User, claim : Int]
<1>. DEFINE S == [user : User, claim : Int]
<1>1. passes \in Seq(S) /\ t \in 1..Len(passes)
  BY DEF GatewayInv, GatewayOK, Tools!Pass
<1>. HIDE DEF S
<1>2. passes[t] \in S /\ t \in Nat
  BY <1>1
<1>. QED
  BY <1>2 DEF S

\* revoke_sessions has read the version: every token of the user is below the next.
LEMMA RevokeSessionStep ==
  ASSUME InquiryApart, GatewayInv, NEW r \in Request, NEW u \in User, Tools!RevokeSession(r, u)
  PROVE  GatewayInv'
<1>1. PICK w : w = [step |-> "stamp", kind |-> "session", of |-> u, ver |-> level[u] + 1,
                    tokens |-> {t \in Tools!Pass : passes[t].user = u}]
  OBVIOUS
<1>2. /\ inquiry' = [inquiry EXCEPT ![r] = w]
      /\ UNCHANGED <<passes, level, reach, barred, stamp, wire, away, ended, frail, open>>
  BY <1>1 DEF Tools!RevokeSession, Tools!history
<1>3. Onward
  BY <1>2, OnwardSame
<1>4. level[u] \in Nat /\ \A t \in Tools!Pass : t \in Nat /\ passes[t].claim \in Int
  BY PassTyped DEF GatewayInv, GatewayOK
<1>5. w \in Inquiry /\ w.step = "stamp"
  BY <1>1, <1>4 DEF Inquiry, Closing
<1>6. \A t \in w.tokens : t \in Tools!Pass' /\ passes'[t].user = w.of /\ (t \in open' \/ passes'[t].claim < w.ver)
  BY <1>1, <1>2, <1>4 DEF GatewayInv, Claims, Tools!Pass
<1>7. Sured'
  <2>1. Sure(w)'
    BY <1>5, <1>6 DEF Sure
  <2>. QED
    BY <1>2, <1>3, <1>5, <2>1, SuredStays DEF GatewayInv, GatewayOK
<1>8. GatewayOK'
  BY <1>2, <1>5 DEF GatewayInv, GatewayOK, Tools!Pass
<1>9. Claims' /\ \A t \in Tools!Pass : Known(t) => Known(t)'
  BY <1>2, Zenon DEF GatewayInv, Claims, Tools!Pass, Known, Tools!Turned, Tools!About
<1>. QED
  BY <1>2, <1>3, <1>7, <1>8, <1>9, EndedStays DEF GatewayInv

\* What the tokens of a session's revocation are counted as, when the version is written.
LEMMA InBetween ==
  ASSUME GatewayInv, NEW q \in Closing, NEW low \in Int, NEW high \in Int, NEW t \in Tools!Pass,
         passes[t].user = q.of, passes[t].claim >= low, passes[t].claim <= high
  PROVE  t \in Tools!Between(q, low, high)
BY PassTyped DEF Tools!Between

\* The version reaches Redis: the tokens are covered, and no other loses its
\* cover but those in between.
LEMMA StampStep ==
  ASSUME InquiryApart, GatewayInv, NEW r \in Request, Tools!Stamp(r)
  PROVE  GatewayInv'
<1>1. PICK q : q = inquiry[r]
  OBVIOUS
<1>. DEFINE w == [q EXCEPT !.step = "commit"]
<1>2. /\ q # None /\ q.step = "stamp" /\ inquiry' = [inquiry EXCEPT ![r] = w]
      /\ stamp' = [stamp EXCEPT ![Tools!Reached][q.of] = q.ver]
      /\ open' = open \cup IF reach THEN Tools!Between(q, q.ver, stamp["redis"][q.of] - 1) ELSE q.tokens
      /\ UNCHANGED <<passes, level, reach, barred, wire, away, ended, frail>>
  BY <1>1 DEF Tools!Stamp, Tools!At, Tools!Steps
<1>3. q \in Closing
  BY <1>1, <1>2 DEF GatewayInv, GatewayOK, Inquiry, Banning, Closing, Calling
<1>4. Sure(q)
  BY <1>1, <1>3 DEF GatewayInv, Sured, Inquiry
<1>5. /\ w \in Closing /\ w.step = "commit" /\ w.kind = "session" /\ w.of = q.of /\ w.tokens = q.tokens
  BY <1>3 DEF Closing
<1>6. q.of \in User /\ q.ver \in Nat /\ stamp["redis"][q.of] \in Nat
  BY <1>3 DEF Closing, GatewayInv, GatewayOK, Tools!Store
<1>7. /\ stamp' \in [Tools!Store -> [User -> Nat]]
      /\ \A u \in User : u # q.of => stamp'["redis"][u] = stamp["redis"][u]
      /\ reach => stamp'["redis"][q.of] = q.ver
      /\ ~reach => stamp'["redis"] = stamp["redis"]
  BY <1>2, <1>6 DEF GatewayInv, GatewayOK, Tools!Store, Tools!Reached
<1>8. \A t \in Tools!Pass : passes[t] \in [user : User, claim : Int]
  BY PassTyped
<1>. HIDE DEF w
<1>9. \A t \in Tools!Pass : Stamped(t) => Stamped(t)' \/ t \in open'
  <2>. SUFFICES ASSUME NEW t \in Tools!Pass, Stamped(t) PROVE Stamped(t)' \/ t \in open'
    OBVIOUS
  <2>1. CASE ~reach \/ passes[t].user # q.of
    BY <1>2, <1>7, <1>8, <2>1 DEF Stamped, Tools!NoClaim
  <2>2. CASE reach /\ passes[t].user = q.of /\ passes[t].claim < q.ver
    BY <1>2, <1>7, <1>8, <2>2 DEF Stamped, Tools!NoClaim
  <2>3. CASE reach /\ passes[t].user = q.of /\ passes[t].claim >= q.ver
    <3>1. passes[t].claim <= stamp["redis"][q.of] - 1
      BY <1>6, <1>8, <2>3 DEF Stamped
    <3>. QED
      BY <1>2, <1>3, <1>6, <2>3, <3>1, InBetween
  <2>. QED
    BY <1>6, <1>8, <2>1, <2>2, <2>3
<1>10. Onward
  BY <1>2, <1>9, Zenon DEF Onward, Tools!Pass, Tools!Turned, Tools!About
<1>11. \A t \in q.tokens : /\ t \in Tools!Pass /\ passes[t].user = q.of
                           /\ t \in open' \/ Stamped(t)' \/ passes[t].claim = Tools!NoClaim
  <2>. SUFFICES ASSUME NEW t \in q.tokens
                PROVE  /\ t \in Tools!Pass /\ passes[t].user = q.of
                       /\ t \in open' \/ Stamped(t)' \/ passes[t].claim = Tools!NoClaim
    OBVIOUS
  <2>1. t \in Tools!Pass /\ passes[t].user = q.of /\ (t \in open \/ passes[t].claim < q.ver)
    BY <1>2, <1>4 DEF Sure
  <2>2. CASE ~reach \/ t \in open
    BY <1>2, <2>1, <2>2
  <2>3. CASE reach /\ passes[t].claim < q.ver
    BY <1>2, <1>7, <2>1, <2>3 DEF Stamped
  <2>. QED
    BY <2>1, <2>2, <2>3
<1>12. \A t \in w.tokens : /\ t \in Tools!Pass' /\ Tools!About([kind |-> w.kind, of |-> w.of], t)'
                           /\ t \in open' \/ Covered(t)' \/ (w.kind = "session" /\ passes'[t].claim = Tools!NoClaim)
  BY <1>2, <1>5, <1>11 DEF Covered, Tools!Pass, Tools!About
<1>13. Sure(w)'
  BY <1>5, <1>12 DEF Sure
<1>14. Sured'
  BY <1>2, <1>10, <1>13, SuredStays DEF GatewayInv, GatewayOK
<1>15. GatewayOK'
  BY <1>2, <1>5, <1>7 DEF GatewayInv, GatewayOK, Tools!Pass, Inquiry
<1>16. Claims' /\ \A t \in Tools!Pass : Known(t) => Known(t)'
  BY <1>2, Zenon DEF GatewayInv, Claims, Tools!Pass, Known, Tools!Turned, Tools!About
<1>. QED
  BY <1>2, <1>10, <1>14, <1>15, <1>16, EndedStays DEF GatewayInv

\* The version reaches the row.
LEMMA CommitStep ==
  ASSUME InquiryApart, GatewayInv, NEW r \in Request, Tools!Commit(r)
  PROVE  GatewayInv'
<1>1. PICK q : q = inquiry[r]
  OBVIOUS
<1>. DEFINE w == [q EXCEPT !.step = "publish"]
<1>2. /\ q # None /\ q.step = "commit" /\ inquiry' = [inquiry EXCEPT ![r] = w]
      /\ level' = [level EXCEPT ![q.of] = q.ver]
      /\ open' = open \cup Tools!Between(q, q.ver + 1, level[q.of])
      /\ UNCHANGED <<passes, reach, barred, stamp, wire, away, ended, frail>>
  BY <1>1 DEF Tools!Commit, Tools!At, Tools!Steps
<1>3. q \in Closing /\ q \in Inquiry
  BY <1>1, <1>2 DEF GatewayInv, GatewayOK, Inquiry, Banning, Closing, Calling
<1>4. w \in Closing /\ w.step = "publish" /\ w.kind = q.kind /\ w.of = q.of /\ w.tokens = q.tokens
  BY <1>3 DEF Closing
<1>. HIDE DEF w
<1>5. Onward
  BY <1>2, OnwardSame
<1>6. Sure(q)'
  BY <1>1, <1>2, <1>3, <1>5, SureStays DEF GatewayInv, Sured
<1>7. Sure(w)'
  BY <1>2, <1>4, <1>6 DEF Sure
<1>8. Sured'
  BY <1>2, <1>5, <1>7, SuredStays DEF GatewayInv, GatewayOK
<1>9. q.of \in User /\ q.ver \in Nat /\ level' \in [User -> Nat] /\ level[q.of] \in Nat
  BY <1>2, <1>3 DEF Closing, GatewayInv, GatewayOK
<1>10. GatewayOK'
  BY <1>2, <1>4, <1>9 DEF GatewayInv, GatewayOK, Tools!Pass, Inquiry
<1>11. Claims'
  <2>. SUFFICES ASSUME NEW t \in Tools!Pass PROVE t \in open' \/ passes[t].claim <= level'[passes[t].user]
    BY <1>2 DEF Claims, Tools!Pass
  <2>1. passes[t].user \in User /\ passes[t].claim \in Int /\ (t \in open \/ passes[t].claim <= level[passes[t].user])
    BY PassTyped DEF GatewayInv, Claims
  <2>2. CASE t \in open \/ passes[t].user # q.of
    BY <1>2, <2>1, <2>2 DEF GatewayInv, GatewayOK
  <2>3. CASE passes[t].user = q.of /\ passes[t].claim <= level[q.of]
    <3>1. CASE passes[t].claim >= q.ver + 1
      BY <1>2, <1>3, <1>9, <2>3, <3>1, InBetween
    <3>2. CASE ~(passes[t].claim >= q.ver + 1)
      BY <1>2, <1>9, <2>1, <2>3, <3>2 DEF GatewayInv, GatewayOK
    <3>. QED
      BY <3>1, <3>2
  <2>. QED
    BY <2>1, <2>2, <2>3
<1>12. \A t \in Tools!Pass : Known(t) => Known(t)'
  BY <1>2, Zenon DEF Known, Tools!Turned, Tools!About
<1>. QED
  BY <1>2, <1>5, <1>8, <1>10, <1>11, <1>12, EndedStays DEF GatewayInv

\* The end of a revocation: a token that Redis does not cover has none, and
\* its event is on the wire, or it is counted open.
LEMMA PublishStep ==
  ASSUME InquiryApart, GatewayInv, NEW r \in Request, Tools!Publish(r)
  PROVE  GatewayInv'
<1>1. PICK q : q = inquiry[r]
  OBVIOUS
<1>. DEFINE event == [kind |-> q.kind, of |-> q.of]
<1>2. /\ q # None /\ q.step = "publish" /\ inquiry' = [inquiry EXCEPT ![r] = None]
      /\ wire' = IF reach /\ hearing THEN wire \cup {event} ELSE wire
      /\ ended' = ended \cup q.tokens
      /\ frail' = frail \cup Tools!Versionless(q)
      /\ open' = IF reach /\ hearing THEN open ELSE open \cup Tools!Versionless(q)
      /\ UNCHANGED <<passes, level, reach, barred, stamp, away>>
  BY <1>1 DEF Tools!Publish, Tools!At, Tools!Ends, Tools!Unless
<1>3. q \in Inquiry /\ q \in Banning \cup Closing
  BY <1>1, <1>2 DEF GatewayInv, GatewayOK, Inquiry, Banning, Closing, Calling
<1>4. Sure(q)
  BY <1>1, <1>3 DEF GatewayInv, Sured
<1>5. Onward
  BY <1>2, OnwardSame
<1>6. \A t \in q.tokens : /\ t \in Tools!Pass /\ Tools!About(event, t)
                          /\ t \in open \/ Covered(t) \/ t \in Tools!Versionless(q)
  BY <1>2, <1>4 DEF Sure, Tools!Versionless
<1>7. Tools!Versionless(q) \subseteq q.tokens
  BY DEF Tools!Versionless
<1>. HIDE DEF event
<1>8. \A t \in Tools!Pass : /\ Known(t) => Known(t)'
                            /\ Covered(t) => Covered(t)'
  BY <1>2, Zenon DEF Known, Covered, Stamped, Tools!Turned, Tools!About
<1>9. Ended'
  <2>. SUFFICES ASSUME NEW t \in ended'
                PROVE  t \in open' \/ (t \in frail' /\ Known(t)') \/ (t \notin frail' /\ Covered(t)')
    BY DEF Ended
  <2>1. t \in Tools!Pass
    BY <1>2, <1>6 DEF GatewayInv, GatewayOK
  <2>2. CASE t \in Tools!Versionless(q)
    <3>1. CASE reach /\ hearing
      <4>1. event \in wire' /\ Tools!About(event, t)'
        BY <1>2, <1>6, <1>7, <2>2, <3>1 DEF Tools!About
      <4>. QED
        BY <1>2, <2>2, <4>1 DEF Known
    <3>2. CASE ~(reach /\ hearing)
      BY <1>2, <2>2, <3>2
    <3>. QED
      BY <3>1, <3>2
  <2>3. CASE t \notin Tools!Versionless(q) /\ t \in ended
    BY <1>2, <1>5, <1>8, <2>1, <2>3 DEF GatewayInv, Ended, Onward
  <2>4. CASE t \notin Tools!Versionless(q) /\ t \notin ended
    <3>1. t \in open \/ Covered(t)
      BY <1>2, <1>6, <2>4
    <3>2. t \notin frail'
      BY <1>2, <2>4 DEF GatewayInv, GatewayOK
    <3>. QED
      BY <1>2, <1>8, <2>1, <3>1, <3>2
  <2>. QED
    BY <2>2, <2>3, <2>4
<1>10. Sured'
  BY <1>2, <1>5, InquiryApart, SuredStays DEF InquiryApart, GatewayInv, GatewayOK
<1>11. GatewayOK'
  BY <1>2, <1>6, <1>7 DEF GatewayInv, GatewayOK, Tools!Pass
<1>12. Claims'
  BY <1>2, Zenon DEF GatewayInv, Claims, Tools!Pass
<1>. QED
  BY <1>9, <1>10, <1>11, <1>12 DEF GatewayInv

\* A request that ends, or a commit that fails.
LEMMA EndsStep ==
  ASSUME InquiryApart, GatewayInv, NEW r \in Request, inquiry' = [inquiry EXCEPT ![r] = None],
         UNCHANGED <<passes, level, reach, barred, stamp, wire, away, ended, frail, open>>
  PROVE  GatewayInv'
<1>1. Onward
  BY OnwardSame
<1>2. Sured'
  BY <1>1, SuredStays DEF InquiryApart, GatewayInv, GatewayOK
<1>3. GatewayOK'
  BY DEF GatewayInv, GatewayOK, Tools!Pass
<1>4. Claims' /\ \A t \in Tools!Pass : Known(t) => Known(t)'
  BY Zenon DEF GatewayInv, Claims, Tools!Pass, Known, Tools!Turned, Tools!About
<1>. QED
  BY <1>1, <1>2, <1>3, <1>4, EndedStays DEF GatewayInv

\* A request that goes on to q, of which it is sure.
LEMMA GoesOn ==
  ASSUME InquiryApart, GatewayInv, NEW r \in Request, NEW q \in Inquiry, inquiry' = [inquiry EXCEPT ![r] = q],
         UNCHANGED <<passes, level, reach, barred, stamp, wire, away, ended, frail, open>>, Sure(q)
  PROVE  GatewayInv'
<1>1. Onward
  BY OnwardSame
<1>2. Sure(q)'
  BY <1>1, SureStays
<1>3. Sured'
  BY <1>1, <1>2, SuredStays DEF GatewayInv, GatewayOK
<1>4. GatewayOK'
  BY DEF GatewayInv, GatewayOK, Tools!Pass
<1>5. Claims' /\ \A t \in Tools!Pass : Known(t) => Known(t)'
  BY Zenon DEF GatewayInv, Claims, Tools!Pass, Known, Tools!Turned, Tools!About
<1>. QED
  BY <1>1, <1>3, <1>4, <1>5, EndedStays DEF GatewayInv

\* apply_event.
LEMMA HearStep == ASSUME GatewayInv, NEW e \in wire, Tools!Hear(e) PROVE GatewayInv'
<1>1. /\ wire' = wire \ {e} /\ away' = away \cup {e}
      /\ UNCHANGED <<passes, level, reach, barred, stamp, inquiry, ended, frail, open>>
  BY DEF Tools!Hear, Tools!Heard, Tools!history
<1>2. Onward
  BY <1>1, Zenon DEF Onward, Tools!Pass, Stamped, Tools!Turned, Tools!About
<1>3. \A t \in Tools!Pass : Known(t) => Known(t)'
  BY <1>1 DEF Known, Tools!Turned, Tools!About
<1>4. Sured'
  BY <1>1, <1>2, SureStays DEF GatewayInv, Sured
<1>5. GatewayOK' /\ Claims'
  BY <1>1 DEF GatewayInv, GatewayOK, Claims, Tools!Pass
<1>. QED
  BY <1>1, <1>2, <1>3, <1>4, <1>5, EndedStays DEF GatewayInv

\* A call comes: if it is settled, Redis or the gateway refuses its token.
LEMMA CallStep ==
  ASSUME InquiryApart, GatewayInv, NEW r \in Request, NEW t \in Tools!Pass, Tools!Call(r, t)
  PROVE  GatewayInv'
<1>. DEFINE settled == t \in ended /\ (\A e \in wire : ~Tools!About(e, t)) /\ (reach \/ Tools!Turned(t))
<1>1. PICK q : q = [step |-> "jti", of |-> t, settled |-> settled]
  OBVIOUS
<1>2. /\ inquiry' = [inquiry EXCEPT ![r] = q]
      /\ UNCHANGED <<passes, level, reach, barred, stamp, wire, away, ended, frail, open>>
  BY <1>1, Zenon DEF Tools!Call, Tools!history
<1>3. settled \in BOOLEAN
  BY Zenon
<1>4. settled => t \in open \/ Tools!Turned(t) \/ (reach /\ Covered(t))
  BY Zenon DEF GatewayInv, Ended, Known
<1>. HIDE DEF settled
<1>5. q \in Inquiry /\ q.step = "jti" /\ q.of = t /\ (q.settled => settled)
  BY <1>1, <1>3, PassTyped DEF Inquiry, Calling
<1>6. Sure(q)
  BY <1>4, <1>5 DEF Sure
<1>. QED
  BY <1>2, <1>5, <1>6, GoesOn

\* The looks at a token, and the call itself.
LEMMA LooksStep ==
  ASSUME InquiryApart, GatewayInv, NEW r \in Request,
         Tools!CheckJti(r) \/ Tools!Identify(r) \/ Tools!Dispatch(r)
  PROVE  GatewayInv'
<1>1. PICK q : q = inquiry[r]
  OBVIOUS
<1>2. /\ q # None /\ q.step \in {"jti", "version", "serve"}
      /\ UNCHANGED <<passes, level, reach, barred, stamp, wire, away, ended, frail, open>>
  BY <1>1 DEF Tools!CheckJti, Tools!Identify, Tools!Dispatch, Tools!At, Tools!history
<1>3. q \in Calling /\ q \in Inquiry
  BY <1>1, <1>2 DEF GatewayInv, GatewayOK, Inquiry, Banning, Closing, Calling
<1>4. Sure(q)
  BY <1>1, <1>3 DEF GatewayInv, Sured
<1>5. ASSUME NEW s \in {"version", "serve"}
      PROVE  LET w == [q EXCEPT !.step = s]
             IN  w \in Inquiry /\ w.step = s /\ w.of = q.of /\ (w.settled <=> q.settled)
  BY <1>3 DEF Inquiry, Calling
<1>6. CASE inquiry' = [inquiry EXCEPT ![r] = None]
  BY <1>2, <1>6, EndsStep
<1>7. CASE q.step = "jti" /\ inquiry' = [inquiry EXCEPT ![r] = [q EXCEPT !.step = "version"]]
           /\ q.of \notin barred[Tools!Reached]
  <2>. DEFINE w == [q EXCEPT !.step = "version"]
  <2>1. w \in Inquiry /\ w.step = "version" /\ w.of = q.of /\ (w.settled <=> q.settled)
    BY <1>5
  <2>. HIDE DEF w
  <2>2. reach /\ Covered(q.of) => Stamped(q.of)
    BY <1>7 DEF Covered, Tools!Reached
  <2>3. Sure(w)
    BY <1>4, <1>7, <2>1, <2>2 DEF Sure
  <2>. QED
    BY <1>2, <1>7, <2>1, <2>3, GoesOn DEF w
<1>8. CASE q.step = "version" /\ inquiry' = [inquiry EXCEPT ![r] = [q EXCEPT !.step = "serve"]]
           /\ ~Tools!Outdated(passes[q.of]) /\ ~Tools!Turned(q.of)
  <2>. DEFINE w == [q EXCEPT !.step = "serve"]
  <2>1. w \in Inquiry /\ w.step = "serve" /\ w.of = q.of /\ (w.settled <=> q.settled)
    BY <1>5
  <2>. HIDE DEF w
  <2>2. ~(reach /\ Stamped(q.of))
    BY <1>8 DEF Stamped, Tools!Outdated, Tools!Reached
  <2>3. Sure(w)
    BY <1>4, <1>8, <2>1, <2>2 DEF Sure
  <2>. QED
    BY <1>2, <1>8, <2>1, <2>3, GoesOn DEF w
<1>. QED
  BY <1>1, <1>6, <1>7, <1>8, Zenon DEF Tools!CheckJti, Tools!Identify, Tools!Dispatch, Tools!At, Tools!Ends, Tools!Steps

\* Redis goes: the calls that wait for it are settled no longer, and the
\* events on the wire are lost.
LEMMA DownStep == ASSUME InquiryApart, GatewayInv, Tools!RedisDown PROVE GatewayInv'
<1>1. /\ wire' = {} /\ open' = open \cup {t \in frail : \E e \in wire : Tools!About(e, t)}
      /\ inquiry' = [r \in Request |->
           IF inquiry[r] # None /\ inquiry[r].step \in {"jti", "version"} /\ ~Tools!Turned(inquiry[r].of)
           THEN [inquiry[r] EXCEPT !.settled = FALSE] ELSE inquiry[r]]
      /\ UNCHANGED <<passes, level, barred, stamp, away, ended, frail>>
  BY Zenon DEF Tools!RedisDown
<1>2. Onward
  BY <1>1, OnwardSame
<1>3. ASSUME NEW r \in Request PROVE inquiry'[r] \in Inquiry \cup {None} /\ \A q \in Inquiry : inquiry'[r] = q => Sure(q)'
  <2>1. PICK p : p = inquiry[r]
    OBVIOUS
  <2>2. CASE p # None /\ p.step \in {"jti", "version"} /\ ~Tools!Turned(p.of)
    <3>. DEFINE w == [p EXCEPT !.settled = FALSE]
    <3>1. p \in Calling /\ p \in Inquiry
      BY <2>1, <2>2 DEF GatewayInv, GatewayOK, Inquiry, Banning, Closing, Calling
    <3>2. w \in Inquiry /\ w.step = p.step /\ w.of = p.of /\ ~w.settled
      BY <3>1 DEF Inquiry, Calling
    <3>3. inquiry'[r] = w
      BY <1>1, <2>1, <2>2
    <3>. HIDE DEF w
    <3>4. p.of \in Tools!Pass /\ Tools!Pass' = Tools!Pass
      BY <1>1, <2>1, <2>2, <3>1 DEF GatewayInv, Sured, Sure, Tools!Pass
    <3>5. Sure(w)'
      BY <2>2, <3>2, <3>4 DEF Sure
    <3>. QED
      BY <3>2, <3>3, <3>5
  <2>3. CASE ~(p # None /\ p.step \in {"jti", "version"} /\ ~Tools!Turned(p.of))
    <3>1. inquiry'[r] = p /\ p \in Inquiry \cup {None}
      BY <1>1, <2>1, <2>3 DEF GatewayInv, GatewayOK
    <3>2. ASSUME p \in Inquiry PROVE Sure(p)'
      BY <1>2, <2>1, <2>3, <3>2, SureStays DEF GatewayInv, Sured, InquiryApart
    <3>. QED
      BY <3>1, <3>2
  <2>. QED
    BY <2>2, <2>3
<1>4. GatewayOK'
  BY <1>1, <1>3 DEF GatewayInv, GatewayOK, Tools!Pass
<1>5. Sured'
  BY <1>3 DEF Sured
<1>6. Claims'
  BY <1>1 DEF GatewayInv, Claims, Tools!Pass
<1>7. Ended'
  <2>1. \A t \in Tools!Pass : /\ Tools!Turned(t) => Known(t)'
                              /\ Covered(t) => Covered(t)'
    BY <1>1, Zenon DEF Known, Covered, Stamped, Tools!Turned, Tools!About
  <2>. QED
    BY <1>1, <2>1 DEF GatewayInv, GatewayOK, Ended, Known
<1>. QED
  BY <1>4, <1>5, <1>6, <1>7 DEF GatewayInv

\* The process starts anew: what only it knew is counted open.
LEMMA RestartStep == ASSUME InquiryApart, GatewayInv, Tools!Restart PROVE GatewayInv'
<1>1. /\ barred' = [barred EXCEPT !["process"] = {}]
      /\ stamp' = [stamp EXCEPT !["process"] = [u \in User |-> 0]]
      /\ inquiry' = [r \in Request |-> None]
      /\ open' = open \cup frail
      /\ UNCHANGED <<passes, level, ended, frail>>
  BY Zenon DEF Tools!Restart
<1>2. GatewayOK' /\ barred'["redis"] = barred["redis"] /\ stamp'["redis"] = stamp["redis"]
  BY <1>1 DEF GatewayInv, GatewayOK, Tools!Pass, Tools!Store
<1>3. Claims' /\ Sured'
  BY <1>1 DEF GatewayInv, Claims, Tools!Pass, Sured, InquiryApart
<1>4. Ended'
  BY <1>1, <1>2 DEF GatewayInv, GatewayOK, Ended, Covered, Stamped
<1>. QED
  BY <1>2, <1>3, <1>4 DEF GatewayInv

LEMMA UpStep == ASSUME GatewayInv, Tools!RedisUp PROVE GatewayInv'
<1>1. reach' = TRUE /\ UNCHANGED <<passes, level, barred, stamp, wire, away, inquiry, ended, frail, open>>
  BY DEF Tools!RedisUp, Tools!history
<1>2. Onward
  BY <1>1, OnwardSame
<1>3. Sured'
  BY <1>1, <1>2, SureStays DEF GatewayInv, Sured
<1>4. GatewayOK' /\ Claims' /\ \A t \in Tools!Pass : Known(t) => Known(t)'
  BY <1>1, Zenon DEF GatewayInv, GatewayOK, Claims, Tools!Pass, Known, Tools!Turned, Tools!About
<1>. QED
  BY <1>1, <1>2, <1>3, <1>4, EndedStays DEF GatewayInv

LEMMA GatewayNext == ASSUME InquiryApart, GatewayInv, Tools!Next PROVE GatewayInv'
<1>1. ASSUME NEW r \in Request, Tools!CommitFails(r) PROVE GatewayInv'
  BY <1>1, EndsStep DEF Tools!CommitFails, Tools!Ends, Tools!history
<1>. QED
  BY <1>1, IssueStep, RevokeTokenStep, RevokeSessionStep, StampStep, CommitStep, PublishStep, HearStep, CallStep,
     LooksStep, DownStep, UpStep, RestartStep DEF Tools!Next

\* No tool serves a token whose revocation was through when the call came,
\* unless an outage, a restart, a deaf listener or revocations that overlapped
\* lost what the refusal rests on; for any users, requests, outages and
\* revocations (ToolGateway).
THEOREM RevokedTokensAreTurnedAway == Spec => []RevokedTurnedAway
<1>0. InquiryApart
  BY Zenon, NoneAssumption DEF InquiryApart, Inquiry, Banning, Closing, Calling
<1>1. Init => GatewayInv
  BY <1>0, GatewayInit DEF Init
<1>2. GatewayInv /\ [Next]_all => GatewayInv'
  <2>. SUFFICES ASSUME GatewayInv, [Next]_all PROVE GatewayInv'
    OBVIOUS
  <2>1. Tools!Next \/ UNCHANGED gateway
    BY Zenon DEF Next, all
  <2>2. CASE UNCHANGED gateway
    <3>1. UNCHANGED <<passes, level, reach, barred, stamp, wire, away, inquiry, ended, frail, open>>
      BY <2>2, Zenon DEF gateway
    <3>2. Onward
      BY <3>1, OnwardSame
    <3>3. Sured'
      BY <3>1, <3>2, SureStays DEF GatewayInv, Sured
    <3>4. GatewayOK' /\ Claims' /\ \A t \in Tools!Pass : Known(t) => Known(t)'
      BY <3>1, Zenon DEF GatewayInv, GatewayOK, Claims, Tools!Pass, Known, Tools!Turned, Tools!About
    <3>. QED
      BY <3>1, <3>2, <3>3, <3>4, EndedStays DEF GatewayInv
  <2>. QED
    BY <1>0, <2>1, <2>2, GatewayNext
<1>3. GatewayInv => RevokedTurnedAway
  <2>. SUFFICES ASSUME GatewayInv, NEW r \in Request, Tools!At(r, "serve")
                PROVE  ~inquiry[r].settled \/ inquiry[r].of \in open
    BY DEF RevokedTurnedAway, Tools!RevokedTurnedAway
  <2>1. inquiry[r] \in Inquiry /\ Sure(inquiry[r]) /\ inquiry[r].step = "serve"
    BY DEF Tools!At, GatewayInv, GatewayOK, Sured
  <2>. QED
    BY <2>1 DEF Sure
<1>. QED
  BY <1>1, <1>2, <1>3, PTL DEF Spec
-----------------------------------------------------------------------------
(* Signals: events are ingested once, and answers stand. *)

Setup    == [limit : Int, days : Int, short : Int, closed : BOOLEAN]
Kept     == [at : Int, ttl : Int]
Reply    == [shown : BOOLEAN, seen : SUBSET Event]
Memo     == [until : Int, answer : Reply]
Demand   == [job : Event \cup Activity!Query, config : Setup, limits : SUBSET Int, at : Int \cup {None}]

SignalsOK ==
    /\ store \in {"mock", "postgres"} /\ clock \in Int
    /\ config \in Setup
    /\ rows \in [Event -> Kept \cup {None}]
    /\ taken \in [Event -> Nat]
    /\ cached \in [Activity!Query -> Memo \cup {None}]
    /\ request \in [Process -> Demand \cup {None}]

Once == \A e \in Event : taken[e] = IF rows[e] = None THEN 0 ELSE 1

\* Each store keeps one of the two.
Stores ==
    /\ store = "postgres" => \A q \in Activity!Query : cached[q] = None
    /\ store = "mock" => \A p \in Process : request[p] = None

\* A kept answer counts all live events of its window, those it counts outlive
\* it by less than a cache period, and it is shown if their actors are enough.
Proper(q, m) ==
    /\ (m.answer.shown => (q = Document => Cardinality(Activity!Actors(m.answer.seen)) >= config.limit))
    /\ (~m.answer.shown => q = Document /\ Cardinality(Activity!Actors(m.answer.seen)) < config.limit)
    /\ Activity!About(q) \subseteq m.answer.seen
    /\ \A e \in m.answer.seen : rows[e] # None /\ m.until <= Activity!Until(e) + CachePeriod
    /\ q = Document => \A e \in m.answer.seen : m.until <= Activity!Last(e) + CachePeriod
Memos == \A q \in Activity!Query, m \in Memo : cached[q] = m => Proper(q, m)

\* A request's own threshold is one in force since it came.
Demands == \A p \in Process : request[p] # None => request[p].config.limit \in request[p].limits

\* Only an ingestion takes the time.
Looks == \A p \in Process : request[p] # None /\ request[p].at # None => request[p].job \in Event

SignalsInv == SignalsOK /\ Once /\ Stores /\ Memos /\ Demands /\ Looks /\ right = TRUE

SignalsApart == None \notin Kept /\ None \notin Memo /\ None \notin Demand

LEMMA SameCardinality == \A S : Activity!Cardinality(S) = Cardinality(S)
BY Zenon DEF Activity!Cardinality, Cardinality

\* Fewer events have no more actors.
LEMMA FewerActors ==
  ASSUME NEW S, NEW T \in SUBSET Event, S \subseteq T
  PROVE  /\ Cardinality(Activity!Actors(S)) \in Nat /\ Cardinality(Activity!Actors(T)) \in Nat
         /\ Cardinality(Activity!Actors(S)) <= Cardinality(Activity!Actors(T))
<1>1. IsFiniteSet(T)
  BY SignalsAssumption, FS_Subset
<1>2. IsFiniteSet({Who[e] : e \in T})
  <2>. DEFINE f == [e \in T |-> Who[e]]
              A == {Who[e] : e \in T}
  <2>1. f \in Surjection(T, A)
    BY DEF Surjection
  <2>. HIDE DEF f, A
  <2>2. IsFiniteSet(A)
    BY <1>1, <2>1, FS_Surjection
  <2>. QED
    BY <2>2 DEF A
<1>3. Activity!Actors(S) \subseteq Activity!Actors(T) /\ IsFiniteSet(Activity!Actors(T))
  BY <1>2 DEF Activity!Actors
<1>. QED
  BY <1>3, FS_Subset, FS_CardinalityType

LEMMA AboutEvents == ASSUME NEW q PROVE Activity!About(q) \subseteq Activity!Active /\ Activity!Active \subseteq Event
BY DEF Activity!About, Activity!Active

\* What is computed now is right now, and fits if it is kept.
LEMMA AnswerNow ==
  ASSUME SignalsInv, NEW q, NEW c \in Setup
  PROVE  LET a == Activity!Answer(q, c) IN
         /\ a \in Reply /\ a.seen = Activity!About(q)
         /\ a.shown => (q = Document => Cardinality(Activity!Actors(a.seen)) >= c.limit)
         /\ ~a.shown => q = Document /\ Cardinality(Activity!Actors(a.seen)) < c.limit
<1>. DEFINE shown == q = Document => Activity!Cardinality(Activity!Actors(Activity!About(q))) >= c.limit
            a == Activity!Answer(q, c)
<1>1. a = [shown |-> shown, seen |-> Activity!About(q)]
  BY Zenon DEF Activity!Answer
<1>2. shown \in BOOLEAN /\ Activity!About(q) \in SUBSET Event
  BY AboutEvents
<1>3. Activity!Cardinality(Activity!Actors(Activity!About(q))) = Cardinality(Activity!Actors(Activity!About(q)))
  BY SameCardinality
<1>4. Cardinality(Activity!Actors(Activity!About(q))) \in Nat /\ c.limit \in Int
  BY <1>2, FewerActors DEF Setup
<1>5. shown => (q = Document => Cardinality(Activity!Actors(Activity!About(q))) >= c.limit)
  BY <1>3
<1>6. ~shown => q = Document /\ Cardinality(Activity!Actors(Activity!About(q))) < c.limit
  BY <1>3, <1>4
<1>. HIDE DEF shown, a
<1>7. a \in Reply /\ a.shown = shown /\ a.seen = Activity!About(q)
  BY <1>1, <1>2 DEF Reply
<1>. QED
  BY <1>5, <1>6, <1>7 DEF a

LEMMA SignalsInit == ASSUME SignalsApart, Activity!Init PROVE SignalsInv
<1>1. /\ store \in {"mock", "postgres"} /\ config = Default /\ clock = 0 /\ right = TRUE
      /\ rows = [e \in Event |-> None] /\ taken = [e \in Event |-> 0]
      /\ cached = [q \in Activity!Query |-> None] /\ request = [p \in Process |-> None]
  BY Zenon DEF Activity!Init
<1>2. config \in Setup
  BY <1>1, SignalsAssumption DEF Setup
<1>3. SignalsOK /\ Once /\ Stores /\ Demands /\ Looks
  BY <1>1, <1>2 DEF SignalsOK, Once, Stores, Demands, Looks
<1>4. Memos
  BY <1>1 DEF Memos, SignalsApart
<1>. QED
  BY <1>1, <1>3, <1>4 DEF SignalsInv

\* An answer kept is right for as long as it is kept and fresh.
LEMMA MemoRight ==
  ASSUME SignalsInv, NEW q \in Activity!Query, NEW m \in Memo, cached[q] = m, clock <= m.until
  PROVE  Activity!Right(q, m.answer, {config.limit})
<1>. DEFINE a == m.answer
            seen == a.seen
<1>1. /\ a.shown => (q = Document => Cardinality(Activity!Actors(seen)) >= config.limit)
      /\ ~a.shown => q = Document /\ Cardinality(Activity!Actors(seen)) < config.limit
      /\ Activity!About(q) \subseteq seen
      /\ \A e \in seen : rows[e] # None /\ m.until <= Activity!Until(e) + CachePeriod
      /\ q = Document => \A e \in seen : m.until <= Activity!Last(e) + CachePeriod
  BY DEF SignalsInv, Memos, Proper
<1>2. seen \in SUBSET Event /\ m.until \in Int /\ clock \in Int /\ config.limit \in Int
  BY DEF Memo, Reply, SignalsInv, SignalsOK, Setup
<1>3. \A e \in seen : clock <= Activity!Until(e) + CachePeriod
  <2>. SUFFICES ASSUME NEW e \in seen PROVE clock <= Activity!Until(e) + CachePeriod
    OBVIOUS
  <2>1. rows[e] \in Kept
    BY <1>1, <1>2 DEF SignalsInv, SignalsOK
  <2>2. Activity!Until(e) \in Int
    BY <2>1 DEF Activity!Until, Kept
  <2>. QED
    BY <1>1, <1>2, <2>2, SignalsAssumption
<1>8. ASSUME NEW e \in seen, q = Document PROVE clock <= Activity!Last(e) + CachePeriod
  <2>1. Activity!Last(e) \in Int
    BY <1>2, SignalsAssumption DEF Activity!Last
  <2>. QED
    BY <1>1, <1>2, <1>8, <2>1, SignalsAssumption
<1>4. /\ Cardinality(Activity!Actors(Activity!About(q))) <= Cardinality(Activity!Actors(seen))
      /\ Cardinality(Activity!Actors(Activity!About(q))) \in Nat /\ Cardinality(Activity!Actors(seen)) \in Nat
  BY <1>1, <1>2, FewerActors
<1>5. /\ Activity!Cardinality(Activity!Actors(Activity!About(q))) = Cardinality(Activity!Actors(Activity!About(q)))
      /\ Activity!Cardinality(Activity!Actors(seen)) = Cardinality(Activity!Actors(seen))
  BY SameCardinality
<1>6. ~a.shown => Activity!Cardinality(Activity!Actors(Activity!About(q))) < config.limit
  BY <1>1, <1>2, <1>4, <1>5
<1>7. a.shown => /\ q = Document => Activity!Cardinality(Activity!Actors(seen)) >= config.limit
                 /\ Activity!About(q) \subseteq seen
                 /\ \A e \in seen : /\ rows[e] # None /\ clock <= Activity!Until(e) + CachePeriod
                                  /\ q = Document => clock <= Activity!Last(e) + CachePeriod
  BY <1>1, <1>3, <1>5, <1>8
<1>. QED
  BY <1>6, <1>7, Zenon DEF Activity!Right

\* An answer computed now is right under the threshold it was computed with.
LEMMA AnswerRight ==
  ASSUME SignalsInv, NEW q, NEW c \in Setup, NEW limits, c.limit \in limits
  PROVE  Activity!Right(q, Activity!Answer(q, c), limits)
<1>1. PICK a : a = Activity!Answer(q, c)
  OBVIOUS
<1>2. /\ a \in Reply /\ a.seen = Activity!About(q)
      /\ a.shown => (q = Document => Cardinality(Activity!Actors(a.seen)) >= c.limit)
      /\ ~a.shown => q = Document /\ Cardinality(Activity!Actors(a.seen)) < c.limit
  BY <1>1, AnswerNow, Zenon
<1>3. \A e \in a.seen : /\ rows[e] # None /\ clock <= Activity!Until(e) + CachePeriod
                        /\ q = Document => clock <= Activity!Last(e) + CachePeriod
  <2>. SUFFICES ASSUME NEW e \in a.seen
                PROVE  /\ rows[e] # None /\ clock <= Activity!Until(e) + CachePeriod
                       /\ q = Document => clock <= Activity!Last(e) + CachePeriod
    OBVIOUS
  <2>1. e \in Event /\ rows[e] # None /\ clock < Activity!Until(e) /\ (q = Document => clock <= Activity!Last(e))
    BY <1>2 DEF Activity!About, Activity!Active
  <2>2. rows[e] \in Kept /\ clock \in Int
    BY <2>1 DEF SignalsInv, SignalsOK
  <2>3. Activity!Until(e) \in Int /\ Activity!Last(e) \in Int
    BY <2>1, <2>2, SignalsAssumption DEF Activity!Until, Activity!Last, Kept
  <2>. QED
    BY <2>1, <2>2, <2>3, SignalsAssumption
<1>4. Activity!Cardinality(Activity!Actors(a.seen)) = Cardinality(Activity!Actors(a.seen))
  BY SameCardinality
<1>5. ~a.shown => Activity!Cardinality(Activity!Actors(Activity!About(q))) < c.limit
  BY <1>2, <1>4
<1>6. a.shown => /\ q = Document => Activity!Cardinality(Activity!Actors(a.seen)) >= c.limit
                 /\ Activity!About(q) \subseteq a.seen
                 /\ \A e \in a.seen : /\ rows[e] # None /\ clock <= Activity!Until(e) + CachePeriod
                                    /\ q = Document => clock <= Activity!Last(e) + CachePeriod
  BY <1>2, <1>3, <1>4
<1>. QED
  BY <1>1, <1>5, <1>6, Zenon DEF Activity!Right

\* A row is written once, and its event counted.
LEMMA RecordStep ==
  ASSUME SignalsApart, SignalsInv, NEW e \in Event, rows[e] = None, NEW c \in Setup, NEW at \in Int,
         Activity!Record(e, Activity!Ttl(e, c), at)
  PROVE  /\ rows' \in [Event -> Kept \cup {None}] /\ taken' \in [Event -> Nat] /\ Once'
<1>. DEFINE k == [at |-> at, ttl |-> Activity!Ttl(e, c)]
<1>1. rows' = [rows EXCEPT ![e] = k] /\ taken' = [taken EXCEPT ![e] = @ + 1]
  BY DEF Activity!Record
<1>2. k \in Kept /\ k # None
  <2>1. Activity!Ttl(e, c) \in Int
    BY SignalsAssumption DEF Setup, Activity!Ttl
  <2>. QED
    BY <2>1 DEF Kept, SignalsApart
<1>. HIDE DEF k
<1>3. taken[e] = 0
  BY DEF SignalsInv, Once
<1>. QED
  BY <1>1, <1>2, <1>3 DEF SignalsInv, SignalsOK, Once

LEMMA Forgotten == ASSUME SignalsApart, Activity!Forget
                   PROVE  /\ cached' \in [Activity!Query -> Memo \cup {None}] /\ Memos'
                          /\ \A q \in Activity!Query : cached'[q] = None
<1>1. cached' = [q \in Activity!Query |-> None]
  BY Zenon DEF Activity!Forget
<1>2. Activity!Query' = Activity!Query
  BY DEF Activity!Query
<1>. QED
  BY <1>1, <1>2 DEF Memos, SignalsApart

\* The memos stay good while rows and configuration do and time passes.
LEMMA MemosStay ==
  ASSUME SignalsInv, UNCHANGED <<rows, config>>, clock' >= clock, clock' \in Int,
         \A q \in Activity!Query, m \in Memo : cached'[q] = m => cached[q] = m
  PROVE  Memos'
<1>1. Activity!Active' \subseteq Activity!Active
  <2>. SUFFICES ASSUME NEW e \in Event, rows[e] # None, clock' < Activity!Until(e)' PROVE clock < Activity!Until(e)
    BY DEF Activity!Active
  <2>1. rows[e] \in Kept /\ clock \in Int
    BY DEF SignalsInv, SignalsOK
  <2>2. Activity!Until(e) \in Int /\ Activity!Until(e)' = Activity!Until(e)
    BY <2>1 DEF Activity!Until, Kept
  <2>. QED
    BY <2>1, <2>2
<1>2. \A q : Activity!About(q)' \subseteq Activity!About(q)
  <2>. SUFFICES ASSUME NEW q, NEW e \in Activity!About(q)' PROVE e \in Activity!About(q)
    OBVIOUS
  <2>1. e \in Activity!Active /\ IF q = Document THEN clock' <= Activity!Last(e) ELSE Who[e] = q
    BY <1>1 DEF Activity!About, Activity!Last
  <2>2. Activity!Last(e) \in Int /\ clock \in Int
    BY <2>1, SignalsAssumption DEF Activity!Last, Activity!Active, SignalsInv, SignalsOK
  <2>. QED
    BY <2>1, <2>2 DEF Activity!About
<1>3. ASSUME NEW q \in Activity!Query, NEW m \in Memo, cached'[q] = m PROVE Proper(q, m)'
  <2>1. Proper(q, m)
    BY <1>3 DEF SignalsInv, Memos
  <2>2. Activity!About(q)' \subseteq m.answer.seen
    BY <1>2, <2>1 DEF Proper
  <2>3. \A e \in m.answer.seen : rows'[e] # None /\ m.until <= Activity!Until(e)' + CachePeriod
    BY <2>1 DEF Proper, Activity!Until
  <2>5. q = Document => \A e \in m.answer.seen : m.until <= Activity!Last(e)' + CachePeriod
    BY <2>1 DEF Proper, Activity!Last
  <2>4. /\ m.answer.shown => (q = Document => Cardinality(Activity!Actors(m.answer.seen)') >= config'.limit)
        /\ ~m.answer.shown => q = Document /\ Cardinality(Activity!Actors(m.answer.seen)') < config'.limit
    BY <2>1 DEF Proper, Activity!Actors
  <2>. QED
    BY <2>2, <2>3, <2>4, <2>5, Zenon DEF Proper
<1>4. Activity!Query' = Activity!Query
  BY DEF Activity!Query
<1>. QED
  BY <1>3, <1>4 DEF Memos

LEMMA MockStep ==
  ASSUME SignalsApart, SignalsInv,
         (\E e \in Event : Activity!Ingest(e)) \/ (\E q \in Activity!Query : Activity!Ask(q))
  PROVE  SignalsInv'
<1>1. ASSUME NEW e \in Event, Activity!Ingest(e) PROVE SignalsInv'
  <2>1. /\ rows[e] = None /\ Activity!Record(e, Activity!Ttl(e, config), clock) /\ Activity!Forget
        /\ UNCHANGED <<store, clock, config, request, right>>
    BY <1>1, Zenon DEF Activity!Ingest
  <2>2. rows' \in [Event -> Kept \cup {None}] /\ taken' \in [Event -> Nat] /\ Once'
    BY <2>1, RecordStep DEF SignalsInv, SignalsOK
  <2>3. cached' \in [Activity!Query -> Memo \cup {None}] /\ Memos' /\ \A q \in Activity!Query : cached'[q] = None
    BY <2>1, Forgotten
  <2>4. SignalsOK' /\ Stores' /\ Demands' /\ Looks'
    BY <2>1, <2>2, <2>3 DEF SignalsInv, SignalsOK, Stores, Demands, Looks, Activity!Query
  <2>. QED
    BY <2>1, <2>2, <2>3, <2>4 DEF SignalsInv
<1>2. ASSUME NEW q \in Activity!Query, Activity!Ask(q) PROVE SignalsInv'
  <2>1. store = "mock" /\ UNCHANGED <<store, clock, config, rows, request, taken>>
    BY <1>2, Zenon DEF Activity!Ask
  <2>2. config \in Setup /\ config.limit \in {config.limit} /\ clock' \in Int /\ clock' >= clock
    BY <2>1 DEF SignalsInv, SignalsOK
  <2>3. CASE Activity!Fresh(q)
    <3>1. cached' = cached /\ right' = Activity!Right(q, cached[q].answer, {config.limit})
      BY <1>2, <2>3, Zenon DEF Activity!Ask
    <3>2. cached[q] \in Memo /\ clock <= cached[q].until
      BY <2>3 DEF Activity!Fresh, SignalsInv, SignalsOK
    <3>3. right'
      BY <3>1, <3>2, MemoRight
    <3>4. Memos'
      BY <2>1, <2>2, <3>1, MemosStay
    <3>5. SignalsOK' /\ Once' /\ Stores' /\ Demands' /\ Looks'
      BY <2>1, <3>1 DEF SignalsInv, SignalsOK, Once, Stores, Demands, Looks, Activity!Query
    <3>6. right' = TRUE
      BY <3>1, <3>3, Zenon DEF Activity!Right
    <3>. QED
      BY <3>4, <3>5, <3>6 DEF SignalsInv
  <2>4. CASE ~Activity!Fresh(q)
    <3>1. PICK a : a = Activity!Answer(q, config)
      OBVIOUS
    <3>. DEFINE k == [until |-> clock + CachePeriod, answer |-> a]
    <3>2. /\ cached' = [cached EXCEPT ![q] = k]
          /\ right' = Activity!Right(q, Activity!Answer(q, config), {config.limit})
      BY <1>2, <2>4, <3>1, Zenon DEF Activity!Ask
    <3>3. right'
      BY <2>2, <3>2, AnswerRight
    <3>4. /\ a \in Reply /\ a.seen = Activity!About(q)
          /\ a.shown => (q = Document => Cardinality(Activity!Actors(a.seen)) >= config.limit)
          /\ ~a.shown => q = Document /\ Cardinality(Activity!Actors(a.seen)) < config.limit
      BY <2>2, <3>1, AnswerNow, Zenon
    <3>5. PICK m : m = k
      OBVIOUS
    <3>6. m \in Memo /\ m.until = clock + CachePeriod /\ m.answer = a
      BY <2>1, <2>2, <3>4, <3>5, SignalsAssumption DEF Memo, SignalsInv, SignalsOK
    <3>. HIDE DEF k
    <3>7. \A e \in a.seen : rows[e] # None /\ clock + CachePeriod <= Activity!Until(e) + CachePeriod
      <4>. SUFFICES ASSUME NEW e \in a.seen PROVE rows[e] # None /\ clock + CachePeriod <= Activity!Until(e) + CachePeriod
        OBVIOUS
      <4>1. e \in Event /\ rows[e] # None /\ clock < Activity!Until(e)
        BY <3>4, AboutEvents DEF Activity!Active
      <4>2. rows[e] \in Kept /\ clock \in Int
        BY <4>1 DEF SignalsInv, SignalsOK
      <4>3. Activity!Until(e) \in Int
        BY <4>2 DEF Activity!Until, Kept
      <4>. QED
        BY <4>1, <4>2, <4>3, SignalsAssumption
    <3>13. ASSUME NEW e \in a.seen, q = Document PROVE clock + CachePeriod <= Activity!Last(e) + CachePeriod
      <4>1. e \in Event /\ clock <= Activity!Last(e)
        BY <3>4, <3>13 DEF Activity!About, Activity!Active
      <4>2. Activity!Last(e) \in Int /\ clock \in Int
        BY <4>1, SignalsAssumption DEF Activity!Last, SignalsInv, SignalsOK
      <4>. QED
        BY <4>1, <4>2, SignalsAssumption
    <3>8. Proper(q, m)
      BY <3>4, <3>6, <3>7, <3>13 DEF Proper
    <3>9. Proper(q, m)'
      BY <2>1, <3>8, Zenon DEF Proper, Activity!Actors, Activity!About, Activity!Active, Activity!Until,
                               Activity!Last
    <3>10. Memos'
      <4>. SUFFICES ASSUME NEW p \in Activity!Query, NEW n \in Memo, cached'[p] = n PROVE Proper(p, n)'
        BY DEF Memos, Activity!Query
      <4>1. CASE p = q
        BY <3>2, <3>5, <3>9, <4>1 DEF SignalsInv, SignalsOK
      <4>2. CASE p # q
        <5>1. Proper(p, n)
          BY <3>2, <4>2 DEF SignalsInv, SignalsOK, Memos
        <5>. QED
          BY <2>1, <5>1, Zenon DEF Proper, Activity!Actors, Activity!About, Activity!Active, Activity!Until,
                                   Activity!Last
      <4>. QED
        BY <4>1, <4>2
    <3>11. SignalsOK' /\ Once' /\ Stores' /\ Demands' /\ Looks'
      BY <2>1, <3>2, <3>5, <3>6 DEF SignalsInv, SignalsOK, Once, Stores, Demands, Looks, Activity!Query
    <3>12. right' = TRUE
      BY <3>2, <3>3, Zenon DEF Activity!Right
    <3>. QED
      BY <3>10, <3>11, <3>12 DEF SignalsInv
  <2>. QED
    BY <2>3, <2>4
<1>. QED
  BY <1>1, <1>2

\* The steps on Postgres: no answer is kept there.
LEMMA PostgresStep ==
  ASSUME SignalsApart, SignalsInv, NEW p \in Process,
         \/ \E j \in Event \cup Activity!Query : Activity!Begin(p, j)
         \/ Activity!Look(p) \/ Activity!Insert(p) \/ Activity!InsertFails(p)
         \/ Activity!CountDocument(p) \/ Activity!CountPerson(p)
  PROVE  SignalsInv'
<1>1. /\ store = "postgres" /\ UNCHANGED <<store, clock, config, cached>>
      /\ clock \in Int /\ clock' >= clock
  <2>1. store = "postgres" \/ request[p] # None
    BY Zenon DEF Activity!Begin, Activity!Look, Activity!Insert, Activity!InsertFails, Activity!CountDocument,
                 Activity!CountPerson
  <2>2. UNCHANGED <<store, clock, config, cached>>
    BY Zenon DEF Activity!Begin, Activity!Look, Activity!Insert, Activity!InsertFails, Activity!CountDocument,
                 Activity!CountPerson, Activity!Reply
  <2>3. clock \in Int /\ store \in {"mock", "postgres"}
    BY DEF SignalsInv, SignalsOK
  <2>. QED
    BY <2>1, <2>2, <2>3 DEF SignalsInv, Stores
<1>2. Memos' /\ Stores'
  BY <1>1 DEF SignalsInv, Stores, Memos, SignalsApart, Activity!Query
<1>3. ASSUME UNCHANGED <<rows, taken>>, right' = TRUE,
             NEW d \in Demand \cup {None}, d # None => d.config.limit \in d.limits,
             d # None /\ d.at # None => d.job \in Event, request' = [request EXCEPT ![p] = d]
      PROVE  SignalsInv'
  BY <1>1, <1>2, <1>3 DEF SignalsInv, SignalsOK, Once, Demands, Looks, Activity!Query
<1>4. PICK r : r = request[p]
  OBVIOUS
<1>5. /\ r \in Demand \cup {None}
      /\ r # None => /\ r.config \in Setup /\ r.config.limit \in r.limits /\ r.at \in Int \cup {None}
                     /\ r.job \in Event \cup Activity!Query
  BY <1>4 DEF SignalsInv, SignalsOK, Demands, Demand
<1>6. ASSUME NEW j \in Event \cup Activity!Query, Activity!Begin(p, j) PROVE SignalsInv'
  <2>. DEFINE d == [job |-> j, config |-> config, limits |-> {config.limit}, at |-> None]
  <2>1. d \in Demand /\ d.config.limit \in d.limits /\ d.at = None
    BY DEF Demand, Setup, SignalsInv, SignalsOK
  <2>2. request' = [request EXCEPT ![p] = d] /\ UNCHANGED <<rows, taken, right>>
    BY <1>6 DEF Activity!Begin
  <2>3. PICK k : k = d
    OBVIOUS
  <2>. HIDE DEF d
  <2>. QED
    BY <1>3, <2>1, <2>2, <2>3 DEF SignalsInv
<1>7. CASE Activity!Look(p)
  <2>1. /\ r # None /\ r.at = None /\ UNCHANGED <<rows, taken, right>>
        /\ request' = [request EXCEPT ![p] = IF rows[r.job] # None THEN None ELSE [r EXCEPT !.at = clock]]
    BY <1>4, <1>7 DEF Activity!Look
  <2>2. PICK d : d = IF rows[r.job] # None THEN None ELSE [r EXCEPT !.at = clock]
    OBVIOUS
  <2>0. r.job \in Event /\ clock \in Int
    BY <1>1, <1>4, <1>7 DEF Activity!Look
  <2>3. d \in Demand \cup {None} /\ (d # None => d.config.limit \in d.limits /\ d.job \in Event)
    BY <1>5, <2>0, <2>1, <2>2 DEF Demand
  <2>. QED
    BY <1>3, <2>1, <2>2, <2>3 DEF SignalsInv
<1>8. CASE Activity!Insert(p)
  <2>1. /\ r # None /\ r.at # None /\ rows[r.job] = None
        /\ Activity!Record(r.job, Activity!Ttl(r.job, r.config), r.at)
        /\ request' = [request EXCEPT ![p] = None] /\ right' = right
    BY <1>4, <1>8 DEF Activity!Insert
  <2>2. r.job \in Event
    BY <1>4, <1>8 DEF Activity!Insert, SignalsInv, Looks
  <2>3. rows' \in [Event -> Kept \cup {None}] /\ taken' \in [Event -> Nat] /\ Once'
    BY <1>5, <2>1, <2>2, RecordStep
  <2>. QED
    BY <1>1, <1>2, <2>1, <2>3 DEF SignalsInv, SignalsOK, Demands, Looks, Activity!Query
<1>9. CASE Activity!InsertFails(p)
  BY <1>3, <1>9 DEF Activity!InsertFails, SignalsInv
<1>10. CASE Activity!CountDocument(p) \/ Activity!CountPerson(p)
  <2>1. /\ r # None /\ right' = Activity!Right(r.job, Activity!Answer(r.job, r.config), r.limits)
        /\ request' = [request EXCEPT ![p] = None] /\ UNCHANGED <<rows, taken>>
    BY <1>4, <1>10, Zenon DEF Activity!CountDocument, Activity!CountPerson, Activity!Reply
  <2>2. right'
    BY <1>5, <2>1, AnswerRight
  <2>3. right' = TRUE
    BY <2>1, <2>2, Zenon DEF Activity!Right
  <2>. QED
    BY <1>3, <2>1, <2>3
<1>. QED
  BY <1>6, <1>7, <1>8, <1>9, <1>10

\* set_config, purge_expired and time.
LEMMA OtherStep ==
  ASSUME SignalsApart, SignalsInv, (\E c \in Config : Activity!SetConfig(c)) \/ Activity!Purge \/ Activity!Tick
  PROVE  SignalsInv'
<1>1. ASSUME NEW c \in Config, Activity!SetConfig(c) PROVE SignalsInv'
  <2>1. /\ config' = c /\ c \in Setup /\ Activity!Forget /\ UNCHANGED <<store, clock, rows, taken, right>>
        /\ request' = [p \in Process |->
             IF request[p] = None THEN None ELSE [request[p] EXCEPT !.limits = @ \cup {c.limit}]]
    BY <1>1, SignalsAssumption DEF Activity!SetConfig, Setup
  <2>2. cached' \in [Activity!Query -> Memo \cup {None}] /\ Memos' /\ \A q \in Activity!Query : cached'[q] = None
    BY <2>1, Forgotten
  <2>3. ASSUME NEW p \in Process
        PROVE  /\ request'[p] \in Demand \cup {None} /\ (request[p] = None => request'[p] = None)
               /\ request'[p] # None => /\ request'[p].config.limit \in request'[p].limits
                                        /\ request'[p].at = request[p].at /\ request'[p].job = request[p].job
    <3>1. CASE request[p] = None
      BY <2>1, <3>1
    <3>2. CASE request[p] # None
      <4>1. PICK r : r = request[p]
        OBVIOUS
      <4>2. r \in Demand /\ r.config.limit \in r.limits
        BY <3>2, <4>1 DEF SignalsInv, SignalsOK, Demands
      <4>3. request'[p] = [r EXCEPT !.limits = r.limits \cup {c.limit}]
        BY <2>1, <3>2, <4>1
      <4>. QED
        BY <2>1, <3>2, <4>1, <4>2, <4>3 DEF Demand, Setup
    <3>. QED
      BY <3>1, <3>2
  <2>4. SignalsOK' /\ Once' /\ Stores' /\ Demands' /\ Looks'
    BY <2>1, <2>2, <2>3 DEF SignalsInv, SignalsOK, Once, Stores, Demands, Looks, Activity!Query
  <2>5. Looks'
    BY <2>1, <2>3 DEF SignalsInv, Looks
  <2>. QED
    BY <2>1, <2>2, <2>4, <2>5 DEF SignalsInv
<1>2. CASE Activity!Purge
  <2>1. /\ rows' = [e \in Event |-> IF e \in Activity!Active THEN rows[e] ELSE None]
        /\ taken' = [e \in Event |-> IF e \in Activity!Active THEN taken[e] ELSE 0]
        /\ Activity!Forget /\ UNCHANGED <<store, clock, config, request, right>>
    BY <1>2 DEF Activity!Purge
  <2>2. cached' \in [Activity!Query -> Memo \cup {None}] /\ Memos' /\ \A q \in Activity!Query : cached'[q] = None
    BY <2>1, Forgotten
  <2>3. SignalsOK' /\ Once' /\ Stores' /\ Demands' /\ Looks'
    BY <2>1, <2>2 DEF SignalsInv, SignalsOK, Once, Stores, Demands, Activity!Query, Looks
  <2>. QED
    BY <2>1, <2>2, <2>3 DEF SignalsInv
<1>3. CASE Activity!Tick
  <2>1. clock' = clock + 1 /\ UNCHANGED <<store, config, rows, cached, request, taken, right>> /\ clock \in Int
    BY <1>3 DEF Activity!Tick, SignalsInv, SignalsOK
  <2>2. Memos'
    BY <2>1, MemosStay
  <2>3. SignalsOK' /\ Once' /\ Stores' /\ Demands' /\ Looks'
    BY <2>1 DEF SignalsInv, SignalsOK, Once, Stores, Demands, Activity!Query, Looks
  <2>. QED
    BY <2>1, <2>2, <2>3 DEF SignalsInv
<1>. QED
  BY <1>1, <1>2, <1>3

LEMMA SignalsNext == ASSUME SignalsApart, SignalsInv, Activity!Next PROVE SignalsInv'
BY MockStep, PostgresStep, OtherStep DEF Activity!Next

LEMMA SignalsAlways == Spec => []SignalsInv
<1>0. SignalsApart
  BY Zenon, NoneAssumption DEF SignalsApart, Kept, Memo, Reply, Demand, Setup, Activity!Query
<1>1. Init => SignalsInv
  BY <1>0, SignalsInit DEF Init
<1>2. SignalsInv /\ [Next]_all => SignalsInv'
  <2>. SUFFICES ASSUME SignalsInv, [Next]_all PROVE SignalsInv'
    OBVIOUS
  <2>1. Activity!Next \/ UNCHANGED signals
    BY Zenon DEF Next, all
  <2>2. CASE UNCHANGED signals
    <3>1. UNCHANGED <<store, clock, config, rows, cached, request, taken, right>> /\ clock \in Int
      BY <2>2 DEF signals, SignalsInv, SignalsOK
    <3>2. Memos'
      BY <3>1, MemosStay
    <3>3. SignalsOK' /\ Once' /\ Stores' /\ Demands' /\ Looks'
      BY <3>1 DEF SignalsInv, SignalsOK, Once, Stores, Demands, Activity!Query, Looks
    <3>. QED
      BY <3>1, <3>2, <3>3 DEF SignalsInv
  <2>. QED
    BY <1>0, <2>1, <2>2, SignalsNext
<1>. QED
  BY <1>1, <1>2, PTL DEF Spec

\* An event is answered "ingested" once, whichever processes its retries reach,
\* until a purge has removed it; for any events, processes and configurations
\* (Signals).
THEOREM EventsAreIngestedOnce == Spec => []IngestedOnce
<1>1. SignalsInv => IngestedOnce
  BY DEF SignalsInv, Once, IngestedOnce, Activity!IngestedOnce
<1>. QED
  BY <1>1, SignalsAlways, PTL

\* An answer shows numbers only of enough actors, misses no live event of the
\* popularity window, and counts none that expired or left the window more than
\* the cache period ago; for any events, actors, thresholds, terms, window and
\* cache period (Signals).
THEOREM SignalsAnswerRightly == Spec => []AnswerStands
<1>1. SignalsInv => AnswerStands
  BY DEF SignalsInv, AnswerStands, Activity!AnswerStands
<1>. QED
  BY <1>1, SignalsAlways, PTL
-----------------------------------------------------------------------------
(* MicrosoftSync: no link passes what was not taken up. *)

Docs == UNION {[items -> Nat] : items \in SUBSET Item}
Job  == [pc : {"idle", "purge", "fetch", "index", "store", "finish"}, crawl : BOOLEAN, at : Int, docs : Docs,
         next : Int, more : BOOLEAN]

MailOK ==
    /\ feed \in Seq(Item) /\ present \subseteq Item
    /\ version \in [Item -> Nat] /\ top \in [Item -> Nat] /\ lost \in [Item -> Nat]
    /\ stored \in Int
    /\ task \in [Worker -> Job]
    /\ \A i \in Item : top[i] <= version[i] /\ lost[i] <= version[i]

\* The item was indexed at its version, or dropped.
Taken(i) == version[i] \in {top[i], lost[i]}

\* All changes of i are at or before c; and whatever is so was taken up.
Behind(i, c) == \A p \in 1..Len(feed) : feed[p] = i => p <= c
Covers(c)    == c <= Len(feed) /\ \A i \in present : Behind(i, c) => Taken(i)

\* What is there was announced.
Announced == \A i \in present : \E p \in 1..Len(feed) : feed[p] = i

\* A task holds the current version of what changed in its page and not since.
JobOK(t) ==
    /\ Covers(t.at)
    /\ t.pc = "store" => Covers(t.next)
    /\ t.pc = "index" =>
         /\ t.next <= Len(feed)
         /\ \A i \in DOMAIN t.docs : t.docs[i] <= version[i]
         /\ \A i \in present : Behind(i, t.next) => Behind(i, t.at) \/ (i \in DOMAIN t.docs /\ t.docs[i] = version[i])
Jobs == \A w \in Worker, t \in Job : task[w] = t => JobOK(t)

MailInv == MailOK /\ Announced /\ Covers(stored) /\ Jobs

LEMMA IdleJob == Mail!Idle \in Job /\ Mail!Idle.at = -1 /\ Mail!Idle.pc = "idle"
<1>1. <<>> \in [{} -> Nat]
  OBVIOUS
<1>2. <<>> \in Docs
  BY <1>1 DEF Docs
<1>. QED
  BY <1>2 DEF Mail!Idle, Mail!NoCursor, Job

\* At the beginning of the feed nothing is behind.
LEMMA StartCovers == ASSUME MailOK, Announced PROVE Covers(-1)
BY DEF MailOK, Announced, Covers, Behind

LEMMA MailInit == ASSUME Mail!Init PROVE MailInv
<1>1. /\ feed = <<>> /\ present = {} /\ stored = -1 /\ task = [w \in Worker |-> Mail!Idle]
      /\ version = [i \in Item |-> 0] /\ top = version /\ lost = version
  BY Zenon DEF Mail!Init, Mail!NoCursor
<1>2. MailOK /\ Announced
  BY <1>1, IdleJob DEF MailOK, Announced
<1>3. Covers(stored)
  BY <1>1, <1>2, StartCovers
<1>4. Jobs
  BY <1>1, <1>3, IdleJob DEF Jobs, JobOK
<1>. QED
  BY <1>2, <1>3, <1>4 DEF MailInv

\* A step that forgets no change and no version.
Forth ==
    /\ Len(feed) <= Len(feed')
    /\ \A i \in Item : version[i] <= version'[i]
    /\ \A i \in present', c \in Int : c <= Len(feed) /\ Behind(i, c)' =>
         /\ i \in present /\ Behind(i, c) /\ version'[i] = version[i]
         /\ Taken(i) => Taken(i)'
         /\ \A p \in 1..Len(feed') : feed'[p] = i => p \in 1..Len(feed) /\ feed[p] = i

LEMMA CoversStays == ASSUME MailOK, MailOK', Forth, NEW c \in Int, Covers(c) PROVE Covers(c)'
BY DEF MailOK, Forth, Covers

LEMMA JobStays == ASSUME MailOK, MailOK', Forth, NEW t \in Job, JobOK(t) PROVE JobOK(t)'
<1>1. t.at \in Int /\ t.next \in Int
  BY DEF Job
<1>2. Covers(t.at)' /\ (t.pc = "store" => Covers(t.next)')
  BY <1>1, CoversStays DEF JobOK
<1>3. ASSUME t.pc = "index"
      PROVE  /\ t.next <= Len(feed')
             /\ \A i \in DOMAIN t.docs : t.docs[i] <= version'[i]
             /\ \A i \in present' : Behind(i, t.next)' => Behind(i, t.at)' \/ (i \in DOMAIN t.docs /\ t.docs[i] = version'[i])
  <2>1. /\ t.next <= Len(feed) /\ t.at <= Len(feed)
        /\ \A i \in DOMAIN t.docs : t.docs[i] <= version[i]
        /\ \A i \in present : Behind(i, t.next) => Behind(i, t.at) \/ (i \in DOMAIN t.docs /\ t.docs[i] = version[i])
    BY <1>3 DEF JobOK, Covers
  <2>2. t.next <= Len(feed')
    BY <1>1, <2>1 DEF Forth, MailOK
  <2>3. ASSUME NEW i \in DOMAIN t.docs PROVE t.docs[i] <= version'[i]
    <3>1. PICK S \in SUBSET Item : t.docs \in [S -> Nat]
      BY DEF Job, Docs
    <3>2. i \in Item /\ t.docs[i] \in Nat
      BY <3>1
    <3>. QED
      BY <2>1, <3>2 DEF Forth, MailOK
  <2>4. ASSUME NEW i \in present', Behind(i, t.next)'
        PROVE  Behind(i, t.at)' \/ (i \in DOMAIN t.docs /\ t.docs[i] = version'[i])
    <3>1. i \in present /\ Behind(i, t.next) /\ version'[i] = version[i]
      BY <1>1, <2>1, <2>4 DEF Forth
    <3>2. \A p \in 1..Len(feed') : feed'[p] = i => p \in 1..Len(feed) /\ feed[p] = i
      BY <1>1, <2>1, <2>4 DEF Forth
    <3>3. Behind(i, t.at) => Behind(i, t.at)'
      BY <3>2 DEF Behind
    <3>. QED
      BY <2>1, <3>1, <3>3
  <2>. QED
    BY <2>2, <2>3, <2>4
<1>. QED
  BY <1>2, <1>3, Zenon DEF JobOK

\* The steps of a task: nothing changes in the account.
LEMMA SameAccount ==
  ASSUME MailOK, MailOK', UNCHANGED <<feed, version, present>>, \A i \in Item : Taken(i) => Taken(i)'
  PROVE  Forth
BY DEF MailOK, Forth, Behind

\* A change that is announced is behind no cursor.
LEMMA AnnounceStep ==
  ASSUME MailInv, NEW i \in Item, Mail!Write(i) \/ Mail!Delete(i)
  PROVE  MailInv'
<1>. DEFINE n == Len(feed) + 1
<1>1. /\ feed' = Append(feed, i) /\ UNCHANGED <<top, lost, stored, task>>
      /\ \/ version' = [version EXCEPT ![i] = @ + 1] /\ present' = present \cup {i}
         \/ version' = version /\ present' = present \ {i}
  BY DEF Mail!Write, Mail!Delete, Mail!Announce
<1>2. feed \in Seq(Item) /\ Len(feed) \in Nat
  BY DEF MailInv, MailOK
<1>3. /\ feed' \in Seq(Item) /\ Len(feed') = n /\ feed'[n] = i
      /\ \A p \in 1..Len(feed) : feed'[p] = feed[p]
  BY <1>1, <1>2
<1>4. MailOK'
  <2>1. /\ version \in [Item -> Nat] /\ top \in [Item -> Nat] /\ lost \in [Item -> Nat]
        /\ \A j \in Item : top[j] <= version[j] /\ lost[j] <= version[j]
    BY DEF MailInv, MailOK
  <2>2. version' \in [Item -> Nat] /\ \A j \in Item : version[j] <= version'[j]
    <3>1. CASE version' = version
      BY <2>1, <3>1
    <3>2. CASE version' = [version EXCEPT ![i] = @ + 1]
      <4>1. version[i] + 1 \in Nat
        BY <2>1
      <4>2. version' \in [Item -> Nat]
        BY <2>1, <3>2, <4>1
      <4>3. ASSUME NEW j \in Item PROVE version[j] <= version'[j]
        BY <2>1, <3>2
      <4>. QED
        BY <4>2, <4>3
    <3>. QED
      BY <1>1, <3>1, <3>2
  <2>3. \A j \in Item : top'[j] <= version'[j] /\ lost'[j] <= version'[j]
    BY <1>1, <2>1, <2>2
  <2>4. present' \subseteq Item
    BY <1>1 DEF MailInv, MailOK
  <2>. QED
    BY <1>1, <1>3, <2>2, <2>3, <2>4 DEF MailInv, MailOK
<1>5. Forth
  <2>1. /\ Len(feed) <= Len(feed')
        /\ \A j \in Item : version[j] <= version'[j]
    BY <1>1, <1>2, <1>3 DEF MailInv, MailOK
  <2>2. ASSUME NEW j \in present', NEW c \in Int, c <= Len(feed), Behind(j, c)' PROVE j # i
    BY <1>2, <1>3, <2>2 DEF Behind
  <2>3. ASSUME NEW j \in present', NEW c \in Int, c <= Len(feed), Behind(j, c)'
        PROVE  /\ j \in present /\ Behind(j, c) /\ version'[j] = version[j]
               /\ Taken(j) => Taken(j)'
               /\ \A p \in 1..Len(feed') : feed'[p] = j => p \in 1..Len(feed) /\ feed[p] = j
    <3>1. j # i /\ j \in present /\ j \in Item
      BY <1>1, <2>2, <2>3 DEF MailInv, MailOK
    <3>2. version'[j] = version[j] /\ (Taken(j) => Taken(j)')
      BY <1>1, <3>1 DEF MailInv, MailOK, Taken
    <3>3. \A p \in 1..Len(feed') : feed'[p] = j => p \in 1..Len(feed) /\ feed[p] = j
      BY <1>2, <1>3, <3>1
    <3>4. Behind(j, c)
      BY <1>2, <1>3, <2>3 DEF Behind
    <3>. QED
      BY <3>1, <3>2, <3>3, <3>4
  <2>. QED
    BY <2>1, <2>3 DEF Forth
<1>6. Announced'
  <2>. SUFFICES ASSUME NEW j \in present' PROVE \E p \in 1..Len(feed') : feed'[p] = j
    BY DEF Announced
  <2>1. CASE j = i
    BY <1>2, <1>3, <2>1
  <2>2. CASE j # i
    <3>1. PICK p \in 1..Len(feed) : feed[p] = j
      BY <1>1, <2>2 DEF MailInv, Announced
    <3>. QED
      BY <1>2, <1>3, <3>1
  <2>. QED
    BY <2>1, <2>2
<1>7. Covers(stored)' /\ Jobs'
  BY <1>1, <1>4, <1>5, CoversStays, JobStays DEF MailInv, MailOK, Jobs
<1>. QED
  BY <1>4, <1>6, <1>7 DEF MailInv

\* A step of the worker w that leaves the account alone.
LEMMA WorkerStep ==
  ASSUME MailInv, NEW w \in Worker, NEW t \in Job, task' = [task EXCEPT ![w] = t],
         UNCHANGED <<feed, version, present, top, lost>>, stored' \in Int, Covers(stored'), JobOK(t)
  PROVE  MailInv'
<1>1. MailOK'
  BY DEF MailInv, MailOK
<1>2. Forth
  BY <1>1, SameAccount DEF MailInv, Taken
<1>3. Covers(stored)'
  BY <1>1, <1>2, CoversStays DEF MailInv, Covers, Behind, Taken
<1>4. JobOK(t)'
  BY <1>1, <1>2, JobStays DEF MailInv
<1>5. Jobs'
  BY <1>1, <1>2, <1>4, JobStays DEF MailInv, MailOK, Jobs
<1>6. Announced'
  BY DEF MailInv, Announced
<1>. QED
  BY <1>1, <1>3, <1>5, <1>6 DEF MailInv

\* The beginnings and the ends of a task.
LEMMA TasksStep ==
  ASSUME MailInv, NEW w \in Worker,
         \/ Mail!Crawl(w) \/ Mail!Purge(w) \/ Mail!Notify(w) \/ Mail!FetchFails(w) \/ Mail!IndexFails(w)
         \/ Mail!Store(w) \/ Mail!Finish(w)
  PROVE  MailInv'
<1>1. PICK t : t = task[w]
  OBVIOUS
<1>2. t \in Job /\ JobOK(t) /\ t.at \in Int /\ t.next \in Int
  BY <1>1 DEF MailInv, MailOK, Jobs, Job
<1>3. stored \in Int /\ Covers(stored) /\ Covers(-1)
  BY StartCovers DEF MailInv, MailOK
<1>4. JobOK(Mail!Idle)
  BY <1>3, IdleJob DEF JobOK
<1>5. UNCHANGED <<feed, version, present, top, lost>>
  BY Zenon DEF Mail!Crawl, Mail!Purge, Mail!Notify, Mail!FetchFails, Mail!IndexFails, Mail!Store,
             Mail!Finish
<1>6. CASE task' = [task EXCEPT ![w] = Mail!Idle] /\ stored' = stored
  BY <1>3, <1>4, <1>5, <1>6, IdleJob, WorkerStep
<1>7. ASSUME NEW crawl_ \in BOOLEAN, Mail!Begin(w, crawl_), stored' = stored PROVE MailInv'
  <2>1. PICK n : n = [Mail!Idle EXCEPT !.pc = IF crawl_ THEN "purge" ELSE "fetch", !.crawl = crawl_, !.at = stored]
    OBVIOUS
  <2>2. n \in Job /\ n.pc \in {"purge", "fetch"} /\ n.at = stored
    BY <1>3, <2>1, IdleJob DEF Job
  <2>3. JobOK(n)
    BY <1>3, <2>2 DEF JobOK
  <2>. QED
    BY <1>3, <1>5, <1>7, <2>1, <2>2, <2>3, WorkerStep DEF Mail!Begin
<1>8. CASE Mail!Crawl(w)
  BY <1>7, <1>8 DEF Mail!Crawl
<1>9. CASE Mail!Notify(w)
  <2>1. CASE stored = Mail!NoCursor
    <3>1. task' = [task EXCEPT ![w] = t] /\ stored' = stored
      BY <1>1, <1>9, <2>1 DEF Mail!Notify, MailInv, MailOK
    <3>. QED
      BY <1>2, <1>3, <1>5, <3>1, WorkerStep
  <2>2. CASE stored # Mail!NoCursor
    BY <1>7, <1>9, <2>2 DEF Mail!Notify
  <2>. QED
    BY <2>1, <2>2
<1>10. CASE Mail!FetchFails(w)
  <2>1. stored' = stored
    BY <1>10, Zenon DEF Mail!FetchFails
  <2>2. CASE task' = [task EXCEPT ![w].pc = "finish"]
    <3>1. PICK n : n = [t EXCEPT !.pc = "finish"]
      OBVIOUS
    <3>2. n \in Job /\ n.pc = "finish" /\ n.at = t.at
      BY <1>2, <3>1 DEF Job
    <3>3. JobOK(n)
      BY <1>2, <3>2 DEF JobOK
    <3>. QED
      BY <1>1, <1>3, <1>5, <2>1, <2>2, <3>1, <3>2, <3>3, WorkerStep
  <2>3. CASE task' = [task EXCEPT ![w] = Mail!Idle]
    BY <1>6, <2>1, <2>3
  <2>. QED
    BY <1>10, <2>2, <2>3, Zenon DEF Mail!FetchFails
<1>11. CASE Mail!IndexFails(w)
  BY <1>6, <1>11 DEF Mail!IndexFails
<1>12. CASE Mail!Store(w)
  <2>1. /\ t.pc = "store" /\ stored' = t.next
        /\ task' = [task EXCEPT ![w] = IF ~t.crawl THEN Mail!Idle
                                       ELSE [t EXCEPT !.pc = IF t.more THEN "fetch" ELSE "finish",
                                                      !.at = t.next, !.docs = <<>>]]
    BY <1>1, <1>12, Zenon DEF Mail!Store
  <2>2. Covers(t.next)
    BY <1>2, <2>1 DEF JobOK
  <2>3. PICK n : n = IF ~t.crawl THEN Mail!Idle
                     ELSE [t EXCEPT !.pc = IF t.more THEN "fetch" ELSE "finish", !.at = t.next, !.docs = <<>>]
    OBVIOUS
  <2>4. CASE ~t.crawl
    BY <1>2, <1>4, <1>5, <2>1, <2>2, <2>4, IdleJob, WorkerStep
  <2>5. CASE t.crawl
    <3>1. <<>> \in Docs
      BY IdleJob DEF Mail!Idle, Job
    <3>2. n \in Job /\ n.pc \in {"fetch", "finish"} /\ n.at = t.next
      BY <1>2, <2>3, <2>5, <3>1 DEF Job
    <3>3. JobOK(n)
      BY <2>2, <3>2 DEF JobOK
    <3>. QED
      BY <1>2, <1>5, <2>1, <2>2, <2>3, <3>2, <3>3, WorkerStep
  <2>. QED
    BY <2>4, <2>5
<1>13. CASE Mail!Finish(w)
  <2>1. task' = [task EXCEPT ![w] = Mail!Idle] /\ stored' = IF t.at = Mail!NoCursor THEN stored ELSE t.at
    BY <1>1, <1>13, Zenon DEF Mail!Finish
  <2>2. stored' \in Int /\ Covers(stored')
    BY <1>2, <1>3, <2>1 DEF JobOK
  <2>. QED
    BY <1>4, <1>5, <2>1, <2>2, IdleJob, WorkerStep
<1>14. CASE Mail!Purge(w)
  <2>1. PICK n : n = [t EXCEPT !.pc = "fetch"]
    OBVIOUS
  <2>2. task' = [task EXCEPT ![w] = n] /\ stored' = stored
    BY <1>1, <1>14, <2>1, Zenon DEF Mail!Purge
  <2>3. n \in Job /\ n.pc = "fetch" /\ n.at = t.at
    BY <1>2, <2>1 DEF Job
  <2>4. JobOK(n)
    BY <1>2, <2>3 DEF JobOK
  <2>. QED
    BY <1>3, <1>5, <2>2, <2>3, <2>4, WorkerStep
<1>. QED
  BY <1>8, <1>9, <1>10, <1>11, <1>12, <1>13, <1>14

\* A page is read: every item that changed in it, as it is now.
LEMMA FetchStep ==
  ASSUME MailInv, NEW w \in Worker, Mail!Fetch(w)
  PROVE  MailInv'
<1>1. PICK t : t = task[w]
  OBVIOUS
<1>2. t \in Job /\ JobOK(t) /\ t.at \in Int
  BY <1>1 DEF MailInv, MailOK, Jobs, Job
<1>. DEFINE end == Mail!PageEnd(w)
            items == Mail!Live(Mail!Changed(w))
            docs == Mail!Documents(items)
            n == [t EXCEPT !.pc = "index", !.next = end, !.more = end < Len(feed), !.docs = docs]
<1>3. task' = [task EXCEPT ![w] = n] /\ UNCHANGED <<feed, version, present, top, lost, stored>>
  BY <1>1, Zenon DEF Mail!Fetch
<1>4. Len(feed) \in Nat /\ version \in [Item -> Nat] /\ present \subseteq Item
  BY DEF MailInv, MailOK
<1>5. Mail!From(w) = IF t.at = -1 THEN 0 ELSE t.at
  BY <1>1 DEF Mail!From, Mail!NoCursor
<1>6. end \in Int /\ end <= Len(feed)
  BY <1>2, <1>4, <1>5, PageAssumption DEF Mail!PageEnd
<1>7. items = {feed[p] : p \in Mail!From(w) + 1 .. end} \cap present
  BY DEF Mail!Live, Mail!Changed
<1>8. docs = [i \in items |-> version[i]]
  BY DEF Mail!Documents
<1>9. (end < Len(feed)) \in BOOLEAN
  OBVIOUS
<1>. HIDE DEF end, items, docs
<1>10. /\ DOMAIN docs = items /\ items \subseteq present
       /\ \A i \in items : docs[i] = version[i]
  BY <1>7, <1>8
<1>11. docs \in [items -> Nat]
  BY <1>4, <1>8, <1>10
<1>12. docs \in Docs
  BY <1>4, <1>10, <1>11 DEF Docs
<1>13. PICK m : m = n
  OBVIOUS
<1>14. m \in Job /\ m.pc = "index" /\ m.at = t.at /\ m.next = end /\ m.docs = docs
  BY <1>2, <1>6, <1>9, <1>12, <1>13 DEF Job
<1>15. ASSUME NEW i \in present, Behind(i, end)
       PROVE  Behind(i, t.at) \/ (i \in DOMAIN docs /\ docs[i] = version[i])
  <2>. SUFFICES ASSUME NEW p \in 1..Len(feed), feed[p] = i, ~(p <= t.at) PROVE i \in items
    BY <1>10 DEF Behind
  <2>1. p <= end
    BY <1>15 DEF Behind
  <2>2. p \in Mail!From(w) + 1 .. end
    BY <1>2, <1>4, <1>5, <1>6, <2>1
  <2>. QED
    BY <1>7, <2>2
<1>16. \A i \in DOMAIN docs : docs[i] <= version[i]
  BY <1>4, <1>10
<1>17. JobOK(m)
  BY <1>2, <1>6, <1>14, <1>15, <1>16 DEF JobOK
<1>. QED
  BY <1>3, <1>13, <1>14, <1>17, WorkerStep DEF MailInv, MailOK

\* No mark is lowered or passes the version; and a mark is as high as v.
Marked(i) == top[i] <= top'[i] /\ top'[i] <= version[i] /\ lost[i] <= lost'[i] /\ lost'[i] <= version[i]
Reached(i, v) == v <= top'[i] \/ v <= lost'[i]

\* A page is taken up: of its items, those of K are indexed, those of D dropped.
LEMMA TakenUp ==
  ASSUME MailInv, NEW w \in Worker, NEW t \in Job, t = task[w], Mail!Pipe(w) \/ Mail!Index(w)
  PROVE  /\ top' \in [Item -> Nat] /\ lost' \in [Item -> Nat]
         /\ \A i \in Item : Marked(i) /\ (i \in DOMAIN t.docs => Reached(i, t.docs[i]))
<1>1. /\ version \in [Item -> Nat] /\ top \in [Item -> Nat] /\ lost \in [Item -> Nat]
      /\ \A i \in Item : top[i] <= version[i] /\ lost[i] <= version[i]
  BY DEF MailInv, MailOK
<1>2. t.pc = "index"
  BY DEF Mail!Pipe, Mail!Index
<1>3. \A i \in Item : i \in DOMAIN t.docs => t.docs[i] \in Nat /\ t.docs[i] <= version[i]
  <2>1. PICK S \in SUBSET Item : t.docs \in [S -> Nat]
    BY DEF Job, Docs
  <2>2. JobOK(t)
    BY DEF MailInv, Jobs
  <2>. QED
    BY <1>2, <2>1, <2>2 DEF JobOK
<1>4. PICK K, D : /\ DOMAIN t.docs = K \cup D
                  /\ top' = [i \in Item |-> IF i \in K /\ t.docs[i] > top[i] THEN t.docs[i] ELSE top[i]]
                  /\ lost' = [i \in Item |-> IF i \in D /\ t.docs[i] > lost[i] THEN t.docs[i] ELSE lost[i]]
  <2>1. CASE Mail!Index(w)
    <3>1. top' = Mail!Raise(top, t.docs) /\ lost' = lost
      BY <2>1, Zenon DEF Mail!Index
    <3>2. PICK K, D : K = DOMAIN t.docs /\ D = {}
      OBVIOUS
    <3>4. lost' = [i \in Item |-> IF i \in D /\ t.docs[i] > lost[i] THEN t.docs[i] ELSE lost[i]]
      BY <1>1, <3>1, <3>2
    <3>5. top' = [i \in Item |-> IF i \in K /\ t.docs[i] > top[i] THEN t.docs[i] ELSE top[i]]
      BY <3>1, <3>2 DEF Mail!Raise
    <3>6. DOMAIN t.docs = K \cup D
      BY <3>2
    <3>. QED
      BY <3>4, <3>5, <3>6, Zenon
  <2>2. CASE Mail!Pipe(w)
    <3>. DEFINE Of(items) == [i \in items |-> t.docs[i]]
    <3>1. PICK D \in SUBSET DOMAIN t.docs :
            top' = Mail!Raise(top, Of(DOMAIN t.docs \ D)) /\ lost' = Mail!Raise(lost, Of(D))
      BY <2>2, Zenon DEF Mail!Pipe
    <3>2. PICK K : K = DOMAIN t.docs \ D
      OBVIOUS
    <3>3. top' = [i \in Item |-> IF i \in K /\ t.docs[i] > top[i] THEN t.docs[i] ELSE top[i]]
      BY <3>1, <3>2 DEF Mail!Raise
    <3>4. lost' = [i \in Item |-> IF i \in D /\ t.docs[i] > lost[i] THEN t.docs[i] ELSE lost[i]]
      BY <3>1 DEF Mail!Raise
    <3>5. DOMAIN t.docs = K \cup D
      BY <3>1, <3>2
    <3>. QED
      BY <3>3, <3>4, <3>5, Zenon
  <2>. QED
    BY <2>1, <2>2
<1>5. top' \in [Item -> Nat] /\ lost' \in [Item -> Nat]
  BY <1>1, <1>3, <1>4
<1>6. ASSUME NEW i \in Item
      PROVE  Marked(i) /\ (i \in DOMAIN t.docs => Reached(i, t.docs[i]))
  <2>1. /\ top'[i] = IF i \in K /\ t.docs[i] > top[i] THEN t.docs[i] ELSE top[i]
        /\ lost'[i] = IF i \in D /\ t.docs[i] > lost[i] THEN t.docs[i] ELSE lost[i]
    BY <1>4
  <2>2. top[i] \in Nat /\ lost[i] \in Nat /\ version[i] \in Nat /\ top[i] <= version[i] /\ lost[i] <= version[i]
    BY <1>1
  <2>. QED
    BY <1>3, <1>4, <2>1, <2>2 DEF Marked, Reached
<1>. QED
  BY <1>5, <1>6, Zenon

LEMMA IndexStep ==
  ASSUME MailInv, NEW w \in Worker, Mail!Pipe(w) \/ Mail!Index(w)
  PROVE  MailInv'
<1>1. PICK t : t = task[w]
  OBVIOUS
<1>2. t \in Job /\ JobOK(t) /\ t.at \in Int /\ t.next \in Int
  BY <1>1 DEF MailInv, MailOK, Jobs, Job
<1>3. PICK n : n = [t EXCEPT !.pc = "store"]
  OBVIOUS
<1>4. t.pc = "index" /\ task' = [task EXCEPT ![w] = n] /\ UNCHANGED <<feed, version, present, stored>>
  BY <1>1, <1>3, Zenon DEF Mail!Pipe, Mail!Index
<1>5. n \in Job /\ n.pc = "store" /\ n.at = t.at /\ n.next = t.next
  BY <1>2, <1>3 DEF Job
<1>7. /\ version \in [Item -> Nat] /\ top \in [Item -> Nat] /\ lost \in [Item -> Nat] /\ present \subseteq Item
      /\ \A i \in Item : top[i] <= version[i] /\ lost[i] <= version[i]
  BY DEF MailInv, MailOK
<1>8. /\ top' \in [Item -> Nat] /\ lost' \in [Item -> Nat]
      /\ \A i \in Item : Marked(i) /\ (i \in DOMAIN t.docs => Reached(i, t.docs[i]))
  BY <1>1, <1>2, TakenUp
<1>9. version' = version /\ \A i \in Item : /\ version[i] \in Nat /\ top[i] \in Nat /\ lost[i] \in Nat
                                            /\ top'[i] \in Nat /\ lost'[i] \in Nat
  BY <1>4, <1>7, <1>8
<1>10. MailOK'
  <2>1. task' \in [Worker -> Job]
    BY <1>4, <1>5 DEF MailInv, MailOK
  <2>2. \A i \in Item : top'[i] <= version'[i] /\ lost'[i] <= version'[i]
    BY <1>8, <1>9 DEF Marked
  <2>. QED
    BY <1>4, <1>8, <2>1, <2>2 DEF MailInv, MailOK
<1>11. \A i \in Item : Taken(i) => Taken(i)'
  <2>. SUFFICES ASSUME NEW i \in Item, Taken(i) PROVE Taken(i)'
    OBVIOUS
  <2>1. Marked(i)
    BY <1>8, Zenon
  <2>. QED
    BY <1>9, <2>1 DEF Taken, Marked
<1>12. Forth
  BY <1>4, <1>10, <1>11, SameAccount DEF MailInv
<1>13. Covers(t.at)' /\ Covers(stored)'
  <2>1. Covers(t.at) /\ Covers(stored) /\ stored' = stored /\ stored \in Int
    BY <1>2, <1>4 DEF MailInv, MailOK, JobOK
  <2>2. \A c \in Int : Covers(c) => Covers(c)'
    BY <1>10, <1>12, CoversStays DEF MailInv
  <2>. QED
    BY <1>2, <2>1, <2>2 DEF Covers, Behind, Taken
<1>14. Covers(t.next)'
  <2>1. /\ t.next <= Len(feed)
        /\ \A i \in present : Behind(i, t.next) => Behind(i, t.at) \/ (i \in DOMAIN t.docs /\ t.docs[i] = version[i])
    BY <1>2, <1>4 DEF JobOK
  <2>. SUFFICES ASSUME NEW i \in present, Behind(i, t.next) PROVE Taken(i)'
    BY <1>4, <2>1 DEF Covers, Behind
  <2>2. i \in Item
    BY <1>7
  <2>3. CASE Behind(i, t.at)
    BY <1>2, <1>11, <2>2, <2>3 DEF JobOK, Covers
  <2>4. CASE i \in DOMAIN t.docs /\ t.docs[i] = version[i]
    <3>1. Marked(i) /\ Reached(i, version[i])
      BY <1>8, <2>2, <2>4, Zenon
    <3>. QED
      BY <1>9, <2>2, <3>1 DEF Taken, Marked, Reached
  <2>. QED
    BY <2>1, <2>3, <2>4
<1>15. JobOK(n)'
  BY <1>5, <1>13, <1>14 DEF JobOK
<1>16. Jobs'
  BY <1>4, <1>10, <1>12, <1>15, JobStays DEF MailInv, MailOK, Jobs
<1>17. Announced'
  BY <1>4 DEF MailInv, Announced
<1>. QED
  BY <1>10, <1>13, <1>16, <1>17 DEF MailInv

LEMMA MailSame ==
  ASSUME MailInv, UNCHANGED <<feed, version, present, top, lost, stored, task>>
  PROVE  MailInv'
BY DEF MailInv, MailOK, Announced, Covers, Behind, Taken, Jobs, JobOK

LEMMA MailNext == ASSUME MailInv, Mail!Next PROVE MailInv'
<1>1. CASE Mail!Expire \/ Mail!LinkExpires
  BY <1>1, MailSame DEF Mail!Expire, Mail!LinkExpires
<1>. QED
  BY <1>1, AnnounceStep, TasksStep, FetchStep, IndexStep DEF Mail!Next

\* Whatever tasks overlap or fail, no stored link passes an item that was
\* neither indexed at its version nor dropped by itself; for any items,
\* workers, page size and changes (MicrosoftSync).
THEOREM StoredLinksAreCovered == Spec => []LinkCovered
<1>1. Init => MailInv
  BY MailInit DEF Init
<1>2. MailInv /\ [Next]_all => MailInv'
  <2>. SUFFICES ASSUME MailInv, [Next]_all PROVE MailInv'
    OBVIOUS
  <2>1. Mail!Next \/ UNCHANGED microsoft
    BY Zenon DEF Next, all
  <2>2. CASE UNCHANGED microsoft
    BY <2>2, MailSame DEF microsoft
  <2>. QED
    BY <2>1, <2>2, MailNext
<1>3. MailInv => LinkCovered
  BY DEF MailInv, Covers, Behind, Taken, LinkCovered, Mail!LinkCovered
<1>. QED
  BY <1>1, <1>2, <1>3, PTL DEF Spec
\* A task is where the link is, and its page leaves no more changes than are queued.
Served(t) == t.pc # "idle" =>
    /\ t.at = stored
    /\ (t.pc = "finish" => t.crawl)
    /\ t.pc \in {"index", "store"} => t.next \in Nat /\ Len(feed) - t.next <= queue

\* While sound, one task at a time, and for each change that is not behind the
\* link a notification waits or is being served.
Accounted ==
    /\ stored \in Nat
    /\ \A v, w \in Worker : task[v].pc # "idle" /\ task[w].pc # "idle" => v = w
    /\ \A w \in Worker, t \in Job : task[w] = t => Served(t)
    /\ Len(feed) - stored <= queue + 1
    /\ (\A w \in Worker : task[w].pc = "idle" \/ task[w].crawl) => Len(feed) - stored <= queue

NotifyInv == queue \in Nat /\ sound \in BOOLEAN /\ (sound => Accounted)

LEMMA NotifyInit == ASSUME Mail!Init PROVE NotifyInv
<1>1. queue = 0 /\ sound = FALSE
  BY Zenon DEF Mail!Init
<1>. QED
  BY <1>1 DEF NotifyInv

\* The task of w becomes n, and is the only one that is under way.
LEMMA ServedStep ==
  ASSUME MailOK, queue' \in Nat, sound' \in BOOLEAN, NEW w \in Worker, NEW n \in Job,
         task' = [task EXCEPT ![w] = n],
         sound' => /\ stored' \in Nat
                   /\ \A v \in Worker : v # w => task[v].pc = "idle"
                   /\ Served(n)'
                   /\ Len(feed') - stored' <= queue' + 1
                   /\ (n.pc = "idle" \/ n.crawl) => Len(feed') - stored' <= queue'
  PROVE  NotifyInv'
<1>. SUFFICES ASSUME sound' PROVE Accounted'
  BY Zenon DEF NotifyInv
<1>1. task'[w] = n /\ \A v \in Worker : v # w => task'[v] = task[v] /\ task'[v].pc = "idle"
  BY DEF MailOK
<1>2. \A v, u \in Worker : task'[v].pc # "idle" /\ task'[u].pc # "idle" => v = u
  BY <1>1, Zenon
<1>3. ASSUME NEW v \in Worker, NEW t \in Job, task'[v] = t PROVE Served(t)'
  BY <1>1, <1>3, Zenon DEF Served
<1>4. (\A v \in Worker : task'[v].pc = "idle" \/ task'[v].crawl) => (n.pc = "idle" \/ n.crawl)
  BY <1>1, Zenon
<1>. QED
  BY <1>2, <1>3, <1>4, Zenon DEF Accounted

\* The tasks stay, and what is queued grows with the feed.
LEMMA ServedStays ==
  ASSUME MailOK, NotifyInv, queue' \in Nat, sound' \in BOOLEAN, UNCHANGED <<stored, task>>,
         sound' => sound /\ Len(feed') - Len(feed) <= queue' - queue, Len(feed') \in Nat
  PROVE  NotifyInv'
<1>. SUFFICES ASSUME sound' PROVE Accounted'
  BY Zenon DEF NotifyInv
<1>1. sound /\ Len(feed) \in Nat /\ queue \in Nat
  BY DEF MailOK, NotifyInv
<1>2. ASSUME NEW v \in Worker, NEW t \in Job, task'[v] = t PROVE Served(t)'
  <2>1. Served(t)
    BY <1>1, <1>2, Zenon DEF NotifyInv, Accounted
  <2>2. t.pc \in {"index", "store"} => t.next \in Nat /\ Len(feed') - t.next <= queue'
    BY <1>1, <2>1 DEF Served
  <2>. QED
    BY <2>1, <2>2, Zenon DEF Served
<1>3. \A v, u \in Worker : task'[v].pc # "idle" /\ task'[u].pc # "idle" => v = u
  BY <1>1, Zenon DEF NotifyInv, Accounted
<1>4. stored \in Nat /\ Len(feed) - stored <= queue + 1
  BY <1>1, Zenon DEF NotifyInv, Accounted
<1>5. (\A v \in Worker : task'[v].pc = "idle" \/ task'[v].crawl) => Len(feed) - stored <= queue
  BY <1>1, Zenon DEF NotifyInv, Accounted
<1>6. stored' \in Nat /\ Len(feed') - stored' <= queue' + 1
  BY <1>1, <1>4
<1>7. (\A v \in Worker : task'[v].pc = "idle" \/ task'[v].crawl) => Len(feed') - stored' <= queue'
  BY <1>1, <1>4, <1>5
<1>. QED
  BY <1>2, <1>3, <1>6, <1>7, Zenon DEF Accounted

LEMMA AnnounceNotifies ==
  ASSUME MailOK, NotifyInv, NEW i \in Item, Mail!Write(i) \/ Mail!Delete(i) PROVE NotifyInv'
<1>1. /\ feed' = Append(feed, i) /\ UNCHANGED <<stored, task>>
      /\ \/ queue' = queue + 1 /\ sound' = sound
         \/ sound' = FALSE /\ queue' = queue
  BY Zenon DEF Mail!Write, Mail!Delete, Mail!Announce
<1>2. Len(feed') = Len(feed) + 1 /\ Len(feed) \in Nat /\ queue \in Nat
  BY <1>1 DEF MailOK, NotifyInv
<1>3. sound' \in BOOLEAN
  BY <1>1, Zenon DEF NotifyInv
<1>4. sound' => sound /\ Len(feed') - Len(feed) <= queue' - queue
  <2>1. sound' => queue' = queue + 1 /\ sound
    BY <1>1, Zenon
  <2>. QED
    BY <1>2, <2>1
<1>5. queue' \in Nat /\ Len(feed') \in Nat
  BY <1>1, <1>2
<1>6. UNCHANGED <<stored, task>>
  BY <1>1
<1>. QED
  BY <1>3, <1>4, <1>5, <1>6, ServedStays, Zenon

\* A task under way, while sound.
LEMMA LoneTask ==
  ASSUME MailOK, NotifyInv, sound, NEW w \in Worker, NEW t \in Job, task[w] = t, t.pc # "idle"
  PROVE  /\ stored \in Nat /\ Len(feed) \in Nat /\ queue \in Nat
         /\ \A v \in Worker : v # w => task[v].pc = "idle"
         /\ Served(t)
         /\ Len(feed) - stored <= queue + 1
         /\ t.crawl => Len(feed) - stored <= queue
<1>1. \A v \in Worker : v # w => task[v].pc = "idle"
  BY Zenon DEF NotifyInv, Accounted
<1>2. Served(t) /\ stored \in Nat /\ queue \in Nat /\ Len(feed) - stored <= queue + 1
  BY Zenon DEF NotifyInv, Accounted
<1>3. t.crawl => \A v \in Worker : task[v].pc = "idle" \/ task[v].crawl
  BY <1>1, Zenon
<1>4. t.crawl => Len(feed) - stored <= queue
  BY <1>3, Zenon DEF NotifyInv, Accounted
<1>5. Len(feed) \in Nat
  BY DEF MailOK
<1>. QED
  BY <1>1, <1>2, <1>4, <1>5

\* A task begins: alone, or nothing is sound any more.
LEMMA BeginNotifies ==
  ASSUME MailOK, NotifyInv, NEW w \in Worker, Mail!Crawl(w) \/ Mail!Notify(w) PROVE NotifyInv'
<1>1. CASE Mail!Notify(w) /\ stored = -1
  <2>1. queue' = queue - 1 /\ queue > 0 /\ UNCHANGED <<feed, stored, task, sound>>
    BY <1>1, Zenon DEF Mail!Notify, Mail!NoCursor
  <2>2. queue' \in Nat /\ sound' \in BOOLEAN
    <3>1. queue \in Nat /\ sound' \in BOOLEAN
      BY <2>1, Zenon DEF NotifyInv
    <3>. QED
      BY <2>1, <3>1
  <2>3. ~sound
    <3>1. sound => stored \in Nat
      BY Zenon DEF NotifyInv, Accounted
    <3>2. stored \notin Nat
      BY <1>1
    <3>. QED
      BY <3>1, <3>2, Zenon
  <2>. QED
    BY <2>1, <2>2, <2>3, Zenon DEF NotifyInv
<1>2. CASE Mail!Crawl(w) \/ (Mail!Notify(w) /\ stored # -1)
  <2>1. PICK mode \in BOOLEAN :
          /\ Mail!Begin(w, mode)
          /\ \/ mode = TRUE /\ queue' = queue
             \/ mode = FALSE /\ queue' = queue - 1 /\ queue > 0
          /\ UNCHANGED <<feed, stored>>
    BY <1>2, Zenon DEF Mail!Crawl, Mail!Notify, Mail!NoCursor
  <2>2. PICK n : n = [Mail!Idle EXCEPT !.pc = IF mode THEN "purge" ELSE "fetch", !.crawl = mode, !.at = stored]
    OBVIOUS
  <2>3. n \in Job /\ n.pc \in {"purge", "fetch"} /\ n.at = stored /\ n.crawl = mode
    BY <2>2, IdleJob DEF MailOK, Job
  <2>4. /\ task' = [task EXCEPT ![w] = n] /\ sound' = (sound /\ Mail!Busy = {})
    BY <2>1, <2>2, Zenon DEF Mail!Begin
  <2>5. sound' \in BOOLEAN /\ (sound' => sound /\ \A v \in Worker : task[v].pc = "idle")
    BY <2>4, Zenon DEF Mail!Busy
  <2>6. queue \in Nat
    BY Zenon DEF NotifyInv
  <2>7. queue' \in Nat /\ (queue' = queue \/ queue' = queue - 1) /\ (mode => queue' = queue)
    BY <2>1, <2>6
  <2>8. ASSUME sound' PROVE /\ stored' \in Nat
                            /\ \A v \in Worker : v # w => task[v].pc = "idle"
                            /\ Served(n)'
                            /\ Len(feed') - stored' <= queue' + 1
                            /\ (n.pc = "idle" \/ n.crawl) => Len(feed') - stored' <= queue'
    <3>1. stored \in Nat /\ Len(feed) - stored <= queue
      BY <2>5, <2>8, Zenon DEF NotifyInv, Accounted
    <3>2. Len(feed) \in Nat
      BY DEF MailOK
    <3>3. Served(n)'
      BY <2>1, <2>3 DEF Served
    <3>4. Len(feed') - stored' <= queue' + 1 /\ (mode => Len(feed') - stored' <= queue')
      BY <2>1, <2>6, <2>7, <3>1, <3>2
    <3>5. (n.pc = "idle" \/ n.crawl) => mode
      BY <2>3
    <3>. QED
      BY <2>1, <2>5, <2>8, <3>1, <3>3, <3>4, <3>5
  <2>. QED
    BY <2>3, <2>4, <2>5, <2>7, <2>8, ServedStep, Zenon
<1>. QED
  BY <1>1, <1>2

\* A page reaches the end of the feed, or one change at least.
LEMMA FetchNotifies ==
  ASSUME MailOK, NotifyInv, NEW w \in Worker, Mail!Fetch(w), MailOK' PROVE NotifyInv'
<1>1. PICK t \in Job : t = task[w]
  BY DEF MailOK
<1>. DEFINE end == Mail!PageEnd(w)
            m == [t EXCEPT !.pc = "index", !.next = end, !.more = end < Len(feed),
                           !.docs = Mail!Documents(Mail!Live(Mail!Changed(w)))]
<1>2. /\ t.pc = "fetch" /\ task' = [task EXCEPT ![w] = m]
      /\ UNCHANGED <<feed, stored, queue, sound>>
  BY <1>1, Zenon DEF Mail!Fetch
<1>3. PICK n \in Job : n = m
  BY <1>2 DEF MailOK
<1>4. n.pc = "index" /\ n.at = t.at /\ n.next = end /\ n.crawl = t.crawl
  BY <1>3 DEF Job
<1>5. queue' \in Nat /\ sound' \in BOOLEAN
  BY <1>2, Zenon DEF NotifyInv
<1>6. ASSUME sound' PROVE /\ stored' \in Nat
                          /\ \A v \in Worker : v # w => task[v].pc = "idle"
                          /\ Served(n)'
                          /\ Len(feed') - stored' <= queue' + 1
                          /\ (n.pc = "idle" \/ n.crawl) => Len(feed') - stored' <= queue'
  <2>1. /\ stored \in Nat /\ Len(feed) \in Nat /\ queue \in Nat /\ Served(t)
        /\ \A v \in Worker : v # w => task[v].pc = "idle"
        /\ Len(feed) - stored <= queue + 1 /\ (t.crawl => Len(feed) - stored <= queue)
    BY <1>1, <1>2, <1>6, LoneTask
  <2>2. t.at = stored /\ Mail!From(w) = stored
    BY <1>1, <1>2, <2>1 DEF Served, Mail!From, Mail!NoCursor
  <2>3. end \in Nat /\ (end = Len(feed) \/ end >= stored + 1)
    BY <2>1, <2>2, PageAssumption DEF Mail!PageEnd
  <2>4. Len(feed) - end <= queue
    BY <2>1, <2>3
  <2>5. Served(n)'
    BY <1>2, <1>4, <2>2, <2>3, <2>4 DEF Served
  <2>. QED
    BY <1>2, <1>4, <2>1, <2>5
<1>7. task' = [task EXCEPT ![w] = n]
  BY <1>2, <1>3
<1>. QED
  BY <1>5, <1>6, <1>7, ServedStep, Zenon

\* A page that is not to be had, or not indexed.
LEMMA FailNotifies ==
  ASSUME MailOK, NotifyInv, NEW w \in Worker, Mail!FetchFails(w) \/ Mail!IndexFails(w), MailOK' PROVE NotifyInv'
<1>1. PICK t \in Job : t = task[w]
  BY DEF MailOK
<1>2. queue \in Nat /\ sound \in BOOLEAN
  BY Zenon DEF NotifyInv
<1>3. CASE sound' = FALSE /\ queue' = queue
  BY <1>2, <1>3, Zenon DEF NotifyInv
<1>4. CASE t.crawl /\ Mail!FetchFails(w)
  <2>1. PICK n : n = [t EXCEPT !.pc = "finish"]
    OBVIOUS
  <2>2. n \in Job /\ n.pc = "finish" /\ n.at = t.at /\ n.crawl = t.crawl
    BY <2>1 DEF Job
  <2>3. t.pc = "fetch" /\ task' = [task EXCEPT ![w] = n] /\ UNCHANGED <<feed, stored, queue, sound>>
    BY <1>1, <1>4, <2>1, Zenon DEF Mail!FetchFails
  <2>4. ASSUME sound' PROVE /\ stored' \in Nat
                            /\ \A v \in Worker : v # w => task[v].pc = "idle"
                            /\ Served(n)'
                            /\ Len(feed') - stored' <= queue' + 1
                            /\ (n.pc = "idle" \/ n.crawl) => Len(feed') - stored' <= queue'
    <3>1. /\ stored \in Nat /\ Len(feed) \in Nat /\ queue \in Nat /\ Served(t)
          /\ \A v \in Worker : v # w => task[v].pc = "idle"
          /\ Len(feed) - stored <= queue + 1 /\ (t.crawl => Len(feed) - stored <= queue)
      BY <1>1, <2>3, <2>4, LoneTask
    <3>2. Served(n)'
      BY <1>4, <2>2, <2>3, <3>1 DEF Served
    <3>. QED
      BY <1>4, <2>2, <2>3, <3>1, <3>2
  <2>. QED
    BY <1>2, <2>2, <2>3, <2>4, ServedStep, Zenon
<1>5. CASE ~t.crawl /\ queue' = queue + 1 /\ sound' = sound
  <2>1. /\ t.pc \in {"fetch", "index"} /\ task' = [task EXCEPT ![w] = Mail!Idle] /\ UNCHANGED <<feed, stored>>
    <3>1. CASE Mail!FetchFails(w)
      BY <1>1, <1>5, <3>1, Zenon DEF Mail!FetchFails
    <3>2. CASE Mail!IndexFails(w)
      BY <1>1, <3>2, Zenon DEF Mail!IndexFails
    <3>. QED
      BY <3>1, <3>2
  <2>2. PICK n \in Job : n = Mail!Idle /\ n.pc = "idle"
    BY IdleJob
  <2>3. ASSUME sound' PROVE /\ stored' \in Nat
                            /\ \A v \in Worker : v # w => task[v].pc = "idle"
                            /\ Served(n)'
                            /\ Len(feed') - stored' <= queue' + 1
                            /\ (n.pc = "idle" \/ n.crawl) => Len(feed') - stored' <= queue'
    <3>1. /\ stored \in Nat /\ Len(feed) \in Nat /\ queue \in Nat
          /\ \A v \in Worker : v # w => task[v].pc = "idle"
          /\ Len(feed) - stored <= queue + 1
      BY <1>1, <1>5, <2>1, <2>3, LoneTask
    <3>2. Served(n)'
      BY <2>2 DEF Served
    <3>3. stored' \in Nat /\ Len(feed') - stored' <= queue' /\ Len(feed') - stored' <= queue' + 1
      BY <1>5, <2>1, <3>1
    <3>. QED
      BY <3>1, <3>2, <3>3
  <2>4. queue' \in Nat /\ sound' \in BOOLEAN
    BY <1>2, <1>5
  <2>5. task' = [task EXCEPT ![w] = n]
    BY <2>1, <2>2
  <2>. QED
    BY <2>2, <2>3, <2>4, <2>5, ServedStep, Zenon
<1>. QED
  BY <1>1, <1>3, <1>4, <1>5, Zenon DEF Mail!FetchFails, Mail!IndexFails

\* The first pass of a crawl.
LEMMA PurgeNotifies ==
  ASSUME MailOK, NotifyInv, NEW w \in Worker, Mail!Purge(w), MailOK' PROVE NotifyInv'
<1>1. PICK t \in Job : t = task[w]
  BY DEF MailOK
<1>2. PICK n : n = [t EXCEPT !.pc = "fetch"]
  OBVIOUS
<1>3. n \in Job /\ n.pc = "fetch" /\ n.at = t.at /\ n.crawl = t.crawl
  BY <1>2 DEF Job
<1>4. t.pc = "purge" /\ task' = [task EXCEPT ![w] = n] /\ UNCHANGED <<feed, stored, queue, sound>>
  BY <1>1, <1>2, Zenon DEF Mail!Purge
<1>5. queue' \in Nat /\ sound' \in BOOLEAN
  BY <1>4, Zenon DEF NotifyInv
<1>6. ASSUME sound' PROVE /\ stored' \in Nat
                          /\ \A v \in Worker : v # w => task[v].pc = "idle"
                          /\ Served(n)'
                          /\ Len(feed') - stored' <= queue' + 1
                          /\ (n.pc = "idle" \/ n.crawl) => Len(feed') - stored' <= queue'
  <2>1. /\ stored \in Nat /\ Len(feed) \in Nat /\ queue \in Nat /\ Served(t)
        /\ \A v \in Worker : v # w => task[v].pc = "idle"
        /\ Len(feed) - stored <= queue + 1 /\ (t.crawl => Len(feed) - stored <= queue)
    BY <1>1, <1>4, <1>6, LoneTask
  <2>2. Served(n)'
    BY <1>3, <1>4, <2>1 DEF Served
  <2>. QED
    BY <1>3, <1>4, <2>1, <2>2
<1>. QED
  BY <1>3, <1>4, <1>5, <1>6, ServedStep, Zenon

LEMMA IndexNotifies ==
  ASSUME MailOK, NotifyInv, NEW w \in Worker, Mail!Pipe(w) \/ Mail!Index(w), MailOK' PROVE NotifyInv'
<1>1. PICK t \in Job : t = task[w]
  BY DEF MailOK
<1>2. PICK n : n = [t EXCEPT !.pc = "store"]
  OBVIOUS
<1>3. n \in Job /\ n.pc = "store" /\ n.at = t.at /\ n.crawl = t.crawl /\ n.next = t.next
  BY <1>2 DEF Job
<1>4. t.pc = "index" /\ task' = [task EXCEPT ![w] = n] /\ UNCHANGED <<feed, stored, queue, sound>>
  BY <1>1, <1>2, Zenon DEF Mail!Pipe, Mail!Index
<1>5. queue' \in Nat /\ sound' \in BOOLEAN
  BY <1>4, Zenon DEF NotifyInv
<1>6. ASSUME sound' PROVE /\ stored' \in Nat
                          /\ \A v \in Worker : v # w => task[v].pc = "idle"
                          /\ Served(n)'
                          /\ Len(feed') - stored' <= queue' + 1
                          /\ (n.pc = "idle" \/ n.crawl) => Len(feed') - stored' <= queue'
  <2>1. /\ stored \in Nat /\ Len(feed) \in Nat /\ queue \in Nat /\ Served(t)
        /\ \A v \in Worker : v # w => task[v].pc = "idle"
        /\ Len(feed) - stored <= queue + 1 /\ (t.crawl => Len(feed) - stored <= queue)
    BY <1>1, <1>4, <1>6, LoneTask
  <2>2. Served(n)'
    BY <1>3, <1>4, <2>1 DEF Served
  <2>. QED
    BY <1>3, <1>4, <2>1, <2>2
<1>. QED
  BY <1>3, <1>4, <1>5, <1>6, ServedStep, Zenon

\* The link is stored: at the end of the feed all is sound again.
LEMMA StoreNotifies ==
  ASSUME MailInv, NotifyInv, NEW w \in Worker, Mail!Store(w), MailOK' PROVE NotifyInv'
<1>1. PICK t \in Job : t = task[w]
  BY DEF MailInv, MailOK
<1>2. /\ t.pc = "store" /\ stored' = t.next /\ UNCHANGED <<feed, queue>>
      /\ task' = [task EXCEPT ![w] = IF ~t.crawl THEN Mail!Idle
                                     ELSE [t EXCEPT !.pc = IF t.more THEN "fetch" ELSE "finish",
                                                    !.at = t.next, !.docs = <<>>]]
      /\ sound' = (sound \/ (watch' /\ t.next = Len(feed) /\ Mail!Busy = {w}))
  BY <1>1, Zenon DEF Mail!Store, Mail!Account
<1>3. PICK n \in Job : /\ task' = [task EXCEPT ![w] = n]
                       /\ n.pc = "idle" \/ (n.pc \in {"fetch", "finish"} /\ n.at = t.next /\ n.crawl)
  <2>1. CASE ~t.crawl
    BY <1>2, <2>1, IdleJob
  <2>2. CASE t.crawl
    <3>1. <<>> \in Docs
      BY IdleJob DEF Mail!Idle, Job
    <3>. DEFINE e == [t EXCEPT !.pc = IF t.more THEN "fetch" ELSE "finish", !.at = t.next, !.docs = <<>>]
    <3>2. e \in Job /\ e.pc \in {"fetch", "finish"} /\ e.at = t.next /\ e.crawl
      BY <2>2, <3>1 DEF Job
    <3>. QED
      BY <1>2, <2>2, <3>2
  <2>. QED
    BY <2>1, <2>2
<1>4. queue' \in Nat /\ queue \in Nat
  BY <1>2, Zenon DEF NotifyInv
<1>5. /\ sound' \in BOOLEAN
      /\ sound' => sound \/ (t.next = Len(feed) /\ Mail!Busy = {w})
  BY <1>2, Zenon DEF NotifyInv
<1>6. ASSUME sound' PROVE /\ stored' \in Nat
                          /\ \A v \in Worker : v # w => task[v].pc = "idle"
                          /\ Served(n)'
                          /\ Len(feed') - stored' <= queue' + 1
                          /\ (n.pc = "idle" \/ n.crawl) => Len(feed') - stored' <= queue'
  <2>1. Len(feed) \in Nat
    BY DEF MailInv, MailOK
  <2>2. /\ t.next \in Nat /\ Len(feed) - t.next <= queue
        /\ \A v \in Worker : v # w => task[v].pc = "idle"
    <3>1. CASE sound
      <4>1. Served(t) /\ \A v \in Worker : v # w => task[v].pc = "idle"
        BY <1>1, <1>2, <3>1, LoneTask DEF MailInv
      <4>. QED
        BY <1>2, <4>1 DEF Served
    <3>2. CASE t.next = Len(feed) /\ Mail!Busy = {w}
      <4>1. \A v \in Worker : v # w => task[v].pc = "idle"
        BY <3>2, Zenon DEF Mail!Busy
      <4>. QED
        BY <1>4, <2>1, <3>2, <4>1
    <3>. QED
      BY <1>5, <1>6, <3>1, <3>2
  <2>3. Served(n)'
    BY <1>2, <1>3 DEF Served
  <2>. QED
    BY <1>2, <1>4, <2>1, <2>2, <2>3
<1>. QED
  BY <1>3, <1>4, <1>5, <1>6, ServedStep, Zenon DEF MailInv

\* The end of a crawl, which leaves the link where it has come to.
LEMMA FinishNotifies ==
  ASSUME MailInv, NotifyInv, NEW w \in Worker, Mail!Finish(w), MailOK' PROVE NotifyInv'
<1>1. PICK t \in Job : t = task[w]
  BY DEF MailInv, MailOK
<1>2. /\ t.pc = "finish" /\ stored' = (IF t.at = -1 THEN stored ELSE t.at) /\ UNCHANGED <<feed, queue>>
      /\ task' = [task EXCEPT ![w] = Mail!Idle]
      /\ sound' = (sound \/ (watch' /\ t.at = Len(feed) /\ Mail!Busy = {w}))
  BY <1>1, Zenon DEF Mail!Finish, Mail!Account, Mail!NoCursor
<1>3. PICK n \in Job : task' = [task EXCEPT ![w] = n] /\ n.pc = "idle"
  BY <1>2, IdleJob
<1>4. queue' \in Nat /\ queue \in Nat
  BY <1>2, Zenon DEF NotifyInv
<1>5. /\ sound' \in BOOLEAN
      /\ sound' => sound \/ (t.at = Len(feed) /\ Mail!Busy = {w})
  BY <1>2, Zenon DEF NotifyInv
<1>6. ASSUME sound' PROVE /\ stored' \in Nat
                          /\ \A v \in Worker : v # w => task[v].pc = "idle"
                          /\ Served(n)'
                          /\ Len(feed') - stored' <= queue' + 1
                          /\ (n.pc = "idle" \/ n.crawl) => Len(feed') - stored' <= queue'
  <2>1. Len(feed) \in Nat
    BY DEF MailInv, MailOK
  <2>2. /\ t.at \in Nat /\ Len(feed) - t.at <= queue
        /\ \A v \in Worker : v # w => task[v].pc = "idle"
    <3>1. CASE sound
      <4>1. /\ Served(t) /\ stored \in Nat /\ \A v \in Worker : v # w => task[v].pc = "idle"
            /\ t.crawl => Len(feed) - stored <= queue
        BY <1>1, <1>2, <3>1, LoneTask DEF MailInv
      <4>. QED
        BY <1>2, <4>1 DEF Served
    <3>2. CASE t.at = Len(feed) /\ Mail!Busy = {w}
      <4>1. \A v \in Worker : v # w => task[v].pc = "idle"
        BY <3>2, Zenon DEF Mail!Busy
      <4>. QED
        BY <1>4, <2>1, <3>2, <4>1
    <3>. QED
      BY <1>5, <1>6, <3>1, <3>2
  <2>3. Served(n)'
    BY <1>3 DEF Served
  <2>4. stored' = t.at
    BY <1>2, <2>2
  <2>. QED
    BY <1>2, <1>4, <2>1, <2>2, <2>3, <2>4
<1>. QED
  BY <1>3, <1>4, <1>5, <1>6, ServedStep, Zenon DEF MailInv

LEMMA NotifySame ==
  ASSUME NotifyInv, UNCHANGED <<feed, stored, queue, task, sound>> PROVE NotifyInv'
<1>1. \A t \in Job : Served(t)' = Served(t)
  BY DEF Served
<1>2. Accounted' = Accounted
  BY <1>1 DEF Accounted
<1>. QED
  BY <1>2, Zenon DEF NotifyInv

LEMMA NotifyNext == ASSUME MailInv, MailOK', NotifyInv, Mail!Next PROVE NotifyInv'
<1>1. MailOK
  BY DEF MailInv
<1>2. CASE Mail!Expire \/ Mail!LinkExpires
  BY <1>2, NotifySame DEF Mail!Expire, Mail!LinkExpires
<1>. QED
  BY <1>1, <1>2, AnnounceNotifies, BeginNotifies, PurgeNotifies, FetchNotifies, FailNotifies, IndexNotifies,
     StoreNotifies, FinishNotifies DEF Mail!Next

\* From the end of the feed on, one page per notification keeps the link at the
\* end and an entry of every item current; for any items, workers, page size and changes (MicrosoftSync says
\* what is excepted).
THEOREM NotificationsSuffice == Spec => []NotifiedIsIndexed
<1>. DEFINE Both == MailInv /\ NotifyInv
<1>1. Init => Both
  BY MailInit, NotifyInit DEF Init
<1>2. Both /\ [Next]_all => Both'
  <2>. SUFFICES ASSUME Both, [Next]_all PROVE Both'
    OBVIOUS
  <2>1. Mail!Next \/ UNCHANGED microsoft
    BY Zenon DEF Next, all
  <2>2. CASE UNCHANGED microsoft
    BY <2>2, MailSame, NotifySame DEF microsoft
  <2>3. CASE Mail!Next
    <3>1. MailInv'
      BY <2>3, MailNext
    <3>. QED
      BY <2>3, <3>1, NotifyNext DEF MailInv
  <2>. QED
    BY <2>1, <2>2, <2>3
<1>3. Both => NotifiedIsIndexed
  <2>. SUFFICES ASSUME Both, sound, queue = 0, Mail!Busy = {}
                PROVE  stored = Len(feed) /\ \A i \in present : top[i] \in {piped[i], plain[i]}
                                                               => version[i] \in {piped[i], plain[i], lost[i]}
    BY DEF NotifiedIsIndexed, Mail!NotifiedIsIndexed
  <2>1. \A w \in Worker : task[w].pc = "idle"
    BY Zenon DEF Mail!Busy
  <2>2. stored \in Nat /\ Len(feed) - stored <= queue
    BY <2>1, Zenon DEF NotifyInv, Accounted
  <2>3. Covers(stored) /\ Len(feed) \in Nat
    BY DEF MailInv, MailOK
  <2>4. stored = Len(feed)
    BY <2>2, <2>3 DEF Covers
  <2>5. \A i \in present : version[i] \in {top[i], lost[i]}
    BY <2>3, <2>4 DEF Covers, Behind, Taken
  <2>. QED
    BY <2>4, <2>5
<1>. QED
  BY <1>1, <1>2, <1>3, PTL DEF Spec
-----------------------------------------------------------------------------
(* DocumentCopies: the copies of a document and the reader. *)

Run == [tenant : Tenant, at : {"api", "worker"}, version : Nat,
        step : {"point", "object", "row", "local", "chunks", "unsaved", "unpoint", "unrows"}]
Point == [tenant : Tenant, version : Nat]
Reading == [tenant : Tenant, by : {"document", "chunk"}, of : {"store", "point"}, ended : Nat, since : Nat,
            row : Nat, structure : Nat, body : Nat,
            step : {"missing", "decide", "forbidden", "structure", "body", "answered"}]

CopiesOK ==
    /\ backend \in {"minio", "memory"} /\ latest \in Nat /\ latest # 0
    /\ point \in Point \cup {None}
    /\ kept \in [Tenant -> Nat] /\ object \in [Tenant -> Nat] /\ meta \in [Tenant -> Nat]
    /\ indexed \in [Tenant -> Nat] /\ saved \in [Tenant -> Nat]
    /\ job \in [Writer -> Run \cup {None}]
    /\ reading \in [Reader -> Reading \cup {None}]

\* The version that t's point holds.
PointOf(t) == IF point # None /\ point.tenant = t THEN point.version ELSE 0

\* Where the point counts: the API's memory has no metadata of what workers index.
ByPoint(t) == backend = "memory" /\ t \notin missed

\* One run at a time, but for the tenants that crossed names.
Alone == \A v, w \in Writer : \A b, c \in Run :
            job[v] = b /\ job[w] = c /\ b.tenant = c.tenant /\ b.tenant \notin crossed => v = w

\* No copy is ahead of the canonical row, nor the metadata of the body, nor
\* the end of a run of what it wrote.
Ordered(t) ==
    /\ kept[t] <= latest /\ object[t] <= kept[t] /\ indexed[t] <= kept[t]
    /\ t \notin crossed =>
          /\ meta[t] <= object[t] /\ saved[t] <= meta[t]
          /\ ByPoint(t) => indexed[t] <= PointOf(t)

Deletes(b) == b.step \in {"unpoint", "unrows"}

\* A run brings the version of the canonical row, and has written what it has passed.
RunFits(b) ==
    /\ b.version # 0
    /\ b.step \in {"object", "row"} => backend = "minio"
    /\ ~Deletes(b) => b.version <= kept[b.tenant]
    /\ b.tenant \notin crossed =>
          /\ ~Deletes(b) => b.version = kept[b.tenant]
          /\ b.step = "row" => object[b.tenant] = b.version
          /\ b.step = "chunks" => meta[b.tenant] = b.version
          /\ Deletes(b) => indexed[b.tenant] = 0 /\ saved[b.tenant] = 0
          /\ b.step \in {"local", "chunks", "unsaved"} /\ ByPoint(b.tenant) => PointOf(b.tenant) = b.version

\* What a request has so far is not ahead of what it will read next.
ReadingFits(q) ==
    /\ q.step \in {"structure", "body"} => q.of = "store"
    /\ q.tenant \notin crossed =>
          /\ q.step \in {"decide", "structure"} /\ q.of = "store" => q.row <= meta[q.tenant]
          /\ q.step = "decide" => q.structure = q.row /\ q.body = q.row
          /\ q.step = "body" => q.row <= q.structure /\ q.structure <= meta[q.tenant]
          /\ q.step = "answered" => q.row <= q.structure /\ q.structure <= q.body
          /\ q.step \in {"decide", "structure", "body", "answered"} /\ q.of = "store" => q.since <= q.row
          /\ q.step = "missing" /\ q.by = "document" => q.since = 0
          /\ ByPoint(q.tenant) =>
                /\ q.step \in {"decide", "answered"} /\ q.of = "point" => q.ended <= q.row
                /\ q.step = "missing" /\ q.by = "document" => q.ended = 0

Copyings == \A t \in Tenant : Ordered(t)
Runs     == \A w \in Writer : \A b \in Run : job[w] = b => RunFits(b)
Readings == \A r \in Reader : \A q \in Reading : reading[r] = q => ReadingFits(q)

CopiesInv == CopiesOK /\ Alone /\ Copyings /\ Runs /\ Readings

CopyApart == None \notin Run /\ None \notin Point /\ None \notin Reading

LEMMA CopiesInit == ASSUME CopyApart, Copies!Init PROVE CopiesInv
<1>1. /\ backend \in {"minio", "memory"} /\ latest = 1 /\ point = None
      /\ kept \in {[t \in Tenant |-> 0], [t \in Tenant |-> 1]}
      /\ object = [t \in Tenant |-> 0] /\ meta = [t \in Tenant |-> 0] /\ indexed = [t \in Tenant |-> 0]
      /\ saved = [t \in Tenant |-> 0]
      /\ job = [w \in Writer |-> None] /\ reading = [r \in Reader |-> None]
  BY Zenon DEF Copies!Init
<1>2. CopiesOK
  BY <1>1 DEF CopiesOK
<1>3. Alone /\ Runs /\ Readings
  BY <1>1 DEF Alone, Runs, Readings, CopyApart
<1>4. Copyings
  <2>. SUFFICES ASSUME NEW t \in Tenant PROVE Ordered(t)
    BY Zenon DEF Copyings
  <2>1. kept[t] \in {0, 1} /\ object[t] = 0 /\ meta[t] = 0 /\ indexed[t] = 0 /\ saved[t] = 0 /\ PointOf(t) = 0
    BY <1>1 DEF PointOf
  <2>. QED
    BY <1>1, <2>1 DEF Ordered
<1>. QED
  BY <1>2, <1>3, <1>4 DEF CopiesInv

\* What one run writes leaves the other tenants' copies, but for those it overwrites.
Untouched(t) ==
    /\ kept'[t] = kept[t] /\ object'[t] = object[t] /\ meta'[t] = meta[t]
    /\ indexed'[t] = indexed[t] /\ saved'[t] = saved[t]
    /\ ByPoint(t)' => PointOf(t)' = PointOf(t)

\* The histories grow, and the version at the source.
Grown == /\ crossed \subseteq crossed' /\ missed \subseteq missed'
         /\ latest <= latest' /\ UNCHANGED backend

LEMMA OrderedStays ==
  ASSUME CopiesOK, CopiesOK', Grown, NEW t \in Tenant, Untouched(t), Ordered(t) PROVE Ordered(t)'
<1>1. kept[t] \in Nat /\ latest \in Nat /\ latest' \in Nat
  BY DEF CopiesOK
<1>2. ByPoint(t)' => ByPoint(t)
  BY DEF Grown, ByPoint
<1>. QED
  BY <1>1, <1>2 DEF Grown, Untouched, Ordered

LEMMA RunStays ==
  ASSUME CopiesOK, CopiesOK', Grown, NEW b \in Run, Untouched(b.tenant), RunFits(b) PROVE RunFits(b)'
<1>1. ByPoint(b.tenant)' => ByPoint(b.tenant)
  BY DEF Grown, ByPoint
<1>. QED
  BY <1>1 DEF Grown, Untouched, RunFits

\* The rows a request has yet to read only get newer.
LEMMA ReadingStays ==
  ASSUME CopiesOK, CopiesOK', Grown, NEW q \in Reading, ReadingFits(q),
         q.tenant \notin crossed' => meta[q.tenant] <= meta'[q.tenant]
  PROVE  ReadingFits(q)'
<1>1. /\ q.tenant \in Tenant /\ q.row \in Nat /\ q.structure \in Nat
  BY DEF Reading
<1>2. meta[q.tenant] \in Nat /\ meta'[q.tenant] \in Nat
  BY <1>1 DEF CopiesOK
<1>3. q.tenant \notin crossed' => q.tenant \notin crossed
  BY DEF Grown
<1>4. ByPoint(q.tenant)' => ByPoint(q.tenant)
  BY DEF Grown, ByPoint
<1>. QED
  BY <1>1, <1>2, <1>3, <1>4 DEF Grown, ReadingFits

\* The run of w goes on as n, or ends.
LEMMA RunStep ==
  ASSUME CopyApart, CopiesInv, CopiesOK', Grown, crossed' = crossed, UNCHANGED reading,
         NEW w \in Writer, NEW b \in Run, job[w] = b, NEW n \in Run \cup {None},
         job' = [job EXCEPT ![w] = n],
         n # None => n.tenant = b.tenant /\ RunFits(n)',
         \A s \in Tenant : s # b.tenant => Untouched(s),
         Ordered(b.tenant)', kept' = kept, b.tenant \notin crossed => meta[b.tenant] <= meta'[b.tenant]
  PROVE  CopiesInv'
<1>1. b.tenant \in Tenant
  BY DEF Run
<1>2. \A v \in Writer : \A c \in Run : job'[v] = c =>
        \/ v # w /\ job[v] = c
        \/ v = w /\ c = n /\ n # None
  BY DEF CopiesInv, CopiesOK, CopyApart
<1>3. Alone'
  <2>. SUFFICES ASSUME NEW v \in Writer, NEW u \in Writer, NEW c \in Run, NEW d \in Run,
                       job'[v] = c, job'[u] = d, c.tenant = d.tenant, c.tenant \notin crossed
                PROVE  v = u
    BY Zenon DEF Alone
  <2>1. \E e \in Run : job[v] = e /\ e.tenant = c.tenant
    BY <1>2
  <2>2. \E e \in Run : job[u] = e /\ e.tenant = d.tenant
    BY <1>2
  <2>. QED
    BY <2>1, <2>2 DEF CopiesInv, Alone
<1>4. Copyings'
  <2>. SUFFICES ASSUME NEW t \in Tenant PROVE Ordered(t)'
    BY DEF Copyings
  <2>. QED
    BY OrderedStays DEF CopiesInv, Copyings
<1>5. Runs'
  <2>. SUFFICES ASSUME NEW v \in Writer, NEW c \in Run, job'[v] = c PROVE RunFits(c)'
    BY DEF Runs
  <2>1. CASE v = w
    BY <1>2, <2>1
  <2>2. CASE v # w
    <3>1. job[v] = c /\ RunFits(c)
      BY <1>2, <2>2 DEF CopiesInv, Runs
    <3>2. CASE c.tenant # b.tenant
      <4>1. c.tenant \in Tenant
        BY DEF Run
      <4>. QED
        BY <3>1, <3>2, <4>1, RunStays DEF CopiesInv
    <3>3. CASE c.tenant = b.tenant
      <4>1. c.tenant \in crossed
        BY <2>2, <3>1, <3>3 DEF CopiesInv, Alone
      <4>. QED
        BY <3>1, <3>3, <4>1 DEF RunFits, Grown
    <3>. QED
      BY <3>2, <3>3
  <2>. QED
    BY <2>1, <2>2
<1>6. Readings'
  <2>. SUFFICES ASSUME NEW r \in Reader, NEW q \in Reading, reading'[r] = q PROVE ReadingFits(q)'
    BY DEF Readings
  <2>1. reading[r] = q /\ ReadingFits(q)
    BY DEF CopiesInv, Readings
  <2>2. q.tenant \in Tenant
    BY DEF Reading
  <2>3. q.tenant \notin crossed' => meta[q.tenant] <= meta'[q.tenant]
    <3>1. meta[q.tenant] \in Nat
      BY <2>2 DEF CopiesInv, CopiesOK
    <3>. QED
      BY <2>2, <3>1 DEF Untouched
  <2>. QED
    BY <2>1, <2>3, ReadingStays DEF CopiesInv
<1>. QED
  BY <1>3, <1>4, <1>5, <1>6 DEF CopiesInv

\* A run that goes on, at step.
AtStep(w, b, step) ==
    /\ job[w] = b /\ b.step = step /\ RunFits(b) /\ Ordered(b.tenant)
    /\ b.tenant \in Tenant /\ b.version \in Nat /\ kept[b.tenant] \in Nat
    /\ object[b.tenant] \in Nat /\ meta[b.tenant] \in Nat /\ indexed[b.tenant] \in Nat /\ saved[b.tenant] \in Nat

LEMMA RunAt ==
  ASSUME CopyApart, CopiesInv, NEW w \in Writer, NEW step, Copies!Goes(w, step)
  PROVE  \E b \in Run : AtStep(w, b, step)
<1>1. PICK b \in Run : job[w] = b /\ b.step = step
  BY DEF Copies!Goes, CopiesInv, CopiesOK
<1>2. b.tenant \in Tenant /\ b.version \in Nat
  BY DEF Run
<1>. QED
  BY <1>1, <1>2 DEF AtStep, CopiesInv, CopiesOK, Runs, Copyings

\* The run b is at another step.
Goings(b, n) == n \in Run /\ n # None /\ n.tenant = b.tenant /\ n.version = b.version /\ n.at = b.at

LEMMA RunGoesOn ==
  ASSUME CopyApart, NEW b \in Run,
         NEW step \in {"point", "object", "row", "local", "chunks", "unsaved", "unpoint", "unrows"}
  PROVE  Goings(b, [b EXCEPT !.step = step]) /\ [b EXCEPT !.step = step].step = step
BY DEF Run, Goings, CopyApart

\* The next step of an indexing run.
LEMMA NextStep ==
  ASSUME NEW at \in {"api", "worker"}, backend \in {"minio", "memory"}
  PROVE  /\ \/ Copies!After(at, "point") = "unsaved"
            \/ (Copies!After(at, "point") = "object" /\ backend = "minio")
            \/ Copies!After(at, "point") = "local"
         /\ Copies!After(at, "object") = "row"
         /\ Copies!After(at, "row") = "chunks" /\ Copies!After(at, "local") = "chunks"
BY DEF Copies!After, Copies!Shared

LEMMA PutPointStep ==
  ASSUME CopyApart, CopiesInv, NEW w \in Writer, Copies!PutPoint(w) PROVE CopiesInv'
<1>1. PICK b \in Run : AtStep(w, b, "point")
  BY RunAt DEF Copies!PutPoint
<1>2. PICK step \in {"unsaved", "object", "local"} :
        step = Copies!After(b.at, "point") /\ (step = "object" => backend = "minio")
  <2>1. b.at \in {"api", "worker"}
    BY DEF Run
  <2>2. backend \in {"minio", "memory"}
    BY DEF CopiesInv, CopiesOK
  <2>. QED
    BY <2>1, <2>2, NextStep
<1>. DEFINE n == [b EXCEPT !.step = step]
<1>3. /\ point' = [tenant |-> b.tenant, version |-> b.version]
      /\ missed' = IF backend # "minio" /\ point # None /\ point.tenant # b.tenant
                   THEN missed \cup {point.tenant} ELSE missed
      /\ job' = [job EXCEPT ![w] = n]
      /\ UNCHANGED <<backend, latest, kept, object, meta, reading, indexed, saved, crossed>>
  BY <1>1, <1>2, Zenon DEF Copies!PutPoint, Copies!Shared, Copies!Advance, Copies!ends, AtStep
<1>4. Goings(b, n) /\ n.step = step
  BY RunGoesOn
<1>. HIDE DEF n
<1>5. point' \in Point /\ point' # None /\ point'.tenant = b.tenant /\ point'.version = b.version
  BY <1>1, <1>3 DEF Point, CopyApart, AtStep
<1>6. CopiesOK'
  BY <1>3, <1>4, <1>5 DEF CopiesInv, CopiesOK, Goings
<1>7. Grown
  BY <1>3 DEF Grown, CopiesInv, CopiesOK
<1>8. PointOf(b.tenant)' = b.version
  BY <1>5 DEF PointOf
<1>9. \A s \in Tenant : s # b.tenant => Untouched(s)
  <2>. SUFFICES ASSUME NEW s \in Tenant, s # b.tenant, ByPoint(s)' PROVE PointOf(s)' = PointOf(s)
    BY <1>3 DEF Untouched
  <2>1. ~(point # None /\ point.tenant = s)
    BY <1>3 DEF ByPoint
  <2>. QED
    BY <1>5, <2>1 DEF PointOf
<1>10. Ordered(b.tenant)'
  BY <1>1, <1>3, <1>8 DEF Ordered, RunFits, Deletes, AtStep
<1>11. RunFits(n)'
  BY <1>1, <1>2, <1>3, <1>4, <1>8 DEF RunFits, Deletes, AtStep, Goings
<1>12. meta[b.tenant] <= meta'[b.tenant]
  BY <1>1, <1>3 DEF AtStep
<1>. QED
  BY <1>1, <1>3, <1>4, <1>6, <1>7, <1>9, <1>10, <1>11, <1>12, RunStep DEF AtStep, Goings

\* The body.
LEMMA PutObjectStep ==
  ASSUME CopyApart, CopiesInv, NEW w \in Writer, Copies!PutObject(w) PROVE CopiesInv'
<1>1. PICK b \in Run : AtStep(w, b, "object")
  BY RunAt DEF Copies!PutObject
<1>. DEFINE n == [b EXCEPT !.step = "row"]
<1>2. /\ object' = [object EXCEPT ![b.tenant] = b.version]
      /\ job' = [job EXCEPT ![w] = n]
      /\ UNCHANGED <<backend, latest, kept, point, meta, reading, indexed, saved, crossed, missed>>
  BY <1>1, Zenon DEF Copies!PutObject, Copies!Advance, Copies!After, Copies!ends, Copies!history, AtStep
<1>3. Goings(b, n) /\ n.step = "row"
  BY RunGoesOn
<1>. HIDE DEF n
<1>4. CopiesOK'
  BY <1>1, <1>2, <1>3 DEF CopiesInv, CopiesOK, AtStep, Goings
<1>5. Grown
  BY <1>2 DEF Grown, CopiesInv, CopiesOK
<1>6. object'[b.tenant] = b.version /\ \A s \in Tenant : s # b.tenant => object'[s] = object[s]
  BY <1>1, <1>2 DEF CopiesInv, CopiesOK, AtStep
<1>7. \A s \in Tenant : s # b.tenant => Untouched(s)
  BY <1>2, <1>6 DEF Untouched, PointOf
<1>8. PointOf(b.tenant)' = PointOf(b.tenant) /\ ByPoint(b.tenant)' = ByPoint(b.tenant)
  BY <1>2 DEF PointOf, ByPoint
<1>9. Ordered(b.tenant)' /\ RunFits(n)'
  BY <1>1, <1>2, <1>3, <1>6, <1>8 DEF Ordered, RunFits, Deletes, AtStep, Goings
<1>10. meta[b.tenant] <= meta'[b.tenant]
  BY <1>1, <1>2 DEF AtStep
<1>. QED
  BY <1>1, <1>2, <1>3, <1>4, <1>5, <1>7, <1>9, <1>10, RunStep DEF AtStep, Goings

\* The metadata row, when the body is there.
LEMMA PutRowStep ==
  ASSUME CopyApart, CopiesInv, NEW w \in Writer, Copies!PutRow(w) PROVE CopiesInv'
<1>1. PICK b \in Run : AtStep(w, b, "row")
  BY RunAt DEF Copies!PutRow
<1>. DEFINE n == [b EXCEPT !.step = "chunks"]
<1>2. /\ meta' = [meta EXCEPT ![b.tenant] = b.version]
      /\ job' = [job EXCEPT ![w] = n]
      /\ UNCHANGED <<backend, latest, kept, point, object, reading, indexed, saved, crossed, missed>>
  BY <1>1, Zenon DEF Copies!PutRow, Copies!Advance, Copies!After, Copies!ends, Copies!history, AtStep
<1>3. Goings(b, n) /\ n.step = "chunks"
  BY RunGoesOn
<1>. HIDE DEF n
<1>4. CopiesOK'
  BY <1>1, <1>2, <1>3 DEF CopiesInv, CopiesOK, AtStep, Goings
<1>5. Grown
  BY <1>2 DEF Grown, CopiesInv, CopiesOK
<1>6. meta'[b.tenant] = b.version /\ \A s \in Tenant : s # b.tenant => meta'[s] = meta[s]
  BY <1>1, <1>2 DEF CopiesInv, CopiesOK, AtStep
<1>7. \A s \in Tenant : s # b.tenant => Untouched(s)
  BY <1>2, <1>6 DEF Untouched, PointOf
<1>8. PointOf(b.tenant)' = PointOf(b.tenant) /\ ~ByPoint(b.tenant)'
  BY <1>1, <1>2 DEF PointOf, ByPoint, AtStep, RunFits
<1>9. Ordered(b.tenant)' /\ RunFits(n)' /\ (b.tenant \notin crossed => meta[b.tenant] <= meta'[b.tenant])
  BY <1>1, <1>2, <1>3, <1>6, <1>8 DEF Ordered, RunFits, Deletes, AtStep, Goings
<1>. QED
  BY <1>1, <1>2, <1>3, <1>4, <1>5, <1>7, <1>9, RunStep DEF AtStep, Goings

\* Body and metadata at once, in the API's memory.
LEMMA PutLocalStep ==
  ASSUME CopyApart, CopiesInv, NEW w \in Writer, Copies!PutLocal(w) PROVE CopiesInv'
<1>1. PICK b \in Run : AtStep(w, b, "local")
  BY RunAt DEF Copies!PutLocal
<1>. DEFINE n == [b EXCEPT !.step = "chunks"]
<1>2. /\ object' = [object EXCEPT ![b.tenant] = b.version]
      /\ meta' = [meta EXCEPT ![b.tenant] = b.version]
      /\ job' = [job EXCEPT ![w] = n]
      /\ UNCHANGED <<backend, latest, kept, point, reading, indexed, saved, crossed, missed>>
  BY <1>1, Zenon DEF Copies!PutLocal, Copies!Advance, Copies!After, Copies!ends, Copies!history, AtStep
<1>3. Goings(b, n) /\ n.step = "chunks"
  BY RunGoesOn
<1>. HIDE DEF n
<1>4. CopiesOK'
  BY <1>1, <1>2, <1>3 DEF CopiesInv, CopiesOK, AtStep, Goings
<1>5. Grown
  BY <1>2 DEF Grown, CopiesInv, CopiesOK
<1>6. /\ object'[b.tenant] = b.version /\ \A s \in Tenant : s # b.tenant => object'[s] = object[s]
      /\ meta'[b.tenant] = b.version /\ \A s \in Tenant : s # b.tenant => meta'[s] = meta[s]
  BY <1>1, <1>2 DEF CopiesInv, CopiesOK, AtStep
<1>7. \A s \in Tenant : s # b.tenant => Untouched(s)
  BY <1>2, <1>6 DEF Untouched, PointOf
<1>8. PointOf(b.tenant)' = PointOf(b.tenant) /\ ByPoint(b.tenant)' = ByPoint(b.tenant)
  BY <1>2 DEF PointOf, ByPoint
<1>9. Ordered(b.tenant)' /\ RunFits(n)' /\ (b.tenant \notin crossed => meta[b.tenant] <= meta'[b.tenant])
  BY <1>1, <1>2, <1>3, <1>6, <1>8 DEF Ordered, RunFits, Deletes, AtStep, Goings
<1>. QED
  BY <1>1, <1>2, <1>3, <1>4, <1>5, <1>7, <1>9, RunStep DEF AtStep, Goings

\* A failure of the store leaves the run to its chunks, with nothing saved.
LEMMA StoreFailsStep ==
  ASSUME CopyApart, CopiesInv, NEW w \in Writer, Copies!StoreFails(w) PROVE CopiesInv'
<1>1. PICK b \in Run : AtStep(w, b, "object") \/ AtStep(w, b, "row")
  <2>1. CASE Copies!Goes(w, "object")
    BY <2>1, RunAt
  <2>2. CASE Copies!Goes(w, "row")
    BY <2>2, RunAt
  <2>. QED
    BY <2>1, <2>2 DEF Copies!StoreFails
<1>. DEFINE n == [b EXCEPT !.step = "unsaved"]
<1>2. /\ job' = [job EXCEPT ![w] = n]
      /\ UNCHANGED <<backend, latest, kept, point, object, meta, reading, indexed, saved, crossed, missed>>
  BY <1>1, Zenon DEF Copies!StoreFails, Copies!copies, Copies!ends, Copies!history, AtStep
<1>3. Goings(b, n) /\ n.step = "unsaved"
  BY RunGoesOn
<1>. HIDE DEF n
<1>4. CopiesOK'
  BY <1>2, <1>3 DEF CopiesInv, CopiesOK, Goings
<1>5. Grown
  BY <1>2 DEF Grown, CopiesInv, CopiesOK
<1>6. \A s \in Tenant : Untouched(s)
  BY <1>2 DEF Untouched, PointOf
<1>7. PointOf(b.tenant)' = PointOf(b.tenant) /\ ~ByPoint(b.tenant) /\ ~ByPoint(b.tenant)'
  BY <1>1, <1>2 DEF PointOf, ByPoint, AtStep, RunFits
<1>8. Ordered(b.tenant)' /\ RunFits(n)'
  BY <1>1, <1>2, <1>3, <1>7 DEF Ordered, RunFits, Deletes, AtStep, Goings
<1>9. meta[b.tenant] <= meta'[b.tenant]
  BY <1>1, <1>2 DEF AtStep
<1>. QED
  BY <1>1, <1>2, <1>3, <1>4, <1>5, <1>6, <1>8, <1>9, RunStep DEF AtStep, Goings

\* The end of a run that indexed.
LEMMA PutChunksStep ==
  ASSUME CopyApart, CopiesInv, NEW w \in Writer, Copies!PutChunks(w) PROVE CopiesInv'
<1>1. PICK b \in Run : AtStep(w, b, "chunks") \/ AtStep(w, b, "unsaved")
  <2>1. CASE Copies!Goes(w, "chunks")
    BY <2>1, RunAt
  <2>2. CASE Copies!Goes(w, "unsaved")
    BY <2>2, RunAt
  <2>. QED
    BY <2>1, <2>2 DEF Copies!PutChunks
<1>. DEFINE x == IF b.step = "chunks" THEN b.version ELSE saved[b.tenant]
<1>2. /\ indexed' = [indexed EXCEPT ![b.tenant] = b.version]
      /\ saved' = [saved EXCEPT ![b.tenant] = x]
      /\ job' = [job EXCEPT ![w] = None]
      /\ UNCHANGED <<backend, latest, kept, point, object, meta, reading, crossed, missed>>
  <2>1. Copies!Goes(w, "chunks") <=> b.step = "chunks"
    BY <1>1 DEF Copies!Goes, AtStep, CopyApart
  <2>. QED
    BY <1>1, <2>1, Zenon DEF Copies!PutChunks, Copies!Ends, Copies!history, AtStep
<1>3. x \in Nat /\ ((x = b.version /\ b.step = "chunks") \/ x = saved[b.tenant])
  BY <1>1 DEF AtStep
<1>. HIDE DEF x
<1>4. CopiesOK'
  BY <1>1, <1>2, <1>3 DEF CopiesInv, CopiesOK, AtStep
<1>5. Grown
  BY <1>2 DEF Grown, CopiesInv, CopiesOK
<1>6. /\ indexed'[b.tenant] = b.version /\ \A s \in Tenant : s # b.tenant => indexed'[s] = indexed[s]
      /\ saved'[b.tenant] = x /\ \A s \in Tenant : s # b.tenant => saved'[s] = saved[s]
  BY <1>1, <1>2 DEF CopiesInv, CopiesOK, AtStep
<1>7. (\A s \in Tenant : s # b.tenant => Untouched(s)) /\ PointOf(b.tenant)' = PointOf(b.tenant)
      /\ ByPoint(b.tenant)' = ByPoint(b.tenant)
  BY <1>2, <1>6 DEF Untouched, PointOf, ByPoint
<1>8. Ordered(b.tenant)'
  BY <1>1, <1>2, <1>3, <1>6, <1>7 DEF Ordered, RunFits, Deletes, AtStep
<1>9. meta[b.tenant] <= meta'[b.tenant]
  BY <1>1, <1>2 DEF AtStep
<1>. QED
  BY <1>1, <1>2, <1>4, <1>5, <1>7, <1>8, <1>9, RunStep DEF AtStep

\* A point is removed by its own tenant, whose document counts as deleted then.
LEMMA RemovePointStep ==
  ASSUME CopyApart, CopiesInv, NEW w \in Writer, Copies!RemovePoint(w) PROVE CopiesInv'
<1>1. PICK b \in Run : AtStep(w, b, "unpoint")
  BY RunAt DEF Copies!RemovePoint
<1>. DEFINE n == [b EXCEPT !.step = "unrows"]
<1>2. /\ point' = IF point # None /\ point.tenant = b.tenant THEN None ELSE point
      /\ job' = [job EXCEPT ![w] = n]
      /\ UNCHANGED <<backend, latest, kept, object, meta, reading, indexed, saved, crossed, missed>>
  BY <1>1, Zenon DEF Copies!RemovePoint, Copies!Own, Copies!ends, Copies!history, AtStep
<1>3. Goings(b, n) /\ n.step = "unrows"
  BY RunGoesOn
<1>. HIDE DEF n
<1>4. CopiesOK'
  BY <1>1, <1>2, <1>3 DEF CopiesInv, CopiesOK, Goings
<1>5. Grown
  BY <1>2 DEF Grown, CopiesInv, CopiesOK
<1>6. \A s \in Tenant : s # b.tenant => Untouched(s)
  BY <1>2 DEF Untouched, PointOf
<1>7. PointOf(b.tenant)' \in Nat
  BY <1>4 DEF PointOf, CopiesOK, Point
<1>8. Ordered(b.tenant)' /\ RunFits(n)'
  BY <1>1, <1>2, <1>3, <1>7 DEF Ordered, RunFits, Deletes, AtStep, Goings
<1>9. meta[b.tenant] <= meta'[b.tenant]
  BY <1>1, <1>2 DEF AtStep
<1>. QED
  BY <1>1, <1>2, <1>3, <1>4, <1>5, <1>6, <1>8, <1>9, RunStep DEF AtStep, Goings

\* A run that ends without a trace in the copies.
LEMMA RunEnds ==
  ASSUME CopyApart, CopiesInv, NEW w \in Writer, Copies!RemoveRows(w) \/ Copies!RunFails(w) PROVE CopiesInv'
<1>1. \E step : Copies!Goes(w, step)
  BY DEF Copies!RemoveRows, Copies!RunFails
<1>2. PICK b \in Run : job[w] = b /\ Ordered(b.tenant) /\ b.tenant \in Tenant /\ meta[b.tenant] \in Nat
  BY <1>1, RunAt DEF AtStep
<1>3. /\ job' = [job EXCEPT ![w] = None]
      /\ UNCHANGED <<backend, latest, kept, point, object, meta, indexed, saved, reading, crossed, missed>>
  BY Zenon DEF Copies!RemoveRows, Copies!RunFails, Copies!Ends, Copies!ends, Copies!history, Copies!copies
<1>4. CopiesOK'
  BY <1>3 DEF CopiesInv, CopiesOK
<1>5. Grown
  BY <1>3 DEF Grown, CopiesInv, CopiesOK
<1>6. \A s \in Tenant : Untouched(s)
  BY <1>3 DEF Untouched, PointOf
<1>7. Ordered(b.tenant)'
  BY <1>2, <1>3 DEF Ordered, PointOf, ByPoint
<1>8. meta[b.tenant] <= meta'[b.tenant]
  BY <1>2, <1>3
<1>. QED
  BY <1>2, <1>3, <1>4, <1>5, <1>6, <1>7, <1>8, RunStep

\* Worker w begins a run for t; whoever runs for t already is in crossed.
LEMMA BeginStep ==
  ASSUME CopyApart, CopiesInv, NEW w \in Writer, NEW t \in Tenant, NEW at \in {"api", "worker"},
         NEW x \in Nat, x # 0, NEW step \in {"point", "unpoint"}, NEW k \in Nat,
         Copies!Begin(w, t, at, x, step),
         UNCHANGED <<backend, latest, point, object, meta, missed, reading>>,
         kept' = [kept EXCEPT ![t] = k], kept[t] <= k, k <= latest,
         \/ /\ step = "point" /\ x = k /\ UNCHANGED <<indexed, saved>>
         \/ /\ step = "unpoint" /\ k = kept[t]
            /\ indexed' = [indexed EXCEPT ![t] = 0] /\ saved' = [saved EXCEPT ![t] = 0]
  PROVE  CopiesInv'
<1>1. PICK n \in Run : /\ n = [tenant |-> t, at |-> at, version |-> x, step |-> step]
                       /\ n.tenant = t /\ n.version = x /\ n.step = step
  <2>1. step \in {"point", "object", "row", "local", "chunks", "unsaved", "unpoint", "unrows"}
    OBVIOUS
  <2>2. [tenant |-> t, at |-> at, version |-> x, step |-> step] \in Run
    BY <2>1 DEF Run
  <2>. QED
    BY <2>2
<1>2. /\ job[w] = None /\ job' = [job EXCEPT ![w] = n]
      /\ crossed' = IF \E v \in Writer : job[v] # None /\ job[v].tenant = t THEN crossed \cup {t} ELSE crossed
  BY <1>1, Zenon DEF Copies!Begin
<1>3. CopiesOK'
  BY <1>1, <1>2 DEF CopiesInv, CopiesOK
<1>4. Grown
  BY <1>2 DEF Grown, CopiesInv, CopiesOK
<1>5. \A v \in Writer : \A c \in Run : job'[v] = c => (v # w /\ job[v] = c) \/ (v = w /\ c = n)
  BY <1>2 DEF CopiesInv, CopiesOK, CopyApart
<1>6. \A v \in Writer : \A c \in Run : job[v] = c /\ c.tenant = t => t \in crossed'
  BY <1>2 DEF CopyApart
<1>7. Alone'
  <2>. SUFFICES ASSUME NEW v \in Writer, NEW u \in Writer, NEW c \in Run, NEW d \in Run,
                       job'[v] = c, job'[u] = d, c.tenant = d.tenant, c.tenant \notin crossed'
                PROVE  v = u
    BY Zenon DEF Alone
  <2>1. CASE v = w \/ u = w
    BY <1>1, <1>5, <1>6, <2>1
  <2>2. CASE v # w /\ u # w
    <3>1. job[v] = c /\ job[u] = d /\ c.tenant \notin crossed
      BY <1>4, <1>5, <2>2 DEF Grown
    <3>. QED
      BY <3>1 DEF CopiesInv, Alone
  <2>. QED
    BY <2>1, <2>2
<1>8. \A s \in Tenant : s # t => Untouched(s)
  BY DEF Untouched, PointOf, CopiesInv, CopiesOK
<1>9. PointOf(t)' = PointOf(t) /\ PointOf(t) \in Nat /\ ByPoint(t)' = ByPoint(t)
  BY DEF PointOf, ByPoint, CopiesInv, CopiesOK, Point
<1>10. /\ object[t] \in Nat /\ meta[t] \in Nat /\ indexed[t] \in Nat /\ saved[t] \in Nat /\ kept[t] \in Nat
       /\ latest \in Nat /\ Ordered(t) /\ kept'[t] = k
       /\ ((indexed'[t] = indexed[t] /\ saved'[t] = saved[t]) \/ (indexed'[t] = 0 /\ saved'[t] = 0))
       /\ (step = "unpoint" => indexed'[t] = 0 /\ saved'[t] = 0)
  BY DEF CopiesInv, CopiesOK, Copyings
<1>11. Ordered(t)'
  BY <1>4, <1>9, <1>10 DEF Ordered, Grown
<1>12. RunFits(n)'
  BY <1>1, <1>4, <1>10 DEF RunFits, Deletes, Grown
<1>13. Copyings'
  <2>. SUFFICES ASSUME NEW s \in Tenant PROVE Ordered(s)'
    BY DEF Copyings
  <2>. QED
    BY <1>3, <1>4, <1>8, <1>11, OrderedStays DEF CopiesInv, Copyings
<1>14. Runs'
  <2>. SUFFICES ASSUME NEW v \in Writer, NEW c \in Run, job'[v] = c PROVE RunFits(c)'
    BY DEF Runs
  <2>1. CASE v = w
    BY <1>5, <1>12, <2>1
  <2>2. CASE v # w
    <3>1. job[v] = c /\ RunFits(c) /\ c.tenant \in Tenant /\ c.version \in Nat
      BY <1>5, <2>2 DEF CopiesInv, Runs, Run
    <3>2. CASE c.tenant # t
      BY <1>3, <1>4, <1>8, <3>1, <3>2, RunStays DEF CopiesInv
    <3>3. CASE c.tenant = t
      BY <1>6, <1>10, <3>1, <3>3 DEF RunFits
    <3>. QED
      BY <3>2, <3>3
  <2>. QED
    BY <2>1, <2>2
<1>15. Readings'
  <2>. SUFFICES ASSUME NEW r \in Reader, NEW q \in Reading, reading'[r] = q PROVE ReadingFits(q)'
    BY DEF Readings
  <2>1. reading[r] = q /\ ReadingFits(q) /\ q.tenant \in Tenant
    BY DEF CopiesInv, Readings, Reading
  <2>2. meta[q.tenant] <= meta'[q.tenant]
    BY <2>1 DEF CopiesInv, CopiesOK
  <2>. QED
    BY <1>3, <1>4, <2>1, <2>2, ReadingStays DEF CopiesInv
<1>. QED
  BY <1>3, <1>7, <1>13, <1>14, <1>15 DEF CopiesInv

LEMMA DocumentChangeStep == ASSUME CopiesInv, Copies!Change PROVE CopiesInv'
<1>1. /\ latest' = latest + 1
      /\ UNCHANGED <<backend, kept, point, object, meta, indexed, saved, job, reading, crossed, missed>>
  BY Zenon DEF Copies!Change, Copies!copies, Copies!ends, Copies!history
<1>2. CopiesOK'
  BY <1>1 DEF CopiesInv, CopiesOK
<1>3. Grown
  BY <1>1 DEF Grown, CopiesInv, CopiesOK
<1>4. \A t \in Tenant : Untouched(t) /\ meta[t] <= meta'[t]
  BY <1>1 DEF Untouched, PointOf, ByPoint, CopiesInv, CopiesOK
<1>5. Alone'
  BY <1>1 DEF CopiesInv, Alone
<1>6. Copyings'
  <2>. SUFFICES ASSUME NEW t \in Tenant PROVE Ordered(t)'
    BY DEF Copyings
  <2>. QED
    BY <1>2, <1>3, <1>4, OrderedStays DEF CopiesInv, Copyings
<1>7. Runs'
  <2>. SUFFICES ASSUME NEW v \in Writer, NEW c \in Run, job'[v] = c PROVE RunFits(c)'
    BY DEF Runs
  <2>1. job[v] = c /\ RunFits(c) /\ c.tenant \in Tenant
    BY <1>1 DEF CopiesInv, Runs, Run
  <2>. QED
    BY <1>2, <1>3, <1>4, <2>1, RunStays DEF CopiesInv
<1>8. Readings'
  <2>. SUFFICES ASSUME NEW r \in Reader, NEW q \in Reading, reading'[r] = q PROVE ReadingFits(q)'
    BY DEF Readings
  <2>1. reading[r] = q /\ ReadingFits(q) /\ q.tenant \in Tenant
    BY <1>1 DEF CopiesInv, Readings, Reading
  <2>. QED
    BY <1>2, <1>3, <1>4, <2>1, ReadingStays DEF CopiesInv
<1>. QED
  BY <1>2, <1>5, <1>6, <1>7, <1>8 DEF CopiesInv

\* A request goes on as n, or ends.
LEMMA ReadStep ==
  ASSUME CopyApart, CopiesInv, NEW r \in Reader, NEW n \in Reading \cup {None},
         reading' = [reading EXCEPT ![r] = n], n # None => ReadingFits(n),
         UNCHANGED <<backend, latest, kept, point, object, meta, indexed, saved, job, crossed, missed>>
  PROVE  CopiesInv'
<1>1. CopiesOK'
  BY DEF CopiesInv, CopiesOK
<1>2. Grown
  BY DEF Grown, CopiesInv, CopiesOK
<1>3. \A t \in Tenant : Untouched(t) /\ meta[t] <= meta'[t]
  BY DEF Untouched, PointOf, ByPoint, CopiesInv, CopiesOK
<1>4. Alone'
  BY DEF CopiesInv, Alone
<1>5. Copyings'
  <2>. SUFFICES ASSUME NEW t \in Tenant PROVE Ordered(t)'
    BY DEF Copyings
  <2>. QED
    BY <1>1, <1>2, <1>3, OrderedStays DEF CopiesInv, Copyings
<1>6. Runs'
  <2>. SUFFICES ASSUME NEW v \in Writer, NEW c \in Run, job'[v] = c PROVE RunFits(c)'
    BY DEF Runs
  <2>1. RunFits(c) /\ c.tenant \in Tenant
    BY DEF CopiesInv, Runs, Run
  <2>. QED
    BY <1>1, <1>2, <1>3, <2>1, RunStays DEF CopiesInv
<1>7. Readings'
  <2>. SUFFICES ASSUME NEW s \in Reader, NEW q \in Reading, reading'[s] = q PROVE ReadingFits(q)'
    BY DEF Readings
  <2>1. ReadingFits(q) /\ q.tenant \in Tenant
    BY DEF CopiesInv, CopiesOK, Readings, Reading, CopyApart
  <2>. QED
    BY <1>1, <1>2, <1>3, <2>1, ReadingStays DEF CopiesInv
<1>. QED
  BY <1>1, <1>4, <1>5, <1>6, <1>7 DEF CopiesInv

\* What is found comes of the metadata, or for want of it of the point.
LEMMA GetDocumentStep ==
  ASSUME CopyApart, CopiesInv, NEW r \in Reader, NEW t \in Tenant, NEW by \in {"document", "chunk"},
         Copies!GetDocument(r, t, by)
  PROVE  CopiesInv'
<1>. DEFINE found == IF Copies!Stored(t, by) THEN meta[t] ELSE Copies!Payload(t, by)
            from == IF Copies!Stored(t, by) THEN "store" ELSE "point"
            step == IF found = 0 THEN "missing" ELSE "decide"
            n == [tenant |-> t, by |-> by, of |-> from, ended |-> indexed[t], since |-> saved[t],
                  row |-> found, structure |-> found, body |-> found, step |-> step]
<1>1. /\ reading' = [reading EXCEPT ![r] = n]
      /\ UNCHANGED <<backend, latest, kept, point, object, meta, indexed, saved, job, crossed, missed>>
  BY Zenon DEF Copies!GetDocument, Copies!copies, Copies!ends, Copies!history
<1>2. /\ Ordered(t) /\ indexed[t] \in Nat /\ saved[t] \in Nat /\ meta[t] \in Nat /\ PointOf(t) \in Nat
      /\ backend \in {"minio", "memory"}
  BY DEF CopiesInv, CopiesOK, Copyings, PointOf, Point
<1>3. \/ (from = "store" /\ found = meta[t] /\ found # 0)
      \/ (from = "point" /\ (by = "document" => meta[t] = 0) /\ found = 0 /\ by = "chunk")
      \/ (from = "point" /\ (by = "document" => meta[t] = 0) /\ found = 0 /\ backend = "minio")
      \/ (from = "point" /\ (by = "document" => meta[t] = 0) /\ found = PointOf(t) /\ backend = "memory")
  BY <1>2 DEF Copies!Stored, Copies!Payload, Copies!Own, Copies!Parent, Copies!Shared, PointOf
<1>4. /\ step \in {"missing", "decide"} /\ (step = "missing" <=> found = 0)
  OBVIOUS
<1>. HIDE DEF step, from, found
<1>5. /\ n \in Reading /\ n.tenant = t /\ n.by = by /\ n.of = from /\ n.ended = indexed[t] /\ n.since = saved[t]
      /\ n.row = found /\ n.structure = found /\ n.body = found /\ n.step = step
  BY <1>2, <1>3, <1>4 DEF Reading
<1>. HIDE DEF n
<1>6. ReadingFits(n)
  BY <1>2, <1>3, <1>4, <1>5 DEF ReadingFits, Ordered, ByPoint
<1>. QED
  BY <1>1, <1>5, <1>6, ReadStep

LEMMA ReadingAt ==
  ASSUME CopyApart, CopiesInv, NEW r \in Reader, NEW step, Copies!At(r, step)
  PROVE  \E q \in Reading : /\ reading[r] = q /\ q.step = step /\ ReadingFits(q) /\ Ordered(q.tenant)
                            /\ q.tenant \in Tenant /\ q.row \in Nat /\ q.structure \in Nat /\ q.since \in Nat
                            /\ object[q.tenant] \in Nat /\ meta[q.tenant] \in Nat
<1>1. PICK q \in Reading : reading[r] = q /\ q.step = step
  BY DEF Copies!At, CopiesInv, CopiesOK
<1>2. q.tenant \in Tenant /\ q.row \in Nat /\ q.structure \in Nat /\ q.since \in Nat
  BY DEF Reading
<1>. QED
  BY <1>1, <1>2 DEF CopiesInv, CopiesOK, Readings, Copyings

LEMMA DecideStep ==
  ASSUME CopyApart, CopiesInv, NEW r \in Reader, Copies!Decide(r) PROVE CopiesInv'
<1>1. PICK q \in Reading : /\ reading[r] = q /\ q.step = "decide" /\ ReadingFits(q) /\ Ordered(q.tenant)
                           /\ q.tenant \in Tenant /\ q.row \in Nat /\ q.structure \in Nat /\ q.since \in Nat
                           /\ object[q.tenant] \in Nat /\ meta[q.tenant] \in Nat
  BY ReadingAt DEF Copies!Decide
<1>2. PICK step : /\ step \in {"forbidden", "structure", "answered"}
                  /\ (step = "structure" => q.of = "store") /\ (step = "answered" => q.of = "point")
                  /\ reading' = [reading EXCEPT ![r].step = step]
  <2>1. CASE ~access[q.tenant]
    BY <1>1, <2>1, Zenon DEF Copies!Decide
  <2>2. CASE access[q.tenant] /\ q.of = "store"
    BY <1>1, <2>2, Zenon DEF Copies!Decide
  <2>3. CASE access[q.tenant] /\ q.of # "store"
    <3>1. q.of = "point"
      BY <2>3 DEF Reading
    <3>. QED
      BY <1>1, <2>3, <3>1, Zenon DEF Copies!Decide
  <2>. QED
    BY <2>1, <2>2, <2>3
<1>. DEFINE n == [q EXCEPT !.step = step]
<1>3. /\ n \in Reading /\ n.tenant = q.tenant /\ n.by = q.by /\ n.of = q.of /\ n.ended = q.ended /\ n.since = q.since
      /\ n.row = q.row
      /\ n.structure = q.structure /\ n.body = q.body /\ n.step = step
  BY <1>2 DEF Reading
<1>4. reading' = [reading EXCEPT ![r] = n]
      /\ UNCHANGED <<backend, latest, kept, point, object, meta, indexed, saved, job, crossed, missed>>
  BY <1>1, <1>2, Zenon DEF Copies!Decide, Copies!copies, Copies!ends, Copies!history
<1>. HIDE DEF n
<1>5. ReadingFits(n)
  BY <1>1, <1>2, <1>3 DEF ReadingFits
<1>. QED
  BY <1>3, <1>4, <1>5, ReadStep

LEMMA GetStructureStep ==
  ASSUME CopyApart, CopiesInv, NEW r \in Reader, Copies!GetStructure(r) PROVE CopiesInv'
<1>1. PICK q \in Reading : /\ reading[r] = q /\ q.step = "structure" /\ ReadingFits(q) /\ Ordered(q.tenant)
                           /\ q.tenant \in Tenant /\ q.row \in Nat /\ q.structure \in Nat /\ q.since \in Nat
                           /\ object[q.tenant] \in Nat /\ meta[q.tenant] \in Nat
  BY ReadingAt DEF Copies!GetStructure
<1>2. PICK v \in Nat : v = meta[q.tenant]
  BY <1>1
<1>. DEFINE n == [q EXCEPT !.step = "body", !.structure = v]
<1>3. /\ n \in Reading /\ n.tenant = q.tenant /\ n.by = q.by /\ n.of = q.of /\ n.ended = q.ended /\ n.since = q.since
      /\ n.row = q.row
      /\ n.structure = v /\ n.step = "body"
  BY DEF Reading
<1>4. reading' = [reading EXCEPT ![r] = n]
      /\ UNCHANGED <<backend, latest, kept, point, object, meta, indexed, saved, job, crossed, missed>>
  <2>1. reading' = [reading EXCEPT ![r].step = "body", ![r].structure = v]
        /\ UNCHANGED <<backend, latest, kept, point, object, meta, indexed, saved, job, crossed, missed>>
    BY <1>1, <1>2, Zenon DEF Copies!GetStructure, Copies!copies, Copies!ends, Copies!history
  <2>. QED
    BY <1>1, <2>1 DEF CopiesInv, CopiesOK
<1>. HIDE DEF n
<1>5. ReadingFits(n)
  BY <1>1, <1>2, <1>3 DEF ReadingFits
<1>. QED
  BY <1>3, <1>4, <1>5, ReadStep

\* The body is read last, and is not behind the row.
LEMMA GetBodyStep ==
  ASSUME CopyApart, CopiesInv, NEW r \in Reader, Copies!GetBody(r) PROVE CopiesInv'
<1>1. PICK q \in Reading : /\ reading[r] = q /\ q.step = "body" /\ ReadingFits(q) /\ Ordered(q.tenant)
                           /\ q.tenant \in Tenant /\ q.row \in Nat /\ q.structure \in Nat /\ q.since \in Nat
                           /\ object[q.tenant] \in Nat /\ meta[q.tenant] \in Nat
  BY ReadingAt DEF Copies!GetBody
<1>2. PICK v \in Nat : v = object[q.tenant]
  BY <1>1
<1>. DEFINE n == [q EXCEPT !.step = "answered", !.body = v]
<1>3. /\ n \in Reading /\ n.tenant = q.tenant /\ n.by = q.by /\ n.of = q.of /\ n.ended = q.ended /\ n.since = q.since
      /\ n.row = q.row
      /\ n.structure = q.structure /\ n.body = v /\ n.step = "answered"
  BY DEF Reading
<1>4. reading' = [reading EXCEPT ![r] = n]
      /\ UNCHANGED <<backend, latest, kept, point, object, meta, indexed, saved, job, crossed, missed>>
  BY <1>1, <1>2, Zenon DEF Copies!GetBody, Copies!Answered, Copies!copies, Copies!ends, Copies!history
<1>. HIDE DEF n
<1>5. ReadingFits(n)
  BY <1>1, <1>2, <1>3 DEF ReadingFits, Ordered
<1>. QED
  BY <1>3, <1>4, <1>5, ReadStep

LEMMA CopiesSame ==
  ASSUME CopiesInv,
         UNCHANGED <<backend, latest, kept, point, object, meta, indexed, saved, job, reading, crossed, missed>>
  PROVE  CopiesInv'
<1>0. \A t : ByPoint(t)' = ByPoint(t) /\ PointOf(t)' = PointOf(t)
  BY DEF ByPoint, PointOf
<1>1. \A t \in Tenant : Ordered(t)' = Ordered(t)
  BY <1>0 DEF Ordered
<1>2. \A b \in Run : RunFits(b)' = RunFits(b)
  BY <1>0 DEF RunFits, Deletes
<1>3. \A q \in Reading : ReadingFits(q)' = ReadingFits(q)
  BY <1>0 DEF ReadingFits
<1>. QED
  BY <1>1, <1>2, <1>3 DEF CopiesInv, CopiesOK, Alone, Copyings, Runs, Readings

\* The runs that begin.
LEMMA BeginsStep ==
  ASSUME CopyApart, CopiesInv, NEW w \in Writer, NEW t \in Tenant,
         \/ Copies!BulkIndex(w, t) \/ Copies!DeleteByIds(w, t)
         \/ \E at \in {"api", "worker"} : Copies!ReindexByIds(w, t, at)
  PROVE  CopiesInv'
<1>0. /\ kept \in [Tenant -> Nat] /\ kept[t] \in Nat /\ latest \in Nat /\ latest # 0 /\ kept[t] <= latest
      /\ kept[t] <= kept[t] /\ [kept EXCEPT ![t] = kept[t]] = kept
  BY DEF CopiesInv, CopiesOK, Copyings, Ordered
<1>1. CASE Copies!BulkIndex(w, t)
  <2>1. /\ Copies!Begin(w, t, "worker", latest, "point") /\ kept' = [kept EXCEPT ![t] = latest]
        /\ UNCHANGED <<backend, latest, point, object, meta, missed, reading>> /\ UNCHANGED <<indexed, saved>>
    BY <1>1, Zenon DEF Copies!BulkIndex, Copies!ends
  <2>2. latest <= latest
    BY <1>0
  <2>. QED
    BY <1>0, <2>1, <2>2, BeginStep
<1>2. CASE Copies!DeleteByIds(w, t)
  <2>1. /\ Copies!Begin(w, t, "worker", latest, "unpoint") /\ kept' = kept
        /\ indexed' = [indexed EXCEPT ![t] = 0] /\ saved' = [saved EXCEPT ![t] = 0]
        /\ UNCHANGED <<backend, latest, point, object, meta, missed, reading>>
    BY <1>2, Zenon DEF Copies!DeleteByIds, Copies!copies
  <2>. QED
    BY <1>0, <2>1, BeginStep
<1>3. CASE \E at \in {"api", "worker"} : Copies!ReindexByIds(w, t, at)
  <2>1. PICK at \in {"api", "worker"} : Copies!ReindexByIds(w, t, at)
    BY <1>3
  <2>2. /\ Copies!Begin(w, t, at, kept[t], "point") /\ kept' = kept /\ kept[t] # 0
        /\ UNCHANGED <<backend, latest, point, object, meta, missed, reading>> /\ UNCHANGED <<indexed, saved>>
    BY <2>1, Zenon DEF Copies!ReindexByIds, Copies!ends
  <2>. QED
    BY <1>0, <2>2, BeginStep
<1>. QED
  BY <1>1, <1>2, <1>3

LEMMA CopiesNext == ASSUME CopyApart, CopiesInv, Copies!Next PROVE CopiesInv'
<1>1. CASE Copies!Change
  BY <1>1, DocumentChangeStep
<1>2. CASE \E t \in Tenant, w \in Writer : \/ Copies!BulkIndex(w, t) \/ Copies!DeleteByIds(w, t)
                                           \/ \E at \in {"api", "worker"} : Copies!ReindexByIds(w, t, at)
  BY <1>2, BeginsStep
<1>3. CASE \E t \in Tenant, r \in Reader, by \in {"document", "chunk"} : Copies!GetDocument(r, t, by)
  BY <1>3, GetDocumentStep
<1>4. CASE \E w \in Writer : \/ Copies!PutPoint(w) \/ Copies!PutObject(w) \/ Copies!PutRow(w) \/ Copies!PutLocal(w)
                             \/ Copies!StoreFails(w) \/ Copies!PutChunks(w) \/ Copies!RemovePoint(w)
                             \/ Copies!RemoveRows(w) \/ Copies!RunFails(w)
  BY <1>4, PutPointStep, PutObjectStep, PutRowStep, PutLocalStep, StoreFailsStep, PutChunksStep, RemovePointStep,
     RunEnds
<1>5. CASE \E r \in Reader : Copies!Decide(r) \/ Copies!GetStructure(r) \/ Copies!GetBody(r)
  BY <1>5, DecideStep, GetStructureStep, GetBodyStep
<1>6. CASE \E r \in Reader : Copies!Close(r)
  <2>1. PICK r \in Reader : Copies!Close(r)
    BY <1>6
  <2>2. /\ reading' = [reading EXCEPT ![r] = None]
        /\ UNCHANGED <<backend, latest, kept, point, object, meta, indexed, saved, job, crossed, missed>>
    BY <2>1, Zenon DEF Copies!Close, Copies!copies, Copies!ends, Copies!history
  <2>. QED
    BY <2>2, ReadStep
<1>. QED
  BY <1>1, <1>2, <1>3, <1>4, <1>5, <1>6, Zenon DEF Copies!Next

\* However runs of two tenants, in workers and in the API, and reads of their
\* copies overlap, an answer fits together; it is not older than what was last
\* saved, or, where the point stands in for it, last indexed; for any tenants,
\* workers, requests and versions (DocumentCopies says what is excepted).
THEOREM AnswersFit == Spec => []AnswerFits
<1>0. CopyApart
  BY Zenon, NoneAssumption DEF CopyApart, Run, Point, Reading
<1>1. Init => CopiesInv
  BY <1>0, CopiesInit DEF Init
<1>2. CopiesInv /\ [Next]_all => CopiesInv'
  <2>. SUFFICES ASSUME CopiesInv, [Next]_all PROVE CopiesInv'
    OBVIOUS
  <2>1. Copies!Next \/ UNCHANGED documents
    BY Zenon DEF Next, all
  <2>2. CASE UNCHANGED documents
    BY <2>2, CopiesSame DEF documents
  <2>. QED
    BY <1>0, <2>1, <2>2, CopiesNext
<1>3. CopiesInv => AnswerFits
  <2>. SUFFICES ASSUME CopiesInv, NEW r \in Reader, reading[r] # None, reading[r].tenant \notin crossed
                PROVE  LET q == reading[r] IN
                         /\ q.step = "answered" => q.row <= q.structure /\ q.structure <= q.body
                         /\ q.step = "answered" /\ q.of = "store" => q.since <= q.row
                         /\ q.step = "missing" /\ q.by = "document" => q.since = 0
                         /\ ~Copies!Shared /\ q.tenant \notin missed =>
                              /\ q.step = "answered" /\ q.of = "point" => q.ended <= q.row
                              /\ q.step = "missing" /\ q.by = "document" => q.ended = 0
    BY DEF AnswerFits, Copies!AnswerFits
  <2>1. reading[r] \in Reading /\ ReadingFits(reading[r])
    BY DEF CopiesInv, CopiesOK, Readings
  <2>2. ~Copies!Shared => backend = "memory"
    BY DEF Copies!Shared, CopiesInv, CopiesOK
  <2>. QED
    BY <2>1, <2>2 DEF ReadingFits, ByPoint
<1>. QED
  BY <1>1, <1>2, <1>3, PTL DEF Spec
-----------------------------------------------------------------------------
(* Directory: the accounts of a tenant. *)

Table == [Users!Principal -> Users!Row \cup {None}]
Asked == [role : {"admin", "member", None}, active : BOOLEAN \cup {None}]
Ticket == [pc : {"idle", "load", "commit"}, op : {"invite", "patch", "reset", "change", None},
          actor : Users!Principal \cup {None}, of : Users!Principal \cup {None}, ask : Asked \cup {None},
          self : Users!Row \cup {None}, row : Users!Row \cup {None}]
Feeding == [pc : {"idle", "users", "put users", "groups", "new group", "put group", "done"},
            feed : Users!Feed \cup {None}, rows : Table \cup {None}, members : (SUBSET Subject) \cup {None},
            crossed : BOOLEAN]

UsersOK ==
    /\ setup \in {"none", "row", "ready", "stuck"}
    /\ users \in Table /\ issued \in [Users!Principal -> Nat] /\ passwords \in Nat
    /\ caller \in [Caller -> Ticket] /\ feeder \in [Feeder -> Feeding]
    /\ setup # "ready" => \A p \in Users!Principal : users[p] = None

\* The row holds what was issued last.
Opening(p) == IF users[p] = None THEN issued[p] = 0 ELSE users[p].pw = issued[p] /\ users[p].pw <= passwords

\* A loaded row is of an account that is there, and its password was made.
AccountLoaded(x) == x # None /\ x.pw <= passwords
CallFits(q) == q.pc # "idle" =>
    /\ q.op # None /\ q.of # None /\ q.actor # None /\ q.ask # None
    /\ q.op = "invite" => q.ask.role # None
    /\ q.op = "change" => q.of = q.actor
    /\ users[q.actor] # None /\ AccountLoaded(q.self)
    /\ q.pc = "commit" /\ q.op # "invite" => AccountLoaded(q.row) /\ users[q.of] # None

\* And so are the rows a run of the feed has loaded.
FeedFits(r) ==
    /\ r.pc # "idle" => r.feed \in Users!Feed /\ setup = "ready"
    /\ r.pc = "put users" => r.rows \in Table /\ \A p \in Users!Principal : r.rows[p] # None => users[p] # None

Openings == \A p \in Users!Principal : Opening(p)
Callings == \A c \in Caller, q \in Ticket : caller[c] = q => CallFits(q)
Feedings == \A f \in Feeder, r \in Feeding : feeder[f] = r => FeedFits(r)

UsersInv == UsersOK /\ Openings /\ Callings /\ Feedings

UserApart ==
    /\ First \in Users!Principal /\ None \notin Users!Row /\ None \notin Users!Principal /\ None \notin Asked
    /\ None \notin {"invite", "patch", "reset", "change"} /\ None \notin {"admin", "member"}
    /\ \A members \in SUBSET Subject : None # members

LEMMA RowFields ==
  ASSUME NEW r \in Users!Row
  PROVE  /\ DOMAIN r = {"email", "pw", "must", "role", "active"}
         /\ r.email \in Users!Principal /\ r.pw \in Nat /\ r.must \in BOOLEAN
         /\ r.role \in {"admin", "member"} /\ r.active \in BOOLEAN
BY DEF Users!Row

\* Only what the handler changed is written.
LEMMA Emitted ==
  ASSUME NEW cur \in Users!Row, NEW old \in Users!Row, NEW new \in Users!Row
  PROVE  /\ Users!Emit(cur, old, new) \in Users!Row
         /\ Users!Emit(cur, old, new).email = IF new.email # old.email THEN new.email ELSE cur.email
         /\ Users!Emit(cur, old, new).pw = IF new.pw # old.pw THEN new.pw ELSE cur.pw
         /\ Users!Emit(cur, old, new).active = IF new.active # old.active THEN new.active ELSE cur.active
<1>. DEFINE D == {"email", "pw", "must", "role", "active"}
            f == [x \in D |-> IF new[x] # old[x] THEN new[x] ELSE cur[x]]
<1>1. Users!Emit(cur, old, new) = f
  BY RowFields DEF Users!Emit
<1>2. f = [email |-> f["email"], pw |-> f["pw"], must |-> f["must"], role |-> f["role"], active |-> f["active"]]
  OBVIOUS
<1>3. /\ f["email"] = (IF new.email # old.email THEN new.email ELSE cur.email)
      /\ f["pw"] = (IF new.pw # old.pw THEN new.pw ELSE cur.pw)
      /\ f["must"] = (IF new.must # old.must THEN new.must ELSE cur.must)
      /\ f["role"] = (IF new.role # old.role THEN new.role ELSE cur.role)
      /\ f["active"] = (IF new.active # old.active THEN new.active ELSE cur.active)
  BY Zenon
<1>. HIDE DEF f
<1>4. /\ f["email"] \in Users!Principal /\ f["pw"] \in Nat /\ f["must"] \in BOOLEAN
      /\ f["role"] \in {"admin", "member"} /\ f["active"] \in BOOLEAN
  BY <1>3, RowFields, Zenon
<1>5. f \in Users!Row
  BY <1>2, <1>4 DEF Users!Row
<1>. QED
  BY <1>1, <1>3, <1>5, Zenon

LEMMA UsersInit == ASSUME UserApart, Users!Init PROVE UsersInv
<1>1. /\ setup = "none" /\ users = [p \in Users!Principal |-> None] /\ issued = [p \in Users!Principal |-> 0]
      /\ passwords = 0 /\ caller = [c \in Caller |-> Users!Idle] /\ feeder = [f \in Feeder |-> Users!Rest]
  BY Zenon DEF Users!Init
<1>2. Users!Idle \in Ticket /\ Users!Idle.pc = "idle"
  BY DEF Users!Idle, Ticket
<1>3. Users!Rest \in Feeding /\ Users!Rest.pc = "idle"
  BY DEF Users!Rest, Feeding
<1>4. UsersOK
  BY <1>1, <1>2, <1>3 DEF UsersOK, Table
<1>. QED
  BY <1>1, <1>2, <1>3, <1>4 DEF UsersInv, Openings, Opening, Callings, CallFits, Feedings, FeedFits

\* A step that forgets no account and no password.
LEMMA UsersStep ==
  ASSUME UserApart, UsersInv,
         setup' \in {"none", "row", "ready", "stuck"}, users' \in Table,
         issued' \in [Users!Principal -> Nat], passwords' \in Nat, passwords <= passwords',
         setup' # "ready" => setup # "ready" /\ users' = users,
         \A p \in Users!Principal : users[p] # None => users'[p] # None,
         Openings',
         caller' \in [Caller -> Ticket],
         \A c \in Caller : caller'[c] = caller[c] \/ \A q \in Ticket : caller'[c] = q => CallFits(q)',
         feeder' \in [Feeder -> Feeding],
         \A f \in Feeder : feeder'[f] = feeder[f] \/ \A r \in Feeding : feeder'[f] = r => FeedFits(r)'
  PROVE  UsersInv'
<1>1. UsersOK'
  BY DEF UsersInv, UsersOK
<1>2. ASSUME NEW q \in Ticket, CallFits(q) PROVE CallFits(q)'
  <2>1. /\ q.of \in Users!Principal \cup {None} /\ q.actor \in Users!Principal \cup {None}
        /\ \A x \in Users!Row : AccountLoaded(x) => AccountLoaded(x)'
        /\ q.self \in Users!Row \cup {None} /\ q.row \in Users!Row \cup {None}
    <3>1. passwords \in Nat /\ \A x \in Users!Row : x.pw \in Nat
      BY RowFields DEF UsersInv, UsersOK
    <3>2. \A x \in Users!Row : AccountLoaded(x) => AccountLoaded(x)'
      BY <3>1 DEF AccountLoaded
    <3>. QED
      BY <3>2 DEF Ticket
  <2>2. AccountLoaded(q.self) => AccountLoaded(q.self)'
    BY <2>1 DEF AccountLoaded
  <2>3. AccountLoaded(q.row) => AccountLoaded(q.row)'
    BY <2>1 DEF AccountLoaded
  <2>4. /\ q.of # None /\ users[q.of] # None => users'[q.of] # None
        /\ q.actor # None /\ users[q.actor] # None => users'[q.actor] # None
    BY <2>1
  <2>. QED
    BY <1>2, <2>2, <2>3, <2>4, Zenon DEF CallFits
<1>3. ASSUME NEW r \in Feeding, FeedFits(r) PROVE FeedFits(r)'
  BY <1>3 DEF FeedFits
<1>4. Callings'
  <2>. SUFFICES ASSUME NEW c \in Caller, NEW q \in Ticket, caller'[c] = q PROVE CallFits(q)'
    BY Zenon DEF Callings
  <2>1. caller[c] = q => CallFits(q)
    BY Zenon DEF UsersInv, Callings
  <2>. QED
    BY <1>2, <2>1, Zenon
<1>5. Feedings'
  <2>. SUFFICES ASSUME NEW f \in Feeder, NEW r \in Feeding, feeder'[f] = r PROVE FeedFits(r)'
    BY Zenon DEF Feedings
  <2>1. feeder[f] = r => FeedFits(r)
    BY Zenon DEF UsersInv, Feedings
  <2>. QED
    BY <1>3, <2>1, Zenon
<1>. QED
  BY <1>1, <1>4, <1>5 DEF UsersInv

\* The accounts stay, and a request or the runs go on.
LEMMA TicketStep ==
  ASSUME UserApart, UsersInv, NEW c \in Caller, NEW n \in Ticket, caller' = [caller EXCEPT ![c] = n],
         CallFits(n), UNCHANGED <<setup, users, issued, passwords, feeder>>
  PROVE  UsersInv'
<1>1. /\ setup' \in {"none", "row", "ready", "stuck"} /\ users' \in Table
      /\ issued' \in [Users!Principal -> Nat] /\ passwords' \in Nat /\ passwords <= passwords'
      /\ (setup' # "ready" => setup # "ready" /\ users' = users)
      /\ caller' \in [Caller -> Ticket] /\ feeder' \in [Feeder -> Feeding]
  BY DEF UsersInv, UsersOK
<1>2. Openings'
  BY DEF UsersInv, Openings, Opening
<1>3. CallFits(n)' = CallFits(n)
  BY DEF CallFits, AccountLoaded
<1>4. \A d \in Caller : caller'[d] = caller[d] \/ \A q \in Ticket : caller'[d] = q => CallFits(q)'
  <2>. SUFFICES ASSUME NEW d \in Caller, caller'[d] # caller[d], NEW q \in Ticket, caller'[d] = q
                PROVE  CallFits(q)'
    OBVIOUS
  <2>1. q = n
    BY DEF UsersInv, UsersOK
  <2>2. CallFits(n)'
    BY <1>3
  <2>. QED
    BY <2>1, <2>2, Zenon DEF CallFits
<1>. QED
  BY <1>1, <1>2, <1>4, UsersStep

LEMMA FeedersStep ==
  ASSUME UserApart, UsersInv, feeder' \in [Feeder -> Feeding],
         \A f \in Feeder : feeder'[f] = feeder[f] \/ \A r \in Feeding : feeder'[f] = r => FeedFits(r),
         UNCHANGED <<setup, users, issued, passwords, caller>>
  PROVE  UsersInv'
<1>1. /\ setup' \in {"none", "row", "ready", "stuck"} /\ users' \in Table
      /\ issued' \in [Users!Principal -> Nat] /\ passwords' \in Nat /\ passwords <= passwords'
      /\ (setup' # "ready" => setup # "ready" /\ users' = users)
      /\ caller' \in [Caller -> Ticket]
  BY DEF UsersInv, UsersOK
<1>2. Openings'
  BY DEF UsersInv, Openings, Opening
<1>3. \A r \in Feeding : FeedFits(r)' = FeedFits(r)
  BY DEF FeedFits
<1>. QED
  BY <1>1, <1>2, <1>3, UsersStep

\* No account is forgotten, none gets another address.
Keeping == \A p \in Users!Principal : users[p] # None => users'[p] # None /\ users'[p].email = users[p].email

LEMMA SameUsers == ASSUME users' = users PROVE Users!DeactivationStands /\ Keeping
BY DEF Users!DeactivationStands, Keeping

\* A new row, or the row of an account that is there and stays active or not.
LEMMA RowStep ==
  ASSUME UserApart, UsersInv, NEW p \in Users!Principal, NEW e \in Users!Row,
         users' = [users EXCEPT ![p] = e],
         users[p] # None => e.email = users[p].email /\ (~users[p].active => ~e.active)
  PROVE  Users!DeactivationStands /\ Keeping
<1>1. \A x \in Users!Principal : users'[x] = IF x = p THEN e ELSE users[x]
  BY DEF UsersInv, UsersOK, Table
<1>2. Keeping
  BY <1>1 DEF Keeping, UserApart
<1>3. \A x \in Users!Principal : users[x] # None /\ ~users[x].active => ~users'[x].active
  BY <1>1, Zenon
<1>4. Users!DeactivationStands
  BY <1>3, Zenon DEF Users!DeactivationStands
<1>. QED
  BY <1>2, <1>4

\* What handlers make of a row.
LEMMA PatchedRow ==
  ASSUME NEW r \in Users!Row, NEW ask \in Asked
  PROVE  /\ Users!Patched(r, ask) \in Users!Row
         /\ Users!Patched(r, ask).email = r.email /\ Users!Patched(r, ask).pw = r.pw
         /\ Users!Patched(r, ask).active = IF ask.active # None THEN ask.active ELSE r.active
<1>. DEFINE f == [x \in {"email", "pw", "must", "role", "active"} |->
                   IF x \in {"role", "active"} /\ ask[x] # None THEN ask[x] ELSE r[x]]
<1>1. Users!Patched(r, ask) = f
  BY RowFields DEF Users!Patched, Asked
<1>2. f = [email |-> f["email"], pw |-> f["pw"], must |-> f["must"], role |-> f["role"], active |-> f["active"]]
  OBVIOUS
<1>3. /\ f["email"] = r.email /\ f["pw"] = r.pw /\ f["must"] = r.must
      /\ f["role"] = (IF ask.role # None THEN ask.role ELSE r.role)
      /\ f["active"] = (IF ask.active # None THEN ask.active ELSE r.active)
  BY SMT
<1>. HIDE DEF f
<1>4. ask.role \in {"admin", "member", None} /\ ask.active \in BOOLEAN \cup {None}
  BY DEF Asked
<1>5. /\ f["email"] \in Users!Principal /\ f["pw"] \in Nat /\ f["must"] \in BOOLEAN
      /\ f["role"] \in {"admin", "member"} /\ f["active"] \in BOOLEAN
  BY <1>3, <1>4, RowFields, Zenon
<1>6. f \in Users!Row
  BY <1>2, <1>5 DEF Users!Row
<1>. QED
  BY <1>1, <1>3, <1>6, Zenon

LEMMA NewPassword ==
  ASSUME NEW r \in Users!Row, NEW n \in Nat, NEW must \in BOOLEAN
  PROVE  LET e == [r EXCEPT !.pw = n, !.must = must] IN
           e \in Users!Row /\ e.email = r.email /\ e.pw = n /\ e.active = r.active
BY DEF Users!Row

LEMMA Idling == Users!Idle \in Ticket /\ Users!Idle.pc = "idle" /\ CallFits(Users!Idle)
BY DEF Users!Idle, Ticket, CallFits

LEMMA BootstrapStep ==
  ASSUME UserApart, UsersInv,
         Users!BootstrapTenant \/ Users!BootstrapAdmin \/ Users!BootstrapFails
  PROVE  UsersInv' /\ Users!DeactivationStands /\ Keeping
<1>1. UsersOK /\ \A f \in Feeder : feeder'[f] = feeder[f]
  BY DEF UsersInv, Users!BootstrapTenant, Users!BootstrapAdmin, Users!BootstrapFails
<1>2. CASE Users!BootstrapTenant \/ Users!BootstrapFails
  <2>1. /\ setup # "ready" /\ setup' \in {"row", "stuck"}
        /\ UNCHANGED <<users, caller, feeder, issued, passwords>>
    BY <1>2 DEF Users!BootstrapTenant, Users!BootstrapFails
  <2>2. Openings'
    BY <2>1 DEF UsersInv, Openings, Opening
  <2>3. UsersInv'
    BY <1>1, <2>1, <2>2, UsersStep DEF UsersOK
  <2>. QED
    BY <2>1, <2>3, SameUsers
<1>3. CASE Users!BootstrapAdmin
  <2>1. PICK e : e = [email |-> First, pw |-> passwords + 1, must |-> TRUE, role |-> "admin", active |-> TRUE]
    OBVIOUS
  <2>2. /\ setup = "row" /\ setup' = "ready" /\ passwords' = passwords + 1
        /\ users' = [users EXCEPT ![First] = e] /\ issued' = [issued EXCEPT ![First] = passwords + 1]
        /\ UNCHANGED <<caller, feeder>>
    BY <1>3, <2>1 DEF Users!BootstrapAdmin
  <2>3. e \in Users!Row /\ e.pw = passwords + 1 /\ passwords \in Nat
    BY <1>1, <2>1 DEF UsersOK, Users!Row, UserApart
  <2>4. \A p \in Users!Principal : users[p] = None
    BY <1>1, <2>2 DEF UsersOK
  <2>5. users' \in Table /\ issued' \in [Users!Principal -> Nat] /\ passwords' \in Nat /\ passwords <= passwords'
    <3>1. passwords' \in Nat /\ passwords <= passwords'
      BY <2>2, <2>3
    <3>2. users' \in Table
      BY <1>1, <2>2, <2>3 DEF UsersOK, Table
    <3>3. issued' \in [Users!Principal -> Nat]
      <4>1. passwords + 1 \in Nat /\ issued \in [Users!Principal -> Nat]
        BY <1>1, <2>3 DEF UsersOK
      <4>. QED
        BY <2>2, <4>1
    <3>. QED
      BY <3>1, <3>2, <3>3
  <2>6. Openings'
    <3>. SUFFICES ASSUME NEW p \in Users!Principal PROVE Opening(p)'
      BY DEF Openings
    <3>1. CASE p = First
      BY <1>1, <2>2, <2>3, <3>1 DEF Opening, UsersOK, Table, UserApart
    <3>2. CASE p # First
      BY <1>1, <2>2, <2>4, <3>2 DEF UsersInv, Openings, Opening, UsersOK, Table
    <3>. QED
      BY <3>1, <3>2
  <2>7. UsersInv'
    BY <1>1, <2>2, <2>4, <2>5, <2>6, UsersStep DEF UsersOK
  <2>8. Users!DeactivationStands /\ Keeping
    BY <2>2, <2>3, <2>4, RowStep DEF UserApart
  <2>. QED
    BY <2>7, <2>8
<1>. QED
  BY <1>2, <1>3

\* A request is opened by somebody who has an account.
LEMMA OpenStep ==
  ASSUME UserApart, UsersInv, NEW c \in Caller, NEW op \in {"invite", "patch", "reset", "change"},
         NEW actor \in Users!Principal, NEW p \in Users!Principal, NEW ask \in Asked,
         Users!Open(c, op, actor, p, ask), op = "change" => p = actor,
         op = "invite" => ask.role # None
  PROVE  UsersInv'
<1>1. PICK n : n = [pc |-> "load", op |-> op, actor |-> actor, of |-> p, ask |-> ask,
                    self |-> users[actor], row |-> None]
  OBVIOUS
<1>2. /\ users[actor] # None /\ caller' = [caller EXCEPT ![c] = n]
      /\ UNCHANGED <<setup, users, issued, passwords, feeder>>
  BY <1>1, Zenon DEF Users!Open
<1>3. users[actor] \in Users!Row
  BY <1>2 DEF UsersInv, UsersOK, Table
<1>4. /\ n \in Ticket /\ n.pc = "load" /\ n.op = op /\ n.actor = actor /\ n.of = p /\ n.ask = ask
      /\ n.self = users[actor]
  BY <1>1, <1>3 DEF Ticket
<1>5. AccountLoaded(users[actor])
  BY <1>2, <1>3 DEF UsersInv, Openings, Opening, AccountLoaded
<1>6. CallFits(n)
  BY <1>2, <1>4, <1>5 DEF CallFits, UserApart
<1>. QED
  BY <1>2, <1>4, <1>6, TicketStep

LEMMA LoadRowStep ==
  ASSUME UserApart, UsersInv, NEW c \in Caller, Users!Load(c) PROVE UsersInv'
<1>1. PICK q \in Ticket : caller[c] = q
  BY DEF UsersInv, UsersOK
<1>2. q.pc = "load" /\ UNCHANGED <<setup, users, issued, passwords, feeder>>
  BY <1>1, Zenon DEF Users!Load
<1>3. CallFits(q)
  BY <1>1, Zenon DEF UsersInv, Callings
<1>4. PICK x : x = (IF q.of = q.actor /\ q.op # "change" THEN q.self ELSE users[q.of])
  OBVIOUS
<1>5. \/ caller' = [caller EXCEPT ![c] = Users!Idle]
      \/ /\ caller' = [caller EXCEPT ![c] = [q EXCEPT !.pc = "commit", !.row = x]]
         /\ q.op # "invite" => x # None
  <2>1. PICK ok : ok = CASE q.op = "invite" -> ~Users!Taken(q.of)
                         [] q.op = "patch"  -> x # None
                         [] OTHER           -> x # None /\ x.pw # 0
    OBVIOUS
  <2>2. caller' = [caller EXCEPT ![c] = IF ok THEN [q EXCEPT !.pc = "commit", !.row = x] ELSE Users!Idle]
    BY <1>1, <1>4, <2>1, Zenon DEF Users!Load
  <2>3. ok /\ q.op # "invite" => x # None
    BY <2>1
  <2>. QED
    BY <2>2, <2>3
<1>6. CASE caller' = [caller EXCEPT ![c] = Users!Idle]
  BY <1>2, <1>6, TicketStep, Idling
<1>7. CASE /\ caller' = [caller EXCEPT ![c] = [q EXCEPT !.pc = "commit", !.row = x]]
           /\ q.op # "invite" => x # None
  <2>1. /\ q.of \in Users!Principal /\ q.actor \in Users!Principal /\ users[q.of] \in Users!Row \cup {None}
        /\ q.self \in Users!Row /\ AccountLoaded(q.self) /\ users[q.actor] # None
    <3>1. q.of \in Users!Principal /\ q.actor \in Users!Principal
      BY <1>2, <1>3 DEF CallFits, Ticket
    <3>2. q.self \in Users!Row /\ AccountLoaded(q.self) /\ users[q.actor] # None
      BY <1>2, <1>3 DEF CallFits, Ticket, AccountLoaded
    <3>. QED
      BY <3>1, <3>2 DEF UsersInv, UsersOK, Table
  <2>2. x \in Users!Row \cup {None} /\ (q.op # "invite" => AccountLoaded(x) /\ users[q.of] # None)
    <3>1. CASE q.of = q.actor /\ q.op # "change"
      BY <1>4, <2>1, <3>1
    <3>2. CASE ~(q.of = q.actor /\ q.op # "change")
      BY <1>4, <1>7, <2>1, <3>2 DEF UsersInv, Openings, Opening, AccountLoaded
    <3>. QED
      BY <3>1, <3>2
  <2>3. PICK n : n = [q EXCEPT !.pc = "commit", !.row = x]
    OBVIOUS
  <2>4. /\ n \in Ticket /\ n.pc = "commit" /\ n.op = q.op /\ n.actor = q.actor /\ n.of = q.of /\ n.ask = q.ask
        /\ n.self = q.self /\ n.row = x
    BY <2>2, <2>3 DEF Ticket
  <2>5. CallFits(n)
    BY <1>2, <1>3, <2>2, <2>4 DEF CallFits
  <2>. QED
    BY <1>2, <1>7, <2>3, <2>4, <2>5, TicketStep
<1>. QED
  BY <1>5, <1>6, <1>7

\* A request that commits.
LEMMA CommitAt ==
  ASSUME UserApart, UsersInv, NEW c \in Caller, caller[c].pc = "commit"
  PROVE  \E q \in Ticket : /\ caller[c] = q /\ q.pc = "commit" /\ CallFits(q)
                           /\ q.of \in Users!Principal /\ q.ask \in Asked
                           /\ q.op \in {"invite", "patch", "reset", "change"}
                           /\ q.op # "invite" => q.row \in Users!Row /\ q.row.pw <= passwords
                           /\ q.op # "invite" => users[q.of] \in Users!Row
<1>1. PICK q \in Ticket : caller[c] = q /\ q.pc = "commit"
  BY DEF UsersInv, UsersOK
<1>2. CallFits(q)
  BY <1>1, Zenon DEF UsersInv, Callings
<1>3. q.of \in Users!Principal /\ q.ask \in Asked /\ q.op \in {"invite", "patch", "reset", "change"}
  BY <1>1, <1>2 DEF CallFits, Ticket
<1>4. q.op # "invite" => q.row \in Users!Row /\ q.row.pw <= passwords
  BY <1>1, <1>2 DEF CallFits, Ticket, AccountLoaded
<1>5. q.op # "invite" => users[q.of] \in Users!Row
  BY <1>1, <1>2, <1>3 DEF CallFits, UsersInv, UsersOK, Table
<1>. QED
  BY <1>1, <1>2, <1>3, <1>4, <1>5

\* The row of p becomes e, with the newest password if it has another one.
LEMMA WriteStep ==
  ASSUME UserApart, UsersInv, NEW c \in Caller, NEW p \in Users!Principal, NEW e \in Users!Row,
         setup = "ready", users' = [users EXCEPT ![p] = e],
         \/ UNCHANGED <<issued, passwords>> /\ users[p] # None /\ e.pw = users[p].pw
         \/ /\ passwords' = passwords + 1 /\ issued' = [issued EXCEPT ![p] = passwords + 1]
            /\ e.pw = passwords + 1,
         caller' = [caller EXCEPT ![c] = Users!Idle], UNCHANGED <<setup, feeder>>
  PROVE  UsersInv'
<1>1. users \in Table /\ issued \in [Users!Principal -> Nat] /\ passwords \in Nat
  BY DEF UsersInv, UsersOK
<1>2. users' \in Table /\ \A x \in Users!Principal : users'[x] = IF x = p THEN e ELSE users[x]
  BY <1>1 DEF Table
<1>3. passwords' \in Nat /\ passwords <= passwords'
  BY <1>1
<1>4. issued' \in [Users!Principal -> Nat]
  BY <1>1
<1>5. Openings'
  <2>. SUFFICES ASSUME NEW x \in Users!Principal PROVE Opening(x)'
    BY DEF Openings
  <2>1. Opening(x) /\ Opening(p)
    BY DEF UsersInv, Openings
  <2>2. CASE x # p
    <3>1. users'[x] = users[x] /\ issued'[x] = issued[x]
      BY <1>1, <1>2, <2>2
    <3>2. users[x] # None => users[x].pw \in Nat
      BY <1>1, RowFields DEF Table
    <3>. QED
      BY <1>1, <1>3, <2>1, <3>1, <3>2 DEF Opening
  <2>3. CASE x = p
    <3>1. users'[x] = e /\ e # None
      BY <1>2, <2>3 DEF UserApart
    <3>. QED
      BY <1>1, <2>1, <2>3, <3>1 DEF Opening
  <2>. QED
    BY <2>2, <2>3
<1>6. caller' \in [Caller -> Ticket]
  BY Idling DEF UsersInv, UsersOK
<1>7. \A d \in Caller : caller'[d] = caller[d] \/ \A q \in Ticket : caller'[d] = q => CallFits(q)'
  <2>. SUFFICES ASSUME NEW d \in Caller, caller'[d] # caller[d], NEW q \in Ticket, caller'[d] = q
                PROVE  CallFits(q)'
    OBVIOUS
  <2>1. q.pc = "idle"
    BY Idling DEF UsersInv, UsersOK
  <2>. QED
    BY <2>1 DEF CallFits
<1>8. feeder' \in [Feeder -> Feeding] /\ setup' \in {"none", "row", "ready", "stuck"}
  BY DEF UsersInv, UsersOK
<1>9. \A x \in Users!Principal : users[x] # None => users'[x] # None
  BY <1>2 DEF UserApart
<1>. QED
  BY <1>2, <1>3, <1>4, <1>5, <1>6, <1>7, <1>8, <1>9, UsersStep

\* Whatever edits no more than the handler changed leaves the rest as it is.
LEMMA CommitEditStep ==
  ASSUME UserApart, UsersInv, NEW c \in Caller, Users!CommitEdit(c)
  PROVE  UsersInv' /\ Users!DeactivationStands /\ Keeping
<1>1. caller[c].pc = "commit"
  BY DEF Users!CommitEdit
<1>2. PICK q \in Ticket : /\ caller[c] = q /\ q.pc = "commit" /\ CallFits(q)
                          /\ q.of \in Users!Principal /\ q.ask \in Asked
                          /\ q.op \in {"invite", "patch", "reset", "change"}
                          /\ q.op # "invite" => q.row \in Users!Row /\ q.row.pw <= passwords
                          /\ q.op # "invite" => users[q.of] \in Users!Row
  BY <1>1, CommitAt
<1>. DEFINE new == CASE q.op = "patch"  -> Users!Patched(q.row, q.ask)
                     [] q.op = "reset"  -> Users!Renewed(q.row, passwords + 1)
                     [] q.op = "change" -> Users!Changed(q.row, passwords + 1)
            e == Users!Emit(users[q.of], q.row, new)
<1>3. /\ q.op # "invite" /\ users' = [users EXCEPT ![q.of] = e]
      /\ IF q.op = "patch" THEN UNCHANGED <<issued, passwords>>
         ELSE passwords' = passwords + 1 /\ issued' = [issued EXCEPT ![q.of] = passwords + 1]
      /\ caller' = [caller EXCEPT ![c] = Users!Idle] /\ UNCHANGED <<setup, feeder>>
  <2>1. users' = [users EXCEPT ![q.of] = Users!Emit(users[q.of], q.row, new)] /\ q.op # "invite"
    BY <1>2, Zenon DEF Users!CommitEdit
  <2>2. /\ IF q.op = "patch" THEN UNCHANGED <<issued, passwords>>
           ELSE passwords' = passwords + 1 /\ issued' = [issued EXCEPT ![q.of] = passwords']
        /\ caller' = [caller EXCEPT ![c] = Users!Idle] /\ UNCHANGED <<setup, feeder>>
    BY <1>2, Zenon DEF Users!CommitEdit
  <2>. QED
    BY <2>1, <2>2
<1>4. /\ q.row \in Users!Row /\ q.row.pw <= passwords /\ users[q.of] \in Users!Row
      /\ q.row.pw \in Nat /\ passwords \in Nat /\ passwords + 1 \in Nat
      /\ q.row.active \in BOOLEAN /\ users[q.of].active \in BOOLEAN
      /\ users[q.of] # None
  BY <1>2, <1>3, RowFields DEF UsersInv, UsersOK, UserApart
<1>5. /\ new \in Users!Row /\ new.email = q.row.email
      /\ q.op = "patch" => /\ new.pw = q.row.pw
                           /\ new.active = IF q.ask.active # None THEN q.ask.active ELSE q.row.active
      /\ q.op # "patch" => new.pw = passwords + 1 /\ new.active = q.row.active
  <2>1. CASE q.op = "patch"
    <3>1. new = Users!Patched(q.row, q.ask)
      BY <2>1
    <3>. QED
      BY <1>2, <1>4, <2>1, <3>1, PatchedRow, Zenon
  <2>2. CASE q.op = "reset"
    <3>1. PICK d : d = [q.row EXCEPT !.pw = passwords + 1, !.must = TRUE]
      OBVIOUS
    <3>2. d \in Users!Row /\ d.email = q.row.email /\ d.pw = passwords + 1 /\ d.active = q.row.active
      BY <1>4, <3>1, NewPassword, Zenon
    <3>4. new = d
      BY <2>2, <3>1 DEF Users!Renewed
    <3>3. q.op # "patch"
      BY <2>2
    <3>. QED
      BY <3>2, <3>3, <3>4, Zenon
  <2>3. CASE q.op = "change"
    <3>1. PICK d : d = [q.row EXCEPT !.pw = passwords + 1, !.must = FALSE]
      OBVIOUS
    <3>2. d \in Users!Row /\ d.email = q.row.email /\ d.pw = passwords + 1 /\ d.active = q.row.active
      BY <1>4, <3>1, NewPassword, Zenon
    <3>4. new = d
      BY <2>3, <3>1 DEF Users!Changed
    <3>3. q.op # "patch"
      BY <2>3
    <3>. QED
      BY <3>2, <3>3, <3>4, Zenon
  <2>. QED
    BY <1>2, <1>3, <2>1, <2>2, <2>3
<1>. HIDE DEF new
<1>6. /\ e \in Users!Row
      /\ e.email = (IF new.email # q.row.email THEN new.email ELSE users[q.of].email)
      /\ e.pw = (IF new.pw # q.row.pw THEN new.pw ELSE users[q.of].pw)
      /\ e.active = (IF new.active # q.row.active THEN new.active ELSE users[q.of].active)
  BY <1>4, <1>5, Emitted, Zenon
<1>. HIDE DEF e
<1>7. e.email = users[q.of].email
  BY <1>5, <1>6, Zenon
<1>8. /\ q.op = "patch" => e.pw = users[q.of].pw
      /\ q.op # "patch" => e.pw = passwords + 1
  BY <1>4, <1>5, <1>6
<1>9. setup = "ready"
  BY <1>2, <1>4 DEF UsersInv, UsersOK
<1>10. UsersInv'
  BY <1>2, <1>3, <1>4, <1>6, <1>8, <1>9, WriteStep
<1>11. \A x \in Users!Principal : users'[x] = IF x = q.of THEN e ELSE users[x]
  BY <1>3 DEF UsersInv, UsersOK, Table
<1>12. Keeping
  BY <1>6, <1>7, <1>11 DEF Keeping, UserApart
<1>13. ASSUME NEW p \in Users!Principal, users[p] # None, ~users[p].active, users'[p].active
       PROVE  /\ caller[c].pc = "commit" /\ caller[c].of = p
              /\ caller[c].ask.active = TRUE /\ ~caller[c].row.active
  <2>1. p = q.of /\ e.active /\ ~users[q.of].active
    BY <1>11, <1>13, Zenon
  <2>2. new.active # q.row.active /\ e.active = new.active
    BY <1>6, <2>1, Zenon
  <2>3. q.op = "patch" /\ q.ask.active # None /\ new.active = q.ask.active
    BY <1>5, <2>2, Zenon
  <2>4. e.active \in BOOLEAN
    BY <1>6, RowFields
  <2>5. e.active = TRUE
    BY <2>1, <2>4, Zenon
  <2>6. q.ask.active = TRUE /\ q.row.active # TRUE
    BY <2>2, <2>3, <2>5, Zenon
  <2>7. ~q.row.active
    BY <1>4, <2>6, Zenon
  <2>. QED
    BY <1>2, <2>1, <2>6, <2>7, Zenon
<1>14. Users!DeactivationStands
  BY <1>13, Zenon DEF Users!DeactivationStands
<1>. QED
  BY <1>10, <1>12, <1>14

LEMMA CommitInviteStep ==
  ASSUME UserApart, UsersInv, NEW c \in Caller, Users!CommitInvite(c)
  PROVE  UsersInv' /\ Users!DeactivationStands /\ Keeping
<1>1. caller[c].pc = "commit" /\ caller[c].op = "invite"
  BY DEF Users!CommitInvite
<1>2. PICK q \in Ticket : /\ caller[c] = q /\ q.pc = "commit" /\ CallFits(q)
                          /\ q.of \in Users!Principal /\ q.ask \in Asked
  BY <1>1, CommitAt
<1>3. CASE Users!Taken(q.of) \/ users[q.of] # None
  <2>1. /\ caller' = [caller EXCEPT ![c] = Users!Idle]
        /\ UNCHANGED <<setup, users, issued, passwords, feeder>>
    BY <1>2, <1>3, Zenon DEF Users!CommitInvite
  <2>2. UsersInv'
    BY <2>1, TicketStep, Idling
  <2>. QED
    BY <2>1, <2>2, SameUsers
<1>4. CASE ~(Users!Taken(q.of) \/ users[q.of] # None)
  <2>1. PICK e : e = [email |-> q.of, pw |-> passwords + 1, must |-> TRUE, role |-> q.ask.role, active |-> TRUE]
    OBVIOUS
  <2>2. /\ passwords' = passwords + 1 /\ issued' = [issued EXCEPT ![q.of] = passwords + 1]
        /\ users' = [users EXCEPT ![q.of] = e] /\ users[q.of] = None
        /\ caller' = [caller EXCEPT ![c] = Users!Idle] /\ UNCHANGED <<setup, feeder>>
    BY <1>2, <1>4, <2>1 DEF Users!CommitInvite
  <2>3. q.ask.role \in {"admin", "member"} /\ passwords + 1 \in Nat
    <3>1. q.op = "invite"
      BY <1>1, <1>2
    <3>2. q.ask.role # None
      BY <1>2, <3>1 DEF CallFits
    <3>. QED
      BY <1>2, <3>2 DEF Asked, UsersInv, UsersOK
  <2>4. e \in Users!Row /\ e.pw = passwords + 1
    BY <1>2, <2>1, <2>3 DEF Users!Row
  <2>5. setup = "ready"
    <3>1. users[q.actor] # None /\ q.actor \in Users!Principal
      BY <1>2 DEF CallFits, Ticket
    <3>. QED
      BY <3>1 DEF UsersInv, UsersOK
  <2>6. UsersInv'
    BY <1>2, <2>2, <2>4, <2>5, WriteStep
  <2>. QED
    BY <1>2, <2>2, <2>4, <2>6, RowStep
<1>. QED
  BY <1>3, <1>4

LEMMA RestFeed == Users!Rest \in Feeding /\ Users!Rest.pc = "idle" /\ FeedFits(Users!Rest)
BY DEF Users!Rest, Feeding, FeedFits

LEMMA FeedingAt ==
  ASSUME UsersInv, NEW f \in Feeder
  PROVE  \E r \in Feeding : feeder[f] = r /\ FeedFits(r)
<1>1. PICK r \in Feeding : feeder[f] = r
  BY DEF UsersInv, UsersOK
<1>2. FeedFits(r)
  BY <1>1, Zenon DEF UsersInv, Feedings
<1>. QED
  BY <1>1, <1>2

\* The run f goes on as n.
LEMMA OneFeederStep ==
  ASSUME UserApart, UsersInv, NEW f \in Feeder, NEW n \in Feeding,
         feeder' = [feeder EXCEPT ![f] = n], FeedFits(n),
         UNCHANGED <<setup, users, issued, passwords, caller>>
  PROVE  UsersInv'
<1>1. feeder' \in [Feeder -> Feeding] /\ \A g \in Feeder : feeder'[g] = IF g = f THEN n ELSE feeder[g]
  BY DEF UsersInv, UsersOK
<1>2. \A g \in Feeder : feeder'[g] = feeder[g] \/ \A r \in Feeding : feeder'[g] = r => FeedFits(r)
  BY <1>1, Zenon
<1>. QED
  BY <1>1, <1>2, FeedersStep

LEMMA FetchFeedStep ==
  ASSUME UserApart, UsersInv, NEW f \in Feeder, Users!Fetch(f) PROVE UsersInv'
<1>1. PICK feed_ \in Users!Feed :
        feeder' = [g \in Feeder |->
            IF g = f THEN [Users!Rest EXCEPT !.pc = "users", !.feed = feed_,
                                             !.crossed = {h \in Feeder : feeder[h].pc # "idle"} # {}]
            ELSE [feeder[g] EXCEPT !.crossed = @ \/ g \in {h \in Feeder : feeder[h].pc # "idle"}]]
  BY Zenon DEF Users!Fetch
<1>2. setup = "ready" /\ UNCHANGED <<setup, users, issued, passwords, caller>>
  BY DEF Users!Fetch
<1>3. ASSUME NEW g \in Feeder
      PROVE  feeder'[g] \in Feeding /\ \A r \in Feeding : feeder'[g] = r => FeedFits(r)
  <2>1. CASE g = f
    <3>1. PICK b \in BOOLEAN : b = ({h \in Feeder : feeder[h].pc # "idle"} # {})
      BY Zenon
    <3>2. PICK n : n = [Users!Rest EXCEPT !.pc = "users", !.feed = feed_, !.crossed = b]
      OBVIOUS
    <3>3. n \in Feeding /\ n.pc = "users" /\ n.feed = feed_
      BY <3>2, RestFeed DEF Feeding
    <3>4. feeder'[g] = n
      BY <1>1, <2>1, <3>1, <3>2, Zenon
    <3>. QED
      BY <1>2, <3>3, <3>4 DEF FeedFits
  <2>2. CASE g # f
    <3>1. PICK s \in Feeding : feeder[g] = s /\ FeedFits(s)
      BY FeedingAt
    <3>2. PICK b \in BOOLEAN : b = (s.crossed \/ g \in {h \in Feeder : feeder[h].pc # "idle"})
      BY Zenon
    <3>3. PICK n : n = [s EXCEPT !.crossed = b]
      OBVIOUS
    <3>4. n \in Feeding /\ n.pc = s.pc /\ n.feed = s.feed /\ n.rows = s.rows
      BY <3>3 DEF Feeding
    <3>5. feeder'[g] = n
      BY <1>1, <2>2, <3>1, <3>2, <3>3, Zenon
    <3>6. FeedFits(n)
      BY <3>1, <3>4 DEF FeedFits
    <3>. QED
      BY <3>4, <3>5, <3>6, Zenon
  <2>. QED
    BY <2>1, <2>2
<1>4. feeder' = [g \in Feeder |-> feeder'[g]]
  BY <1>1, Zenon
<1>5. feeder' \in [Feeder -> Feeding]
  BY <1>3, <1>4
<1>. QED
  BY <1>2, <1>3, <1>5, FeedersStep

\* What a run makes of the table, when nothing occurs twice.
SyncedFits(r, table) ==
    /\ table \in Table
    /\ \A p \in Users!Principal : users[p] # None =>
         table[p] # None /\ table[p].pw = users[p].pw /\ table[p].active = users[p].active
    /\ \A p \in Users!Principal : users[p] = None /\ table[p] # None => table[p].pw = 0
    /\ \A p \in Users!Fed(r) :
         /\ table[p] # None /\ p \in Users!Principal
         /\ r.rows[p] # None /\ users[p].email = r.rows[p].email => table[p].email = r.feed.email[p]
         /\ r.rows[p] = None => table[p].email = r.feed.email[p]

LEMMA SyncedTable ==
  ASSUME UserApart, UsersInv, NEW r \in Feeding, FeedFits(r), r.pc = "put users",
         NEW table, table = Users!Synced(r), ~Users!Clash(r, table)
  PROVE  SyncedFits(r, table)
<1>1. /\ r.rows \in Table /\ \A p \in Users!Principal : r.rows[p] # None => users[p] # None
      /\ r.feed \in Users!Feed /\ users \in Table
  BY DEF FeedFits, UsersInv, UsersOK
<1>2. \A p \in Users!Fed(r) : p \in Subject /\ p \in Users!Principal /\ r.feed.email[p] \in Users!Principal
  BY <1>1 DEF Users!Fed, Users!Feed, Users!Principal
<1>3. \A p \in Users!Fed(r) : r.rows[p] = None => users[p] = None
  BY Zenon DEF Users!Clash
<1>4. /\ table = [p \in Users!Principal |-> table[p]]
      /\ \A p \in Users!Principal : table[p] =
           IF p \notin Subject \/ p \notin Users!Fed(r) THEN users[p]
           ELSE IF r.rows[p] # None
           THEN Users!Emit(users[p], r.rows[p], [r.rows[p] EXCEPT !.email = r.feed.email[p]])
           ELSE [email |-> r.feed.email[p], pw |-> 0, must |-> FALSE, role |-> "member", active |-> TRUE]
  BY Zenon DEF Users!Synced
<1>5. ASSUME NEW p \in Users!Fed(r), r.rows[p] # None
      PROVE  /\ table[p] \in Users!Row /\ table[p].pw = users[p].pw /\ table[p].active = users[p].active
             /\ users[p].email = r.rows[p].email => table[p].email = r.feed.email[p]
  <2>1. /\ users[p] \in Users!Row /\ r.rows[p] \in Users!Row /\ p \in Users!Principal /\ p \in Subject
        /\ r.feed.email[p] \in Users!Principal
    BY <1>1, <1>2, <1>5 DEF Table
  <2>2. PICK cur \in Users!Row : cur = users[p]
    BY <2>1
  <2>3. PICK old \in Users!Row : old = r.rows[p]
    BY <2>1
  <2>4. PICK new \in Users!Row : new = [old EXCEPT !.email = r.feed.email[p]]
    BY <2>1 DEF Users!Row
  <2>5. new.email = r.feed.email[p] /\ new.pw = old.pw /\ new.active = old.active
    BY <2>4 DEF Users!Row
  <2>6. table[p] = Users!Emit(cur, old, new)
    BY <1>4, <1>5, <2>1, <2>2, <2>3, <2>4, Zenon
  <2>7. PICK e : e = Users!Emit(cur, old, new)
    OBVIOUS
  <2>8. /\ e \in Users!Row
        /\ e.email = (IF new.email # old.email THEN new.email ELSE cur.email)
        /\ e.pw = (IF new.pw # old.pw THEN new.pw ELSE cur.pw)
        /\ e.active = (IF new.active # old.active THEN new.active ELSE cur.active)
    BY <2>7, Emitted, Zenon
  <2>. QED
    BY <2>2, <2>3, <2>5, <2>6, <2>7, <2>8, Zenon
<1>6. ASSUME NEW p \in Users!Fed(r), r.rows[p] = None
      PROVE  table[p] \in Users!Row /\ table[p].pw = 0 /\ table[p].email = r.feed.email[p]
  <2>1. PICK m : m = r.feed.email[p]
    OBVIOUS
  <2>2. PICK e : e = [email |-> m, pw |-> 0, must |-> FALSE, role |-> "member", active |-> TRUE]
    OBVIOUS
  <2>3. table[p] = e
    BY <1>2, <1>4, <1>6, <2>1, <2>2, Zenon
  <2>4. m \in Users!Principal
    BY <1>2, <2>1, Zenon
  <2>5. e \in Users!Row /\ e.pw = 0 /\ e.email = m
    BY <2>2, <2>4 DEF Users!Row
  <2>. QED
    BY <2>1, <2>3, <2>5, Zenon
<1>7. ASSUME NEW p \in Users!Principal, p \notin Users!Fed(r) PROVE table[p] = users[p]
  BY <1>4, <1>7, Zenon
<1>8. \A p \in Users!Principal : table[p] \in Users!Row \cup {None}
  BY <1>1, <1>5, <1>6, <1>7 DEF Table
<1>9. table \in Table
  BY <1>4, <1>8 DEF Table
<1>10. \A p \in Users!Principal : users[p] # None =>
         table[p] # None /\ table[p].pw = users[p].pw /\ table[p].active = users[p].active
  BY <1>3, <1>5, <1>7, Zenon DEF UserApart
<1>11. \A p \in Users!Principal : users[p] = None /\ table[p] # None => table[p].pw = 0
  BY <1>1, <1>6, <1>7, Zenon
<1>12. \A p \in Users!Fed(r) : table[p] # None
  BY <1>5, <1>6, Zenon DEF UserApart
<1>. QED
  BY <1>2, <1>5, <1>6, <1>9, <1>10, <1>11, <1>12, Zenon DEF SyncedFits

LEMMA SyncUsersStep ==
  ASSUME UserApart, UsersInv, NEW f \in Feeder, Users!SyncUsers(f)
  PROVE  UsersInv' /\ Users!DeactivationStands
<1>1. PICK r \in Feeding : feeder[f] = r /\ FeedFits(r)
  BY FeedingAt
<1>2. PICK table : table = Users!Synced(r)
  OBVIOUS
<1>3. r.pc = "put users" /\ UNCHANGED <<setup, caller, issued, passwords>>
  BY <1>1, Zenon DEF Users!SyncUsers
<1>4. CASE Users!Clash(r, table)
  <2>1. feeder' = [feeder EXCEPT ![f] = Users!Rest] /\ users' = users
    BY <1>1, <1>2, <1>4, Zenon DEF Users!SyncUsers, Users!Edit
  <2>2. UsersInv'
    BY <1>3, <2>1, RestFeed, OneFeederStep
  <2>. QED
    BY <2>1, <2>2, SameUsers
<1>5. CASE ~Users!Clash(r, table)
  <2>1. PICK n : n = [r EXCEPT !.pc = "groups", !.rows = None]
    OBVIOUS
  <2>2. feeder' = [feeder EXCEPT ![f] = n] /\ users' = table
    BY <1>1, <1>2, <1>5, <2>1, Zenon DEF Users!SyncUsers, Users!Edit
  <2>3. n \in Feeding /\ n.pc = "groups" /\ n.feed = r.feed
    BY <2>1 DEF Feeding
  <2>4. SyncedFits(r, table)
    BY <1>1, <1>2, <1>3, <1>5, SyncedTable, Zenon
  <2>5. Openings'
    <3>. SUFFICES ASSUME NEW p \in Users!Principal PROVE Opening(p)'
      BY DEF Openings
    <3>1. Opening(p) /\ passwords \in Nat /\ issued' = issued /\ passwords' = passwords
      BY <1>3 DEF UsersInv, Openings, UsersOK
    <3>2. CASE users[p] # None
      BY <2>2, <2>4, <3>1, <3>2 DEF Opening, SyncedFits
    <3>3. CASE users[p] = None
      BY <2>2, <2>4, <3>1, <3>3 DEF Opening, SyncedFits
    <3>. QED
      BY <3>2, <3>3
  <2>6. FeedFits(n)'
    BY <1>1, <1>3, <2>3 DEF FeedFits
  <2>7. feeder' \in [Feeder -> Feeding] /\ \A g \in Feeder : feeder'[g] = IF g = f THEN n ELSE feeder[g]
    BY <2>2, <2>3 DEF UsersInv, UsersOK
  <2>8. \A g \in Feeder : feeder'[g] = feeder[g] \/ \A s \in Feeding : feeder'[g] = s => FeedFits(s)'
    <3>. SUFFICES ASSUME NEW g \in Feeder, feeder'[g] # feeder[g], NEW s \in Feeding, feeder'[g] = s
                  PROVE  FeedFits(s)'
      OBVIOUS
    <3>1. s = n
      BY <2>7
    <3>. QED
      BY <2>6, <3>1, Zenon DEF FeedFits
  <2>9. setup = "ready" /\ setup' = "ready"
    BY <1>1, <1>3 DEF FeedFits
  <2>10. /\ users' \in Table /\ issued' \in [Users!Principal -> Nat] /\ passwords' \in Nat
         /\ passwords <= passwords' /\ caller' \in [Caller -> Ticket]
    <3>1. issued \in [Users!Principal -> Nat] /\ passwords \in Nat /\ caller \in [Caller -> Ticket]
      BY DEF UsersInv, UsersOK
    <3>2. table \in Table
      BY <2>4 DEF SyncedFits
    <3>3. users' \in Table
      BY <2>2, <3>2, Zenon
    <3>4. issued' = issued /\ passwords' = passwords /\ caller' = caller
      BY <1>3
    <3>5. passwords' \in Nat /\ passwords <= passwords'
      BY <3>1, <3>4
    <3>6. issued' \in [Users!Principal -> Nat] /\ caller' \in [Caller -> Ticket]
      BY <3>1, <3>4, Zenon
    <3>. QED
      BY <3>3, <3>5, <3>6
  <2>11. \A p \in Users!Principal : users[p] # None => users'[p] # None
    BY <2>2, <2>4 DEF SyncedFits
  <2>12. \A c \in Caller : caller'[c] = caller[c]
    BY <1>3
  <2>13. UsersInv'
    BY <2>5, <2>7, <2>8, <2>9, <2>10, <2>11, <2>12, UsersStep
  <2>14. \A p \in Users!Principal : users[p] # None => users'[p].active = users[p].active
    BY <2>2, <2>4 DEF SyncedFits
  <2>. QED
    BY <2>13, <2>14, Zenon DEF Users!DeactivationStands
<1>. QED
  BY <1>4, <1>5

\* A run that is about to edit the group's row has found one.
Grouped == /\ groups \in Seq(SUBSET Subject)
           /\ \A f \in Feeder, r \in Feeding : feeder[f] = r => (r.pc = "put group" => groups # <<>>)

LEMMA FirstOf == ASSUME NEW S, NEW s \in Seq(S), s # <<>> PROVE s[1] \in S /\ Len(s) >= 1
OBVIOUS

LEMMA GroupRow == ASSUME Grouped, groups # <<>> PROVE groups[1] \in SUBSET Subject /\ Len(groups) >= 1
BY FirstOf, Zenon DEF Grouped

\* What a run does to itself.
LEMMA FeederStep ==
  ASSUME UserApart, UsersInv, Grouped, NEW f \in Feeder,
         Users!LoadUsers(f) \/ Users!LoadGroup(f) \/ Users!SyncGroup(f) \/ Users!Finish(f) \/ Users!Die(f)
  PROVE  UsersInv' /\ users' = users
<1>1. PICK r \in Feeding : feeder[f] = r /\ FeedFits(r)
  BY FeedingAt
<1>2. UNCHANGED <<setup, users, issued, passwords, caller>>
  BY DEF Users!LoadUsers, Users!LoadGroup, Users!SyncGroup, Users!Finish, Users!Die
<1>3. CASE Users!LoadUsers(f)
  <2>1. PICK n : n = [r EXCEPT !.pc = "put users", !.rows = users]
    OBVIOUS
  <2>2. r.pc = "users" /\ feeder' = [feeder EXCEPT ![f] = n]
    BY <1>1, <1>3, <2>1, Zenon DEF Users!LoadUsers, Users!Edit
  <2>3. users \in Table
    BY DEF UsersInv, UsersOK
  <2>4. n \in Feeding /\ n.pc = "put users" /\ n.feed = r.feed /\ n.rows = users
    BY <2>1, <2>3 DEF Feeding
  <2>5. FeedFits(n)
    BY <1>1, <2>2, <2>3, <2>4 DEF FeedFits
  <2>. QED
    BY <1>2, <2>2, <2>4, <2>5, OneFeederStep
<1>4. CASE Users!LoadGroup(f) \/ Users!SyncGroup(f) \/ Users!Finish(f) \/ Users!Die(f)
  <2>1. \E n \in Feeding : feeder' = [feeder EXCEPT ![f] = n] /\ FeedFits(n)
    <3>1. CASE feeder' = [feeder EXCEPT ![f] = Users!Rest]
      BY <3>1, RestFeed
    <3>2. ASSUME NEW n, r.pc # "idle", feeder' = [feeder EXCEPT ![f] = n], n \in Feeding, n.feed = r.feed,
                 n.pc # "put users"
          PROVE  n \in Feeding /\ FeedFits(n)
      BY <1>1, <3>2 DEF FeedFits
    <3>3. CASE Users!LoadGroup(f)
      <4>. DEFINE a == [r EXCEPT !.pc = "new group"]
                  b == [r EXCEPT !.pc = "put group", !.members = groups[1]]
      <4>1. PICK x : x = CASE Len(groups) = 0 -> a [] Len(groups) = 1 -> b [] OTHER -> Users!Rest
        OBVIOUS
      <4>2. r.pc = "groups" /\ feeder' = [feeder EXCEPT ![f] = x]
        BY <1>1, <3>3, <4>1, Zenon DEF Users!LoadGroup, Users!Edit
      <4>3. \/ x = a
            \/ x = b /\ Len(groups) = 1
            \/ x = Users!Rest
        <5>. HIDE DEF a, b
        <5>. QED
          BY <4>1
      <4>4. CASE x = a
        <5>1. a \in Feeding /\ a.feed = r.feed /\ a.pc = "new group"
          BY DEF Feeding
        <5>. QED
          BY <3>2, <4>2, <4>4, <5>1
      <4>5. CASE x = b /\ Len(groups) = 1
        <5>1. groups # <<>>
          BY <4>5
        <5>2. PICK m \in SUBSET Subject : m = groups[1]
          BY <5>1, GroupRow
        <5>3. b = [r EXCEPT !.pc = "put group", !.members = m]
          BY <5>2
        <5>4. b \in Feeding /\ b.feed = r.feed /\ b.pc = "put group"
          BY <5>3 DEF Feeding
        <5>. QED
          BY <3>2, <4>2, <4>5, <5>4
      <4>6. CASE x = Users!Rest
        BY <3>1, <4>2, <4>6
      <4>. QED
        BY <4>3, <4>4, <4>5, <4>6
    <3>4. CASE Users!SyncGroup(f)
      <4>1. PICK n : n = [r EXCEPT !.pc = "done", !.members = None]
        OBVIOUS
      <4>2. r.pc \in {"new group", "put group"}
            /\ \/ feeder' = [feeder EXCEPT ![f] = n]
               \/ feeder' = [feeder EXCEPT ![f] = Users!Rest]
        BY <1>1, <3>4, <4>1, Zenon DEF Users!SyncGroup, Users!Edit
      <4>3. n \in Feeding /\ n.feed = r.feed /\ n.pc = "done"
        BY <4>1 DEF Feeding
      <4>. QED
        BY <3>1, <3>2, <4>2, <4>3
    <3>5. CASE Users!Finish(f) \/ Users!Die(f)
      BY <3>1, <3>5, Zenon DEF Users!Finish, Users!Die, Users!Edit
    <3>. QED
      BY <1>4, <3>3, <3>4, <3>5
  <2>. QED
    BY <1>2, <2>1, OneFeederStep
<1>. QED
  BY <1>2, <1>3, <1>4

\* What requests do.
LEMMA CallerStep ==
  ASSUME UserApart, UsersInv, NEW c \in Caller,
         \/ Users!Invite(c) \/ Users!Patch(c) \/ Users!Deactivate(c) \/ Users!Reset(c) \/ Users!Change(c)
         \/ Users!Load(c) \/ Users!CommitEdit(c) \/ Users!CommitInvite(c) \/ Users!Abort(c)
  PROVE  UsersInv' /\ Users!DeactivationStands /\ Keeping
<1>1. ASSUME NEW r \in {"admin", "member", None}, NEW on \in BOOLEAN \cup {None}
      PROVE  Users!Ask(r, on) \in Asked /\ Users!Ask(r, on).role = r
  BY DEF Users!Ask, Asked, UserApart
<1>2. ASSUME NEW op \in {"invite", "patch", "reset", "change"},
             NEW actor \in Users!Principal, NEW p \in Users!Principal,
             NEW r \in {"admin", "member", None}, NEW on \in BOOLEAN \cup {None},
             Users!Open(c, op, actor, p, Users!Ask(r, on)), op = "change" => p = actor,
             op = "invite" => r # None
      PROVE  UsersInv' /\ users' = users
  <2>1. users' = users
    BY <1>2, Zenon DEF Users!Open
  <2>2. Users!Ask(r, on) \in Asked /\ (op = "invite" => Users!Ask(r, on).role # None)
    BY <1>1, <1>2, Zenon
  <2>. QED
    BY <1>2, <2>1, <2>2, OpenStep
<1>3. CASE Users!Invite(c)
  <2>1. PICK a \in Users!Principal, p \in Native, r \in {"admin", "member"} :
          Users!Open(c, "invite", a, p, Users!Ask(r, None))
    BY <1>3, Zenon DEF Users!Invite
  <2>2. p \in Users!Principal /\ r # None
    BY DEF Users!Principal, UserApart
  <2>3. UsersInv' /\ users' = users
    BY <1>2, <2>1, <2>2
  <2>. QED
    BY <2>3, SameUsers
<1>4. CASE Users!Patch(c)
  <2>1. PICK a \in Users!Principal, p \in Users!Principal, r \in {"admin", "member", None}, on \in BOOLEAN \cup {None} :
          Users!Open(c, "patch", a, p, Users!Ask(r, on))
    BY <1>4, Zenon DEF Users!Patch
  <2>2. UsersInv' /\ users' = users
    BY <1>2, <2>1
  <2>. QED
    BY <2>2, SameUsers
<1>5. CASE Users!Deactivate(c)
  <2>1. PICK a \in Users!Principal, p \in Users!Principal : Users!Open(c, "patch", a, p, Users!Ask(None, FALSE))
    BY <1>5, Zenon DEF Users!Deactivate
  <2>2. UsersInv' /\ users' = users
    BY <1>2, <2>1
  <2>. QED
    BY <2>2, SameUsers
<1>6. CASE Users!Reset(c)
  <2>1. PICK a \in Users!Principal, p \in Users!Principal : Users!Open(c, "reset", a, p, Users!Ask(None, None))
    BY <1>6, Zenon DEF Users!Reset
  <2>2. UsersInv' /\ users' = users
    BY <1>2, <2>1
  <2>. QED
    BY <2>2, SameUsers
<1>7. CASE Users!Change(c)
  <2>1. PICK p \in Users!Principal : Users!Open(c, "change", p, p, Users!Ask(None, None))
    BY <1>7, Zenon DEF Users!Change
  <2>2. UsersInv' /\ users' = users
    BY <1>2, <2>1
  <2>. QED
    BY <2>2, SameUsers
<1>8. CASE Users!Load(c)
  <2>1. users' = users
    BY <1>8, Zenon DEF Users!Load
  <2>. QED
    BY <1>8, <2>1, LoadRowStep, SameUsers
<1>9. CASE Users!Abort(c)
  <2>1. caller' = [caller EXCEPT ![c] = Users!Idle] /\ UNCHANGED <<setup, users, issued, passwords, feeder>>
    BY <1>9, Zenon DEF Users!Abort
  <2>2. UsersInv'
    BY <2>1, TicketStep, Idling
  <2>. QED
    BY <2>1, <2>2, SameUsers
<1>10. CASE Users!CommitEdit(c)
  BY <1>10, CommitEditStep
<1>11. CASE Users!CommitInvite(c)
  BY <1>11, CommitInviteStep
<1>. QED
  BY <1>3, <1>4, <1>5, <1>6, <1>7, <1>8, <1>9, <1>10, <1>11

LEMMA RowsGrown ==
  ASSUME NEW S, NEW s \in Seq(S), NEW t \in S
  PROVE  /\ Append(s, t) \in Seq(S) /\ Append(s, t) # <<>>
         /\ s # <<>> => \A x : x = [s EXCEPT ![1] = t] => x \in Seq(S) /\ x # <<>>
<1>1. Append(s, t) \in Seq(S) /\ Append(s, t) # <<>>
  OBVIOUS
<1>2. ASSUME s # <<>> PROVE [s EXCEPT ![1] = t] \in Seq(S) /\ [s EXCEPT ![1] = t] # <<>>
  BY <1>2
<1>. QED
  BY <1>1, <1>2

LEMMA GroupsSame ==
  ASSUME UsersInv, UsersInv', Grouped, groups' = groups,
         \A f \in Feeder : feeder'[f].pc # "put group" \/ feeder'[f].pc = feeder[f].pc \/ groups # <<>>
  PROVE  Grouped'
<1>1. groups' \in Seq(SUBSET Subject)
  BY DEF Grouped
<1>2. ASSUME NEW f \in Feeder, NEW n \in Feeding, feeder'[f] = n, n.pc = "put group" PROVE groups' # <<>>
  <2>1. PICK r \in Feeding : feeder[f] = r
    BY DEF UsersInv, UsersOK
  <2>2. CASE groups = <<>>
    <3>1. r.pc = "put group"
      BY <1>2, <2>1, <2>2, Zenon
    <3>. QED
      BY <2>1, <3>1, Zenon DEF Grouped
  <2>. QED
    BY <2>2
<1>. QED
  BY <1>1, <1>2, Zenon DEF Grouped

LEMMA GroupsStep ==
  ASSUME UserApart, UsersInv, UsersInv', Grouped, Users!Next PROVE Grouped'
<1>1. CASE \/ Users!BootstrapTenant \/ Users!BootstrapAdmin \/ Users!BootstrapFails
           \/ \E c \in Caller : \/ Users!Invite(c) \/ Users!Patch(c) \/ Users!Deactivate(c) \/ Users!Reset(c)
                                \/ Users!Change(c) \/ Users!Load(c) \/ Users!CommitEdit(c)
                                \/ Users!CommitInvite(c) \/ Users!Abort(c)
  <2>1. groups' = groups /\ feeder' = feeder
    BY <1>1, Zenon DEF Users!BootstrapTenant, Users!BootstrapAdmin, Users!BootstrapFails, Users!Invite, Users!Patch,
         Users!Deactivate, Users!Reset, Users!Change, Users!Load, Users!CommitEdit, Users!CommitInvite, Users!Abort,
         Users!Open
  <2>. QED
    BY <2>1, GroupsSame
<1>2. ASSUME NEW f \in Feeder, NEW n, feeder' = [feeder EXCEPT ![f] = n], groups' = groups,
             n.pc # "put group" \/ groups # <<>>
      PROVE  Grouped'
  <2>1. \A g \in Feeder : feeder'[g] = IF g = f THEN n ELSE feeder[g]
    BY <1>2 DEF UsersInv, UsersOK
  <2>2. \A g \in Feeder : feeder'[g].pc # "put group" \/ feeder'[g].pc = feeder[g].pc \/ groups # <<>>
    BY <1>2, <2>1, Zenon
  <2>. QED
    BY <1>2, <2>2, GroupsSame
<1>3. ASSUME NEW f \in Feeder,
             Users!Fetch(f) \/ Users!LoadUsers(f) \/ Users!SyncUsers(f) \/ Users!LoadGroup(f)
             \/ Users!SyncGroup(f) \/ Users!Finish(f) \/ Users!Die(f)
      PROVE  Grouped'
  <2>1. PICK r \in Feeding : feeder[f] = r /\ FeedFits(r)
    BY FeedingAt
  <2>2. CASE groups' = groups /\ feeder' = [feeder EXCEPT ![f] = Users!Rest]
    BY <1>2, <2>2, RestFeed
  <2>3. CASE Users!Fetch(f)
    <3>1. groups' = groups
      BY <2>3, Zenon DEF Users!Fetch
    <3>2. ASSUME NEW g \in Feeder PROVE feeder'[g].pc # "put group" \/ feeder'[g].pc = feeder[g].pc
      <4>1. PICK feed_ \in Users!Feed :
              feeder' = [h \in Feeder |->
                IF h = f THEN [Users!Rest EXCEPT !.pc = "users", !.feed = feed_,
                                                 !.crossed = {x \in Feeder : feeder[x].pc # "idle"} # {}]
                ELSE [feeder[h] EXCEPT !.crossed = @ \/ h \in {x \in Feeder : feeder[x].pc # "idle"}]]
        BY <2>3, Zenon DEF Users!Fetch
      <4>2. CASE g = f
        <5>1. PICK b : b = ({x \in Feeder : feeder[x].pc # "idle"} # {})
          OBVIOUS
        <5>2. feeder'[g] = [Users!Rest EXCEPT !.pc = "users", !.feed = feed_, !.crossed = b]
          BY <4>1, <4>2, <5>1, Zenon
        <5>. QED
          BY <5>2 DEF Users!Rest
      <4>3. CASE g # f
        <5>1. PICK s \in Feeding : feeder[g] = s
          BY DEF UsersInv, UsersOK
        <5>2. PICK b : b = (s.crossed \/ g \in {x \in Feeder : feeder[x].pc # "idle"})
          OBVIOUS
        <5>3. feeder'[g] = [s EXCEPT !.crossed = b]
          BY <4>1, <4>3, <5>1, <5>2, Zenon
        <5>4. feeder'[g].pc = s.pc
          BY <5>3 DEF Feeding
        <5>. QED
          BY <5>1, <5>4
      <4>. QED
        BY <4>2, <4>3
    <3>. QED
      BY <3>1, <3>2, GroupsSame
  <2>4. CASE Users!LoadUsers(f)
    <3>1. PICK n : n = [r EXCEPT !.pc = "put users", !.rows = users]
      OBVIOUS
    <3>2. groups' = groups /\ feeder' = [feeder EXCEPT ![f] = n]
      BY <2>1, <2>4, <3>1, Zenon DEF Users!LoadUsers, Users!Edit
    <3>3. n.pc = "put users"
      BY <3>1 DEF Feeding
    <3>. QED
      BY <1>2, <3>2, <3>3
  <2>5. CASE Users!SyncUsers(f)
    <3>1. PICK n : n = [r EXCEPT !.pc = "groups", !.rows = None]
      OBVIOUS
    <3>2. groups' = groups /\ (feeder' = [feeder EXCEPT ![f] = n] \/ feeder' = [feeder EXCEPT ![f] = Users!Rest])
      BY <2>1, <2>5, <3>1, Zenon DEF Users!SyncUsers, Users!Edit
    <3>3. n.pc = "groups"
      BY <3>1 DEF Feeding
    <3>. QED
      BY <1>2, <2>2, <3>2, <3>3
  <2>6. CASE Users!LoadGroup(f)
    <3>. DEFINE a == [r EXCEPT !.pc = "new group"]
                b == [r EXCEPT !.pc = "put group", !.members = groups[1]]
    <3>1. PICK x : x = CASE Len(groups) = 0 -> a [] Len(groups) = 1 -> b [] OTHER -> Users!Rest
      OBVIOUS
    <3>2. groups' = groups /\ feeder' = [feeder EXCEPT ![f] = x]
      BY <2>1, <2>6, <3>1, Zenon DEF Users!LoadGroup, Users!Edit
    <3>3. x = a \/ x = Users!Rest \/ Len(groups) = 1
      <4>. HIDE DEF a, b
      <4>. QED
        BY <3>1
    <3>4. a.pc = "new group"
      BY DEF Feeding
    <3>5. Len(groups) = 1 => groups # <<>>
      OBVIOUS
    <3>. QED
      BY <1>2, <2>2, <3>2, <3>3, <3>4, <3>5
  <2>7. CASE Users!SyncGroup(f)
    <3>1. PICK n : n = [r EXCEPT !.pc = "done", !.members = None]
      OBVIOUS
    <3>. DEFINE now == IF r.pc = "new group" THEN {} ELSE groups[1]
                then == (now \ Users!Removed(r)) \cup Users!Added(r)
    <3>2. /\ r.pc \in {"new group", "put group"}
          /\ \/ groups' = groups /\ feeder' = [feeder EXCEPT ![f] = Users!Rest]
             \/ /\ groups' = IF r.pc = "new group" THEN Append(groups, then) ELSE [groups EXCEPT ![1] = then]
                /\ feeder' = [feeder EXCEPT ![f] = n]
      BY <2>1, <2>7, <3>1, Zenon DEF Users!SyncGroup, Users!Edit
    <3>3. CASE /\ groups' = IF r.pc = "new group" THEN Append(groups, then) ELSE [groups EXCEPT ![1] = then]
               /\ feeder' = [feeder EXCEPT ![f] = n]
      <4>1. r.pc # "new group" => groups # <<>>
        BY <2>1, <3>2, Zenon DEF Grouped
      <4>2. now \subseteq Subject
        BY <4>1, GroupRow
      <4>3. then \in SUBSET Subject
        <5>1. r.feed \in Users!Feed
          BY <2>1, <3>2 DEF FeedFits
        <5>2. r.feed.members \subseteq Subject
          BY <5>1 DEF Users!Feed
        <5>3. Users!Added(r) \subseteq Subject
          BY <5>2, Zenon DEF Users!Added
        <5>. QED
          BY <4>2, <5>3
      <4>4. PICK t \in SUBSET Subject : t = then
        BY <4>3
      <4>5. groups' = IF r.pc = "new group" THEN Append(groups, t) ELSE [groups EXCEPT ![1] = t]
        BY <3>3, <4>4, Zenon
      <4>6. groups' \in Seq(SUBSET Subject) /\ groups' # <<>>
        <5>1. groups \in Seq(SUBSET Subject)
          BY DEF Grouped
        <5>2. CASE r.pc = "new group"
          <6>1. groups' = Append(groups, t)
            BY <4>5, <5>2, Zenon
          <6>2. Append(groups, t) \in Seq(SUBSET Subject) /\ Append(groups, t) # <<>>
            BY <5>1, RowsGrown, Zenon
          <6>. QED
            BY <6>1, <6>2, Zenon
        <5>3. CASE r.pc # "new group"
          <6>1. groups' = [groups EXCEPT ![1] = t]
            BY <4>5, <5>3, Zenon
          <6>. QED
            BY <4>1, <5>1, <5>3, <6>1, RowsGrown, Zenon
        <5>. QED
          BY <5>2, <5>3
      <4>. QED
        BY <4>6, Zenon DEF Grouped
    <3>. QED
      BY <2>2, <3>2, <3>3
  <2>8. CASE Users!Finish(f) \/ Users!Die(f)
    BY <2>2, <2>8, Zenon DEF Users!Finish, Users!Die, Users!Edit
  <2>. QED
    BY <1>3, <2>3, <2>4, <2>5, <2>6, <2>7, <2>8
<1>. QED
  BY <1>1, <1>3, Zenon DEF Users!Next

TenantInv == UsersInv /\ Grouped

LEMMA UserAssumed == UserApart
BY DirectoryAssumption, Zenon DEF UserApart, Asked, Users!Row, Users!Principal

LEMMA TenantInit == ASSUME Users!Init PROVE TenantInv
<1>1. groups = <<>> /\ feeder = [f \in Feeder |-> Users!Rest]
  BY Zenon DEF Users!Init
<1>2. Grouped
  <2>1. <<>> \in Seq(SUBSET Subject)
    OBVIOUS
  <2>2. \A f \in Feeder : feeder[f].pc # "put group"
    BY <1>1, RestFeed
  <2>. QED
    BY <1>1, <2>1, <2>2, Zenon DEF Grouped
<1>. QED
  BY <1>2, UserAssumed, UsersInit DEF TenantInv

LEMMA TenantNext ==
  ASSUME TenantInv, Users!Next
  PROVE  TenantInv' /\ Users!DeactivationStands /\ ((\A f \in Feeder : ~Users!SyncUsers(f)) => Keeping)
<1>1. UsersInv /\ Grouped /\ UserApart
  BY UserAssumed DEF TenantInv
<1>2. UsersInv' /\ Users!DeactivationStands /\ ((\A f \in Feeder : ~Users!SyncUsers(f)) => Keeping)
  <2>1. CASE Users!BootstrapTenant \/ Users!BootstrapAdmin \/ Users!BootstrapFails
    BY <1>1, <2>1, BootstrapStep
  <2>2. ASSUME NEW c \in Caller,
               \/ Users!Invite(c) \/ Users!Patch(c) \/ Users!Deactivate(c) \/ Users!Reset(c) \/ Users!Change(c)
               \/ Users!Load(c) \/ Users!CommitEdit(c) \/ Users!CommitInvite(c) \/ Users!Abort(c)
        PROVE  UsersInv' /\ Users!DeactivationStands /\ Keeping
    BY <1>1, <2>2, CallerStep
  <2>3. ASSUME NEW f \in Feeder, Users!Fetch(f) PROVE UsersInv' /\ Users!DeactivationStands /\ Keeping
    <3>1. users' = users
      BY <2>3, Zenon DEF Users!Fetch
    <3>. QED
      BY <1>1, <2>3, <3>1, FetchFeedStep, SameUsers
  <2>4. ASSUME NEW f \in Feeder, Users!SyncUsers(f) PROVE UsersInv' /\ Users!DeactivationStands
    BY <1>1, <2>4, SyncUsersStep
  <2>5. ASSUME NEW f \in Feeder,
               Users!LoadUsers(f) \/ Users!LoadGroup(f) \/ Users!SyncGroup(f) \/ Users!Finish(f) \/ Users!Die(f)
        PROVE  UsersInv' /\ Users!DeactivationStands /\ Keeping
    BY <1>1, <2>5, FeederStep, SameUsers
  <2>. QED
    BY <2>1, <2>2, <2>3, <2>4, <2>5, Zenon DEF Users!Next
<1>3. Grouped'
  BY <1>1, <1>2, GroupsStep
<1>. QED
  BY <1>2, <1>3 DEF TenantInv

LEMMA TenantSame == ASSUME TenantInv, UNCHANGED directory PROVE TenantInv' /\ Users!DeactivationStands /\ Keeping
<1>1. UNCHANGED <<setup, users, groups, caller, feeder, issued, passwords>>
  BY DEF directory
<1>2. UsersInv'
  <2>1. UsersOK' /\ Openings'
    BY <1>1 DEF TenantInv, UsersInv, UsersOK, Openings, Opening
  <2>2. Callings'
    BY <1>1 DEF TenantInv, UsersInv, Callings, CallFits, AccountLoaded
  <2>3. Feedings'
    BY <1>1 DEF TenantInv, UsersInv, Feedings, FeedFits
  <2>. QED
    BY <2>1, <2>2, <2>3 DEF UsersInv
<1>3. Grouped'
  BY <1>1 DEF TenantInv, Grouped
<1>. QED
  BY <1>1, <1>2, <1>3, SameUsers DEF TenantInv

\* An account stays what the last request about it made it; for any accounts,
\* requests and runs of the feed served at a time, and any bounds.
THEOREM AccountsStand == Spec => AccountStands
<1>1. Init => TenantInv
  BY TenantInit DEF Init
<1>2. TenantInv /\ [Next]_all => TenantInv' /\ Users!DeactivationStands
  <2>1. [Next]_all => Users!Next \/ UNCHANGED directory
    BY Zenon DEF Next, all
  <2>. QED
    BY <2>1, TenantNext, TenantSame
<1>3. TenantInv' => Users!LastPasswordOpens'
  BY DEF TenantInv, UsersInv, Openings, Opening, Users!LastPasswordOpens
<1>4. TenantInv /\ [Next]_all => [Users!LastPasswordOpens' /\ Users!DeactivationStands]_Users!vars
  BY <1>2, <1>3
<1>. QED
  BY <1>1, <1>2, <1>4, PTL DEF Spec, AccountStands, Users!AccountStands

\* A run that met no other has the tenant for itself.
Lone == \A f, g \in Feeder : f # g /\ ~feeder[f].crossed /\ feeder[f].pc # "idle" => feeder[g].pc = "idle"

\* What such a run has done so far: the accounts it was fed, then the group.
FedUsers(r) == \A s \in Users!Fed(r) : s \in Users!Principal /\ users[s] # None /\ users[s].email = r.feed.email[s]
Doing(r) ==
    /\ r.pc = "put users" => \A p \in Users!Principal :
         r.rows[p] # None => users[p] # None /\ users[p].email = r.rows[p].email
    /\ r.pc \in {"groups", "new group", "put group", "done"} => FedUsers(r)
    /\ r.pc = "new group" => groups = <<>>
    /\ r.pc = "put group" => Len(groups) = 1 /\ r.members = groups[1]
    /\ r.pc = "done" => groups = <<r.feed.members>>
Unread(r) == r.pc \in {"users", "put users", "groups", "new group"} => r.members = None
FedFits(r) == Unread(r) /\ (~r.crossed => Doing(r))

Feeds == \A f \in Feeder, r \in Feeding : feeder[f] = r => FedFits(r)

LEMMA FedRest == FedFits(Users!Rest) /\ FedFits(Users!Rest)' /\ Users!Rest.crossed = FALSE
BY DEF FedFits, Doing, Unread, Users!Rest

LEMMA FedStays ==
  ASSUME NEW r \in Feeding, FedFits(r), Keeping, groups' = groups PROVE FedFits(r)'
<1>1. FedUsers(r) => FedUsers(r)'
  BY DEF FedUsers, Users!Fed, Keeping
<1>2. (\A p \in Users!Principal : r.rows[p] # None => users[p] # None /\ users[p].email = r.rows[p].email)
      => (\A p \in Users!Principal : r.rows[p] # None => users'[p] # None /\ users'[p].email = r.rows[p].email)
  BY Zenon DEF Keeping
<1>3. Doing(r) => Doing(r)'
  BY <1>1, <1>2 DEF Doing
<1>. QED
  BY <1>3, Zenon DEF FedFits, Unread

\* Nothing of the runs changes.
LEMMA FeedsKeep ==
  ASSUME Feeds, Lone, Keeping, groups' = groups, feeder' = feeder PROVE Feeds' /\ Lone'
<1>1. ASSUME NEW f \in Feeder, NEW r \in Feeding, feeder'[f] = r PROVE FedFits(r)'
  <2>1. FedFits(r)
    BY <1>1, Zenon DEF Feeds
  <2>. QED
    BY <2>1, FedStays
<1>2. Lone'
  BY DEF Lone
<1>. QED
  BY <1>1, <1>2, Zenon DEF Feeds

\* A run goes on as n: the others have met it, or have not begun.
LEMMA FeedsGo ==
  ASSUME UsersInv, Feeds, Lone, NEW f \in Feeder, NEW r \in Feeding, feeder[f] = r, r.pc # "idle",
         NEW n \in Feeding, feeder' = [feeder EXCEPT ![f] = n], n.crossed = r.crossed \/ n.pc = "idle",
         FedFits(n)'
  PROVE  Feeds' /\ Lone'
<1>1. \A g \in Feeder : feeder'[g] = IF g = f THEN n ELSE feeder[g]
  BY DEF UsersInv, UsersOK
<1>2. ASSUME NEW g \in Feeder, NEW x \in Feeding, feeder'[g] = x PROVE FedFits(x)'
  <2>1. CASE g = f
    <3>1. x = n
      BY <1>1, <1>2, <2>1
    <3>. QED
      BY <3>1, Zenon DEF FedFits, Unread, Doing, FedUsers, Users!Fed
  <2>2. CASE g # f
    <3>1. feeder[g] = x
      BY <1>1, <1>2, <2>2, Zenon
    <3>2. FedFits(x)
      BY <3>1, Zenon DEF Feeds
    <3>3. x.crossed \/ x.pc = "idle"
      BY <2>2, <3>1, Zenon DEF Lone
    <3>4. x.pc = "idle" => Doing(x)'
      BY DEF Doing
    <3>. QED
      BY <3>2, <3>3, <3>4, Zenon DEF FedFits, Unread
  <2>. QED
    BY <2>1, <2>2
<1>3. ASSUME NEW g \in Feeder, NEW h \in Feeder, g # h, ~feeder'[g].crossed, feeder'[g].pc # "idle"
      PROVE  feeder'[h].pc = "idle"
  <2>1. CASE g = f
    <3>1. ~r.crossed /\ h # f
      BY <1>1, <1>3, <2>1, Zenon
    <3>. QED
      BY <1>1, <3>1, Zenon DEF Lone
  <2>2. CASE g # f
    <3>1. ~feeder[g].crossed /\ feeder[g].pc # "idle"
      BY <1>1, <1>3, <2>2, Zenon
    <3>2. feeder[f].pc = "idle"
      BY <2>2, <3>1, Zenon DEF Lone
    <3>. QED
      BY <3>2, Zenon
  <2>. QED
    BY <2>1, <2>2
<1>. QED
  BY <1>2, <1>3, Zenon DEF Feeds, Lone

LEMMA FetchFeeds ==
  ASSUME UsersInv, UsersInv', Feeds, Lone, NEW f \in Feeder, Users!Fetch(f) PROVE Feeds' /\ Lone'
<1>. DEFINE busy == {h \in Feeder : feeder[h].pc # "idle"}
<1>1. PICK feed_ \in Users!Feed :
        feeder' = [g \in Feeder |->
            IF g = f THEN [Users!Rest EXCEPT !.pc = "users", !.feed = feed_, !.crossed = busy # {}]
            ELSE [feeder[g] EXCEPT !.crossed = @ \/ g \in busy]]
  BY Zenon DEF Users!Fetch
<1>2. feeder[f].pc = "idle" /\ users' = users /\ groups' = groups
  BY Zenon DEF Users!Fetch
<1>3. ASSUME NEW n \in Feeding, feeder'[f] = n
      PROVE  n.pc = "users" /\ n.crossed = (busy # {}) /\ FedFits(n)'
  <2>1. PICK b \in BOOLEAN : b = (busy # {})
    BY Zenon
  <2>2. n = [Users!Rest EXCEPT !.pc = "users", !.feed = feed_, !.crossed = b]
    BY <1>1, <1>3, <2>1, Zenon
  <2>3. n.pc = "users" /\ n.crossed = b /\ n.members = None
    BY <2>2 DEF Users!Rest
  <2>4. FedFits(n)'
    BY <2>3 DEF FedFits, Unread, Doing
  <2>. QED
    BY <2>1, <2>3, <2>4, Zenon
<1>4. ASSUME NEW g \in Feeder, g # f, NEW s \in Feeding, feeder[g] = s, NEW n \in Feeding, feeder'[g] = n
      PROVE  n.pc = s.pc /\ (n.crossed \/ n.pc = "idle") /\ FedFits(n)'
  <2>1. PICK b \in BOOLEAN : b = (s.crossed \/ g \in busy)
    BY Zenon
  <2>2. n = [s EXCEPT !.crossed = b]
    BY <1>1, <1>4, <2>1, Zenon
  <2>3. n.pc = s.pc /\ n.crossed = b /\ n.members = s.members
    BY <2>2 DEF Feeding
  <2>4. s.pc # "idle" => b
    BY <1>4, <2>1, Zenon
  <2>5. Unread(s)
    BY <1>4, Zenon DEF Feeds, FedFits
  <2>6. Unread(n)'
    BY <2>3, <2>5 DEF Unread
  <2>7. n.pc = "idle" => Doing(n)'
    BY DEF Doing
  <2>. QED
    BY <2>3, <2>4, <2>6, <2>7, Zenon DEF FedFits
<1>5. \A g \in Feeder : feeder[g] \in Feeding /\ feeder'[g] \in Feeding
  BY DEF UsersInv, UsersOK
<1>6. ASSUME NEW g \in Feeder, NEW n \in Feeding, feeder'[g] = n PROVE FedFits(n)'
  BY <1>3, <1>4, <1>5, <1>6, Zenon
<1>7. ASSUME NEW g \in Feeder, NEW h \in Feeder, g # h, ~feeder'[g].crossed, feeder'[g].pc # "idle"
      PROVE  feeder'[h].pc = "idle"
  <2>1. PICK m \in Feeding : feeder'[g] = m
    BY <1>5
  <2>2. PICK n \in Feeding : feeder'[h] = n
    BY <1>5
  <2>3. PICK s \in Feeding : feeder[h] = s
    BY <1>5
  <2>4. PICK r \in Feeding : feeder[g] = r
    BY <1>5
  <2>5. CASE g = f
    <3>1. ~(busy # {}) /\ h # f
      BY <1>3, <1>7, <2>1, <2>5, Zenon
    <3>2. s.pc = "idle"
      BY <2>3, <3>1, Zenon
    <3>3. n.pc = s.pc
      BY <1>4, <2>2, <2>3, <3>1, Zenon
    <3>. QED
      BY <2>2, <3>2, <3>3, Zenon
  <2>6. CASE g # f
    <3>1. m.crossed \/ m.pc = "idle"
      BY <1>4, <2>1, <2>4, <2>6, Zenon
    <3>. QED
      BY <1>7, <2>1, <3>1, Zenon
  <2>. QED
    BY <2>5, <2>6
<1>. QED
  BY <1>6, <1>7, Zenon DEF Feeds, Lone

\* Users first: the accounts are those of the feed.
LEMMA SyncUsersFeeds ==
  ASSUME UserApart, UsersInv, Feeds, Lone, NEW f \in Feeder, Users!SyncUsers(f) PROVE Feeds' /\ Lone'
<1>1. PICK r \in Feeding : feeder[f] = r /\ FeedFits(r)
  BY FeedingAt
<1>2. FedFits(r)
  BY <1>1, Zenon DEF Feeds
<1>3. PICK table : table = Users!Synced(r)
  OBVIOUS
<1>4. r.pc = "put users" /\ groups' = groups
  BY <1>1, Zenon DEF Users!SyncUsers
<1>5. CASE Users!Clash(r, table)
  <2>1. feeder' = [feeder EXCEPT ![f] = Users!Rest]
    BY <1>1, <1>3, <1>5, Zenon DEF Users!SyncUsers, Users!Edit
  <2>. QED
    BY <1>1, <1>4, <2>1, RestFeed, FedRest, FeedsGo
<1>6. CASE ~Users!Clash(r, table)
  <2>1. PICK n : n = [r EXCEPT !.pc = "groups", !.rows = None]
    OBVIOUS
  <2>2. feeder' = [feeder EXCEPT ![f] = n] /\ users' = table
    BY <1>1, <1>3, <1>6, <2>1, Zenon DEF Users!SyncUsers, Users!Edit
  <2>3. /\ n \in Feeding /\ n.pc = "groups" /\ n.feed = r.feed /\ n.members = r.members /\ n.crossed = r.crossed
    BY <2>1 DEF Feeding
  <2>4. SyncedFits(r, table)
    BY <1>1, <1>3, <1>4, <1>6, SyncedTable, Zenon
  <2>5. n.members = None
    BY <1>2, <1>4, <2>3 DEF FedFits, Unread
  <2>6. ASSUME ~n.crossed PROVE Doing(n)'
    <3>1. Doing(r)
      BY <1>2, <2>3, <2>6, Zenon DEF FedFits
    <3>2. \A p \in Users!Principal : r.rows[p] # None => users[p] # None /\ users[p].email = r.rows[p].email
      BY <1>4, <3>1, Zenon DEF Doing
    <3>3. \A s \in Users!Fed(r) : s \in Users!Principal /\ table[s] # None /\ table[s].email = r.feed.email[s]
      BY <2>4, <3>2, Zenon DEF SyncedFits
    <3>4. Users!Fed(n) = Users!Fed(r)
      BY <2>3, Zenon DEF Users!Fed
    <3>5. FedUsers(n)'
      BY <2>2, <2>3, <3>3, <3>4, Zenon DEF FedUsers, Users!Fed
    <3>. QED
      BY <2>3, <3>5 DEF Doing
  <2>7. FedFits(n)'
    BY <2>3, <2>5, <2>6 DEF FedFits, Unread
  <2>. QED
    BY <1>1, <1>4, <2>2, <2>3, <2>7, FeedsGo
<1>. QED
  BY <1>5, <1>6

LEMMA Counted ==
  ASSUME NEW S, NEW s \in Seq(S) PROVE (Len(s) = 0 => s = <<>>) /\ (Len(s) = 1 => s # <<>>)
OBVIOUS

LEMMA OneRow ==
  ASSUME NEW S, NEW s \in Seq(S), Len(s) = 1, NEW t \in S
  PROVE  \A x : x = [s EXCEPT ![1] = t] => x = <<t>>
OBVIOUS

LEMMA OneAppend == ASSUME NEW S, NEW t \in S PROVE \A x : x = Append(<<>>, t) => x = <<t>>
<1>1. <<>> \in Seq(S)
  OBVIOUS
<1>. QED
  BY <1>1

\* The table of groups after SyncGroup.
Edited(r) == ((IF r.pc = "new group" THEN {} ELSE groups[1]) \ Users!Removed(r)) \cup Users!Added(r)
Rowed(r)  == IF r.pc = "new group" THEN Append(groups, Edited(r)) ELSE [groups EXCEPT ![1] = Edited(r)]

\* Then the group: the row that is written has the fed members.
LEMMA GroupWritten ==
  ASSUME UserApart, Grouped, NEW r \in Feeding, r.feed \in Users!Feed,
         r.pc \in {"new group", "put group"}, Unread(r), Doing(r)
  PROVE  Rowed(r) = <<r.feed.members>>
<1>1. PICK m \in SUBSET Subject : m = r.feed.members
  BY DEF Users!Feed
<1>2. CASE r.pc = "new group"
  <2>1. r.members = None /\ groups = <<>>
    BY <1>2 DEF Unread, Doing
  <2>2. Users!Added(r) = m
    BY <1>1, <2>1 DEF Users!Added
  <2>3. Edited(r) = m
    BY <1>2, <2>2 DEF Edited
  <2>4. Rowed(r) = Append(<<>>, m)
    BY <1>2, <2>1, <2>3, Zenon DEF Rowed
  <2>. QED
    BY <1>1, <2>4, OneAppend, Zenon
<1>3. CASE r.pc = "put group"
  <2>1. Len(groups) = 1 /\ r.members = groups[1]
    BY <1>3 DEF Doing
  <2>0. groups # <<>>
    BY <2>1, Counted, Zenon DEF Grouped
  <2>2. PICK g \in SUBSET Subject : g = groups[1]
    BY <2>0, GroupRow
  <2>3. r.members # None
    BY <2>1, <2>2, Zenon DEF UserApart
  <2>4. Users!Added(r) = m \ g /\ Users!Removed(r) = g \ m
    BY <1>1, <2>1, <2>2, <2>3, Zenon DEF Users!Added, Users!Removed
  <2>5. Edited(r) = m
    BY <1>3, <2>2, <2>4 DEF Edited
  <2>6. Rowed(r) = [groups EXCEPT ![1] = m] /\ groups \in Seq(SUBSET Subject)
    BY <1>3, <2>5, Zenon DEF Grouped, Rowed
  <2>7. Rowed(r) = <<m>>
    BY <2>1, <2>6, OneRow, Zenon
  <2>. QED
    BY <1>1, <2>7, Zenon
<1>. QED
  BY <1>2, <1>3

LEMMA GroupFeeds ==
  ASSUME UserApart, UsersInv, Grouped, Feeds, Lone, NEW f \in Feeder, Users!LoadGroup(f) \/ Users!SyncGroup(f)
  PROVE  Feeds' /\ Lone'
<1>1. PICK r \in Feeding : feeder[f] = r /\ FeedFits(r)
  BY FeedingAt
<1>2. FedFits(r)
  BY <1>1, Zenon DEF Feeds
<1>3. users' = users
  BY DEF Users!LoadGroup, Users!SyncGroup
<1>4. CASE r.pc # "idle" /\ feeder' = [feeder EXCEPT ![f] = Users!Rest]
  BY <1>1, <1>4, RestFeed, FedRest, FeedsGo
<1>5. ASSUME NEW n \in Feeding, n.feed = r.feed, FedUsers(r) PROVE FedUsers(n)'
  BY <1>3, <1>5, Zenon DEF FedUsers, Users!Fed
<1>6. CASE Users!LoadGroup(f)
  <2>. DEFINE a == [r EXCEPT !.pc = "new group"]
              b == [r EXCEPT !.pc = "put group", !.members = groups[1]]
  <2>1. PICK x : x = CASE Len(groups) = 0 -> a [] Len(groups) = 1 -> b [] OTHER -> Users!Rest
    OBVIOUS
  <2>2. groups' = groups /\ feeder' = [feeder EXCEPT ![f] = x] /\ r.pc = "groups"
    BY <1>1, <1>6, <2>1, Zenon DEF Users!LoadGroup, Users!Edit
  <2>3. (x = a /\ Len(groups) = 0) \/ x = Users!Rest \/ (x = b /\ Len(groups) = 1)
    <3>. HIDE DEF a, b
    <3>. QED
      BY <2>1
  <2>4. r.members = None /\ (~r.crossed => FedUsers(r))
    BY <1>2, <2>2 DEF FedFits, Unread, Doing
  <2>5. CASE x = a /\ Len(groups) = 0
    <3>1. a \in Feeding /\ a.feed = r.feed /\ a.pc = "new group" /\ a.members = r.members /\ a.crossed = r.crossed
      BY DEF Feeding
    <3>2. groups = <<>>
      BY <2>5, Counted, Zenon DEF Grouped
    <3>3. PICK n \in Feeding : n = a
      BY <3>1
    <3>. HIDE DEF a
    <3>4. FedFits(n)'
      <4>1. n.members = None /\ n.pc = "new group" /\ n.crossed = r.crossed /\ n.feed = r.feed
        BY <2>4, <3>1, <3>3
      <4>2. ~n.crossed => FedUsers(n)'
        BY <1>5, <2>4, <4>1
      <4>. QED
        BY <2>2, <3>2, <4>1, <4>2 DEF FedFits, Unread, Doing
    <3>. QED
      BY <1>1, <2>2, <2>5, <3>1, <3>3, <3>4, FeedsGo
  <2>6. CASE x = b /\ Len(groups) = 1
    <3>0. groups # <<>>
      BY <2>6, Counted, Zenon DEF Grouped
    <3>1. PICK m \in SUBSET Subject : m = groups[1]
      BY <3>0, GroupRow
    <3>2. b = [r EXCEPT !.pc = "put group", !.members = m]
      BY <3>1
    <3>3. b \in Feeding /\ b.feed = r.feed /\ b.pc = "put group" /\ b.members = m /\ b.crossed = r.crossed
      BY <3>2 DEF Feeding
    <3>4. PICK n \in Feeding : n = b
      BY <3>3
    <3>. HIDE DEF b
    <3>5. FedFits(n)'
      <4>1. n.members = groups'[1] /\ n.pc = "put group" /\ n.crossed = r.crossed /\ n.feed = r.feed
        BY <2>2, <3>1, <3>3, <3>4
      <4>2. ~n.crossed => FedUsers(n)'
        BY <1>5, <2>4, <4>1
      <4>. QED
        BY <2>2, <2>6, <4>1, <4>2 DEF FedFits, Unread, Doing
    <3>. QED
      BY <1>1, <2>2, <2>6, <3>3, <3>4, <3>5, FeedsGo
  <2>7. CASE x = Users!Rest
    BY <1>4, <2>2, <2>7
  <2>. QED
    BY <2>3, <2>5, <2>6, <2>7
<1>7. CASE Users!SyncGroup(f)
  <2>1. PICK n : n = [r EXCEPT !.pc = "done", !.members = None]
    OBVIOUS
  <2>5. /\ r.pc \in {"new group", "put group"}
        /\ \/ feeder' = [feeder EXCEPT ![f] = Users!Rest]
           \/ groups' = Rowed(r) /\ feeder' = [feeder EXCEPT ![f] = n]
    BY <1>1, <1>7, <2>1, Zenon DEF Users!SyncGroup, Users!Edit, Rowed, Edited
  <2>6. CASE groups' = Rowed(r) /\ feeder' = [feeder EXCEPT ![f] = n]
    <3>1. n \in Feeding /\ n.pc = "done" /\ n.feed = r.feed /\ n.crossed = r.crossed
      BY <2>1 DEF Feeding
    <3>2. r.feed \in Users!Feed
      BY <1>1, <2>5 DEF FeedFits
    <3>3. ASSUME ~n.crossed PROVE FedUsers(n)' /\ groups' = <<n.feed.members>>
      <4>1. Unread(r) /\ Doing(r)
        BY <1>2, <3>1, <3>3, Zenon DEF FedFits
      <4>2. FedUsers(r)
        BY <2>5, <4>1 DEF Doing
      <4>3. FedUsers(n)'
        BY <1>5, <3>1, <4>2
      <4>4. Rowed(r) = <<r.feed.members>>
        BY <2>5, <3>2, <4>1, GroupWritten
      <4>. QED
        BY <2>6, <3>1, <4>3, <4>4, Zenon
    <3>4. FedFits(n)'
      BY <3>1, <3>3 DEF FedFits, Unread, Doing
    <3>. QED
      BY <1>1, <2>5, <2>6, <3>1, <3>4, FeedsGo
  <2>7. CASE feeder' = [feeder EXCEPT ![f] = Users!Rest]
    BY <1>4, <2>5, <2>7
  <2>. QED
    BY <2>5, <2>6, <2>7
<1>. QED
  BY <1>6, <1>7

LEMMA OtherFeeds ==
  ASSUME UserApart, UsersInv, Feeds, Lone, NEW f \in Feeder,
         Users!LoadUsers(f) \/ Users!Finish(f) \/ Users!Die(f)
  PROVE  Feeds' /\ Lone'
<1>1. PICK r \in Feeding : feeder[f] = r /\ FeedFits(r)
  BY FeedingAt
<1>2. FedFits(r)
  BY <1>1, Zenon DEF Feeds
<1>3. CASE Users!LoadUsers(f)
  <2>1. PICK n : n = [r EXCEPT !.pc = "put users", !.rows = users]
    OBVIOUS
  <2>2. r.pc = "users" /\ feeder' = [feeder EXCEPT ![f] = n] /\ users' = users
    BY <1>1, <1>3, <2>1, Zenon DEF Users!LoadUsers, Users!Edit
  <2>3. users \in Table
    BY DEF UsersInv, UsersOK
  <2>4. /\ n \in Feeding /\ n.pc = "put users" /\ n.rows = users /\ n.members = r.members
        /\ n.crossed = r.crossed
    BY <2>1, <2>3 DEF Feeding
  <2>5. r.members = None
    BY <1>2, <2>2 DEF FedFits, Unread
  <2>6. FedFits(n)'
    BY <2>2, <2>4, <2>5 DEF FedFits, Unread, Doing
  <2>. QED
    BY <1>1, <2>2, <2>4, <2>6, FeedsGo
<1>4. CASE Users!Finish(f) \/ Users!Die(f)
  <2>1. feeder' = [feeder EXCEPT ![f] = Users!Rest] /\ r.pc # "idle"
    BY <1>1, <1>4 DEF Users!Finish, Users!Die, Users!Edit
  <2>. QED
    BY <1>1, <2>1, RestFeed, FedRest, FeedsGo
<1>. QED
  BY <1>3, <1>4

FeedInv == TenantInv /\ Feeds /\ Lone

LEMMA FeedNext == ASSUME FeedInv, Users!Next PROVE FeedInv'
<1>1. TenantInv' /\ ((\A f \in Feeder : ~Users!SyncUsers(f)) => Keeping)
  BY TenantNext DEF FeedInv
<1>2. UserApart /\ UsersInv /\ UsersInv' /\ Grouped /\ Feeds /\ Lone
  BY <1>1, UserAssumed DEF FeedInv, TenantInv
<1>3. CASE \/ Users!BootstrapTenant \/ Users!BootstrapAdmin \/ Users!BootstrapFails
           \/ \E c \in Caller : \/ Users!Invite(c) \/ Users!Patch(c) \/ Users!Deactivate(c) \/ Users!Reset(c)
                                \/ Users!Change(c) \/ Users!Load(c) \/ Users!CommitEdit(c)
                                \/ Users!CommitInvite(c) \/ Users!Abort(c)
  <2>1. groups' = groups /\ feeder' = feeder
    BY <1>3, Zenon DEF Users!BootstrapTenant, Users!BootstrapAdmin, Users!BootstrapFails, Users!Invite, Users!Patch,
         Users!Deactivate, Users!Reset, Users!Change, Users!Load, Users!CommitEdit, Users!CommitInvite, Users!Abort,
         Users!Open
  <2>2. Keeping
    BY <1>2, <1>3, BootstrapStep, CallerStep, Zenon
  <2>. QED
    BY <1>1, <1>2, <2>1, <2>2, FeedsKeep, Zenon DEF FeedInv
<1>4. ASSUME NEW f \in Feeder,
             Users!Fetch(f) \/ Users!LoadUsers(f) \/ Users!SyncUsers(f) \/ Users!LoadGroup(f)
             \/ Users!SyncGroup(f) \/ Users!Finish(f) \/ Users!Die(f)
      PROVE  Feeds' /\ Lone'
  BY <1>2, <1>4, FetchFeeds, SyncUsersFeeds, GroupFeeds, OtherFeeds
<1>5. ASSUME NEW f \in Feeder,
             Users!Fetch(f) \/ Users!LoadUsers(f) \/ Users!SyncUsers(f) \/ Users!LoadGroup(f)
             \/ Users!SyncGroup(f) \/ Users!Finish(f) \/ Users!Die(f)
      PROVE  FeedInv'
  BY <1>1, <1>4, <1>5, Zenon DEF FeedInv
<1>. QED
  BY <1>3, <1>5, Zenon DEF Users!Next

\* A run of the feed that met no other leaves the fed addresses from its first
\* commit on, and the fed members with its second (sync_users, sync_groups); for
\* any accounts, requests and runs served at a time, and any bounds.
THEOREM FeedIsApplied == Spec => []FeedApplied
<1>1. Init => FeedInv
  <2>. SUFFICES ASSUME Init PROVE FeedInv
    OBVIOUS
  <2>1. TenantInv /\ feeder = [f \in Feeder |-> Users!Rest]
    BY TenantInit, Zenon DEF Init, Users!Init
  <2>2. Lone
    BY <2>1, RestFeed DEF Lone
  <2>3. Feeds
    <3>. SUFFICES ASSUME NEW f \in Feeder, NEW r \in Feeding, feeder[f] = r PROVE FedFits(r)
      BY Zenon DEF Feeds
    <3>1. r = Users!Rest
      BY <2>1
    <3>. QED
      BY <3>1, FedRest
  <2>. QED
    BY <2>1, <2>2, <2>3 DEF FeedInv
<1>2. FeedInv /\ [Next]_all => FeedInv'
  <2>. SUFFICES ASSUME FeedInv, [Next]_all PROVE FeedInv'
    OBVIOUS
  <2>1. Users!Next \/ UNCHANGED directory
    BY Zenon DEF Next, all
  <2>2. CASE UNCHANGED directory
    <3>1. TenantInv' /\ Keeping
      BY <2>2, TenantSame DEF FeedInv
    <3>2. feeder' = feeder /\ groups' = groups
      BY <2>2 DEF directory
    <3>. QED
      BY <3>1, <3>2, FeedsKeep, Zenon DEF FeedInv
  <2>. QED
    BY <2>1, <2>2, FeedNext
<1>3. FeedInv => FeedApplied
  <2>. SUFFICES ASSUME FeedInv, NEW f \in Feeder, ~feeder[f].crossed
                PROVE  /\ feeder[f].pc \in {"groups", "new group", "put group", "done"} =>
                            \A s \in Users!Fed(feeder[f]) :
                               users[s] # None /\ users[s].email = feeder[f].feed.email[s]
                       /\ feeder[f].pc = "done" => groups = <<feeder[f].feed.members>>
    BY Zenon DEF FeedApplied, Users!FeedApplied
  <2>1. PICK r \in Feeding : feeder[f] = r
    BY DEF FeedInv, TenantInv, UsersInv, UsersOK
  <2>2. FedFits(r) /\ ~r.crossed
    BY <2>1, Zenon DEF FeedInv, Feeds
  <2>3. /\ r.pc \in {"groups", "new group", "put group", "done"} => FedUsers(r)
        /\ r.pc = "done" => groups = <<r.feed.members>>
    BY <2>2 DEF FedFits, Doing
  <2>. QED
    BY <2>1, <2>3, Zenon DEF FedUsers
<1>. QED
  BY <1>1, <1>2, <1>3, PTL DEF Spec

-----------------------------------------------------------------------------
(* PersonGraph: what stands between merged persons. *)

\* m is the merges: person -> the one he was merged into.  The id under which
\* each is found follows them, and there is one way to do so.
Climb(m, g) == [x \in Person |-> IF m[x] = None THEN x ELSE g[m[x]]]
Resolves(m, r) == r = Climb(m, r) /\ \A g : g = Climb(m, g) => g = r

\* After k[2] is merged into k[1].
Joined(m, k) == [m EXCEPT ![k[2]] = k[1]]
Onto(r, k)   == [x \in Person |-> IF r[x] = k[2] THEN k[1] ELSE r[x]]

LEMMA ResolvesOnto ==
  ASSUME None \notin Person, NEW m \in [Person -> Person \cup {None}], NEW r \in [Person -> Person],
         NEW p \in Person, NEW s \in Person, p # s, m[p] = None, m[s] = None, Resolves(m, r)
  PROVE  Resolves(Joined(m, <<p, s>>), Onto(r, <<p, s>>)) /\ Onto(r, <<p, s>>) \in [Person -> Person]
         /\ Joined(m, <<p, s>>) \in [Person -> Person \cup {None}]
<1>1. PICK m2 \in [Person -> Person \cup {None}] : m2 = Joined(m, <<p, s>>)
  BY DEF Joined
<1>2. PICK r2 \in [Person -> Person] : r2 = Onto(r, <<p, s>>)
  BY DEF Onto
<1>3. \A x \in Person : m2[x] = IF x = s THEN p ELSE m[x]
  BY <1>1 DEF Joined
<1>4. \A x \in Person : r2[x] = IF r[x] = s THEN p ELSE r[x]
  BY <1>2 DEF Onto
<1>5. \A x \in Person : r[x] = IF m[x] = None THEN x ELSE r[m[x]]
  BY Zenon DEF Resolves, Climb
<1>6. \A x \in Person : r2[x] = IF m2[x] = None THEN x ELSE r2[m2[x]]
  <2>. SUFFICES ASSUME NEW x \in Person PROVE r2[x] = IF m2[x] = None THEN x ELSE r2[m2[x]]
    OBVIOUS
  <2>1. r[p] = p /\ r[s] = s /\ r2[p] = p
    BY <1>4, <1>5
  <2>2. CASE x = s
    BY <1>3, <1>4, <2>1, <2>2
  <2>3. CASE x # s /\ m[x] = None
    BY <1>3, <1>4, <1>5, <2>3
  <2>4. CASE x # s /\ m[x] # None
    <3>1. m[x] \in Person /\ m2[x] = m[x] /\ r[x] = r[m[x]]
      BY <1>3, <1>5, <2>4
    <3>. QED
      BY <1>4, <2>4, <3>1
  <2>. QED
    BY <2>2, <2>3, <2>4
<1>7. r2 = Climb(m2, r2)
  BY <1>6 DEF Climb
<1>8. ASSUME NEW h, h = Climb(m2, h) PROVE h = r2
  <2>1. \A x \in Person : h[x] = IF m2[x] = None THEN x ELSE h[m2[x]]
    BY <1>8, Zenon DEF Climb
  <2>. DEFINE Swap(y) == IF y = p THEN s ELSE IF y = s THEN p ELSE y
              g == [x \in Person |-> IF r[x] = s THEN Swap(h[x]) ELSE h[x]]
  <2>2. /\ r[p] = p /\ r[s] = s /\ h[p] = p /\ h[s] = p
    BY <1>3, <1>5, <2>1
  <2>3. \A x \in Person : g[x] = IF r[x] = s THEN Swap(h[x]) ELSE h[x]
    OBVIOUS
  <2>4. ASSUME NEW x \in Person PROVE g[x] = IF m[x] = None THEN x ELSE g[m[x]]
    <3>1. CASE x = s
      BY <2>2, <2>3, <3>1
    <3>2. CASE x # s /\ m[x] = None
      <4>1. r[x] = x /\ h[x] = x
        BY <1>3, <1>5, <2>1, <3>2
      <4>. QED
        BY <2>3, <3>2, <4>1
    <3>3. CASE x # s /\ m[x] # None
      <4>1. m[x] \in Person /\ m2[x] = m[x] /\ r[x] = r[m[x]] /\ h[x] = h[m[x]]
        BY <1>3, <1>5, <2>1, <3>3
      <4>. HIDE DEF g
      <4>. QED
        BY <2>3, <3>3, <4>1
    <3>. QED
      BY <3>1, <3>2, <3>3
  <2>5. g = Climb(m, g)
    <3>1. g = [x \in Person |-> g[x]]
      OBVIOUS
    <3>. HIDE DEF g
    <3>2. \A x \in Person : g[x] = IF m[x] = None THEN x ELSE g[m[x]]
      BY <2>4
    <3>. QED
      BY <3>1, <3>2 DEF Climb
  <2>6. g = r
    BY <2>5, Zenon DEF Resolves
  <2>. HIDE DEF g
  <2>7. \A x \in Person : h[x] = r2[x]
    BY <1>4, <2>3, <2>6
  <2>8. h = [x \in Person |-> h[x]]
    BY <1>8 DEF Climb
  <2>. QED
    BY <2>7, <2>8
<1>. QED
  BY <1>1, <1>2, <1>7, <1>8, Zenon DEF Resolves

-----------------------------------------------------------------------------
(* What a merge, its undoing and the sources make of persons and edges. *)

\* The nodes there can be, their edges, snapshots, and the merges that stand.
Being == Person \cup UNION {{e[1], e[2]} : e \in Relation}
Link  == Being \X Being
Shot  == [edges : SUBSET Link, created : SUBSET Link]
Undo  == [pair : Person \X Person, before : SUBSET Link, clean : BOOLEAN]

GraphOK ==
    /\ nodes \subseteq Being /\ edges \subseteq Link /\ facts \subseteq Relation
    /\ into \in [Person -> Person \cup {None}]
    /\ snapshots \in [Person \X Person -> Shot \cup {None}]
    /\ undo \in Seq(Undo)
    /\ halfway \in (Person \X Person) \cup {None}
    /\ apart \in BOOLEAN /\ restored \in BOOLEAN

GraphApart ==
    /\ None \notin Person
    /\ None \notin Link
    /\ None \notin Person \X Person
    /\ None \notin Shot
    /\ \A e \in Relation : e = <<e[1], e[2]>>

\* Where a node is found, and what a relation stands between.
FoundAs(r, x) == IF x \in Person THEN r[x] ELSE x
Pairing(r, e) == <<FoundAs(r, e[1]), FoundAs(r, e[2])>>

Unmerged(m, ns) == \A x \in Person : x \in ns => m[x] = None

\* M[i] and R[i] are the merges, and where everyone is found, when only the
\* first i of the merges u had been made.
Layer(m, r, m2, r2, k) ==
    /\ k[1] # k[2] /\ m[k[1]] = None /\ m[k[2]] = None
    /\ m2 = Joined(m, k) /\ r2 = Onto(r, k)

Layered(M, R, u, m) ==
    /\ M \in [Nat -> [Person -> Person \cup {None}]] /\ R \in [Nat -> [Person -> Person]]
    /\ M[Len(u)] = m
    /\ \A i \in Nat : i <= Len(u) => Resolves(M[i], R[i])
    /\ \A i, j \in Nat : i <= j /\ j <= Len(u) => \A x \in Person : M[j][x] = None => M[i][x] = None
    /\ \A i \in Nat : i < Len(u) => Layer(M[i], R[i], M[i+1], R[i+1], u[i+1].pair)

\* The snapshot of a merge has what it moves, and created nothing that a source
\* asserts where the merge is undone.
Matches(m, r, k, shot, fs) ==
    /\ \A e \in fs : Pairing(r, e)[1] # Pairing(r, e)[2] =>
          IF k[2] \in {Pairing(r, e)[1], Pairing(r, e)[2]}
          THEN Pairing(r, e) \in shot.edges ELSE Pairing(r, e) \notin shot.created
    /\ \A e \in shot.edges : Unmerged(m, {e[1], e[2]})

Fitting(M, R, u, w, fs) ==
    \A i \in Nat : i < Len(u) /\ w[u[i+1].pair] # None =>
        Matches(M[i], R[i], u[i+1].pair, w[u[i+1].pair], fs)

\* Undoing the newest merge, and then the one before, leaves what they found.
Undoes(before, es, shot) == (es \ shot.created) \cup shot.edges = before

Undoing(u, w, es) ==
    \A i \in 1..Len(u) : u[i].clean =>
        /\ i < Len(u) => u[i+1].clean
        /\ w[u[i].pair] # None => Undoes(u[i].before, IF i = Len(u) THEN es ELSE u[i+1].before, w[u[i].pair])

Stands(r, es, fs) == \A e \in fs : Pairing(r, e)[1] # Pairing(r, e)[2] => Pairing(r, e) \in es

\* All in place, and half of the newest merge undone.
Whole(m, r, ns, es, fs) ==
    /\ Stands(r, es, fs) /\ Unmerged(m, ns)
    /\ \A e \in es : e[1] \in ns /\ e[2] \in ns

Partway(m, r, k, shot, ns, es, fs) ==
    /\ \A e \in fs : Pairing(r, e)[1] # Pairing(r, e)[2] /\ k[2] \notin {Pairing(r, e)[1], Pairing(r, e)[2]} =>
          Pairing(r, e) \in es
    /\ Unmerged(m, ns)
    /\ shot # None => \A e \in es : (e[1] \in ns /\ e[2] \in ns) \/ e \in shot.edges

Holding(M, R) ==
    /\ Layered(M, R, undo, into)
    /\ Fitting(M, R, undo, snapshots, facts)
    /\ Undoing(undo, snapshots, edges)
    /\ halfway = None => Whole(into, R[Len(undo)], nodes, edges, facts)
    /\ halfway # None =>
          /\ undo # <<>> /\ halfway = undo[Len(undo)].pair
          /\ Partway(M[Len(undo) - 1], R[Len(undo) - 1], halfway, snapshots[halfway], nodes, edges, facts)

GraphInv == GraphOK /\ restored /\ (~apart => \E M, R : Holding(M, R))

LEMMA Appended ==
  ASSUME NEW S, NEW u \in Seq(S), NEW t \in S
  PROVE  \A v : v = Append(u, t) =>
            /\ v \in Seq(S) /\ Len(v) = Len(u) + 1 /\ v[Len(u) + 1] = t
            /\ \A i \in 1..Len(u) : v[i] = u[i]
OBVIOUS

LEMMA Popped ==
  ASSUME NEW S, NEW u \in Seq(S), u # <<>>
  PROVE  \A v : v = SubSeq(u, 1, Len(u) - 1) =>
            /\ v \in Seq(S) /\ Len(v) = Len(u) - 1 /\ Len(u) >= 1
            /\ \A i \in 1..Len(v) : v[i] = u[i]
<1>. SUFFICES ASSUME NEW v, v = SubSeq(u, 1, Len(u) - 1)
              PROVE  /\ v \in Seq(S) /\ Len(v) = Len(u) - 1 /\ Len(u) >= 1
                     /\ \A i \in 1..Len(v) : v[i] = u[i]
  OBVIOUS
<1>1. Len(u) \in Nat /\ Len(u) >= 1
  OBVIOUS
<1>. DEFINE n == Len(u) - 1
<1>0. n \in Nat /\ v = SubSeq(u, 1, n) /\ n <= Len(u)
  BY <1>1
<1>. HIDE DEF n
<1>2. Len(v) = n /\ \A i \in 1..n : v[i] = u[i]
  BY <1>0, <1>1
<1>3. v \in Seq(S)
  BY <1>0, <1>1
<1>4. n = Len(u) - 1
  BY DEF n
<1>. QED
  BY <1>1, <1>2, <1>3, <1>4

LEMMA PairOf ==
  ASSUME NEW u \in Seq(Undo), NEW i \in 1..Len(u)
  PROVE  u[i] \in Undo /\ u[i].pair \in Person \X Person /\ u[i].pair[1] \in Person /\ u[i].pair[2] \in Person
         /\ u[i].pair = <<u[i].pair[1], u[i].pair[2]>>
<1>1. u[i] \in Undo
  OBVIOUS
<1>2. \A k \in Person \X Person : k[1] \in Person /\ k[2] \in Person /\ k = <<k[1], k[2]>>
  OBVIOUS
<1>. QED
  BY <1>1, <1>2 DEF Undo

\* Who was merged is not merged again while that stands.
LEMMA MergedAway ==
  ASSUME None \notin Person, NEW u \in Seq(Undo), NEW m, NEW M, NEW R, Layered(M, R, u, m), NEW i \in 1..Len(u)
  PROVE  m[u[i].pair[2]] # None
<1>. DEFINE k == u[i].pair
<1>1. k[1] \in Person /\ k[2] \in Person
  BY PairOf
<1>. HIDE DEF k
<1>2. i - 1 \in Nat /\ i \in Nat /\ i - 1 < Len(u) /\ i <= Len(u) /\ Len(u) \in Nat /\ (i - 1) + 1 = i
  OBVIOUS
<1>3. Layer(M[i-1], R[i-1], M[(i-1)+1], R[(i-1)+1], u[(i-1)+1].pair)
  BY <1>2 DEF Layered
<1>4. M[i] = Joined(M[i-1], k) /\ M[i-1] \in [Person -> Person \cup {None}]
  BY <1>2, <1>3 DEF Layer, Layered, k
<1>5. M[i][k[2]] = k[1]
  BY <1>1, <1>4 DEF Joined
<1>6. M[Len(u)][k[2]] = None => M[i][k[2]] = None
  BY <1>1, <1>2 DEF Layered
<1>. QED
  BY <1>1, <1>5, <1>6 DEF Layered, k

\* X and Y are M and R with a layer for the merge t on top.
Taller(X, Y, M, R, u, t, m) ==
    /\ Layered(X, Y, Append(u, t), Joined(m, t.pair))
    /\ \A i \in Nat : i <= Len(u) => X[i] = M[i] /\ Y[i] = R[i]
    /\ Y[Len(Append(u, t))] = Onto(R[Len(u)], t.pair)

LEMMA PushedLayer ==
  ASSUME None \notin Person, NEW u \in Seq(Undo), NEW t \in Undo, NEW m, NEW M, NEW R, Layered(M, R, u, m),
         t.pair[1] # t.pair[2], m[t.pair[1]] = None, m[t.pair[2]] = None
  PROVE  \E X, Y : Taller(X, Y, M, R, u, t, m)
<1>a. PICK v : v = Append(u, t)
  OBVIOUS
<1>b. PICK m2 : m2 = Joined(m, t.pair)
  OBVIOUS
<1>c. PICK r2 : r2 = Onto(R[Len(u)], t.pair)
  OBVIOUS
<1>d. PICK M2 : M2 = [M EXCEPT ![Len(u) + 1] = m2]
  OBVIOUS
<1>e. PICK R2 : R2 = [R EXCEPT ![Len(u) + 1] = r2]
  OBVIOUS
<1>. USE <1>a, <1>b, <1>c, <1>d, <1>e
<1>. DEFINE n == Len(u)
            k == t.pair
<1>0. n \in Nat /\ n + 1 \in Nat /\ Len(v) = n + 1 /\ v[n + 1] = t /\ (\A i \in 1..n : v[i] = u[i])
  <2>1. v = Append(u, t) =>
          v \in Seq(Undo) /\ Len(v) = Len(u) + 1 /\ v[Len(u) + 1] = t /\ \A i \in 1..Len(u) : v[i] = u[i]
    BY Appended
  <2>. QED
    BY <2>1
<1>1. k[1] \in Person /\ k[2] \in Person /\ k = <<k[1], k[2]>>
  <2>1. \A q \in Person \X Person : q[1] \in Person /\ q[2] \in Person /\ q = <<q[1], q[2]>>
    OBVIOUS
  <2>2. k \in Person \X Person
    BY DEF Undo
  <2>. QED
    BY <2>1, <2>2
<1>2. M \in [Nat -> [Person -> Person \cup {None}]] /\ R \in [Nat -> [Person -> Person]] /\ M[n] = m
  BY DEF Layered
<1>3. m \in [Person -> Person \cup {None}] /\ R[n] \in [Person -> Person] /\ Resolves(m, R[n])
  BY <1>0, <1>2 DEF Layered
<1>4. Resolves(m2, r2) /\ r2 \in [Person -> Person] /\ m2 \in [Person -> Person \cup {None}]
  <2>. DEFINE r == R[n]
  <2>1. m[k[1]] = None /\ m[k[2]] = None /\ k[1] # k[2] /\ r \in [Person -> Person] /\ Resolves(m, r)
    BY <1>3
  <2>2. m2 = Joined(m, <<k[1], k[2]>>) /\ r2 = Onto(r, <<k[1], k[2]>>)
    BY <1>1
  <2>. HIDE DEF k, n, r
  <2>3. /\ Resolves(Joined(m, <<k[1], k[2]>>), Onto(r, <<k[1], k[2]>>))
        /\ Onto(r, <<k[1], k[2]>>) \in [Person -> Person]
        /\ Joined(m, <<k[1], k[2]>>) \in [Person -> Person \cup {None}]
    BY <1>1, <1>3, <2>1, ResolvesOnto, Zenon
  <2>4. r2 = Onto(r, <<k[1], k[2]>>)
    BY <2>2
  <2>. QED
    BY <2>2, <2>3, <2>4, Zenon
<1>. HIDE DEF k, n
<1>5. /\ M2 \in [Nat -> [Person -> Person \cup {None}]] /\ R2 \in [Nat -> [Person -> Person]]
      /\ M2[n + 1] = m2 /\ R2[n + 1] = r2
      /\ \A i \in Nat : i <= n => M2[i] = M[i] /\ R2[i] = R[i]
  BY <1>0, <1>2, <1>4 DEF n
<1>6. \A i \in Nat : i <= n + 1 => i <= n \/ i = n + 1
  BY <1>0
<1>7. \A i \in Nat : i <= n + 1 => Resolves(M2[i], R2[i])
  BY <1>4, <1>5, <1>6 DEF Layered, n
<1>8. \A x \in Person : m2[x] = None => m[x] = None
  BY <1>1, <1>3 DEF Joined, k
<1>9. ASSUME NEW i \in Nat, NEW j \in Nat, i <= j, j <= n + 1, NEW x \in Person, M2[j][x] = None PROVE M2[i][x] = None
  <2>1. CASE j <= n
    <3>1. i <= n /\ M[j][x] = None
      BY <1>0, <1>5, <1>9, <2>1
    <3>2. M[i][x] = None
      BY <1>9, <2>1, <3>1 DEF Layered, n
    <3>. QED
      BY <1>5, <3>1, <3>2
  <2>2. CASE j = n + 1
    <3>1. M[n][x] = None
      BY <1>2, <1>5, <1>8, <1>9, <2>2
    <3>2. CASE i <= n
      <4>0. i <= n /\ n <= Len(u) /\ n \in Nat
        BY <1>0, <3>2 DEF n
      <4>1. M[i][x] = None
        BY <3>1, <4>0 DEF Layered
      <4>. QED
        BY <1>5, <3>2, <4>1
    <3>3. CASE i = n + 1
      BY <1>9, <2>2, <3>3
    <3>. QED
      BY <1>6, <1>9, <2>2, <3>2, <3>3
  <2>. QED
    BY <1>6, <1>9, <2>1, <2>2
<1>10. ASSUME NEW i \in Nat, i < n + 1 PROVE Layer(M2[i], R2[i], M2[i+1], R2[i+1], v[i+1].pair)
  <2>1. CASE i < n
    <3>1. Layer(M[i], R[i], M[i+1], R[i+1], u[i+1].pair)
      BY <2>1 DEF Layered, n
    <3>2. i <= n /\ i + 1 <= n /\ i + 1 \in Nat /\ i + 1 \in 1..n
      BY <1>0, <2>1
    <3>. QED
      BY <1>0, <1>5, <3>1, <3>2
  <2>2. CASE i = n
    <3>1. Layer(m, R[n], m2, r2, k)
      BY DEF Layer, k, n
    <3>. QED
      BY <1>0, <1>2, <1>5, <2>2, <3>1 DEF k
  <2>. QED
    BY <1>0, <1>10, <2>1, <2>2
<1>. QED
  <2>1. Layered(M2, R2, v, m2)
    BY <1>0, <1>5, <1>7, <1>9, <1>10 DEF Layered, n
  <2>2. \A i \in Nat : i <= Len(u) => M2[i] = M[i] /\ R2[i] = R[i]
    BY <1>5 DEF n
  <2>3. R2[Len(v)] = r2
    BY <1>0, <1>5
  <2>4. Layered(M2, R2, Append(u, t), Joined(m, t.pair)) /\ R2[Len(Append(u, t))] = Onto(R[Len(u)], t.pair)
    BY <2>1, <2>3, Zenon
  <2>5. Taller(M2, R2, M, R, u, t, m)
    BY <2>2, <2>4, Zenon DEF Taller
  <2>. QED
    BY <2>5, Zenon

LEMMA PopLayer ==
  ASSUME None \notin Person, NEW u \in Seq(Undo), u # <<>>, NEW m, NEW M, NEW R, Layered(M, R, u, m),
         NEW v, v = SubSeq(u, 1, Len(u) - 1), NEW m2, m2 = [m EXCEPT ![u[Len(u)].pair[2]] = None]
  PROVE  Layered(M, R, v, m2) /\ m2 = M[Len(u) - 1]
<1>. DEFINE n == Len(u) - 1
            k == u[Len(u)].pair
<1>0. n \in Nat /\ Len(u) = n + 1 /\ Len(v) = n /\ (\A i \in 1..n : v[i] = u[i]) /\ Len(u) \in 1..Len(u)
  <2>1. v = SubSeq(u, 1, Len(u) - 1) =>
          v \in Seq(Undo) /\ Len(v) = Len(u) - 1 /\ Len(u) >= 1 /\ \A i \in 1..Len(v) : v[i] = u[i]
    BY Popped
  <2>. QED
    BY <2>1
<1>1. k[1] \in Person /\ k[2] \in Person
  BY <1>0, PairOf
<1>. HIDE DEF n, k
<1>2. M \in [Nat -> [Person -> Person \cup {None}]] /\ R \in [Nat -> [Person -> Person]] /\ M[n+1] = m
  BY <1>0 DEF Layered
<1>3. Layer(M[n], R[n], M[n+1], R[n+1], u[n+1].pair)
  BY <1>0 DEF Layered
<1>4. M[n][k[2]] = None /\ m = Joined(M[n], k) /\ M[n] \in [Person -> Person \cup {None}]
  BY <1>0, <1>2, <1>3 DEF Layer, k
<1>5. m2 = M[n]
  <2>1. m \in [Person -> Person \cup {None}] /\ m2 = [m EXCEPT ![k[2]] = None]
    BY <1>0, <1>2 DEF k
  <2>2. \A x \in Person : m2[x] = M[n][x]
    BY <1>1, <1>4, <2>1 DEF Joined
  <2>3. m2 \in [Person -> Person \cup {None}]
    BY <2>1
  <2>. QED
    BY <1>4, <2>2, <2>3
<1>6. \A i \in Nat : i <= n => Resolves(M[i], R[i])
  BY <1>0 DEF Layered
<1>7. \A i, j \in Nat : i <= j /\ j <= n => \A x \in Person : M[j][x] = None => M[i][x] = None
  BY <1>0 DEF Layered
<1>8. ASSUME NEW i \in Nat, i < n PROVE Layer(M[i], R[i], M[i+1], R[i+1], v[i+1].pair)
  <2>1. Layer(M[i], R[i], M[i+1], R[i+1], u[i+1].pair)
    BY <1>0, <1>8 DEF Layered
  <2>2. i + 1 \in 1..n
    BY <1>0, <1>8
  <2>. QED
    BY <1>0, <2>1, <2>2
<1>. QED
  BY <1>0, <1>2, <1>5, <1>6, <1>7, <1>8 DEF Layered, n

-----------------------------------------------------------------------------
(* The types, and what a merge makes of the edges. *)

Renamed(x, p, s) == IF x = s THEN p ELSE x

LEMMA MovedIs ==
  ASSUME NEW e, NEW p, NEW s
  PROVE  People!Moved(e, p, s) = IF Renamed(e[1], p, s) = Renamed(e[2], p, s) THEN None
                                 ELSE <<Renamed(e[1], p, s), Renamed(e[2], p, s)>>
BY DEF People!Moved, Renamed

LEMMA LinkIs ==
  ASSUME NEW e \in Link
  PROVE  e[1] \in Being /\ e[2] \in Being /\ e = <<e[1], e[2]>>
BY DEF Link

LEMMA EndsIs == ASSUME NEW e PROVE People!Ends(e) = {e[1], e[2]}
BY Zenon DEF People!Ends

LEMMA InvolvingIs ==
  ASSUME NEW n
  PROVE  \A e : e \in People!Involving(n) <=> e \in edges /\ (n = e[1] \/ n = e[2])
<1>1. \A e : e \in People!Involving(n) <=> e \in edges /\ n \in People!Ends(e)
  BY Zenon DEF People!Involving
<1>. QED
  BY <1>1, EndsIs

LEMMA WithoutIs ==
  ASSUME NEW es, NEW n
  PROVE  \A e : e \in People!Without(es, n) <=> e \in es /\ n # e[1] /\ n # e[2]
<1>1. \A e : e \in People!Without(es, n) <=> e \in es /\ n \notin People!Ends(e)
  BY Zenon DEF People!Without
<1>. QED
  BY <1>1, EndsIs

LEMMA PersonIs == Person \subseteq Being
BY DEF Being

\* The redirects of a merge lie on the primary, and its snapshot has the edges of
\* the secondary and those of the redirects that were not there.
LEMMA Redirected ==
  ASSUME GraphApart, GraphOK, NEW p \in Person, NEW s \in Person
  PROVE  /\ \A e \in edges : (s = e[1] \/ s = e[2]) /\ Renamed(e[1], p, s) # Renamed(e[2], p, s) =>
               <<Renamed(e[1], p, s), Renamed(e[2], p, s)>> \in People!Redirects(p, s)
         /\ \A d \in People!Redirects(p, s) :
               \E e \in edges : /\ s = e[1] \/ s = e[2]
                                /\ d = <<Renamed(e[1], p, s), Renamed(e[2], p, s)>>
         /\ \A d \in People!Redirects(p, s) : d \in Link /\ (p = d[1] \/ p = d[2])
<1>1. \A d : d \in People!Redirects(p, s) <=> d # None /\ \E e \in People!Involving(s) : d = People!Moved(e, p, s)
  BY Zenon DEF People!Redirects
<1>2. \A e \in edges : e[1] \in Being /\ e[2] \in Being
  BY LinkIs DEF GraphOK
<1>3. \A e \in edges : <<Renamed(e[1], p, s), Renamed(e[2], p, s)>> \in Link
  BY <1>2, PersonIs DEF Renamed, Link
<1>4. \A e \in edges : (s = e[1] \/ s = e[2]) /\ Renamed(e[1], p, s) # Renamed(e[2], p, s) =>
               <<Renamed(e[1], p, s), Renamed(e[2], p, s)>> \in People!Redirects(p, s)
  <2>. SUFFICES ASSUME NEW e \in edges, s = e[1] \/ s = e[2], Renamed(e[1], p, s) # Renamed(e[2], p, s)
                PROVE  <<Renamed(e[1], p, s), Renamed(e[2], p, s)>> \in People!Redirects(p, s)
    OBVIOUS
  <2>1. People!Moved(e, p, s) = <<Renamed(e[1], p, s), Renamed(e[2], p, s)>> /\ e \in People!Involving(s)
    BY MovedIs, InvolvingIs
  <2>2. People!Moved(e, p, s) # None
    BY <1>3, <2>1 DEF GraphApart
  <2>. QED
    BY <1>1, <2>1, <2>2
<1>5. ASSUME NEW d \in People!Redirects(p, s)
      PROVE  \E e \in edges : (s = e[1] \/ s = e[2]) /\ d = <<Renamed(e[1], p, s), Renamed(e[2], p, s)>>
  <2>1. PICK e \in People!Involving(s) : d = People!Moved(e, p, s) /\ d # None
    BY <1>1
  <2>2. e \in edges /\ (s = e[1] \/ s = e[2])
    BY InvolvingIs
  <2>3. d = <<Renamed(e[1], p, s), Renamed(e[2], p, s)>>
    BY <2>1, MovedIs
  <2>. QED
    BY <2>2, <2>3
<1>6. ASSUME NEW d \in People!Redirects(p, s) PROVE d \in Link /\ (p = d[1] \/ p = d[2])
  <2>1. PICK e \in edges : (s = e[1] \/ s = e[2]) /\ d = <<Renamed(e[1], p, s), Renamed(e[2], p, s)>>
    BY <1>5
  <2>. QED
    BY <1>3, <2>1 DEF Renamed
<1>. QED
  BY <1>4, <1>5, <1>6

LEMMA SnapshotIs ==
  ASSUME GraphApart, GraphOK, NEW p \in Person, NEW s \in Person, NEW shot, shot = People!Snapshot(p, s)
  PROVE  /\ shot \in Shot
         /\ \A e : e \in shot.edges <=> e \in edges /\ (s = e[1] \/ s = e[2])
         /\ \A d : d \in shot.created <=> d \in People!Redirects(p, s) /\ d \notin edges
<1>1. shot = [edges |-> People!Involving(s), created |-> People!Redirects(p, s) \ People!Involving(p)]
  BY Zenon DEF People!Snapshot
<1>2. shot.edges = People!Involving(s) /\ shot.created = People!Redirects(p, s) \ People!Involving(p)
  BY <1>1
<1>3. \A e : e \in shot.edges <=> e \in edges /\ (s = e[1] \/ s = e[2])
  BY <1>2, InvolvingIs
<1>4. \A d : d \in shot.created <=> d \in People!Redirects(p, s) /\ d \notin edges
  <2>1. \A d : d \in People!Involving(p) <=> d \in edges /\ (p = d[1] \/ p = d[2])
    BY InvolvingIs
  <2>2. \A d \in People!Redirects(p, s) : p = d[1] \/ p = d[2]
    BY Redirected
  <2>. QED
    BY <1>2, <2>1, <2>2
<1>5. shot.edges \subseteq Link /\ shot.created \subseteq Link
  BY <1>3, <1>4, Redirected DEF GraphOK
<1>. QED
  BY <1>1, <1>2, <1>3, <1>4, <1>5 DEF Shot

\* The merges u when they can no longer be compared with the edges.
Stale(u) == [i \in DOMAIN u |-> [u[i] EXCEPT !.clean = FALSE]]

LEMMA Unclean ==
  ASSUME NEW u \in Seq(Undo)
  PROVE  /\ Stale(u) \in Seq(Undo) /\ Len(Stale(u)) = Len(u)
         /\ \A i \in 1..Len(u) : Stale(u)[i].pair = u[i].pair /\ Stale(u)[i].clean = FALSE
<1>. DEFINE v == Stale(u)
<1>1. \A t \in Undo : [t EXCEPT !.clean = FALSE] \in Undo /\ [t EXCEPT !.clean = FALSE].pair = t.pair
                      /\ [t EXCEPT !.clean = FALSE].clean = FALSE
  BY DEF Undo
<1>2. DOMAIN u = 1..Len(u) /\ Len(u) \in Nat /\ \A i \in 1..Len(u) : u[i] \in Undo
  OBVIOUS
<1>3. v = [i \in 1..Len(u) |-> [u[i] EXCEPT !.clean = FALSE]]
  BY <1>2 DEF Stale
<1>. HIDE DEF v
<1>4. \A i \in 1..Len(u) : v[i] = [u[i] EXCEPT !.clean = FALSE]
  BY <1>3
<1>5. \A i \in 1..Len(u) : v[i] \in Undo /\ v[i].pair = u[i].pair /\ v[i].clean = FALSE
  <2>. SUFFICES ASSUME NEW i \in 1..Len(u) PROVE v[i] \in Undo /\ v[i].pair = u[i].pair /\ v[i].clean = FALSE
    OBVIOUS
  <2>1. PICK t \in Undo : t = u[i]
    BY <1>2
  <2>2. v[i] = [t EXCEPT !.clean = FALSE]
    BY <1>4, <2>1
  <2>3. /\ [t EXCEPT !.clean = FALSE] \in Undo /\ [t EXCEPT !.clean = FALSE].pair = t.pair
        /\ [t EXCEPT !.clean = FALSE].clean = FALSE
    BY <1>1
  <2>. QED
    BY <2>1, <2>2, <2>3, Zenon
<1>6. v = [i \in 1..Len(u) |-> v[i]]
  BY <1>3
<1>7. ASSUME NEW S, NEW n \in Nat, NEW f, f = [i \in 1..n |-> f[i]], \A i \in 1..n : f[i] \in S
      PROVE  f \in Seq(S) /\ Len(f) = n
  BY <1>7
<1>8. v \in Seq(Undo) /\ Len(v) = Len(u)
  BY <1>2, <1>5, <1>6, <1>7
<1>. QED
  BY <1>5, <1>8 DEF v

LEMMA PairingIs ==
  ASSUME NEW r, NEW e
  PROVE  /\ Pairing(r, e)[1] = FoundAs(r, e[1]) /\ Pairing(r, e)[2] = FoundAs(r, e[2])
         /\ Pairing(r, e) = <<Pairing(r, e)[1], Pairing(r, e)[2]>>
BY DEF Pairing

LEMMA PairingOnto ==
  ASSUME NEW p \in Person, NEW s \in Person, NEW r \in [Person -> Person], NEW e
  PROVE  Pairing(Onto(r, <<p, s>>), e) = <<Renamed(Pairing(r, e)[1], p, s), Renamed(Pairing(r, e)[2], p, s)>>
<1>1. PICK r2 : r2 = Onto(r, <<p, s>>)
  OBVIOUS
<1>2. \A x : FoundAs(r2, x) = Renamed(FoundAs(r, x), p, s)
  BY <1>1 DEF FoundAs, Renamed, Onto
<1>. QED
  BY <1>1, <1>2 DEF Pairing

LEMMA Unresolved ==
  ASSUME NEW m, NEW r, Resolves(m, r), NEW x, x \in Person => m[x] = None
  PROVE  FoundAs(r, x) = x
BY DEF Resolves, Climb, FoundAs

\* What is said of the layers is about the pairs of the merges.
LEMMA SamePairs ==
  ASSUME NEW u \in Seq(Undo), NEW v \in Seq(Undo), Len(v) = Len(u), \A i \in 1..Len(u) : v[i].pair = u[i].pair,
         NEW M, NEW R, NEW m, NEW w, NEW fs
  PROVE  /\ Layered(M, R, u, m) => Layered(M, R, v, m)
         /\ Fitting(M, R, u, w, fs) => Fitting(M, R, v, w, fs)
<1>1. \A i \in Nat : i < Len(u) => i < Len(v) /\ v[i+1].pair = u[i+1].pair
  <2>1. \A i \in Nat : i < Len(u) => i + 1 \in 1..Len(u)
    OBVIOUS
  <2>. QED
    BY <2>1
<1>2. ASSUME Layered(M, R, u, m) PROVE Layered(M, R, v, m)
  <2>1. \A i \in Nat : i < Len(v) => Layer(M[i], R[i], M[i+1], R[i+1], v[i+1].pair)
    BY <1>1, <1>2 DEF Layered
  <2>. QED
    BY <1>2, <2>1, Zenon DEF Layered
<1>3. ASSUME Fitting(M, R, u, w, fs) PROVE Fitting(M, R, v, w, fs)
  BY <1>1, <1>3 DEF Fitting
<1>. QED
  BY <1>2, <1>3

\* Nobody who is still there is the secondary of a merge that stands.
LEMMA OtherPairs ==
  ASSUME None \notin Person, NEW u \in Seq(Undo), NEW m, NEW M, NEW R, Layered(M, R, u, m)
  PROVE  \A s : m[s] = None =>
           \A i \in 1..Len(u) : u[i].pair[2] # s /\ u[i].pair \in Person \X Person
BY MergedAway, PairOf

LEMMA FittingStays ==
  ASSUME NEW u \in Seq(Undo), NEW M, NEW R, NEW w, NEW w2, NEW fs, Fitting(M, R, u, w, fs),
         \A i \in 1..Len(u) : w2[u[i].pair] = w[u[i].pair]
  PROVE  Fitting(M, R, u, w2, fs)
<1>1. \A i \in Nat : i < Len(u) => w2[u[i+1].pair] = w[u[i+1].pair]
  <2>1. \A i \in Nat : i < Len(u) => i + 1 \in 1..Len(u)
    OBVIOUS
  <2>. QED
    BY <2>1
<1>. QED
  BY <1>1 DEF Fitting

-----------------------------------------------------------------------------
(* What each operation leaves. *)

LEMMA NodeStep ==
  ASSUME GraphApart, GraphOK, NEW n, People!UpsertNode(n), ~apart', NEW M, NEW R, Holding(M, R)
  PROVE  Holding(M, R)'
<1>1. /\ nodes' = nodes \cup {n} /\ halfway = None /\ ~People!Absorbed({n})
      /\ UNCHANGED <<edges, snapshots, facts, into, undo, halfway>>
  BY Zenon DEF People!UpsertNode
<1>2. n \in Person => into[n] = None
  BY <1>1 DEF People!Absorbed
<1>3. Whole(into, R[Len(undo)], nodes, edges, facts)
  BY <1>1 DEF Holding
<1>4. Whole(into, R[Len(undo)], nodes', edges, facts)
  BY <1>1, <1>2, <1>3 DEF Whole, Unmerged
<1>. QED
  BY <1>1, <1>4 DEF Holding

LEMMA RestartsStep ==
  ASSUME GraphApart, GraphOK, People!Restart, NEW M, NEW R, Holding(M, R)
  PROVE  Holding(M, R)'
<1>1. snapshots' = [k \in Person \X Person |-> None] /\ UNCHANGED <<nodes, edges, facts, into, undo, halfway>>
  BY Zenon DEF People!Restart, People!Pair
<1>2. \A i \in 1..Len(undo) : snapshots'[undo[i].pair] = None
  BY <1>1, PairOf DEF GraphOK
<1>3. Fitting(M, R, undo, snapshots', facts)
  <2>1. \A i \in Nat : i < Len(undo) => i + 1 \in 1..Len(undo)
    BY DEF GraphOK
  <2>. QED
    BY <1>2, <2>1 DEF Fitting
<1>4. Undoing(undo, snapshots', edges)
  BY <1>2 DEF Undoing, Holding
<1>5. halfway # None => snapshots'[halfway] = None
  BY <1>1 DEF GraphOK
<1>6. ASSUME halfway # None
      PROVE  Partway(M[Len(undo) - 1], R[Len(undo) - 1], halfway, snapshots'[halfway], nodes, edges, facts)
  BY <1>5, <1>6 DEF Holding, Partway
<1>. QED
  BY <1>1, <1>3, <1>4, <1>6 DEF Holding

LEMMA EdgeStep ==
  ASSUME GraphApart, GraphOK, NEW e \in Relation, People!UpsertEdge(e), ~apart', NEW M, NEW R, Holding(M, R)
  PROVE  Holding(M, R)'
<1>0. /\ undo \in Seq(Undo) /\ None \notin Person /\ Layered(M, R, undo, into) /\ Len(undo) \in Nat
  BY DEF GraphOK, GraphApart, Holding
<1>1. /\ nodes' = nodes \cup People!Ends(e) /\ edges' = edges \cup {e} /\ facts' = facts \cup {e}
      /\ halfway = None /\ ~People!Absorbed(People!Ends(e))
      /\ \A k \in Person \X Person : snapshots[k] # None => e \notin snapshots[k].created
      /\ undo' = Stale(undo)
      /\ UNCHANGED <<snapshots, into, halfway>>
  BY Zenon DEF People!UpsertEdge, People!Pair, Stale
<1>2. nodes' = nodes \cup {e[1], e[2]} /\ \A x \in Person : x \in {e[1], e[2]} => into[x] = None
  BY <1>1, EndsIs DEF People!Absorbed
<1>3. /\ undo' \in Seq(Undo) /\ Len(undo') = Len(undo)
      /\ \A i \in 1..Len(undo) : undo'[i].pair = undo[i].pair /\ undo'[i].clean = FALSE
  BY <1>0, <1>1, Unclean
<1>4. e = <<e[1], e[2]>>
  BY DEF GraphApart
<1>5. ASSUME NEW i \in Nat, i <= Len(undo) PROVE Pairing(R[i], e) = e
  <2>1. Resolves(M[i], R[i]) /\ M[Len(undo)] = into
    BY <1>0, <1>5 DEF Layered
  <2>2. \A x \in Person : into[x] = None => M[i][x] = None
    BY <1>0, <1>5, <2>1 DEF Layered
  <2>3. FoundAs(R[i], e[1]) = e[1] /\ FoundAs(R[i], e[2]) = e[2]
    BY <1>2, <2>1, <2>2, Unresolved
  <2>. QED
    BY <1>4, <2>3 DEF Pairing
<1>6. Layered(M, R, undo', into)
  BY <1>0, <1>3, SamePairs
<1>7. Fitting(M, R, undo, snapshots, facts')
  <2>1. ASSUME NEW i \in Nat, i < Len(undo), snapshots[undo[i+1].pair] # None
        PROVE  Matches(M[i], R[i], undo[i+1].pair, snapshots[undo[i+1].pair], facts')
    <3>. DEFINE k == undo[i+1].pair
    <3>1. i + 1 \in 1..Len(undo) /\ i <= Len(undo)
      BY <1>0, <2>1
    <3>2. k \in Person \X Person /\ k[2] \in Person /\ into[k[2]] # None
      BY <1>0, <3>1, PairOf, MergedAway
    <3>3. Matches(M[i], R[i], k, snapshots[k], facts)
      BY <2>1 DEF Holding, Fitting
    <3>. HIDE DEF k
    <3>4. k[2] # e[1] /\ k[2] # e[2]
      BY <1>2, <3>2
    <3>5. Pairing(R[i], e) = e
      BY <1>5, <3>1
    <3>6. e \notin snapshots[k].created
      BY <1>1, <2>1, <3>2 DEF k
    <3>7. \A d \in facts' : d \in facts \/ d = e
      BY <1>1
    <3>8. Matches(M[i], R[i], k, snapshots[k], facts')
      BY <3>3, <3>4, <3>5, <3>6, <3>7 DEF Matches
    <3>. QED
      BY <3>8 DEF k
  <2>. QED
    BY <2>1 DEF Fitting
<1>8. Fitting(M, R, undo', snapshots, facts')
  BY <1>0, <1>3, <1>7, SamePairs
<1>9. Undoing(undo', snapshots, edges')
  BY <1>3 DEF Undoing
<1>10. Whole(into, R[Len(undo')], nodes', edges', facts')
  <2>1. Whole(into, R[Len(undo)], nodes, edges, facts)
    BY <1>1 DEF Holding
  <2>2. Pairing(R[Len(undo)], e) = e
    BY <1>0, <1>5
  <2>3. Stands(R[Len(undo)], edges', facts')
    BY <1>1, <2>1, <2>2 DEF Whole, Stands
  <2>4. Unmerged(into, nodes')
    BY <1>2, <2>1 DEF Whole, Unmerged
  <2>5. \A d \in edges' : d[1] \in nodes' /\ d[2] \in nodes'
    BY <1>1, <1>2, <2>1 DEF Whole
  <2>. QED
    BY <1>3, <2>3, <2>4, <2>5 DEF Whole
<1>. QED
  BY <1>1, <1>6, <1>8, <1>9, <1>10 DEF Holding

LEMMA MergeFailsStep ==
  ASSUME GraphApart, GraphOK, NEW p \in Person, NEW s \in Person, People!MergeFails(p, s), ~apart',
         NEW M, NEW R, Holding(M, R)
  PROVE  Holding(M, R)'
<1>0. /\ undo \in Seq(Undo) /\ None \notin Person /\ Layered(M, R, undo, into) /\ Len(undo) \in Nat
      /\ snapshots \in [Person \X Person -> Shot \cup {None}]
  BY DEF GraphOK, GraphApart, Holding
<1>1. /\ p \in nodes /\ s \in nodes /\ halfway = None
      /\ snapshots' = [snapshots EXCEPT ![<<p, s>>] = People!Snapshot(p, s)]
      /\ \E done \in SUBSET People!Redirects(p, s) : edges' = edges \cup done
      /\ undo' = Stale(undo)
      /\ UNCHANGED <<nodes, facts, into, halfway>>
  BY Zenon DEF People!MergeFails, People!Attempt, Stale
<1>2. Whole(into, R[Len(undo)], nodes, edges, facts)
  BY <1>1 DEF Holding
<1>3. into[s] = None
  BY <1>1, <1>2 DEF Whole, Unmerged
<1>4. /\ undo' \in Seq(Undo) /\ Len(undo') = Len(undo)
      /\ \A i \in 1..Len(undo) : undo'[i].pair = undo[i].pair /\ undo'[i].clean = FALSE
  BY <1>0, <1>1, Unclean
<1>5. \A i \in 1..Len(undo) : snapshots'[undo[i].pair] = snapshots[undo[i].pair]
  <2>1. \A i \in 1..Len(undo) : undo[i].pair # <<p, s>> /\ undo[i].pair \in Person \X Person
    <3>1. \A i \in 1..Len(undo) : undo[i].pair[2] # s /\ undo[i].pair \in Person \X Person
      BY <1>0, <1>3, OtherPairs
    <3>. QED
      BY <3>1
  <2>. QED
    BY <1>0, <1>1, <2>1
<1>6. Fitting(M, R, undo, snapshots', facts)
  BY <1>0, <1>5, FittingStays, Zenon DEF Holding
<1>7. Layered(M, R, undo', into) /\ Fitting(M, R, undo', snapshots', facts)
  BY <1>0, <1>4, <1>6, SamePairs
<1>8. Undoing(undo', snapshots', edges')
  BY <1>4 DEF Undoing
<1>9. \A d \in edges' : d[1] \in nodes /\ d[2] \in nodes
  <2>. SUFFICES ASSUME NEW d \in edges' PROVE d[1] \in nodes /\ d[2] \in nodes
    OBVIOUS
  <2>1. \A e \in edges : e[1] \in nodes /\ e[2] \in nodes
    BY <1>2 DEF Whole
  <2>2. CASE d \in edges
    BY <2>1, <2>2
  <2>3. CASE d \in People!Redirects(p, s)
    <3>1. PICK e \in edges : d = <<Renamed(e[1], p, s), Renamed(e[2], p, s)>>
      BY <2>3, Redirected
    <3>. QED
      BY <1>1, <2>1, <3>1 DEF Renamed
  <2>. QED
    BY <1>1, <2>2, <2>3
<1>10. Whole(into, R[Len(undo')], nodes, edges', facts)
  <2>1. edges \subseteq edges'
    BY <1>1
  <2>. QED
    BY <1>2, <1>4, <1>9, <2>1 DEF Whole, Stands
<1>. QED
  BY <1>1, <1>7, <1>8, <1>10 DEF Holding

\* Undoing a merge leaves the edges it found.
LEMMA MergeUndone ==
  ASSUME GraphApart, GraphOK, NEW p \in Person, NEW s \in Person, p # s, NEW shot, shot = People!Snapshot(p, s),
         NEW es, es = People!Without(edges \cup People!Redirects(p, s), s)
  PROVE  Undoes(edges, es, shot)
<1>1. /\ \A e : e \in shot.edges <=> e \in edges /\ (s = e[1] \/ s = e[2])
      /\ \A d : d \in shot.created <=> d \in People!Redirects(p, s) /\ d \notin edges
  BY SnapshotIs
<1>2. \A e : e \in es <=> (e \in edges \/ e \in People!Redirects(p, s)) /\ s # e[1] /\ s # e[2]
  BY WithoutIs
<1>3. \A e : e \in ((es \ shot.created) \cup shot.edges) <=> e \in edges
  BY <1>1, <1>2
<1>. QED
  BY <1>3 DEF Undoes

\* After a merge every relation stands between whatever its ends are merged into.
LEMMA MergeWhole ==
  ASSUME GraphApart, GraphOK, NEW p \in nodes, NEW s \in nodes, p \in Person, s \in Person, p # s,
         NEW r \in [Person -> Person], NEW fs, Whole(into, r, nodes, edges, fs),
         NEW es, es = People!Without(edges \cup People!Redirects(p, s), s)
  PROVE  Whole(Joined(into, <<p, s>>), Onto(r, <<p, s>>), nodes \ {s}, es, fs)
<1>1. \A e : e \in es <=> (e \in edges \/ e \in People!Redirects(p, s)) /\ s # e[1] /\ s # e[2]
  BY WithoutIs
<1>2. /\ \A e \in edges : (s = e[1] \/ s = e[2]) /\ Renamed(e[1], p, s) # Renamed(e[2], p, s) =>
               <<Renamed(e[1], p, s), Renamed(e[2], p, s)>> \in People!Redirects(p, s)
      /\ \A d \in People!Redirects(p, s) : \E e \in edges : d = <<Renamed(e[1], p, s), Renamed(e[2], p, s)>>
  BY Redirected
<1>3. Stands(Onto(r, <<p, s>>), es, fs)
  <2>. SUFFICES ASSUME NEW e \in fs,
                       Pairing(Onto(r, <<p, s>>), e)[1] # Pairing(Onto(r, <<p, s>>), e)[2]
                PROVE  Pairing(Onto(r, <<p, s>>), e) \in es
    BY DEF Stands
  <2>1. PICK d : d = Pairing(r, e) /\ d = <<d[1], d[2]>>
    BY PairingIs
  <2>2. Pairing(Onto(r, <<p, s>>), e) = <<Renamed(d[1], p, s), Renamed(d[2], p, s)>>
    BY <2>1, PairingOnto
  <2>3. Renamed(d[1], p, s) # Renamed(d[2], p, s)
    BY <2>2
  <2>4. d[1] # d[2]
    BY <2>3
  <2>5. d \in edges
    BY <2>1, <2>4 DEF Whole, Stands
  <2>6. CASE s = d[1] \/ s = d[2]
    <3>1. <<Renamed(d[1], p, s), Renamed(d[2], p, s)>> \in People!Redirects(p, s)
      BY <1>2, <2>3, <2>5, <2>6
    <3>2. s # Renamed(d[1], p, s) /\ s # Renamed(d[2], p, s)
      BY DEF Renamed
    <3>. QED
      BY <1>1, <2>2, <3>1, <3>2
  <2>7. CASE s # d[1] /\ s # d[2]
    BY <1>1, <2>1, <2>2, <2>5, <2>7 DEF Renamed
  <2>. QED
    BY <2>6, <2>7
<1>4. Unmerged(Joined(into, <<p, s>>), nodes \ {s})
  BY DEF GraphOK, Whole, Unmerged, Joined
<1>5. ASSUME NEW d \in es PROVE d[1] \in nodes \ {s} /\ d[2] \in nodes \ {s}
  <2>1. \A e \in edges : e[1] \in nodes /\ e[2] \in nodes
    BY DEF Whole
  <2>2. s # d[1] /\ s # d[2]
    BY <1>1
  <2>3. CASE d \in edges
    BY <2>1, <2>2, <2>3
  <2>4. CASE d \in People!Redirects(p, s)
    <3>1. PICK e \in edges : d = <<Renamed(e[1], p, s), Renamed(e[2], p, s)>>
      BY <1>2, <2>4
    <3>. QED
      BY <2>1, <2>2, <3>1 DEF Renamed
  <2>. QED
    BY <1>1, <2>3, <2>4
<1>. QED
  BY <1>3, <1>4, <1>5 DEF Whole

\* The snapshot of a merge that begins fits what the sources asserted.
LEMMA MergeFits ==
  ASSUME GraphApart, GraphOK, NEW p \in Person, NEW s \in Person, NEW shot, shot = People!Snapshot(p, s),
         NEW r, NEW fs, Whole(into, r, nodes, edges, fs)
  PROVE  Matches(into, r, <<p, s>>, shot, fs)
<1>1. /\ \A e : e \in shot.edges <=> e \in edges /\ (s = e[1] \/ s = e[2])
      /\ \A d : d \in shot.created <=> d \in People!Redirects(p, s) /\ d \notin edges
  BY SnapshotIs
<1>2. \A e \in fs : Pairing(r, e)[1] # Pairing(r, e)[2] => Pairing(r, e) \in edges
  BY DEF Whole, Stands
<1>3. \A e \in shot.edges : Unmerged(into, {e[1], e[2]})
  BY <1>1 DEF Whole, Unmerged
<1>4. \A e \in fs : Pairing(r, e)[1] # Pairing(r, e)[2] =>
          IF s \in {Pairing(r, e)[1], Pairing(r, e)[2]}
          THEN Pairing(r, e) \in shot.edges ELSE Pairing(r, e) \notin shot.created
  BY <1>1, <1>2
<1>5. <<p, s>>[2] = s
  OBVIOUS
<1>. QED
  BY <1>3, <1>4, <1>5 DEF Matches

LEMMA MergeStep ==
  ASSUME GraphApart, GraphOK, NEW p \in Person, NEW s \in Person, People!Merge(p, s), ~apart',
         NEW M, NEW R, Holding(M, R)
  PROVE  \E M2, R2 : Holding(M2, R2)'
<1>0. /\ undo \in Seq(Undo) /\ None \notin Person /\ Layered(M, R, undo, into) /\ Len(undo) \in Nat
      /\ snapshots \in [Person \X Person -> Shot \cup {None}] /\ into \in [Person -> Person \cup {None}]
  BY DEF GraphOK, GraphApart, Holding
<1>1. /\ p \in nodes /\ s \in nodes /\ p # s /\ halfway = None
      /\ snapshots' = [snapshots EXCEPT ![<<p, s>>] = People!Snapshot(p, s)]
      /\ nodes' = nodes \ {s}
      /\ edges' = People!Without(edges \cup People!Redirects(p, s), s)
      /\ into' = [into EXCEPT ![s] = p]
      /\ undo' = Append(undo, [pair |-> <<p, s>>, before |-> edges, clean |-> TRUE])
      /\ UNCHANGED <<facts, halfway>>
  BY Zenon DEF People!Merge, People!Attempt
<1>2. Whole(into, R[Len(undo)], nodes, edges, facts)
  BY <1>1 DEF Holding
<1>3. into[p] = None /\ into[s] = None
  BY <1>1, <1>2 DEF Whole, Unmerged
<1>4. PICK t \in Undo : t = [pair |-> <<p, s>>, before |-> edges, clean |-> TRUE]
  BY DEF Undo, GraphOK
<1>5. t.pair = <<p, s>> /\ t.before = edges /\ t.clean = TRUE /\ t.pair[1] = p /\ t.pair[2] = s /\ undo' = Append(undo, t)
  BY <1>1, <1>4
<1>6. into' = Joined(into, t.pair)
  BY <1>1, <1>5 DEF Joined
<1>7. into[t.pair[1]] = None /\ into[t.pair[2]] = None /\ t.pair[1] # t.pair[2]
  BY <1>1, <1>3, <1>5
<1>8. PICK M2, R2 : Taller(M2, R2, M, R, undo, t, into)
  BY <1>0, <1>7, PushedLayer
<1>10. /\ Layered(M2, R2, undo', into')
       /\ \A i \in Nat : i <= Len(undo) => M2[i] = M[i] /\ R2[i] = R[i]
       /\ R2[Len(undo')] = Onto(R[Len(undo)], t.pair)
  BY <1>5, <1>6, <1>8, Zenon DEF Taller
<1>11. /\ Len(undo') = Len(undo) + 1 /\ undo'[Len(undo) + 1] = t
       /\ \A i \in 1..Len(undo) : undo'[i] = undo[i]
  BY <1>0, <1>5, Appended
<1>12. PICK shot : shot = People!Snapshot(p, s)
  OBVIOUS
<1>13. snapshots' = [snapshots EXCEPT ![<<p, s>>] = shot] /\ snapshots'[<<p, s>>] = shot
  BY <1>0, <1>1, <1>12
<1>14. \A i \in 1..Len(undo) : snapshots'[undo[i].pair] = snapshots[undo[i].pair]
  <2>1. \A i \in 1..Len(undo) : undo[i].pair # <<p, s>> /\ undo[i].pair \in Person \X Person
    <3>1. \A i \in 1..Len(undo) : undo[i].pair[2] # s /\ undo[i].pair \in Person \X Person
      BY <1>0, <1>3, OtherPairs
    <3>. QED
      BY <3>1
  <2>. QED
    BY <1>0, <1>13, <2>1
<1>15. M[Len(undo)] = into /\ R[Len(undo)] \in [Person -> Person]
  BY <1>0 DEF Layered
<1>16. Fitting(M2, R2, undo', snapshots', facts)
  <2>1. ASSUME NEW i \in Nat, i < Len(undo'), snapshots'[undo'[i+1].pair] # None
        PROVE  Matches(M2[i], R2[i], undo'[i+1].pair, snapshots'[undo'[i+1].pair], facts)
    <3>1. CASE i < Len(undo)
      <4>1. i <= Len(undo) /\ i + 1 \in 1..Len(undo)
        BY <1>0, <3>1
      <4>2. Fitting(M, R, undo, snapshots', facts)
        BY <1>0, <1>14, FittingStays, Zenon DEF Holding
      <4>3. Matches(M[i], R[i], undo[i+1].pair, snapshots'[undo[i+1].pair], facts)
        BY <1>11, <2>1, <3>1, <4>1, <4>2 DEF Fitting
      <4>. QED
        BY <1>10, <1>11, <4>1, <4>3
    <3>2. CASE i = Len(undo)
      <4>1. Matches(into, R[Len(undo)], <<p, s>>, shot, facts)
        BY <1>2, <1>12, MergeFits
      <4>. QED
        <5>1. M2[i] = into /\ R2[i] = R[Len(undo)]
          BY <1>0, <1>10, <1>15, <3>2
        <5>2. undo'[i+1].pair = <<p, s>>
          BY <1>5, <1>11, <3>2
        <5>. QED
          BY <1>13, <4>1, <5>1, <5>2, Zenon
    <3>. QED
      BY <1>0, <1>11, <2>1, <3>1, <3>2
  <2>. QED
    BY <2>1 DEF Fitting
<1>17. Undoes(edges, edges', shot)
  BY <1>1, <1>12, MergeUndone
<1>18. Undoing(undo', snapshots', edges')
  <2>. SUFFICES ASSUME NEW i \in 1..Len(undo'), undo'[i].clean
                PROVE  /\ i < Len(undo') => undo'[i+1].clean
                       /\ snapshots'[undo'[i].pair] # None =>
                            Undoes(undo'[i].before, IF i = Len(undo') THEN edges' ELSE undo'[i+1].before,
                                   snapshots'[undo'[i].pair])
    BY DEF Undoing
  <2>1. CASE i = Len(undo) + 1
    <3>1. i = Len(undo') /\ ~(i < Len(undo')) /\ undo'[i] = t
      BY <1>0, <1>11, <2>1
    <3>2. snapshots'[undo'[i].pair] = shot /\ undo'[i].before = edges
      BY <1>5, <1>13, <3>1
    <3>. QED
      BY <1>17, <3>1, <3>2
  <2>2. CASE i = Len(undo)
    <3>1. i \in 1..Len(undo) /\ undo'[i] = undo[i] /\ undo'[i+1] = t /\ i # Len(undo')
      BY <1>0, <1>11, <2>2
    <3>2. snapshots[undo[i].pair] # None => Undoes(undo[i].before, edges, snapshots[undo[i].pair])
      BY <2>2, <3>1 DEF Holding, Undoing
    <3>. QED
      BY <1>5, <1>14, <3>1, <3>2
  <2>3. CASE i < Len(undo)
    <3>1. /\ i \in 1..Len(undo) /\ i + 1 \in 1..Len(undo) /\ i # Len(undo') /\ i # Len(undo)
          /\ undo'[i] = undo[i] /\ undo'[i+1] = undo[i+1]
      BY <1>0, <1>11, <2>3
    <3>2. /\ undo[i+1].clean
          /\ snapshots[undo[i].pair] # None => Undoes(undo[i].before, undo[i+1].before, snapshots[undo[i].pair])
      BY <2>3, <3>1 DEF Holding, Undoing
    <3>. QED
      BY <1>14, <3>1, <3>2
  <2>. QED
    BY <1>0, <1>11, <2>1, <2>2, <2>3
<1>19. Whole(into', R2[Len(undo')], nodes', edges', facts)
  <2>1. Whole(Joined(into, <<p, s>>), Onto(R[Len(undo)], <<p, s>>), nodes \ {s}, edges', facts)
    BY <1>1, <1>2, <1>15, MergeWhole, Zenon
  <2>2. into' = Joined(into, <<p, s>>) /\ R2[Len(undo')] = Onto(R[Len(undo)], <<p, s>>) /\ nodes' = nodes \ {s}
    BY <1>1, <1>5, <1>6, <1>10, Zenon
  <2>3. facts' = facts
    BY <1>1
  <2>. QED
    BY <2>1, <2>2, Zenon
<1>20. Holding(M2, R2)'
  BY <1>1, <1>10, <1>16, <1>18, <1>19 DEF Holding
<1>. QED
  BY <1>20

\* What a split, whole or not, finds: the newest merge and its snapshot.
LEMMA NewestMerge ==
  ASSUME GraphApart, GraphOK, NEW p \in Person, NEW s \in Person, People!Newest(p, s), snapshots[<<p, s>>] # None,
         NEW M, NEW R, Holding(M, R), NEW n, n = Len(undo) - 1
  PROVE  /\ n \in Nat /\ Len(undo) = n + 1 /\ n + 1 \in 1..Len(undo) /\ undo # <<>> /\ undo[n+1].pair = <<p, s>>
         /\ undo[Len(undo)].pair = <<p, s>>
         /\ snapshots[<<p, s>>] \in Shot
         /\ p # s /\ M[n][s] = None /\ R[n] \in [Person -> Person] /\ R[n+1] = Onto(R[n], <<p, s>>)
         /\ Matches(M[n], R[n], <<p, s>>, snapshots[<<p, s>>], facts)
<1>0. undo \in Seq(Undo) /\ Layered(M, R, undo, into) /\ Fitting(M, R, undo, snapshots, facts)
  BY DEF GraphOK, Holding
<1>1. undo # <<>> /\ undo[Len(undo)].pair = <<p, s>>
  BY Zenon DEF People!Newest
<1>2. n \in Nat /\ Len(undo) = n + 1 /\ n + 1 \in 1..Len(undo) /\ n < Len(undo)
  <2>1. ASSUME NEW S, NEW u \in Seq(S), u # <<>> PROVE Len(u) \in Nat /\ Len(u) >= 1
    BY <2>1
  <2>2. Len(undo) \in Nat /\ Len(undo) >= 1
    BY <1>0, <1>1, <2>1
  <2>. QED
    BY <2>2
<1>3. undo[n+1].pair = <<p, s>>
  BY <1>1, <1>2
<1>4. snapshots[<<p, s>>] \in Shot
  BY DEF GraphOK
<1>5. Layer(M[n], R[n], M[n+1], R[n+1], <<p, s>>) /\ R[n] \in [Person -> Person]
  BY <1>0, <1>2, <1>3 DEF Layered
<1>6. p # s /\ M[n][s] = None /\ R[n+1] = Onto(R[n], <<p, s>>)
  BY <1>5 DEF Layer
<1>7. Matches(M[n], R[n], <<p, s>>, snapshots[<<p, s>>], facts)
  BY <1>0, <1>2, <1>3 DEF Fitting
<1>. QED
  BY <1>1, <1>2, <1>3, <1>4, <1>5, <1>6, <1>7

\* What the newest merge did not move is there, before its split and during it.
LEMMA StandsApart ==
  ASSUME GraphApart, GraphOK, NEW p \in Person, NEW s \in Person, People!Newest(p, s), snapshots[<<p, s>>] # None,
         NEW M, NEW R, Holding(M, R), NEW n, n = Len(undo) - 1, halfway \in {None, <<p, s>>},
         NEW e \in facts, Pairing(R[n], e)[1] # Pairing(R[n], e)[2],
         s # Pairing(R[n], e)[1], s # Pairing(R[n], e)[2]
  PROVE  Pairing(R[n], e) \in edges /\ Pairing(R[n], e) \notin snapshots[<<p, s>>].created
<1>1. /\ Len(undo) = n + 1 /\ R[n] \in [Person -> Person] /\ R[n+1] = Onto(R[n], <<p, s>>)
      /\ Matches(M[n], R[n], <<p, s>>, snapshots[<<p, s>>], facts)
  BY NewestMerge
<1>2. PICK d : d = Pairing(R[n], e) /\ d = <<d[1], d[2]>>
  BY PairingIs
<1>3. <<p, s>>[2] = s
  OBVIOUS
<1>4. d \notin snapshots[<<p, s>>].created
  BY <1>1, <1>2, <1>3 DEF Matches
<1>5. CASE halfway = None
  <2>1. Stands(R[n+1], edges, facts)
    BY <1>1, <1>5 DEF Holding, Whole
  <2>2. Pairing(R[n+1], e) = <<Renamed(d[1], p, s), Renamed(d[2], p, s)>>
    BY <1>1, <1>2, PairingOnto
  <2>3. Pairing(R[n+1], e) = d
    BY <1>2, <2>2 DEF Renamed
  <2>4. d \in edges
    BY <1>2, <2>1, <2>3 DEF Stands
  <2>. QED
    BY <1>2, <1>4, <2>4
<1>6. CASE halfway = <<p, s>>
  <2>1. halfway # None
    BY <1>6 DEF GraphApart
  <2>2. Partway(M[n], R[n], <<p, s>>, snapshots[<<p, s>>], nodes, edges, facts)
    BY <1>6, <2>1 DEF Holding
  <2>3. d \in edges
    BY <1>2, <1>3, <2>2 DEF Partway
  <2>. QED
    BY <1>2, <1>4, <2>3
<1>. QED
  BY <1>5, <1>6

LEMMA NodesApart ==
  ASSUME GraphApart, GraphOK, NEW p \in Person, NEW s \in Person, People!Newest(p, s), snapshots[<<p, s>>] # None,
         NEW M, NEW R, Holding(M, R), NEW n, n = Len(undo) - 1, halfway \in {None, <<p, s>>}
  PROVE  /\ Unmerged(M[n], nodes \cup {s})
         /\ \A d \in edges : (d[1] \in nodes /\ d[2] \in nodes) \/ d \in snapshots[<<p, s>>].edges
<1>1. n \in Nat /\ Len(undo) = n + 1 /\ M[n][s] = None
  BY NewestMerge
<1>2. CASE halfway = None
  <2>1. Whole(into, R[Len(undo)], nodes, edges, facts) /\ Layered(M, R, undo, into)
    BY <1>2 DEF Holding
  <2>2. \A x \in Person : into[x] = None => M[n][x] = None
    BY <1>1, <2>1 DEF Layered
  <2>. QED
    BY <1>1, <2>1, <2>2 DEF Whole, Unmerged
<1>3. CASE halfway = <<p, s>>
  <2>1. halfway # None
    BY <1>3 DEF GraphApart
  <2>2. Partway(M[n], R[n], <<p, s>>, snapshots[<<p, s>>], nodes, edges, facts)
    BY <1>3, <2>1 DEF Holding
  <2>. QED
    BY <1>1, <2>2 DEF Partway, Unmerged
<1>. QED
  BY <1>2, <1>3

LEMMA SplitFailsStep ==
  ASSUME GraphApart, GraphOK, NEW p \in Person, NEW s \in Person, People!SplitFails(p, s), ~apart',
         NEW M, NEW R, Holding(M, R)
  PROVE  Holding(M, R)'
<1>. DEFINE shot == snapshots[<<p, s>>]
            n == Len(undo) - 1
<1>1. /\ shot # None /\ nodes' = nodes \cup {s} /\ People!Newest(p, s) /\ halfway \in {None, <<p, s>>}
      /\ halfway' = <<p, s>>
      /\ \/ \E gone1 \in SUBSET shot.created : edges' = edges \ gone1
         \/ \E back \in SUBSET shot.edges : edges' = (edges \ shot.created) \cup back
      /\ UNCHANGED <<snapshots, facts, into, undo>>
  BY Zenon DEF People!SplitFails
<1>2. /\ n \in Nat /\ Len(undo) = n + 1 /\ undo # <<>> /\ undo[Len(undo)].pair = <<p, s>>
  BY <1>1, NewestMerge
<1>3. ASSUME NEW e \in facts, Pairing(R[n], e)[1] # Pairing(R[n], e)[2],
             s # Pairing(R[n], e)[1], s # Pairing(R[n], e)[2]
      PROVE  Pairing(R[n], e) \in edges /\ Pairing(R[n], e) \notin shot.created
  BY <1>1, <1>3, StandsApart
<1>4. Unmerged(M[n], nodes \cup {s}) /\ \A d \in edges : (d[1] \in nodes /\ d[2] \in nodes) \/ d \in shot.edges
  BY <1>1, NodesApart
<1>. HIDE DEF shot, n
<1>5. /\ \A d : d \in edges /\ d \notin shot.created => d \in edges'
      /\ \A d : d \in edges' => d \in edges \/ d \in shot.edges
      /\ (edges' \ shot.created) \cup shot.edges = (edges \ shot.created) \cup shot.edges
  BY <1>1
<1>6. Partway(M[n], R[n], <<p, s>>, shot, nodes', edges', facts)
  <2>1. \A e \in facts : Pairing(R[n], e)[1] # Pairing(R[n], e)[2] /\ s # Pairing(R[n], e)[1] /\ s # Pairing(R[n], e)[2]
                         => Pairing(R[n], e) \in edges'
    BY <1>3, <1>5
  <2>2. <<p, s>>[2] = s
    OBVIOUS
  <2>3. \A d \in edges' : (d[1] \in nodes' /\ d[2] \in nodes') \/ d \in shot.edges
    BY <1>1, <1>4, <1>5
  <2>4. Unmerged(M[n], nodes')
    BY <1>1, <1>4
  <2>. QED
    BY <2>1, <2>2, <2>3, <2>4 DEF Partway
<1>7. Undoing(undo, snapshots, edges')
  <2>. SUFFICES ASSUME NEW i \in 1..Len(undo), undo[i].clean
                PROVE  /\ i < Len(undo) => undo[i+1].clean
                       /\ snapshots[undo[i].pair] # None =>
                            Undoes(undo[i].before, IF i = Len(undo) THEN edges' ELSE undo[i+1].before,
                                   snapshots[undo[i].pair])
    BY DEF Undoing
  <2>1. /\ i < Len(undo) => undo[i+1].clean
        /\ snapshots[undo[i].pair] # None =>
             Undoes(undo[i].before, IF i = Len(undo) THEN edges ELSE undo[i+1].before, snapshots[undo[i].pair])
    BY DEF Holding, Undoing
  <2>2. CASE i = Len(undo)
    BY <1>2, <1>5, <2>1, <2>2 DEF Undoes, shot
  <2>3. CASE i # Len(undo)
    BY <2>1, <2>3
  <2>. QED
    BY <2>2, <2>3
<1>8. halfway' # None
  BY <1>1 DEF GraphApart
<1>. QED
  BY <1>1, <1>2, <1>6, <1>7, <1>8 DEF Holding, shot, n

LEMMA SplitStep ==
  ASSUME GraphApart, GraphOK, NEW p \in Person, NEW s \in Person, People!Split(p, s), ~apart',
         NEW M, NEW R, Holding(M, R)
  PROVE  Holding(M, R)'
<1>. DEFINE shot == snapshots[<<p, s>>]
            n == Len(undo) - 1
<1>1. /\ shot # None /\ nodes' = nodes \cup {s} \cup UNION {People!Ends(e) : e \in shot.edges}
      /\ People!Newest(p, s) /\ halfway \in {None, <<p, s>>} /\ halfway' = None
      /\ edges' = (edges \ shot.created) \cup shot.edges
      /\ into' = [into EXCEPT ![s] = None]
      /\ undo' = SubSeq(undo, 1, Len(undo) - 1)
      /\ UNCHANGED <<snapshots, facts>>
  BY Zenon DEF People!Split
<1>2. /\ n \in Nat /\ Len(undo) = n + 1 /\ n + 1 \in 1..Len(undo) /\ undo # <<>>
      /\ undo[n+1].pair = <<p, s>> /\ undo[Len(undo)].pair = <<p, s>>
      /\ Matches(M[n], R[n], <<p, s>>, shot, facts)
  BY <1>1, NewestMerge
<1>3. ASSUME NEW e \in facts, Pairing(R[n], e)[1] # Pairing(R[n], e)[2],
             s # Pairing(R[n], e)[1], s # Pairing(R[n], e)[2]
      PROVE  Pairing(R[n], e) \in edges /\ Pairing(R[n], e) \notin shot.created
  BY <1>1, <1>3, StandsApart
<1>4. Unmerged(M[n], nodes \cup {s}) /\ \A d \in edges : (d[1] \in nodes /\ d[2] \in nodes) \/ d \in shot.edges
  BY <1>1, NodesApart
<1>5. undo \in Seq(Undo) /\ None \notin Person /\ Layered(M, R, undo, into)
  BY DEF GraphOK, GraphApart, Holding
<1>6. undo' \in Seq(Undo) /\ Len(undo') = n /\ \A i \in 1..n : undo'[i] = undo[i]
  BY <1>1, <1>2, <1>5, Popped
<1>7. Layered(M, R, undo', into') /\ into' = M[n]
  <2>1. into' = [into EXCEPT ![undo[Len(undo)].pair[2]] = None]
    BY <1>1, <1>2
  <2>. HIDE DEF shot
  <2>2. undo # <<>> /\ undo' = SubSeq(undo, 1, Len(undo) - 1)
    BY <1>1, <1>2
  <2>. QED
    BY <1>5, <2>1, <2>2, PopLayer, Zenon
<1>. HIDE DEF shot, n
<1>8. Fitting(M, R, undo', snapshots, facts)
  <2>1. ASSUME NEW i \in Nat, i < Len(undo'), snapshots[undo'[i+1].pair] # None
        PROVE  Matches(M[i], R[i], undo'[i+1].pair, snapshots[undo'[i+1].pair], facts)
    <3>1. i < Len(undo) /\ undo'[i+1] = undo[i+1]
      BY <1>2, <1>6, <2>1
    <3>. QED
      BY <2>1, <3>1 DEF Holding, Fitting
  <2>. QED
    BY <2>1 DEF Fitting
<1>9. Undoing(undo', snapshots, edges')
  <2>. SUFFICES ASSUME NEW i \in 1..n, undo'[i].clean
                PROVE  /\ i < n => undo'[i+1].clean
                       /\ snapshots[undo'[i].pair] # None =>
                            Undoes(undo'[i].before, IF i = n THEN edges' ELSE undo'[i+1].before,
                                   snapshots[undo'[i].pair])
    BY <1>6 DEF Undoing
  <2>1. i \in 1..Len(undo) /\ i < Len(undo) /\ i # Len(undo) /\ undo'[i] = undo[i] /\ (i < n => undo'[i+1] = undo[i+1])
    BY <1>2, <1>6
  <2>2. /\ undo[i+1].clean
        /\ snapshots[undo[i].pair] # None => Undoes(undo[i].before, undo[i+1].before, snapshots[undo[i].pair])
    BY <2>1 DEF Holding, Undoing
  <2>3. CASE i = n
    <3>1. Undoes(undo[n+1].before, edges, shot)
      BY <1>1, <1>2, <2>2, <2>3 DEF Holding, Undoing, shot
    <3>2. edges' = undo[n+1].before
      BY <1>1, <3>1 DEF Undoes
    <3>. QED
      BY <2>1, <2>2, <2>3, <3>2
  <2>4. CASE i # n
    <3>1. i < n
      BY <1>2, <2>4
    <3>. QED
      BY <2>1, <2>2, <2>4, <3>1
  <2>. QED
    BY <2>3, <2>4
<1>10. Whole(M[n], R[n], nodes', edges', facts)
  <2>1. Stands(R[n], edges', facts)
    <3>. SUFFICES ASSUME NEW e \in facts, Pairing(R[n], e)[1] # Pairing(R[n], e)[2]
                  PROVE  Pairing(R[n], e) \in edges'
      BY DEF Stands
    <3>1. CASE s # Pairing(R[n], e)[1] /\ s # Pairing(R[n], e)[2]
      BY <1>1, <1>3, <3>1
    <3>2. CASE s = Pairing(R[n], e)[1] \/ s = Pairing(R[n], e)[2]
      <4>1. <<p, s>>[2] = s
        OBVIOUS
      <4>2. Pairing(R[n], e) \in shot.edges
        BY <1>2, <3>2, <4>1 DEF Matches
      <4>. QED
        BY <1>1, <4>2
    <3>. QED
      BY <3>1, <3>2
  <2>2. \A x : x \in nodes' <=> x \in nodes \cup {s} \/ \E e \in shot.edges : x = e[1] \/ x = e[2]
    <3>1. \A x : x \in nodes' <=> x \in nodes \cup {s} \/ \E e \in shot.edges : x \in People!Ends(e)
      BY <1>1
    <3>. QED
      BY <3>1, EndsIs
  <2>3. Unmerged(M[n], nodes')
    <3>1. \A e \in shot.edges : Unmerged(M[n], {e[1], e[2]})
      BY <1>2 DEF Matches
    <3>. QED
      BY <1>4, <2>2, <3>1 DEF Unmerged
  <2>4. \A d \in edges' : d[1] \in nodes' /\ d[2] \in nodes'
    BY <1>1, <1>4, <2>2
  <2>. QED
    BY <2>1, <2>3, <2>4 DEF Whole
<1>11. Whole(into', R[Len(undo')], nodes', edges', facts)
  BY <1>6, <1>7, <1>10
<1>. QED
  BY <1>1, <1>7, <1>8, <1>9, <1>11 DEF Holding

LEMMA RestoredStep ==
  ASSUME GraphApart, GraphInv, NEW p \in Person, NEW s \in Person, People!Split(p, s)
  PROVE  restored'
<1>. DEFINE shot == snapshots[<<p, s>>]
            top1 == undo[Len(undo)]
<1>1. CASE ~People!Newest(p, s)
  <2>1. restored' = restored
    BY <1>1, Zenon DEF People!Split
  <2>. QED
    BY <2>1, Zenon DEF GraphInv
<1>2. CASE People!Newest(p, s)
  <2>1. /\ edges' = (edges \ shot.created) \cup shot.edges /\ shot # None
        /\ restored' = (top1.clean /\ ~apart => edges' = top1.before)
    BY <1>2, Zenon DEF People!Split
  <2>2. ASSUME top1.clean, ~apart PROVE edges' = top1.before
    <3>1. PICK M, R : Holding(M, R)
      BY <2>2, Zenon DEF GraphInv
    <3>2. GraphOK
      BY Zenon DEF GraphInv
    <3>3. Len(undo) \in 1..Len(undo) /\ top1.pair = <<p, s>>
      BY <1>2, <2>1, <3>1, <3>2, NewestMerge
    <3>4. Undoes(top1.before, edges, shot)
      BY <2>1, <2>2, <3>1, <3>3 DEF Holding, Undoing
    <3>. QED
      BY <2>1, <3>4 DEF Undoes
  <2>. QED
    BY <2>1, <2>2, Zenon
<1>. QED
  BY <1>1, <1>2

LEMMA SourceTypes ==
  ASSUME GraphApart, GraphOK,
         \/ \E n \in Person : People!UpsertNode(n)
         \/ \E e \in Relation : People!UpsertEdge(e)
         \/ People!Restart
  PROVE  GraphOK' /\ (apart => apart')
<1>1. ASSUME NEW n \in Person, People!UpsertNode(n) PROVE GraphOK' /\ (apart => apart')
  <2>1. /\ nodes' = nodes \cup {n} /\ apart' = (apart \/ People!Absorbed({n}) \/ halfway # None)
        /\ UNCHANGED <<edges, snapshots, facts, into, undo, halfway, restored>>
    BY <1>1, Zenon DEF People!UpsertNode
  <2>2. apart' \in BOOLEAN /\ (apart => apart')
    BY <2>1, Zenon
  <2>3. nodes' \subseteq Being
    BY <2>1, PersonIs DEF GraphOK
  <2>. QED
    BY <2>1, <2>2, <2>3, Zenon DEF GraphOK
<1>2. ASSUME NEW e \in Relation, People!UpsertEdge(e) PROVE GraphOK' /\ (apart => apart')
  <2>1. /\ nodes' = nodes \cup People!Ends(e) /\ edges' = edges \cup {e} /\ facts' = facts \cup {e}
        /\ apart' = \/ apart \/ People!Absorbed(People!Ends(e)) \/ halfway # None
                    \/ \E k \in People!Pair : snapshots[k] # None /\ e \in snapshots[k].created
        /\ undo' = Stale(undo)
        /\ UNCHANGED <<snapshots, into, halfway, restored>>
    BY <1>2, Zenon DEF People!UpsertEdge, Stale
  <2>2. apart' \in BOOLEAN /\ (apart => apart')
    BY <2>1, Zenon
  <2>3. e[1] \in Being /\ e[2] \in Being /\ e \in Link
    <3>1. e[1] \in Being /\ e[2] \in Being
      BY DEF Being
    <3>2. e = <<e[1], e[2]>>
      BY DEF GraphApart
    <3>. QED
      BY <3>1, <3>2 DEF Link
  <2>4. nodes' \subseteq Being /\ edges' \subseteq Link /\ facts' \subseteq Relation
    BY <2>1, <2>3, EndsIs DEF GraphOK
  <2>5. undo' \in Seq(Undo)
    BY <2>1, Unclean DEF GraphOK
  <2>. QED
    BY <2>1, <2>2, <2>4, <2>5, Zenon DEF GraphOK
<1>3. ASSUME People!Restart PROVE GraphOK' /\ (apart => apart')
  <2>1. /\ snapshots' = [k \in Person \X Person |-> None]
        /\ UNCHANGED <<nodes, edges, facts, into, undo, halfway, apart, restored>>
    BY <1>3, Zenon DEF People!Restart, People!Pair
  <2>2. snapshots' \in [Person \X Person -> Shot \cup {None}]
    BY <2>1
  <2>. QED
    BY <2>1, <2>2, Zenon DEF GraphOK
<1>. QED
  BY <1>1, <1>2, <1>3

LEMMA MergeTypes ==
  ASSUME GraphApart, GraphOK, NEW p \in Person, NEW s \in Person, People!Merge(p, s) \/ People!MergeFails(p, s)
  PROVE  GraphOK' /\ (apart => apart')
<1>1. /\ snapshots' = [snapshots EXCEPT ![<<p, s>>] = People!Snapshot(p, s)]
      /\ apart' = (apart \/ p = s \/ halfway # None)
      /\ UNCHANGED <<facts, halfway, restored>>
  BY Zenon DEF People!Merge, People!MergeFails, People!Attempt
<1>2. apart' \in BOOLEAN /\ (apart => apart')
  BY <1>1, Zenon
<1>3. PICK shot \in Shot : shot = People!Snapshot(p, s)
  BY SnapshotIs
<1>4. snapshots' \in [Person \X Person -> Shot \cup {None}]
  BY <1>1, <1>3 DEF GraphOK
<1>5. People!Redirects(p, s) \subseteq Link /\ edges \subseteq Link
  BY Redirected DEF GraphOK
<1>6. CASE People!Merge(p, s)
  <2>1. /\ nodes' = nodes \ {s} /\ edges' = People!Without(edges \cup People!Redirects(p, s), s)
        /\ into' = [into EXCEPT ![s] = p]
        /\ undo' = Append(undo, [pair |-> <<p, s>>, before |-> edges, clean |-> TRUE])
    BY <1>6, Zenon DEF People!Merge
  <2>2. edges' \subseteq Link
    BY <1>5, <2>1, WithoutIs
  <2>3. undo' \in Seq(Undo)
    <3>1. PICK t \in Undo : t = [pair |-> <<p, s>>, before |-> edges, clean |-> TRUE]
      BY <1>5 DEF Undo
    <3>. QED
      BY <2>1, <3>1 DEF GraphOK
  <2>4. nodes' \subseteq Being /\ into' \in [Person -> Person \cup {None}]
    BY <2>1 DEF GraphOK
  <2>. QED
    BY <1>1, <1>2, <1>4, <2>2, <2>3, <2>4, Zenon DEF GraphOK
<1>7. CASE People!MergeFails(p, s)
  <2>1. /\ UNCHANGED <<nodes, into>>
        /\ \E done \in SUBSET People!Redirects(p, s) : edges' = edges \cup done
        /\ undo' = Stale(undo)
    BY <1>7, Zenon DEF People!MergeFails, Stale
  <2>2. edges' \subseteq Link
    BY <1>5, <2>1
  <2>3. undo' \in Seq(Undo)
    BY <2>1, Unclean DEF GraphOK
  <2>. QED
    BY <1>1, <1>2, <1>4, <2>1, <2>2, <2>3, Zenon DEF GraphOK
<1>. QED
  BY <1>6, <1>7

LEMMA SplitTypes ==
  ASSUME GraphApart, GraphOK, NEW p \in Person, NEW s \in Person, People!Split(p, s) \/ People!SplitFails(p, s)
  PROVE  GraphOK' /\ (apart => apart')
<1>. DEFINE shot == snapshots[<<p, s>>]
<1>1. /\ apart' = (apart \/ ~People!Newest(p, s) \/ halfway \notin {None, <<p, s>>})
      /\ shot # None /\ UNCHANGED <<snapshots, facts>>
  BY Zenon DEF People!Split, People!SplitFails
<1>2. apart' \in BOOLEAN /\ (apart => apart')
  BY <1>1, Zenon
<1>3. shot \in Shot
  BY <1>1 DEF GraphOK
<1>4. shot.edges \subseteq Link /\ shot.created \subseteq Link
  BY <1>3 DEF Shot
<1>. HIDE DEF shot
<1>5. CASE People!Split(p, s)
  <2>1. /\ nodes' = nodes \cup {s} \cup UNION {People!Ends(e) : e \in shot.edges}
        /\ edges' = (edges \ shot.created) \cup shot.edges
        /\ into' = [into EXCEPT ![s] = None] /\ halfway' = None
        /\ \/ /\ People!Newest(p, s) /\ undo' = SubSeq(undo, 1, Len(undo) - 1)
              /\ restored' = (undo[Len(undo)].clean /\ ~apart => edges' = undo[Len(undo)].before)
           \/ UNCHANGED <<undo, restored>>
    BY <1>5, Zenon DEF People!Split, shot
  <2>2. restored' \in BOOLEAN
    BY <2>1, Zenon DEF GraphOK
  <2>3. undo' \in Seq(Undo)
    <3>1. CASE undo' = undo
      BY <3>1 DEF GraphOK
    <3>2. CASE People!Newest(p, s) /\ undo' = SubSeq(undo, 1, Len(undo) - 1)
      <4>1. undo # <<>>
        BY <3>2, Zenon DEF People!Newest
      <4>. QED
        BY <3>2, <4>1, Popped DEF GraphOK
    <3>. QED
      BY <2>1, <3>1, <3>2
  <2>4. edges' \subseteq Link
    BY <1>4, <2>1 DEF GraphOK
  <2>5. nodes' \subseteq Being
    <3>1. \A e \in shot.edges : People!Ends(e) = {e[1], e[2]} /\ e[1] \in Being /\ e[2] \in Being
      BY <1>4, LinkIs, EndsIs
    <3>2. \A x \in nodes' : x \in nodes \/ x = s \/ \E e \in shot.edges : x \in People!Ends(e)
      BY <2>1
    <3>3. \A x \in nodes : x \in Being
      BY DEF GraphOK
    <3>4. s \in Being
      BY PersonIs
    <3>. QED
      BY <3>1, <3>2, <3>3, <3>4
  <2>6. into' \in [Person -> Person \cup {None}]
    BY <2>1 DEF GraphOK
  <2>7. halfway' \in (Person \X Person) \cup {None}
    BY <2>1
  <2>. QED
    BY <1>1, <1>2, <2>2, <2>3, <2>4, <2>5, <2>6, <2>7, Zenon DEF GraphOK
<1>6. CASE People!SplitFails(p, s)
  <2>1. /\ nodes' = nodes \cup {s} /\ halfway' = <<p, s>> /\ UNCHANGED <<into, undo, restored>>
        /\ \/ \E gone1 \in SUBSET shot.created : edges' = edges \ gone1
           \/ \E back \in SUBSET shot.edges : edges' = (edges \ shot.created) \cup back
    BY <1>6, Zenon DEF People!SplitFails, shot
  <2>2. edges' \subseteq Link /\ nodes' \subseteq Being
    BY <1>4, <2>1, PersonIs DEF GraphOK
  <2>3. halfway' \in (Person \X Person) \cup {None}
    BY <2>1
  <2>. QED
    BY <1>1, <1>2, <2>1, <2>2, <2>3, Zenon DEF GraphOK
<1>. QED
  BY <1>5, <1>6

LEMMA GraphInit == ASSUME GraphApart, People!Init PROVE GraphInv
<1>1. /\ nodes = {} /\ edges = {} /\ snapshots = [k \in Person \X Person |-> None] /\ facts = {}
      /\ into = [x \in Person |-> None] /\ undo = <<>> /\ halfway = None /\ apart = FALSE /\ restored = TRUE
  BY Zenon DEF People!Init, People!Pair
<1>2. GraphOK
  <2>1. snapshots \in [Person \X Person -> Shot \cup {None}] /\ into \in [Person -> Person \cup {None}]
    BY <1>1
  <2>2. undo \in Seq(Undo)
    BY <1>1
  <2>3. apart \in BOOLEAN /\ restored \in BOOLEAN
    BY <1>1, Zenon
  <2>. QED
    BY <1>1, <2>1, <2>2, <2>3, Zenon DEF GraphOK
<1>. DEFINE r == [x \in Person |-> x]
            M == [i \in Nat |-> into]
            R == [i \in Nat |-> r]
<1>3. Resolves(into, r)
  <2>1. \A g : Climb(into, g) = r
    BY <1>1 DEF Climb
  <2>. QED
    BY <2>1, Zenon DEF Resolves
<1>4. M \in [Nat -> [Person -> Person \cup {None}]] /\ R \in [Nat -> [Person -> Person]]
  BY <1>2 DEF GraphOK
<1>5. \A i \in Nat : M[i] = into /\ R[i] = r
  OBVIOUS
<1>. HIDE DEF r, M, R
<1>6. Len(undo) = 0
  BY <1>1
<1>7. Layered(M, R, undo, into)
  BY <1>3, <1>4, <1>5, <1>6 DEF Layered
<1>8. Fitting(M, R, undo, snapshots, facts) /\ Undoing(undo, snapshots, edges)
  BY <1>6 DEF Fitting, Undoing
<1>9. Whole(into, R[Len(undo)], nodes, edges, facts)
  BY <1>1 DEF Whole, Stands, Unmerged
<1>10. Holding(M, R)
  BY <1>1, <1>7, <1>8, <1>9 DEF Holding
<1>. QED
  BY <1>1, <1>2, <1>10, Zenon DEF GraphInv

LEMMA GraphNext == ASSUME GraphApart, GraphInv, People!Next PROVE GraphInv'
<1>0. GraphOK /\ restored
  BY Zenon DEF GraphInv
<1>1. GraphOK' /\ (apart => apart')
  BY <1>0, SourceTypes, MergeTypes, SplitTypes, Zenon DEF People!Next
<1>2. restored'
  <2>1. CASE \E p, s \in Person : People!Split(p, s)
    BY <2>1, RestoredStep
  <2>2. CASE ~\E p, s \in Person : People!Split(p, s)
    <3>1. restored' = restored
      BY <2>2, Zenon DEF People!Next, People!UpsertNode, People!UpsertEdge, People!Merge, People!MergeFails,
                         People!SplitFails, People!Restart, People!Attempt
    <3>. QED
      BY <1>0, <3>1, Zenon
  <2>. QED
    BY <2>1, <2>2
<1>3. ASSUME ~apart' PROVE \E M, R : Holding(M, R)'
  <2>1. PICK M, R : Holding(M, R)
    BY <1>1, <1>3, Zenon DEF GraphInv
  <2>2. CASE \E n \in Person : People!UpsertNode(n)
    BY <1>0, <1>3, <2>1, <2>2, NodeStep
  <2>3. CASE \E e \in Relation : People!UpsertEdge(e)
    BY <1>0, <1>3, <2>1, <2>3, EdgeStep
  <2>4. CASE \E p, s \in Person : People!Merge(p, s)
    BY <1>0, <1>3, <2>1, <2>4, MergeStep
  <2>5. CASE \E p, s \in Person : People!MergeFails(p, s)
    BY <1>0, <1>3, <2>1, <2>5, MergeFailsStep
  <2>6. CASE \E p, s \in Person : People!Split(p, s)
    BY <1>0, <1>3, <2>1, <2>6, SplitStep
  <2>7. CASE \E p, s \in Person : People!SplitFails(p, s)
    BY <1>0, <1>3, <2>1, <2>7, SplitFailsStep
  <2>8. CASE People!Restart
    BY <1>0, <1>3, <2>1, <2>8, RestartsStep
  <2>. QED
    BY <2>2, <2>3, <2>4, <2>5, <2>6, <2>7, <2>8, Zenon DEF People!Next
<1>. QED
  BY <1>1, <1>2, <1>3, Zenon DEF GraphInv

\* Where everyone is found, as PersonGraph computes it.
LEMMA NowIs ==
  ASSUME NEW r \in [Person -> Person], Resolves(into, r)
  PROVE  \A e \in Relation : People!Now[e[1]] = FoundAs(r, e[1]) /\ People!Now[e[2]] = FoundAs(r, e[2])
<1>1. r = [n \in Person |-> IF into[n] = None THEN n ELSE r[into[n]]]
  BY Zenon DEF Resolves, Climb
<1>2. \A g : g = [n \in Person |-> IF into[n] = None THEN n ELSE g[into[n]]] => g = r
  BY Zenon DEF Resolves, Climb
<1>3. (CHOOSE f : f = [n \in Person |-> IF into[n] = None THEN n ELSE f[into[n]]]) = r
  BY <1>1, <1>2, Zenon
<1>4. \A x \in UNION {People!Ends(e) : e \in Relation} : People!Now[x] = IF x \in Person THEN r[x] ELSE x
  <2>. DEFINE f1 == CHOOSE f : f = [n \in Person |-> IF into[n] = None THEN n ELSE f[into[n]]]
  <2>1. f1 = r
    BY <1>3, Zenon
  <2>2. People!Now = [n \in UNION {People!Ends(e) : e \in Relation} |-> IF n \in Person THEN f1[n] ELSE n]
    BY Zenon DEF People!Now
  <2>. HIDE DEF f1
  <2>. QED
    BY <2>1, <2>2
<1>5. \A e \in Relation : e[1] \in UNION {People!Ends(d) : d \in Relation} /\ e[2] \in UNION {People!Ends(d) : d \in Relation}
  <2>1. \A e \in Relation : e[1] \in People!Ends(e) /\ e[2] \in People!Ends(e)
    BY EndsIs
  <2>. QED
    BY <2>1
<1>. QED
  BY <1>4, <1>5 DEF FoundAs

\* No merge, cut short or not, and no undoing of the newest merge loses a relation
\* that a source asserted, and undoing leaves exactly the edges that the merge had
\* found; for any persons, relations, merges and failures (PersonGraph).
THEOREM RelationsAreKept == Spec => []RelationsStand
<1>0. GraphApart
  BY GraphAssumption DEF GraphApart, Link, Shot, Being
<1>1. Init => GraphInv
  BY <1>0, GraphInit DEF Init
<1>2. GraphInv /\ [Next]_all => GraphInv'
  <2>. SUFFICES ASSUME GraphInv, [Next]_all PROVE GraphInv'
    OBVIOUS
  <2>1. People!Next \/ UNCHANGED graph
    BY Zenon DEF Next, all
  <2>2. CASE UNCHANGED graph
    <3>1. UNCHANGED <<nodes, edges, snapshots, facts, into, undo, halfway, apart, restored>>
      BY <2>2, Zenon DEF graph
    <3>2. GraphOK'
      BY <3>1, Zenon DEF GraphInv, GraphOK
    <3>3. ASSUME NEW M, NEW R, Holding(M, R) PROVE Holding(M, R)'
      BY <3>1, <3>3, Zenon DEF Holding
    <3>. QED
      BY <3>1, <3>2, <3>3, Zenon DEF GraphInv
  <2>. QED
    BY <1>0, <2>1, <2>2, GraphNext
<1>3. GraphInv => RelationsStand
  <2>. SUFFICES ASSUME GraphInv PROVE People!RelationsStand
    BY Zenon DEF RelationsStand
  <2>0. GraphOK /\ restored
    BY Zenon DEF GraphInv
  <2>1. ASSUME ~apart, halfway = None, NEW e \in facts, People!Now[e[1]] # People!Now[e[2]]
        PROVE  <<People!Now[e[1]], People!Now[e[2]]>> \in edges
    <3>1. PICK M, R : Holding(M, R)
      BY <2>1, Zenon DEF GraphInv
    <3>. DEFINE r == R[Len(undo)]
    <3>2. Len(undo) \in Nat
      BY <2>0 DEF GraphOK
    <3>3. r \in [Person -> Person] /\ Resolves(into, r) /\ Stands(r, edges, facts)
      BY <2>1, <3>1, <3>2 DEF Holding, Layered, Whole
    <3>. HIDE DEF r
    <3>4. e \in Relation
      BY <2>0 DEF GraphOK
    <3>5. People!Now[e[1]] = FoundAs(r, e[1]) /\ People!Now[e[2]] = FoundAs(r, e[2])
      BY <3>3, <3>4, NowIs
    <3>6. Pairing(r, e) = <<FoundAs(r, e[1]), FoundAs(r, e[2])>>
      BY DEF Pairing
    <3>. QED
      BY <2>1, <3>3, <3>5, <3>6, PairingIs DEF Stands
  <2>. QED
    BY <2>0, <2>1, Zenon DEF People!RelationsStand
<1>. QED
  BY <1>1, <1>2, <1>3, PTL DEF Spec
=============================================================================
