--------------------------- MODULE SessionsProofs ---------------------------
(* Theorems about Sessions, for every set of users, tabs and requests and    *)
(* every bound.                                                              *)
EXTENDS Sessions, TLAPS

-----------------------------------------------------------------------------
(* Type correctness. *)

\* The initial values are of their types.
LEMMA TypeInit == Init => TypeOK
BY BoundsAssumption DEF Init, TypeOK, Grant, NoClaim, Store

\* What an exchange is about is a grant.
ExchangesGrant == \A r \in Request :
    pc[r] \in {"check", "select", "block", "retire", "persist", "row"} => of[r] \in Grant

TypeInv == TypeOK /\ ExchangesGrant

\* What a request holds when it ends, and the tabs after an answer or a 401.
ServerOK == /\ pc \in [Request -> {"idle", "login", "check", "select", "block", "retire", "persist",
                                   "answer", "row", "publish", "collect", "mark", "commit"}]
            /\ who \in [Request -> User \cup {None}]
            /\ of \in [Request -> 0..MaxGrants]
            /\ ver \in [Request -> Nat]
            /\ held \in [Request -> SUBSET Grant]

ClientOK == /\ holds \in [Tab -> 0..MaxGrants]
            /\ waits \in [Tab -> Request \cup {None}]
            /\ disk \in 0..MaxGrants

LEMMA FinishTypes == ASSUME ServerOK, NEW r \in Request, Finish(r) PROVE ServerOK'
<1>1. 0 \in 0..MaxGrants
  BY BoundsAssumption
<1>. QED
  BY <1>1 DEF ServerOK, Finish

LEMMA ClientTypes ==
  ASSUME ServerOK, ClientOK, NEW r \in Request, Answer(r) \/ SignOut(r) PROVE ClientOK'
<1>1. 0 \in 0..MaxGrants /\ of[r] \in 0..MaxGrants
  BY BoundsAssumption DEF ServerOK
<1>2. CASE Answer(r)
  BY <1>1, <1>2 DEF ClientOK, Answer
<1>3. CASE SignOut(r)
  BY <1>1, <1>3 DEF ClientOK, SignOut
<1>. QED
  BY <1>2, <1>3

\* A set of grants is added to those Redis refuses.
LEMMA BlockTypes ==
  ASSUME blocked \in [Store -> SUBSET Grant], NEW G \in SUBSET Grant,
         blocked' = [blocked EXCEPT ![Reached] = @ \cup G]
  PROVE  blocked' \in [Store -> SUBSET Grant]
OBVIOUS

\* Every step keeps the types: one step per action.
LEMMA TypeStep == ASSUME TypeInv, [Next]_vars PROVE TypeOK'
<1>. USE DEF TypeInv, TypeOK, redis, tokens, server, client
<1>a. ServerOK /\ ClientOK
  BY DEF ServerOK, ClientOK
<1>b. \A r \in Request : Finish(r) => ServerOK'
  BY <1>a, FinishTypes
<1>c. \A r \in Request : Answer(r) \/ SignOut(r) => ClientOK'
  BY <1>a, ClientTypes
<1>1. ASSUME NEW r \in Request, NEW t \in Tab, Refresh(r, t) PROVE TypeOK'
  BY <1>1 DEF Refresh, Goto
<1>2. ASSUME NEW r \in Request, NEW t \in Tab, NEW u \in User, Login(r, t, u) PROVE TypeOK'
  BY <1>2 DEF Login, Goto
<1>3. ASSUME NEW r \in Request, Validate(r) PROVE TypeOK'
  BY <1>3 DEF Validate, Goto
<1>4. ASSUME NEW r \in Request, SelectRow(r) PROVE TypeOK'
  BY <1>4 DEF SelectRow, Goto
<1>5. ASSUME NEW r \in Request, BlockOld(r) PROVE TypeOK'
  <2>1. {of[r]} \in SUBSET Grant
    BY <1>5 DEF BlockOld, ExchangesGrant
  <2>. QED
    BY <1>5, <2>1, BlockTypes DEF BlockOld, Goto
<1>6. ASSUME NEW r \in Request, RetireOld(r) PROVE TypeOK'
  BY <1>6 DEF RetireOld, Goto
<1>7. ASSUME NEW r \in Request, Answer(r) PROVE TypeOK'
  BY <1>7, <1>b, <1>c DEF Answer, ServerOK, ClientOK
<1>8. ASSUME NEW r \in Request, Refused(r) PROVE TypeOK'
  BY <1>8, <1>b, <1>c DEF Refused, ServerOK, ClientOK
<1>9. ASSUME NEW r \in Request, Fail(r) PROVE TypeOK'
  BY <1>9, <1>b, <1>c DEF Fail, Fault, ServerOK, ClientOK
<1>10. ASSUME NEW r \in Request, NEW g \in Grant, RevokeRow(r, g) PROVE TypeOK'
  <2>1. g \in 0..MaxGrants
    BY BoundsAssumption DEF Grant
  <2>. QED
    BY <1>10, <2>1 DEF RevokeRow, Goto
<1>11. ASSUME NEW r \in Request, RevokeJti(r) PROVE TypeOK'
  <2>1. {of[r]} \in SUBSET Grant
    BY <1>11 DEF RevokeJti, ExchangesGrant
  <2>. QED
    BY <1>11, <1>b, <2>1, BlockTypes DEF RevokeJti, ServerOK
<1>12. ASSUME NEW r \in Request, NEW u \in User, ReadUser(r, u) PROVE TypeOK'
  BY <1>12 DEF ReadUser, Goto
<1>13. ASSUME NEW r \in Request, PublishVersion(r) PROVE TypeOK'
  BY <1>13 DEF PublishVersion, Goto
<1>14. ASSUME NEW r \in Request, CollectRows(r) PROVE TypeOK'
  BY <1>14 DEF CollectRows, Goto
<1>15. ASSUME NEW r \in Request, BlockHeld(r) PROVE TypeOK'
  <2>1. held[r] \in SUBSET Grant
    OBVIOUS
  <2>. QED
    BY <1>15, <2>1, BlockTypes DEF BlockHeld, Goto
<1>16. ASSUME NEW r \in Request, CommitSession(r) PROVE TypeOK'
  BY <1>16, <1>b DEF CommitSession, ServerOK
<1>17. ASSUME NEW t \in Tab, Drop(t) PROVE TypeOK'
  BY <1>17 DEF Drop, Fault
<1>18. ASSUME NEW t \in Tab, Reload(t) PROVE TypeOK'
  BY <1>18 DEF Reload
<1>19. ASSUME NEW r \in Request, NEW u \in User \cup {None}, NEW c \in Nat \cup {NoClaim}, NEW p \in 0..MaxGrants,
             Mint(r, u, c, p)
      PROVE  TypeOK'
  <2>1. minted' \in Grant /\ minted' \in 0..MaxGrants
    BY <1>19, BoundsAssumption DEF Mint, Issue, Grant
  <2>. QED
    BY <1>19, <2>1 DEF Mint, Issue, Goto
<1>20. ASSUME NEW r \in Request, LoginMint(r) PROVE TypeOK'
  <2>1. who[r] \in User \cup {None} /\ ver[r] \in Nat \cup {NoClaim} /\ 0 \in 0..MaxGrants
    BY BoundsAssumption
  <2>. QED
    BY <1>19, <1>20, <2>1 DEF LoginMint
<1>21. ASSUME NEW r \in Request, PersistNew(r) PROVE TypeOK'
  <2>1. owner[of[r]] \in User \cup {None} /\ of[r] \in 0..MaxGrants
    BY <1>21 DEF PersistNew, ExchangesGrant
  <2>. QED
    BY <1>19, <1>21, <2>1 DEF PersistNew
<1>22. CASE RedisDown
  <2>1. up' \in BOOLEAN
    BY <1>22, Zenon DEF RedisDown
  <2>2. Fault
    BY <1>22, Zenon DEF RedisDown
  <2>3. faults' \in Nat
    BY <2>2 DEF Fault
  <2>. QED
    BY <1>22, <2>1, <2>3 DEF RedisDown
<1>23. CASE RedisUp
  BY <1>23 DEF RedisUp
<1>24. CASE UNCHANGED vars
  BY <1>24 DEF vars
<1>. QED
  BY <1>1, <1>2, <1>3, <1>4, <1>5, <1>6, <1>7, <1>8, <1>9, <1>10, <1>11, <1>12, <1>13, <1>14, <1>15, <1>16, <1>17, <1>18, <1>20, <1>21, <1>22, <1>23, <1>24
     DEF Next, Serve

\* A tab refreshes with a token it holds.
LEMMA ExchangeStep == ASSUME TypeInv, [Next]_vars PROVE ExchangesGrant'
<1>. USE DEF TypeInv, TypeOK, ExchangesGrant, server, Goto
<1>1. ASSUME NEW r \in Request, NEW t \in Tab, Refresh(r, t) PROVE ExchangesGrant'
  <2>1. holds[t] \in Grant
    BY <1>1, BoundsAssumption DEF Refresh, Grant
  <2>. QED
    BY <1>1, <2>1 DEF Refresh
<1>2. ASSUME NEW r \in Request, NEW t \in Tab, NEW u \in User, Login(r, t, u) PROVE ExchangesGrant'
  BY <1>2 DEF Login
<1>3. ASSUME NEW r \in Request, Serve(r) \/ Fail(r) PROVE ExchangesGrant'
  BY <1>3 DEF Serve, Fail, Finish, LoginMint, PersistNew, Mint, Validate, SelectRow, BlockOld, RetireOld,
     Answer, Refused, RevokeJti, PublishVersion, CollectRows, BlockHeld, CommitSession
<1>4. ASSUME NEW r \in Request, \/ \E g \in Grant : RevokeRow(r, g)
                                \/ \E u \in User : ReadUser(r, u)
      PROVE  ExchangesGrant'
  BY <1>4 DEF RevokeRow, ReadUser
<1>5. CASE UNCHANGED server
  BY <1>5
<1>6. ASSUME NEW t \in Tab, Drop(t) \/ Reload(t) PROVE UNCHANGED server
  BY <1>6 DEF Drop, Reload
<1>7. RedisDown \/ RedisUp \/ UNCHANGED vars => UNCHANGED server
  BY DEF RedisDown, RedisUp, vars
<1>. QED
  BY <1>1, <1>2, <1>3, <1>4, <1>5, <1>6, <1>7 DEF Next

\* Every variable keeps to its values, for every instance.
THEOREM TypeCorrect == Spec => []TypeOK
<1>1. Init => TypeInv
  BY TypeInit DEF Init, TypeInv, ExchangesGrant
<1>2. TypeInv /\ [Next]_vars => TypeInv'
  BY TypeStep, ExchangeStep DEF TypeInv
<1>. QED
  BY <1>1, <1>2, PTL DEF Spec, TypeInv

-----------------------------------------------------------------------------
(* Rotation.  Grants are numbered as they are issued, everything in hand is  *)
(* one of those issued, and a request that is about to insert the new pair   *)
(* has retired the old one.                                                  *)

Issued == /\ \A g \in Grant : row[g] # "none" \/ parent[g] # 0 => g <= minted
          /\ \A r \in Request : of[r] <= minted /\ \A g \in held[r] : g <= minted
          /\ \A t \in Tab : holds[t] <= minted
          /\ disk <= minted

PersistsRetired == \A r \in Request : pc[r] = "persist" => row[of[r]] = "revoked"

RotationInv == Issued /\ PersistsRetired /\ RotationRetires

LEMMA RotationInit == Init => RotationInv
BY BoundsAssumption DEF Init, RotationInv, Issued, PersistsRetired, RotationRetires, Grant

\* A revoked row stays so: the only row a step makes live is that of a grant
\* not issued before.
LEMMA RevokedStays ==
  ASSUME TypeOK, Issued, [Next]_vars, NEW g \in Grant, row[g] = "revoked" PROVE row'[g] = "revoked"
<1>. USE DEF TypeOK, tokens
<1>1. ASSUME NEW r \in Request, LoginMint(r) \/ PersistNew(r) PROVE row'[g] = "revoked"
  <2>1. row' = [row EXCEPT ![minted + 1] = "live"] /\ g <= minted /\ minted \in Nat /\ g \in Nat
    BY <1>1 DEF LoginMint, PersistNew, Mint, Issue, Issued, Grant
  <2>. QED
    BY <2>1
<1>2. ASSUME NEW r \in Request, RetireOld(r) \/ CommitSession(r) \/ \E h \in Grant : RevokeRow(r, h)
      PROVE  row'[g] = "revoked"
  BY <1>2 DEF RetireOld, CommitSession, RevokeRow
<1>3. \/ row' = row
      \/ \E r \in Request : \/ RetireOld(r) \/ CommitSession(r) \/ \E h \in Grant : RevokeRow(r, h)
                            \/ LoginMint(r) \/ PersistNew(r)
  BY DEF Next, vars, Serve, Refresh, Login, Validate, SelectRow, BlockOld, RevokeJti,
     Answer, Refused, Fail, ReadUser, PublishVersion, CollectRows, BlockHeld, Drop, Reload, RedisDown, RedisUp
<1>. QED
  BY <1>1, <1>2, <1>3

\* Only an insertion of a pair changes the parents.
LEMMA ParentStays ==
  ASSUME [Next]_vars, ~\E r \in Request : LoginMint(r) \/ PersistNew(r)
  PROVE  UNCHANGED <<minted, parent>>
BY DEF Next, vars, tokens, Serve, Refresh, Login, Validate, SelectRow, BlockOld, RetireOld, RevokeJti, Answer,
   Refused, Fail, RevokeRow, ReadUser, PublishVersion, CollectRows, BlockHeld, CommitSession, Drop, Reload,
   RedisDown, RedisUp

LEMMA RetiresStep == ASSUME TypeInv, RotationInv, [Next]_vars PROVE RotationRetires'
<1>. USE DEF TypeInv, TypeOK
<1>1. CASE UNCHANGED parent
  <2>1. \A g \in Grant : parent[g] # 0 => parent[g] \in Grant
    BY BoundsAssumption DEF Grant
  <2>. QED
    BY <1>1, <2>1, RevokedStays DEF RotationInv, RotationRetires
<1>2. ASSUME NEW r \in Request, LoginMint(r) \/ PersistNew(r) PROVE RotationRetires'
  <2>1. PICK p \in 0..MaxGrants : /\ parent' = [parent EXCEPT ![minted + 1] = p]
                                  /\ p # 0 => row[p] = "revoked"
    BY <1>2, BoundsAssumption DEF LoginMint, PersistNew, Mint, Issue, RotationInv, PersistsRetired
  <2>2. SUFFICES ASSUME NEW g \in Grant, parent'[g] # 0 PROVE row'[parent'[g]] = "revoked"
    BY DEF RotationRetires
  <2>3. parent'[g] \in Grant /\ row[parent'[g]] = "revoked"
    BY <2>1, <2>2, BoundsAssumption DEF RotationInv, RotationRetires, Grant
  <2>. QED
    BY <2>3, RevokedStays DEF RotationInv
<1>. QED
  BY <1>1, <1>2, ParentStays

LEMMA PersistsStep == ASSUME TypeInv, RotationInv, [Next]_vars PROVE PersistsRetired'
<1>. SUFFICES ASSUME NEW r \in Request, pc'[r] = "persist" PROVE row'[of'[r]] = "revoked"
  BY DEF PersistsRetired
<1>. USE DEF TypeInv, TypeOK, server, Goto, ExchangesGrant
<1>1. CASE RetireOld(r)
  BY <1>1 DEF RetireOld
<1>2. CASE pc[r] = "persist" /\ of'[r] = of[r]
  BY <1>2, RevokedStays DEF RotationInv, PersistsRetired
<1>3. ASSUME NEW q \in Request, NEW t \in Tab, Refresh(q, t) \/ \E u \in User : Login(q, t, u)
      PROVE  pc[r] = "persist" /\ of'[r] = of[r]
  BY <1>3 DEF Refresh, Login
<1>4. ASSUME NEW q \in Request, Serve(q) \/ Fail(q), ~RetireOld(r)
      PROVE  pc[r] = "persist" /\ of'[r] = of[r]
  BY <1>4 DEF Serve, Fail, Finish, LoginMint, PersistNew, Mint, Validate, SelectRow, BlockOld, RetireOld,
     Answer, Refused, RevokeJti, PublishVersion, CollectRows, BlockHeld, CommitSession
<1>5. ASSUME NEW q \in Request, \/ \E g \in Grant : RevokeRow(q, g)
                                \/ \E u \in User : ReadUser(q, u)
      PROVE  pc[r] = "persist" /\ of'[r] = of[r]
  BY <1>5 DEF RevokeRow, ReadUser
<1>6. ASSUME NEW t \in Tab, Drop(t) \/ Reload(t) PROVE UNCHANGED server
  BY <1>6 DEF Drop, Reload
<1>7. RedisDown \/ RedisUp \/ UNCHANGED vars => UNCHANGED server
  BY DEF RedisDown, RedisUp, vars
<1>. QED
  BY <1>1, <1>2, <1>3, <1>4, <1>5, <1>6, <1>7 DEF Next

LEMMA IssuedStep == ASSUME TypeInv, RotationInv, [Next]_vars PROVE Issued'
<1>. USE DEF TypeInv, TypeOK, tokens, server, client, Goto
<1>1. ASSUME NEW r \in Request, LoginMint(r) \/ PersistNew(r) PROVE Issued'
  <2>1. PICK u, c, p : Mint(r, u, c, p)
    BY <1>1 DEF LoginMint, PersistNew
  <2>2. /\ minted' = minted + 1 /\ minted \in Nat
        /\ row' = [row EXCEPT ![minted + 1] = "live"]
        /\ parent' = [parent EXCEPT ![minted + 1] = p]
        /\ of' = [of EXCEPT ![r] = minted + 1]
        /\ UNCHANGED <<held, holds, disk>>
    BY <2>1 DEF Mint, Issue
  <2>3. \A g \in Grant : g # minted + 1 => row'[g] = row[g] /\ parent'[g] = parent[g]
    BY <2>2
  <2>4. /\ \A q \in Request : of'[q] \in {of[q], minted + 1} /\ of[q] \in Nat
        /\ \A t \in Tab : holds[t] \in Nat
        /\ disk \in Nat /\ Grant \subseteq Nat
    BY <2>2 DEF Grant
  <2>. QED
    BY <2>2, <2>3, <2>4 DEF RotationInv, Issued
<1>2. ASSUME NEW r \in Request, NEW t \in Tab, Refresh(r, t) \/ \E u \in User : Login(r, t, u) PROVE Issued'
  <2>1. /\ UNCHANGED <<minted, row, parent, held, holds, disk>>
        /\ \A q \in Request : of'[q] \in {of[q], holds[t]}
    BY <1>2 DEF Refresh, Login
  <2>. QED
    BY <2>1 DEF RotationInv, Issued
<1>3. ASSUME NEW r \in Request, Validate(r) \/ SelectRow(r) \/ BlockOld(r) PROVE Issued'
  BY <1>3 DEF Validate, SelectRow, BlockOld, RotationInv, Issued
<1>4. ASSUME NEW r \in Request, RetireOld(r) PROVE Issued'
  BY <1>4 DEF RetireOld, RotationInv, Issued
<1>5. ASSUME NEW r \in Request, Answer(r) \/ Refused(r) \/ Fail(r) \/ RevokeJti(r) PROVE Issued'
  <2>1. /\ UNCHANGED <<minted, row, parent>>
        /\ \A q \in Request : of'[q] \in {of[q], 0}
        /\ \A t \in Tab : holds'[t] \in {holds[t], of[r], 0}
        /\ disk' \in {disk, of[r], 0}
        /\ \A q \in Request : held'[q] \subseteq held[q]
    BY <1>5 DEF Answer, Refused, Fail, RevokeJti, SignOut, Finish
  <2>2. 0 <= minted /\ of[r] <= minted
    BY DEF RotationInv, Issued
  <2>. QED
    BY <2>1, <2>2 DEF RotationInv, Issued
<1>6. ASSUME NEW r \in Request, NEW g \in Grant, RevokeRow(r, g) PROVE Issued'
  <2>1. g <= minted
    BY <1>6 DEF RevokeRow, RotationInv, Issued
  <2>. QED
    BY <1>6, <2>1 DEF RevokeRow, RotationInv, Issued
<1>7. ASSUME NEW r \in Request, NEW u \in User, ReadUser(r, u) PROVE Issued'
  BY <1>7 DEF ReadUser, RotationInv, Issued
<1>8. ASSUME NEW r \in Request, PublishVersion(r) \/ CollectRows(r) \/ BlockHeld(r) PROVE Issued'
  <2>1. /\ UNCHANGED <<minted, row, parent, of, holds, disk>>
        /\ \A q \in Request : \A g \in held'[q] : g \in held[q] \/ (g \in Grant /\ row[g] = "live")
    BY <1>8 DEF PublishVersion, CollectRows, BlockHeld
  <2>. QED
    BY <2>1 DEF RotationInv, Issued
<1>9. ASSUME NEW r \in Request, CommitSession(r) PROVE Issued'
  <2>1. /\ UNCHANGED <<minted, parent, holds, disk>>
        /\ \A g \in Grant : row'[g] = row[g] \/ g \in held[r]
        /\ \A q \in Request : of'[q] \in {of[q], 0} /\ held'[q] \subseteq held[q]
    BY <1>9 DEF CommitSession, Finish
  <2>. QED
    BY <2>1 DEF RotationInv, Issued
<1>10. ASSUME NEW t \in Tab, Drop(t) \/ Reload(t) PROVE Issued'
  BY <1>10 DEF Drop, Reload, RotationInv, Issued
<1>11. CASE RedisDown \/ RedisUp \/ UNCHANGED vars
  BY <1>11 DEF RedisDown, RedisUp, vars, RotationInv, Issued
<1>. QED
  BY <1>1, <1>2, <1>3, <1>4, <1>5, <1>6, <1>7, <1>8, <1>9, <1>10, <1>11 DEF Next, Serve

\* A refresh token that was exchanged is revoked in Postgres by the time its
\* successor exists, for any number of tabs, requests and grants, whatever
\* Redis did and wherever requests died.
THEOREM RotationAlwaysRetires == Spec => []RotationRetires
<1>1. Init => TypeInv /\ RotationInv
  BY TypeInit, RotationInit DEF Init, TypeInv, ExchangesGrant
<1>2. TypeInv /\ RotationInv /\ [Next]_vars => (TypeInv /\ RotationInv)'
  BY TypeStep, ExchangeStep, IssuedStep, PersistsStep, RetiresStep DEF TypeInv, RotationInv
<1>. QED
  BY <1>1, <1>2, PTL DEF Spec, RotationInv

-----------------------------------------------------------------------------
(* A retired refresh token is dead: a request that has not passed the check  *)
(* of the row cannot pass it any more.                                       *)

LEMMA RetiredStays ==
  ASSUME TypeInv, RotationInv, [Next]_vars, NEW g \in Grant, Retired(g)
  PROVE  Retired(g)' /\ Children(g)' = Children(g)
<1>. USE DEF TypeInv, TypeOK, server, Goto
<1>1. row[g] = "revoked" /\ row'[g] = "revoked"
  BY RevokedStays DEF RotationInv, Retired
<1>2. ~InExchange(g)'
  <2>. SUFFICES ASSUME NEW r \in Request, of'[r] = g, pc'[r] \in {"block", "retire", "persist"} PROVE FALSE
    BY DEF InExchange
  <2>0. ~(of[r] = g /\ pc[r] \in {"block", "retire", "persist"})
    BY DEF Retired, InExchange
  <2>1. ASSUME NEW q \in Request, NEW t \in Tab, Refresh(q, t) \/ \E u \in User : Login(q, t, u)
        PROVE  FALSE
    BY <2>0, <2>1 DEF Refresh, Login
  <2>2. ASSUME NEW q \in Request, Serve(q) \/ Fail(q) PROVE FALSE
    BY <1>1, <2>0, <2>2 DEF Serve, Fail, Finish, LoginMint, PersistNew, Mint, Validate, SelectRow, BlockOld,
       RetireOld, Answer, Refused, RevokeJti, PublishVersion, CollectRows, BlockHeld, CommitSession
  <2>3. ASSUME NEW q \in Request, \/ \E h \in Grant : RevokeRow(q, h)
                                  \/ \E u \in User : ReadUser(q, u)
        PROVE  FALSE
    BY <2>0, <2>3 DEF RevokeRow, ReadUser
  <2>4. ASSUME NEW t \in Tab, Drop(t) \/ Reload(t) PROVE UNCHANGED server
    BY <2>4 DEF Drop, Reload
  <2>5. RedisDown \/ RedisUp \/ UNCHANGED vars => UNCHANGED server
    BY DEF RedisDown, RedisUp, vars
  <2>. QED
    BY <2>0, <2>1, <2>2, <2>3, <2>4, <2>5 DEF Next
<1>3. Children(g)' = Children(g)
  <2>1. CASE UNCHANGED parent
    BY <2>1 DEF Children
  <2>2. ASSUME NEW r \in Request, LoginMint(r) \/ PersistNew(r) PROVE Children(g)' = Children(g)
    <3>1. PICK p : parent' = [parent EXCEPT ![minted + 1] = p] /\ p # g
      <4>1. CASE LoginMint(r)
        <5>1. parent' = [parent EXCEPT ![minted + 1] = 0] /\ 0 # g
          BY <4>1 DEF LoginMint, Mint, Issue, Grant
        <5>. QED
          BY <5>1
      <4>2. CASE PersistNew(r)
        <5>1. of[r] # g
          BY <4>2 DEF PersistNew, Retired, InExchange
        <5>2. parent' = [parent EXCEPT ![minted + 1] = of[r]]
          BY <4>2 DEF PersistNew, Mint, Issue
        <5>. QED
          BY <5>1, <5>2
      <4>. QED
        BY <2>2, <4>1, <4>2
    <3>2. parent[minted + 1] # g /\ minted + 1 \in Grant
      <4>1. minted + 1 \in Grant /\ minted \in Nat
        BY <2>2, BoundsAssumption DEF LoginMint, PersistNew, Mint, Issue, Grant
      <4>. QED
        BY <4>1 DEF RotationInv, Issued, Grant
    <3>. QED
      BY <3>1, <3>2 DEF Children
  <2>. QED
    BY <2>1, <2>2, ParentStays
<1>. QED
  BY <1>1, <1>2, <1>3 DEF Retired

\* No pair is minted again from a refresh token that was revoked, by rotation
\* or otherwise, and is in nobody's exchange, whichever stores missed it.
THEOREM RetiredMintsNothing == Spec => NeverMintsAgain
<1>1. Init => TypeInv /\ RotationInv
  BY TypeInit, RotationInit DEF Init, TypeInv, ExchangesGrant
<1>2. TypeInv /\ RotationInv /\ [Next]_vars => (TypeInv /\ RotationInv)'
  BY TypeStep, ExchangeStep, IssuedStep, PersistsStep, RetiresStep DEF TypeInv, RotationInv
<1>3. TypeInv /\ RotationInv /\ [Next]_vars =>
        [\A g \in Grant : Retired(g) => Retired(g)' /\ Children(g)' = Children(g)]_vars
  BY RetiredStays
<1>. QED
  BY <1>1, <1>2, <1>3, PTL DEF Spec, NeverMintsAgain
=============================================================================
