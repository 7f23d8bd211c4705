------------------------ MODULE ConnectorTokensProofs ------------------------
(* Theorems about ConnectorTokens, for every set of consents, callbacks and  *)
(* workers and every bound.                                                  *)
EXTENDS ConnectorTokens, TLAPS

-----------------------------------------------------------------------------
(* Type correctness, one part at a time. *)

CallbackRecord == [pc : {"idle", "get", "delete", "exchange", "merge", "rows", "done"},
                   flow : Flow \cup {None}, raced : BOOLEAN]
CallbackOK == cb \in [Callback -> CallbackRecord]

TaskOK == task \in [Task -> [pc : {"idle", "use", "save"}, key : Key,
                             mem : Flow \cup {None}, src : Source \cup {None}]]

DiscOK == disc \in [Source -> [pc : {"idle", "watch", "refresh", "save", "row", "clear", "done"},
                               mem : Flow \cup {None}]]

StoresOK == redis \in [Key -> Flow \cup {None}] /\ vault \in [Key -> Flow \cup {None}]

StatusOK == status \in [Source -> Statuses]

FlowsOK == nonce \subseteq seen /\ code \subseteq seen /\ seen \subseteq Flow

\* A callback is about a flow the user opened.
FlowNamed == \A c \in Callback : cb[c].pc \in {"get", "delete", "exchange", "merge"} => cb[c].flow \in seen

Shape == CallbackOK /\ TaskOK /\ DiscOK /\ StoresOK /\ StatusOK /\ FlowsOK /\ FlowNamed

LEMMA ShapeInit == Init => Shape
BY DEF Init, Shape, CallbackOK, CallbackRecord, TaskOK, DiscOK, StoresOK, StatusOK, FlowsOK, FlowNamed, NoCallback, NoTask,
   Source, Key, Statuses

CallbackStep(c) ==
    \/ \E f \in Flow : Authorize(c, f) \/ Replay(c, f)
    \/ ReadNonce(c) \/ DeleteNonce(c) \/ Exchange(c) \/ MergeTokens(c) \/ Connected(c)
TaskStep(t) ==
    \/ \E s \in Source : BackfillStarts(t, s) \/ NotificationStarts(t, s)
    \/ UseToken(t) \/ RefreshToken(t) \/ SaveToken(t)
DiscStep(s) ==
    DiscBegins(s) \/ DiscWatch(s) \/ DiscRefresh(s) \/ DiscSave(s) \/ DiscRow(s) \/ DiscClear(s) \/ DiscCutOff(s)

\* Whose step it is.
LEMMA WhoseStep ==
  ASSUME [Next]_vars
  PROVE  \/ \E c \in Callback : CallbackStep(c)
         \/ \E t \in Task : TaskStep(t)
         \/ \E s \in Source : DiscStep(s)
         \/ UNCHANGED vars
BY DEF Next, CallbackStep, TaskStep, DiscStep

\* What each actor leaves alone.
LEMMA CallbackAlone == ASSUME NEW c \in Callback, CallbackStep(c) PROVE UNCHANGED <<task, disc, cursor>>
BY DEF CallbackStep, Authorize, Replay, ReadNonce, DeleteNonce, Exchange, MergeTokens, Connected, stores

LEMMA TaskAlone ==
  ASSUME NEW t \in Task, TaskStep(t)
  PROVE  UNCHANGED <<cb, disc, seen, nonce, code, rows, opened, reused, latest>>
BY DEF TaskStep, BackfillStarts, NotificationStarts, UseToken, RefreshToken, SaveToken, history

LEMMA DiscAlone ==
  ASSUME NEW s \in Source, DiscStep(s)
  PROVE  UNCHANGED <<cb, task, seen, nonce, code, queued, opened, reused, latest>>
BY DEF DiscStep, DiscBegins, DiscWatch, DiscRefresh, DiscSave, DiscRow, DiscClear, DiscCutOff, history, stores

\* Neither the provider nor the kind of vault changes.
LEMMA SettingStays == ASSUME [Next]_vars PROVE UNCHANGED <<provider, erases>>
<1>1. ASSUME NEW c \in Callback, CallbackStep(c) PROVE UNCHANGED <<provider, erases>>
  BY <1>1 DEF CallbackStep, Authorize, Replay, ReadNonce, DeleteNonce, Exchange, MergeTokens, Connected, setting
<1>2. ASSUME NEW t \in Task, TaskStep(t) PROVE UNCHANGED <<provider, erases>>
  BY <1>2 DEF TaskStep, BackfillStarts, NotificationStarts, UseToken, RefreshToken, SaveToken, setting
<1>3. ASSUME NEW s \in Source, DiscStep(s) PROVE UNCHANGED <<provider, erases>>
  BY <1>3 DEF DiscStep, DiscBegins, DiscWatch, DiscRefresh, DiscSave, DiscRow, DiscClear, DiscCutOff, setting
<1>. QED
  BY <1>1, <1>2, <1>3, WhoseStep DEF vars, setting

LEMMA CallbackKeepsShape ==
  ASSUME Shape, NEW c \in Callback, CallbackStep(c) PROVE CallbackOK' /\ FlowsOK' /\ FlowNamed'
<1>. USE DEF Shape, CallbackOK, CallbackRecord, FlowsOK, FlowNamed, stores, history
<1>1. ASSUME NEW f \in Flow, Authorize(c, f) PROVE CallbackOK' /\ FlowsOK' /\ FlowNamed'
  BY <1>1 DEF Authorize
<1>2. ASSUME NEW f \in Flow, Replay(c, f) PROVE CallbackOK' /\ FlowsOK' /\ FlowNamed'
  BY <1>2 DEF Replay
<1>3. CASE ReadNonce(c)
  <2>1. UNCHANGED <<seen, nonce, code>>
    BY <1>3 DEF ReadNonce
  <2>2. CASE \E with \in SUBSET Callback :
           cb' = [o \in Callback |-> IF o = c THEN [cb[c] EXCEPT !.pc = "delete", !.raced = with # {}]
                                    ELSE [cb[o] EXCEPT !.raced = @ \/ o \in with]]
    <3>1. PICK with \in SUBSET Callback :
             cb' = [o \in Callback |-> IF o = c THEN [cb[c] EXCEPT !.pc = "delete", !.raced = with # {}]
                                      ELSE [cb[o] EXCEPT !.raced = @ \/ o \in with]]
      BY <2>2
    <3>2. ASSUME NEW o \in Callback PROVE cb'[o] \in CallbackRecord
      <4>1. CASE o = c
        <5>1. [cb[c] EXCEPT !.pc = "delete", !.raced = with # {}] \in CallbackRecord
          OBVIOUS
        <5>. QED
          BY <3>1, <4>1, <5>1
      <4>2. CASE o # c
        <5>1. [cb[o] EXCEPT !.raced = @ \/ o \in with] \in CallbackRecord
          OBVIOUS
        <5>. QED
          BY <3>1, <4>2, <5>1
      <4>. QED
        BY <4>1, <4>2
    <3>3. \A o \in Callback : cb'[o].flow = cb[o].flow /\ (cb'[o].pc = cb[o].pc \/ o = c)
      BY <3>1
    <3>4. CallbackOK'
      BY <3>1, <3>2
    <3>. QED
      BY <1>3, <2>1, <3>3, <3>4 DEF ReadNonce
  <2>3. CASE cb' = [cb EXCEPT ![c] = [NoCallback EXCEPT !.pc = "done"]]
    BY <2>1, <2>3 DEF NoCallback
  <2>4. CASE cb' = [cb EXCEPT ![c].pc = "exchange"]
    BY <1>3, <2>1, <2>4 DEF ReadNonce
  <2>. QED
    BY <1>3, <2>2, <2>3, <2>4 DEF ReadNonce
<1>4. CASE DeleteNonce(c)
  BY <1>4 DEF DeleteNonce
<1>5. CASE Exchange(c)
  <2>1. cb[c].pc = "exchange" /\ UNCHANGED <<seen, nonce>> /\ code' \subseteq code
    BY <1>5 DEF Exchange
  <2>2. CASE cb' = [cb EXCEPT ![c].pc = "merge"]
    BY <2>1, <2>2
  <2>3. CASE cb' = [cb EXCEPT ![c] = [NoCallback EXCEPT !.pc = "done"]]
    BY <2>1, <2>3 DEF NoCallback
  <2>. QED
    BY <1>5, <2>2, <2>3 DEF Exchange
<1>6. CASE MergeTokens(c)
  BY <1>6 DEF MergeTokens
<1>7. CASE Connected(c)
  BY <1>7 DEF Connected, NoCallback
<1>. QED
  BY <1>1, <1>2, <1>3, <1>4, <1>5, <1>6, <1>7 DEF CallbackStep

LEMMA TaskKeepsShape ==
  ASSUME Shape, NEW t \in Task, TaskStep(t) PROVE TaskOK'
<1>. USE DEF Shape, TaskOK, Source, Key, NoTask
<1>0. \A key \in Key, mem \in Flow \cup {None} : Lookup(key, mem) \in Flow \cup {None}
  BY DEF Lookup, Stored, StoresOK
<1>1. ASSUME NEW key \in Key, NEW mem \in Flow \cup {None}, NEW s \in Source \cup {None}, NEW stat, 
             Begin(t, key, mem, s, stat)
      PROVE TaskOK'
  BY <1>0, <1>1 DEF Begin
<1>2. ASSUME NEW s \in Source, BackfillStarts(t, s) PROVE TaskOK'
  BY <1>1, <1>2 DEF BackfillStarts
<1>3. ASSUME NEW s \in Source, NotificationStarts(t, s) PROVE TaskOK'
  BY <1>1, <1>3 DEF NotificationStarts
<1>4. CASE UseToken(t)
  <2>1. task[t].mem \in Flow \cup {None} /\ "nested" \in Key
    OBVIOUS
  <2>2. task' = [task EXCEPT ![t] = NoTask] \/ \E stat : Begin(t, "nested", task[t].mem, None, stat)
    BY <1>4 DEF UseToken
  <2>3. CASE task' = [task EXCEPT ![t] = NoTask]
    BY <2>3
  <2>. QED
    BY <1>1, <2>1, <2>2, <2>3
<1>5. CASE RefreshToken(t)
  BY <1>5 DEF RefreshToken
<1>6. CASE SaveToken(t)
  BY <1>6 DEF SaveToken
<1>. QED
  BY <1>2, <1>3, <1>4, <1>5, <1>6 DEF TaskStep

LEMMA DiscKeepsShape ==
  ASSUME Shape, NEW s \in Source, DiscStep(s) PROVE DiscOK'
<1>. USE DEF Shape, DiscOK, DiscGoes
<1>1. CASE DiscWatch(s)
  <2>1. Stored("own") \in Flow \cup {None}
    BY DEF Stored, StoresOK, Key
  <2>. QED
    BY <1>1, <2>1 DEF DiscWatch
<1>2. CASE DiscRefresh(s)
  BY <1>2 DEF DiscRefresh
<1>3. CASE DiscBegins(s) \/ DiscSave(s) \/ DiscRow(s) \/ DiscClear(s) \/ DiscCutOff(s)
  BY <1>3 DEF DiscBegins, DiscSave, DiscRow, DiscClear, DiscCutOff
<1>. QED
  BY <1>1, <1>2, <1>3 DEF DiscStep

\* set_token leaves the other key alone and each store with the new blob or
\* the one it had, and the new one is in one of them.
LEMMA SetTokenEffect ==
  ASSUME StoresOK, NEW key \in Key, NEW tok \in Flow \cup {None}, SetToken(key, tok)
  PROVE  /\ StoresOK'
         /\ redis'[key] \in {tok, redis[key]} /\ vault'[key] \in {tok, vault[key]}
         /\ tok \in {redis'[key], vault'[key]}
         /\ \A k \in Key \ {key} : redis'[k] = redis[k] /\ vault'[k] = vault[k]
BY DEF StoresOK, SetToken

\* Who writes the blobs.
LEMMA StoresStep ==
  ASSUME Shape, [Next]_vars
  PROVE  \/ UNCHANGED <<redis, vault>>
         \/ \E c \in Callback : StoreTokens(cb[c].flow) /\ cb[c].flow \in Flow
         \/ \E t \in Task : SaveToken(t)
         \/ \E s \in Source : DiscSave(s) \/ DiscClear(s)
<1>1. ASSUME NEW c \in Callback, CallbackStep(c)
      PROVE  UNCHANGED <<redis, vault>> \/ (StoreTokens(cb[c].flow) /\ cb[c].flow \in Flow)
  BY <1>1 DEF CallbackStep, Authorize, Replay, ReadNonce, DeleteNonce, Exchange, MergeTokens, Connected, stores,
     Shape, FlowNamed, FlowsOK
<1>2. ASSUME NEW t \in Task, TaskStep(t) PROVE UNCHANGED <<redis, vault>> \/ SaveToken(t)
  BY <1>2 DEF TaskStep, BackfillStarts, NotificationStarts, UseToken, RefreshToken
<1>3. ASSUME NEW s \in Source, DiscStep(s) PROVE UNCHANGED <<redis, vault>> \/ DiscSave(s) \/ DiscClear(s)
  BY <1>3 DEF DiscStep, DiscBegins, DiscWatch, DiscRefresh, DiscRow, DiscCutOff, stores
<1>. QED
  BY <1>1, <1>2, <1>3, WhoseStep DEF vars, stores

LEMMA StoresKeepShape == ASSUME Shape, [Next]_vars PROVE StoresOK'
<1>. USE DEF Shape
<1>1. CASE UNCHANGED <<redis, vault>>
  BY <1>1 DEF StoresOK
<1>2. ASSUME NEW c \in Callback, StoreTokens(cb[c].flow), cb[c].flow \in Flow PROVE StoresOK'
  BY <1>2, SetTokenEffect DEF StoreTokens, Key
<1>3. ASSUME NEW t \in Task, SaveToken(t) PROVE StoresOK'
  BY <1>3, SetTokenEffect DEF SaveToken, TaskOK
<1>4. ASSUME NEW s \in Source, DiscSave(s) PROVE StoresOK'
  BY <1>4, SetTokenEffect DEF DiscSave, DiscOK, Key
<1>5. ASSUME NEW s \in Source, DiscClear(s) PROVE StoresOK'
  BY <1>5 DEF DiscClear, StoresOK
<1>. QED
  BY <1>1, <1>2, <1>3, <1>4, <1>5, StoresStep

\* The statuses an action may leave: none is "absent" that was not, and only a
\* disconnect says "not_connected".
LEMMA StatusStep ==
  ASSUME Shape, [Next]_vars, NEW s \in Source
  PROVE  /\ status'[s] \in Statuses
         /\ status'[s] = "absent" => status[s] = "absent"
         /\ status'[s] = "not_connected" => status[s] = "not_connected" \/ DiscBegins(s)
<1>. USE DEF Shape, StatusOK, Statuses
<1>1. ASSUME NEW q \in Source, NEW v \in {"syncing", "active", "error"}, NEW force \in BOOLEAN
      PROVE  /\ Stamped(q, v, force) \in [Source -> Statuses]
             /\ Stamped(q, v, force)[s] \in {v, status[s]}
             /\ Stamped(q, v, force)[q] # "absent"
  BY <1>1 DEF Stamped
<1>2. ASSUME NEW key, NEW q \in Source PROVE /\ Reauth(key)[q] \in {status[q], "needs_reauth"}
                                           /\ Reauth(key) \in [Source -> Statuses]
  BY <1>2 DEF Reauth
<1>3. ASSUME NEW c \in Callback, CallbackStep(c)
      PROVE  status'[s] \in {status[s], "syncing", "error"}
  <2>1. CASE Connected(c)
    BY <1>1, <2>1 DEF Connected
  <2>2. CASE UNCHANGED status
    BY <2>2
  <2>. QED
    BY <1>3, <2>1, <2>2 DEF CallbackStep, Authorize, Replay, ReadNonce, DeleteNonce, Exchange, MergeTokens, stores
<1>4. ASSUME NEW t \in Task, TaskStep(t)
      PROVE  status'[s] \in {status[s], "syncing", "active", "needs_reauth"}
  <2>1. ASSUME NEW key, NEW mem, NEW q \in Source \cup {None}, NEW stat \in [Source -> Statuses],
               Begin(t, key, mem, q, stat)
        PROVE  status'[s] \in {stat[s], "needs_reauth"}
    BY <2>1 DEF Begin
  <2>2. ASSUME NEW q \in Source, BackfillStarts(t, q) PROVE status'[s] \in {status[s], "syncing", "needs_reauth"}
    <3>1. UNCHANGED status \/ Begin(t, "own", None, q, Stamped(q, "syncing", TRUE))
      BY <2>2 DEF BackfillStarts
    <3>2. /\ Stamped(q, "syncing", TRUE) \in [Source -> Statuses]
          /\ Stamped(q, "syncing", TRUE)[s] \in {"syncing", status[s]}
      BY <1>1
    <3>3. Begin(t, "own", None, q, Stamped(q, "syncing", TRUE)) =>
            status'[s] \in {Stamped(q, "syncing", TRUE)[s], "needs_reauth"}
      BY <2>1, <3>2
    <3>. QED
      BY <3>1, <3>2, <3>3
  <2>3. ASSUME NEW q \in Source, NotificationStarts(t, q) PROVE status'[s] \in {status[s], "needs_reauth"}
    BY <2>1, <2>3 DEF NotificationStarts
  <2>4. CASE UseToken(t)
    <3>. DEFINE stat == IF task[t].src = None THEN status ELSE Stamped(task[t].src, "active", FALSE)
    <3>1. status' = stat \/ Begin(t, "nested", task[t].mem, None, stat)
      BY <2>4 DEF UseToken
    <3>2. stat \in [Source -> Statuses] /\ stat[s] \in {"active", status[s]}
      BY <1>1 DEF TaskOK
    <3>. HIDE DEF stat
    <3>3. Begin(t, "nested", task[t].mem, None, stat) => status'[s] \in {stat[s], "needs_reauth"}
      BY <2>1, <3>2
    <3>. QED
      BY <3>1, <3>2, <3>3
  <2>5. CASE RefreshToken(t)
    BY <1>2, <2>5 DEF RefreshToken
  <2>. QED
    BY <1>4, <2>2, <2>3, <2>4, <2>5 DEF TaskStep, SaveToken
<1>5. ASSUME NEW q \in Source, DiscStep(q)
      PROVE  status'[s] \in {status[s], "needs_reauth"} \/ (status'[s] = "not_connected" /\ DiscBegins(s))
  <2>1. CASE DiscBegins(q)
    BY <2>1 DEF DiscBegins
  <2>2. CASE DiscRefresh(q)
    BY <1>2, <2>2 DEF DiscRefresh
  <2>. QED
    BY <1>5, <2>1, <2>2 DEF DiscStep, DiscWatch, DiscSave, DiscRow, DiscClear, DiscCutOff, stores
<1>. QED
  BY <1>3, <1>4, <1>5, WhoseStep DEF vars, stores

\* The statuses stay a function.
LEMMA StatusKeepsShape == ASSUME Shape, [Next]_vars PROVE StatusOK'
<1>. USE DEF Shape, StatusOK, Statuses
<1>1. ASSUME NEW q \in Source, NEW v \in Statuses, NEW force \in BOOLEAN
      PROVE  Stamped(q, v, force) \in [Source -> Statuses]
  BY <1>1 DEF Stamped
<1>2. ASSUME NEW key PROVE Reauth(key) \in [Source -> Statuses]
  BY <1>2 DEF Reauth
<1>3. ASSUME NEW key, NEW mem, NEW q \in Source \cup {None}, NEW t \in Task,
             NEW stat \in [Source -> Statuses], Begin(t, key, mem, q, stat)
      PROVE  StatusOK'
  BY <1>3 DEF Begin
<1>4. ASSUME NEW c \in Callback, CallbackStep(c) PROVE StatusOK'
  <2>1. CASE Connected(c)
    <3>1. \A q \in Source, v \in {"syncing", "error"}, force \in BOOLEAN :
             Stamped(q, v, force)[q] \in Statuses
      BY <1>1
    <3>2. \/ \E bad \in SUBSET Source, force \in BOOLEAN :
               status' = [q \in Source |-> Stamped(q, IF q \in bad THEN "error" ELSE "syncing", force)[q]]
          \/ \E force \in BOOLEAN : status' = [q \in Source |-> Stamped(q, "syncing", force)[q]]
      BY <2>1 DEF Connected
    <3>. QED
      BY <3>1, <3>2
  <2>2. CASE UNCHANGED status
    BY <2>2
  <2>. QED
    BY <1>4, <2>1, <2>2 DEF CallbackStep, Authorize, Replay, ReadNonce, DeleteNonce, Exchange, MergeTokens, stores
<1>5. ASSUME NEW t \in Task, TaskStep(t) PROVE StatusOK'
  <2>1. ASSUME NEW q \in Source, BackfillStarts(t, q) PROVE StatusOK'
    <3>1. UNCHANGED status \/ Begin(t, "own", None, q, Stamped(q, "syncing", TRUE))
      BY <2>1 DEF BackfillStarts
    <3>2. Stamped(q, "syncing", TRUE) \in [Source -> Statuses]
      BY <1>1
    <3>. QED
      BY <1>3, <3>1, <3>2
  <2>2. ASSUME NEW q \in Source, NotificationStarts(t, q) PROVE StatusOK'
    BY <1>3, <2>2 DEF NotificationStarts
  <2>3. CASE UseToken(t)
    <3>. DEFINE stat == IF task[t].src = None THEN status ELSE Stamped(task[t].src, "active", FALSE)
    <3>1. status' = stat \/ Begin(t, "nested", task[t].mem, None, stat)
      BY <2>3 DEF UseToken
    <3>2. stat \in [Source -> Statuses]
      BY <1>1 DEF TaskOK
    <3>. HIDE DEF stat
    <3>. QED
      BY <1>3, <3>1, <3>2
  <2>4. CASE RefreshToken(t) \/ SaveToken(t)
    BY <1>2, <2>4 DEF RefreshToken, SaveToken
  <2>. QED
    BY <1>5, <2>1, <2>2, <2>3, <2>4 DEF TaskStep
<1>6. ASSUME NEW s \in Source, DiscStep(s) PROVE StatusOK'
  BY <1>2, <1>6 DEF DiscStep, DiscBegins, DiscRefresh, DiscWatch, DiscSave, DiscRow, DiscClear, DiscCutOff, stores
<1>. QED
  BY <1>4, <1>5, <1>6, WhoseStep DEF vars, stores

LEMMA ShapeStep == ASSUME Shape, [Next]_vars PROVE Shape'
<1>1. CallbackOK' /\ FlowsOK' /\ FlowNamed'
  BY CallbackKeepsShape, WhoseStep, TaskAlone, DiscAlone DEF vars, actors, stores, Shape, CallbackOK, FlowsOK, FlowNamed
<1>2. TaskOK'
  BY TaskKeepsShape, WhoseStep, CallbackAlone, DiscAlone DEF vars, actors, Shape, TaskOK
<1>3. DiscOK'
  BY DiscKeepsShape, WhoseStep, CallbackAlone, TaskAlone DEF vars, actors, Shape, DiscOK
<1>. QED
  BY <1>1, <1>2, <1>3, StoresKeepShape, StatusKeepsShape DEF Shape

-----------------------------------------------------------------------------
(* A state parameter lets one callback through.  A flow that was let through *)
(* has no nonce left, and whoever is about to let it through a second time   *)
(* read the nonce while the first one was about to delete it.                *)

Deleting(c, f) == cb[c].pc = "delete" /\ cb[c].flow = f

NonceInv == /\ opened \subseteq seen /\ opened \cap nonce = {}
            /\ \A c \in Callback, f \in opened : Deleting(c, f) => cb[c].raced
            /\ \A c, o \in Callback, f \in Flow : c # o /\ Deleting(c, f) /\ Deleting(o, f) => cb[c].raced
            /\ StateOnce

LEMMA NonceStep == ASSUME Shape, NonceInv, [Next]_vars PROVE NonceInv'
<1>. USE DEF Shape, CallbackOK, CallbackRecord, FlowsOK, FlowNamed, NonceInv, Deleting, StateOnce, stores, history
<1>1. ASSUME NEW c \in Callback, NEW f \in Flow, Authorize(c, f) PROVE NonceInv'
  BY <1>1 DEF Authorize
<1>2. ASSUME NEW c \in Callback, NEW f \in Flow, Replay(c, f) PROVE NonceInv'
  BY <1>2 DEF Replay
<1>3. ASSUME NEW c \in Callback, ReadNonce(c) PROVE NonceInv'
  <2>1. UNCHANGED <<seen, nonce, opened, reused>> /\ cb[c].pc = "get"
    BY <1>3 DEF ReadNonce
  <2>2. CASE /\ cb[c].flow \in nonce
             /\ \E with \in SUBSET Callback :
                  /\ with = {o \in Callback \ {c} : cb[o].pc = "delete" /\ cb[o].flow = cb[c].flow}
                  /\ cb' = [o \in Callback |->
                             IF o = c THEN [cb[c] EXCEPT !.pc = "delete", !.raced = with # {}]
                             ELSE [cb[o] EXCEPT !.raced = @ \/ o \in with]]
    <3>1. PICK with \in SUBSET Callback :
             /\ with = {o \in Callback \ {c} : cb[o].pc = "delete" /\ cb[o].flow = cb[c].flow}
             /\ cb' = [o \in Callback |->
                        IF o = c THEN [cb[c] EXCEPT !.pc = "delete", !.raced = with # {}]
                        ELSE [cb[o] EXCEPT !.raced = @ \/ o \in with]]
      BY <2>2
    <3>2. /\ cb'[c].flow = cb[c].flow /\ cb'[c].pc = "delete" /\ cb'[c].raced = (with # {})
          /\ \A o \in Callback \ {c} : /\ cb'[o].pc = cb[o].pc /\ cb'[o].flow = cb[o].flow
                                       /\ cb'[o].raced = (cb[o].raced \/ o \in with)
      BY <3>1
    <3>3. cb[c].flow \notin opened
      BY <2>2
    <3>4. \A o \in Callback, f \in opened : Deleting(o, f)' => cb'[o].raced
      BY <3>2, <3>3
    <3>5. ASSUME NEW o \in Callback, NEW p \in Callback, NEW f \in Flow, o # p, Deleting(o, f)', Deleting(p, f)'
          PROVE  cb'[o].raced
      <4>1. CASE o = c
        <5>1. p \in with
          BY <3>1, <3>2, <3>5, <4>1
        <5>. QED
          BY <3>2, <4>1, <5>1
      <4>2. CASE p = c
        <5>1. o \in with
          <6>1. f = cb[c].flow
            BY <3>2, <3>5, <4>2
          <6>2. cb[o].pc = "delete" /\ cb[o].flow = f
            BY <3>2, <3>5, <4>2
          <6>. QED
            BY <3>1, <3>5, <4>2, <6>1, <6>2
        <5>2. cb'[o].raced = (cb[o].raced \/ o \in with)
          BY <3>2, <3>5, <4>2
        <5>. QED
          BY <5>1, <5>2, Zenon
      <4>3. CASE o # c /\ p # c
        BY <3>2, <3>5, <4>3
      <4>. QED
        BY <4>1, <4>2, <4>3
    <3>. QED
      BY <2>1, <3>4, <3>5
  <2>3. CASE cb' = [cb EXCEPT ![c] = [NoCallback EXCEPT !.pc = "done"]]
    BY <2>1, <2>3 DEF NoCallback
  <2>4. CASE cb' = [cb EXCEPT ![c].pc = "exchange"]
    BY <2>1, <2>4
  <2>. QED
    BY <1>3, <2>2, <2>3, <2>4 DEF ReadNonce
<1>4. ASSUME NEW c \in Callback, DeleteNonce(c) PROVE NonceInv'
  BY <1>4 DEF DeleteNonce
<1>5. ASSUME NEW c \in Callback, Exchange(c) \/ MergeTokens(c) \/ Connected(c) PROVE NonceInv'
  BY <1>5 DEF Exchange, MergeTokens, Connected, NoCallback
<1>6. CASE UNCHANGED <<cb, seen, nonce, opened, reused>>
  BY <1>6
<1>7. ASSUME NEW c \in Callback, CallbackStep(c) PROVE NonceInv'
  BY <1>1, <1>2, <1>3, <1>4, <1>5, <1>7 DEF CallbackStep
<1>8. ASSUME NEW t \in Task, TaskStep(t) PROVE NonceInv'
  BY <1>6, <1>8, TaskAlone
<1>9. ASSUME NEW s \in Source, DiscStep(s) PROVE NonceInv'
  BY <1>6, <1>9, DiscAlone
<1>. QED
  BY <1>6, <1>7, <1>8, <1>9, WhoseStep DEF vars, actors

\* A consent's state lets one callback through, for any number of consents and
\* callbacks that follow the redirect again, but for the two exceptions the
\* property names: a race between the read and the deletion, and an outage.
THEOREM StateOpensOnce == Spec => []StateOnce
<1>1. Init => Shape /\ NonceInv
  BY ShapeInit DEF Init, NonceInv, Deleting, StateOnce, NoCallback
<1>2. Shape /\ NonceInv /\ [Next]_vars => (Shape /\ NonceInv)'
  BY ShapeStep, NonceStep
<1>. QED
  BY <1>1, <1>2, PTL DEF Spec, NonceInv

-----------------------------------------------------------------------------
(* The token of the last consent.                                            *)

TokenLatest(tok) == tok \in {None, latest}

ConsentInv == ~crossed =>
    /\ TokenLatest(redis["own"]) /\ TokenLatest(vault["own"])
    /\ \A t \in Task : task[t].key = "own" /\ t \notin held => TokenLatest(task[t].mem)
    /\ \A s \in Source : s \notin held => TokenLatest(disc[s].mem)

LEMMA ConsentStep == ASSUME Shape, ConsentInv, [Next]_vars PROVE ConsentInv'
<1>. USE DEF Shape, TaskOK, DiscOK, ConsentInv, TokenLatest, Key
<1>1. ASSUME NEW c \in Callback, CallbackStep(c) PROVE ConsentInv'
  <2>1. UNCHANGED <<task, disc>>
    BY <1>1, CallbackAlone
  <2>2. CASE StoreTokens(cb[c].flow) /\ cb[c].flow \in Flow
    <3>1. /\ redis'["own"] \in {cb[c].flow, redis["own"]} /\ vault'["own"] \in {cb[c].flow, vault["own"]}
          /\ cb[c].flow \in {redis'["own"], vault'["own"]}
      BY <2>2, SetTokenEffect DEF StoreTokens
    <3>2. /\ latest' = cb[c].flow /\ crossed' = (redis'["own"] # vault'["own"])
          /\ \A t \in Task : task[t].mem # None => t \in held'
          /\ \A s \in Source : disc[s].mem # None => s \in held'
      BY <2>2 DEF StoreTokens
    <3>. QED
      BY <2>1, <3>1, <3>2
  <2>3. CASE UNCHANGED <<redis, vault, latest, held, crossed>>
    BY <2>1, <2>3
  <2>. QED
    BY <1>1, <2>2, <2>3 DEF CallbackStep, Authorize, Replay, ReadNonce, DeleteNonce, Exchange, MergeTokens,
       Connected, stores, history, FlowNamed, FlowsOK
<1>2. ASSUME NEW t \in Task, TaskStep(t) PROVE ConsentInv'
  <2>1. UNCHANGED <<disc, latest>>
    BY <1>2, TaskAlone
  <2>2. ASSUME NEW key \in Key, NEW mem, NEW s, NEW stat, Begin(t, key, mem, s, stat), key = "own" => mem = None,
               UNCHANGED <<redis, vault, crossed>>
        PROVE  ConsentInv'
    <3>1. key = "own" => Lookup(key, mem) \in {redis["own"], vault["own"]}
      BY <2>2 DEF Lookup, Stored
    <3>2. \A v \in Task : v # t => task'[v] = task[v] /\ (v \in held' <=> v \in held)
      BY <2>2 DEF Begin
    <3>3. \A v \in Source : v \in held' <=> v \in held
      BY <2>2, ApartAssumption DEF Begin, Source
    <3>4. task'[t].key = "own" => task'[t].mem = None \/ (key = "own" /\ task'[t].mem = Lookup(key, mem))
      BY <2>2 DEF Begin, NoTask
    <3>. QED
      BY <2>1, <2>2, <3>1, <3>2, <3>3, <3>4
  <2>3. ASSUME NEW s \in Source, BackfillStarts(t, s) PROVE ConsentInv'
    BY <2>1, <2>2, <2>3 DEF BackfillStarts
  <2>4. ASSUME NEW s \in Source, NotificationStarts(t, s) PROVE ConsentInv'
    BY <2>2, <2>4 DEF NotificationStarts
  <2>5. CASE UseToken(t)
    <3>1. \/ \E stat : Begin(t, "nested", task[t].mem, None, stat)
          \/ task' = [task EXCEPT ![t] = NoTask] /\ UNCHANGED held
      BY <2>5 DEF UseToken
    <3>2. UNCHANGED <<redis, vault, crossed>>
      BY <2>5 DEF UseToken
    <3>3. CASE \E stat : Begin(t, "nested", task[t].mem, None, stat)
      <4>1. PICK stat : Begin(t, "nested", task[t].mem, None, stat)
        BY <3>3
      <4>. QED
        BY <2>2, <3>2, <4>1
    <3>4. CASE task' = [task EXCEPT ![t] = NoTask] /\ UNCHANGED held
      <4>1. \A v \in Task : task'[v] = task[v] \/ task'[v].mem = None
        BY <3>4 DEF NoTask
      <4>. QED
        BY <2>1, <3>2, <3>4, <4>1
    <3>. QED
      BY <3>1, <3>3, <3>4
  <2>6. CASE RefreshToken(t)
    <3>1. \A v \in Task : \/ task'[v].mem = None
                          \/ task'[v].mem = task[v].mem /\ task'[v].key = task[v].key
      BY <2>6 DEF RefreshToken, NoTask
    <3>2. UNCHANGED <<redis, vault, held, crossed>>
      BY <2>6 DEF RefreshToken, history
    <3>. QED
      BY <2>1, <3>1, <3>2
  <2>7. CASE SaveToken(t)
    <3>1. /\ task' = [task EXCEPT ![t].pc = "use"] /\ UNCHANGED held
          /\ crossed' = (crossed \/ (task[t].key = "own" /\ t \in held))
      BY <2>7 DEF SaveToken
    <3>2. /\ redis'["own"] \in {redis["own"]} \cup (IF task[t].key = "own" THEN {task[t].mem} ELSE {})
          /\ vault'["own"] \in {vault["own"]} \cup (IF task[t].key = "own" THEN {task[t].mem} ELSE {})
      BY <2>7, SetTokenEffect DEF SaveToken
    <3>. QED
      BY <2>1, <3>1, <3>2
  <2>. QED
    BY <1>2, <2>3, <2>4, <2>5, <2>6, <2>7 DEF TaskStep
<1>3. ASSUME NEW s \in Source, DiscStep(s) PROVE ConsentInv'
  <2>1. UNCHANGED <<task, latest>>
    BY <1>3, DiscAlone
  <2>2. CASE DiscWatch(s)
    <3>1. /\ disc'[s].mem \in {None, redis["own"], vault["own"]} /\ held' = held \ {s}
          /\ \A v \in Source \ {s} : disc'[v] = disc[v]
          /\ UNCHANGED <<redis, vault, crossed>>
      BY <2>2 DEF DiscWatch, DiscGoes, Stored, stores
    <3>2. \A t \in Task : t \in held' <=> t \in held
      BY <3>1, ApartAssumption DEF Source
    <3>. QED
      BY <2>1, <3>1, <3>2
  <2>3. CASE DiscSave(s)
    <3>1. /\ crossed' = (crossed \/ s \in held) /\ UNCHANGED held
          /\ \A v \in Source : disc'[v].mem \in {None, disc[v].mem}
      BY <2>3 DEF DiscSave, DiscGoes
    <3>2. redis'["own"] \in {redis["own"], disc[s].mem} /\ vault'["own"] \in {vault["own"], disc[s].mem}
      BY <2>3, SetTokenEffect DEF DiscSave
    <3>. QED
      BY <2>1, <3>1, <3>2
  <2>4. CASE DiscBegins(s) \/ DiscRefresh(s) \/ DiscRow(s) \/ DiscClear(s) \/ DiscCutOff(s)
    <3>1. /\ UNCHANGED <<held, crossed>>
          /\ \A v \in Source : disc'[v].mem \in {None, disc[v].mem}
          /\ redis'["own"] \in {redis["own"], None} /\ vault'["own"] \in {vault["own"], None}
      BY <2>4 DEF DiscBegins, DiscRefresh, DiscRow, DiscClear, DiscCutOff, DiscGoes, history, stores, StoresOK
    <3>. QED
      BY <2>1, <3>1
  <2>. QED
    BY <1>3, <2>2, <2>3, <2>4 DEF DiscStep
<1>4. CASE UNCHANGED vars
  BY <1>4 DEF vars, stores, actors, history
<1>. QED
  BY <1>1, <1>2, <1>3, <1>4, WhoseStep

\* The token under the user's key is that of the consent stored last, for any
\* number of consents, tasks and refreshes, unless a refresh of an older one
\* was in flight or a store missed the write.
THEOREM TokenIsOfLastConsent == Spec => []TokenOfLastConsent
<1>1. Init => Shape /\ ConsentInv
  BY ShapeInit DEF Init, ConsentInv, TokenLatest, Key, NoTask
<1>2. Shape /\ ConsentInv /\ [Next]_vars => (Shape /\ ConsentInv)'
  BY ShapeStep, ConsentStep
<1>3. ConsentInv => TokenOfLastConsent
  BY DEF ConsentInv, TokenLatest, TokenOfLastConsent, Stored
<1>. QED
  BY <1>1, <1>2, <1>3, PTL DEF Spec

-----------------------------------------------------------------------------
(* The token follows the connection.                                         *)

HasToken == Stored("own") # None

\* Whoever holds a token holds one.
MemInv == /\ \A t \in Task : task[t].pc # "idle" => task[t].mem # None
          /\ \A s \in Source : disc[s].pc \in {"refresh", "save"} => disc[s].mem # None

\* A source whose status was never written is one no callback has connected:
\* nothing is queued, no worker runs, and a token is there only while the
\* callback that stored it is about to write the statuses.
Untouched == \E s \in Source : status[s] = "absent"
FirstInv == Untouched =>
    /\ queued = {} /\ cursor = {} /\ \A t \in Task : task[t].pc = "idle"
    /\ HasToken \/ (\E s \in Source : disc[s].mem # None) => CallbackOpen

\* While what can be dropped outlives both sources, the disconnect that drops
\* it is on its way.
Dropping == \E s \in Source : disc[s].pc \in {"watch", "refresh", "save", "row", "clear"}
DropInv == ~leftover /\ (\A s \in Source : status[s] = "not_connected") /\ Droppable => Dropping

\* While nothing is mixed: a callback that has its token meets no disconnect,
\* a disconnect's source says "not_connected", one that drops the token has
\* seen the other source gone, a connected source has its row, and one that
\* synchronises, as its worker's, has the token.
Busy(s) == disc[s].pc \notin {"idle", "done"}
Apart == /\ CallbackOpen => ~DiscOpen /\ HasToken
         /\ \A s \in Source : Busy(s) => status[s] = "not_connected"
         /\ \A s \in Source : disc[s].pc = "clear" => \A o \in Source : Gone(o)
         /\ \A s \in Source : ~Gone(s) => s \in rows
         /\ \A s \in Source : status[s] \in {"syncing", "active"} => HasToken
         /\ \A t \in Task, s \in Source : task[t].src = s => ~Gone(s) /\ HasToken
ApartInv == ~mixed => Apart

\* A blob that is stored is there, whichever of the two stores misses it.
LEMMA SetTokenKeeps ==
  ASSUME StoresOK, NEW key \in Key, NEW tok \in Flow, SetToken(key, tok)
  PROVE  /\ HasToken \/ key = "own" => HasToken'
         /\ key # "own" => HasToken' = HasToken
<1>1. tok # None
  BY ApartAssumption
<1>. QED
  BY <1>1 DEF SetToken, StoresOK, HasToken, Stored, Key

\* What looking a token up does.
LEMMA BeginEffect ==
  ASSUME TaskOK, NEW t \in Task, NEW key, NEW mem, NEW s, NEW stat, Begin(t, key, mem, s, stat)
  PROVE  /\ \A v \in Task \ {t} : task'[v] = task[v]
         /\ \/ /\ Lookup(key, mem) = None /\ task'[t].pc = "idle" /\ task'[t].src = None
               /\ status' = IF s = None THEN stat ELSE [stat EXCEPT ![s] = "needs_reauth"]
            \/ /\ Lookup(key, mem) # None /\ task'[t].pc = "use" /\ task'[t].src = s
               /\ task'[t].mem # None /\ status' = stat
BY DEF TaskOK, Begin, NoTask

LEMMA MemStep == ASSUME Shape, MemInv, [Next]_vars PROVE MemInv'
<1>. USE DEF Shape, TaskOK, DiscOK, MemInv
<1>1. ASSUME NEW c \in Callback, CallbackStep(c) PROVE MemInv'
  BY <1>1, CallbackAlone
<1>2. ASSUME NEW t \in Task, TaskStep(t) PROVE MemInv'
  <2>1. \A v \in Task : task'[v].pc # "idle" => task'[v].mem # None
    <3>1. CASE \E s \in Source : BackfillStarts(t, s) \/ NotificationStarts(t, s)
      <4>1. \/ UNCHANGED task
            \/ \E key \in Key, s \in Source \cup {None} : \E stat : Begin(t, key, None, s, stat)
        BY <3>1 DEF BackfillStarts, NotificationStarts, Key
      <4>. QED
        BY <4>1, BeginEffect
    <3>2. CASE UseToken(t)
      <4>1. \/ task' = [task EXCEPT ![t] = NoTask]
            \/ \E stat : Begin(t, "nested", task[t].mem, None, stat)
        BY <3>2 DEF UseToken
      <4>2. CASE task' = [task EXCEPT ![t] = NoTask]
        BY <4>2 DEF NoTask
      <4>. QED
        BY <4>1, <4>2, BeginEffect
    <3>3. CASE RefreshToken(t) \/ SaveToken(t)
      BY <3>3 DEF RefreshToken, SaveToken, NoTask
    <3>. QED
      BY <1>2, <3>1, <3>2, <3>3 DEF TaskStep
  <2>. QED
    BY <1>2, <2>1, TaskAlone
<1>3. ASSUME NEW s \in Source, DiscStep(s) PROVE MemInv'
  <2>1. \A v \in Source : disc'[v].pc \in {"refresh", "save"} => disc'[v].mem # None
    BY <1>3 DEF DiscStep, DiscBegins, DiscWatch, DiscRefresh, DiscSave, DiscRow, DiscClear, DiscCutOff, DiscGoes
  <2>. QED
    BY <1>3, <2>1, DiscAlone
<1>. QED
  BY <1>1, <1>2, <1>3, WhoseStep DEF vars, actors

\* Who opens and who closes a callback's stretch between the token and the
\* statuses.
LEMMA CallbackOpens ==
  ASSUME Shape, NEW c \in Callback, CallbackStep(c)
  PROVE  /\ CallbackOpen /\ ~Connected(c) => CallbackOpen'
         /\ \/ CallbackOpen' => CallbackOpen
            \/ Exchange(c) /\ StoreTokens(cb[c].flow) /\ mixed' = (mixed \/ DiscOpen) /\ UNCHANGED status
<1>. USE DEF CallbackOpen, Shape, CallbackOK, CallbackRecord
<1>1. ASSUME NEW f \in Flow, Authorize(c, f) \/ Replay(c, f) PROVE CallbackOpen' <=> CallbackOpen
  BY <1>1 DEF Authorize, Replay
<1>2. CASE ReadNonce(c)
  <2>1. CASE \E with : cb' = [o \in Callback |-> IF o = c THEN [cb[c] EXCEPT !.pc = "delete", !.raced = with # {}]
                                              ELSE [cb[o] EXCEPT !.raced = @ \/ o \in with]]
    <3>1. PICK with : cb' = [o \in Callback |-> IF o = c THEN [cb[c] EXCEPT !.pc = "delete", !.raced = with # {}]
                                              ELSE [cb[o] EXCEPT !.raced = @ \/ o \in with]]
      BY <2>1
    <3>2. cb'[c].pc = "delete" /\ \A o \in Callback \ {c} : cb'[o].pc = cb[o].pc
      BY <3>1
    <3>3. cb[c].pc = "get"
      BY <1>2 DEF ReadNonce
    <3>. QED
      BY <3>2, <3>3
  <2>2. CASE cb' = [cb EXCEPT ![c] = [NoCallback EXCEPT !.pc = "done"]] \/ cb' = [cb EXCEPT ![c].pc = "exchange"]
    BY <1>2, <2>2 DEF ReadNonce, NoCallback
  <2>. QED
    BY <1>2, <2>1, <2>2 DEF ReadNonce
<1>3. CASE DeleteNonce(c)
  BY <1>3 DEF DeleteNonce
<1>4. CASE Exchange(c)
  <2>1. CASE cb' = [cb EXCEPT ![c] = [NoCallback EXCEPT !.pc = "done"]]
    BY <1>4, <2>1 DEF Exchange, NoCallback
  <2>2. CASE /\ StoreTokens(cb[c].flow) /\ mixed' = (mixed \/ DiscOpen)
             /\ cb' = [cb EXCEPT ![c].pc = "merge"]
    <3>1. UNCHANGED status /\ CallbackOpen'
      BY <1>4, <2>2 DEF Exchange
    <3>. QED
      BY <1>4, <2>2, <3>1
  <2>. QED
    BY <1>4, <2>1, <2>2 DEF Exchange
<1>5. CASE MergeTokens(c)
  BY <1>5 DEF MergeTokens
<1>6. CASE Connected(c)
  BY <1>6 DEF Connected, NoCallback
<1>. QED
  BY <1>1, <1>2, <1>3, <1>4, <1>5, <1>6 DEF CallbackStep

LEMMA FirstStep == ASSUME Shape, MemInv, FirstInv, [Next]_vars PROVE FirstInv'
<1>. SUFFICES ASSUME Untouched'
              PROVE  /\ queued' = {} /\ cursor' = {} /\ \A t \in Task : task'[t].pc = "idle"
                     /\ HasToken' \/ (\E s \in Source : disc'[s].mem # None) => CallbackOpen'
  BY DEF FirstInv
<1>1. Untouched
  BY StatusStep DEF Untouched
<1>2. queued = {} /\ cursor = {} /\ \A t \in Task : task[t].pc = "idle"
  BY <1>1 DEF FirstInv
<1>3. HasToken \/ (\E s \in Source : disc[s].mem # None) => CallbackOpen
  BY <1>1 DEF FirstInv
<1>. DEFINE Goal == /\ queued' = {} /\ cursor' = {} /\ \A t \in Task : task'[t].pc = "idle"
                    /\ HasToken' \/ (\E s \in Source : disc'[s].mem # None) => CallbackOpen'
<1>4. ASSUME NEW c \in Callback, CallbackStep(c) PROVE Goal
  <2>1. ~Connected(c)
    BY <1>4 DEF Connected, Untouched, Stamped, Shape, StatusOK, Source
  <2>2. UNCHANGED <<queued, cursor, task, disc>>
    BY <1>4, <2>1, CallbackAlone DEF CallbackStep, Authorize, Replay, ReadNonce, DeleteNonce, Exchange, MergeTokens, stores
  <2>3. CASE UNCHANGED <<redis, vault>>
    <3>1. HasToken' = HasToken
      BY <2>3 DEF HasToken, Stored
    <3>. QED
      BY <1>2, <1>3, <1>4, <2>1, <2>2, <3>1, CallbackOpens
  <2>4. CASE MergeTokens(c) \/ (Exchange(c) /\ cb' = [cb EXCEPT ![c].pc = "merge"])
    <3>1. CallbackOpen'
      BY <2>4 DEF MergeTokens, CallbackOpen, Shape, CallbackOK, CallbackRecord
    <3>. QED
      BY <1>2, <2>2, <3>1
  <2>. QED
    BY <1>4, <2>1, <2>3, <2>4 DEF CallbackStep, Authorize, Replay, ReadNonce, DeleteNonce, Exchange, stores
<1>5. ASSUME NEW t \in Task, TaskStep(t) PROVE Goal
  <2>1. task[t].pc = "idle" /\ queued = {} /\ cursor = {}
    BY <1>2
  <2>. QED
    BY <1>5, <2>1 DEF TaskStep, BackfillStarts, NotificationStarts, UseToken, RefreshToken, SaveToken
<1>6. ASSUME NEW s \in Source, DiscStep(s) PROVE Goal
  <2>1. UNCHANGED <<queued, task, cb>> /\ cursor' \subseteq cursor
    BY <1>6, DiscAlone DEF DiscStep, DiscBegins, DiscWatch, DiscRefresh, DiscSave, DiscRow, DiscClear, DiscCutOff, stores
  <2>2. CallbackOpen' = CallbackOpen
    BY <2>1 DEF CallbackOpen
  <2>3. HasToken' => HasToken \/ \E v \in Source : disc[v].mem # None
    <3>1. CASE DiscSave(s)
      BY <3>1 DEF DiscSave, MemInv, Source
    <3>2. CASE DiscClear(s)
      BY <3>2 DEF DiscClear, HasToken, Stored, Shape, StoresOK, Key
    <3>3. CASE UNCHANGED <<redis, vault>>
      BY <3>3 DEF HasToken, Stored
    <3>. QED
      BY <1>6, <3>1, <3>2, <3>3 DEF DiscStep, DiscBegins, DiscWatch, DiscRefresh, DiscRow, DiscCutOff, stores
  <2>4. \A v \in Source : disc'[v].mem \in {None, disc[v].mem, Stored("own")}
    BY <1>6 DEF DiscStep, DiscBegins, DiscWatch, DiscRefresh, DiscSave, DiscRow, DiscClear, DiscCutOff, DiscGoes,
       Shape, DiscOK
  <2>. QED
    BY <1>2, <1>3, <2>1, <2>2, <2>3, <2>4 DEF HasToken
<1>7. CASE UNCHANGED vars
  BY <1>2, <1>3, <1>7 DEF vars, stores, actors, HasToken, Stored, CallbackOpen
<1>. QED
  BY <1>4, <1>5, <1>6, <1>7, WhoseStep

LEMMA DropStep == ASSUME Shape, DropInv, [Next]_vars PROVE DropInv'
<1>. DEFINE Both == \A s \in Source : status[s] = "not_connected"
<1>. SUFFICES ASSUME ~leftover', Both', Droppable' PROVE Dropping'
  BY DEF DropInv
<1>1. CASE \E s \in Source : DiscBegins(s)
  BY <1>1 DEF DiscBegins, DiscGoes, Dropping, Shape, DiscOK
<1>2. CASE ~ \E s \in Source : DiscBegins(s)
  <2>1. Both
    BY <1>2, StatusStep
  <2>2. leftover => \E s \in Source : DiscClear(s)
    BY WhoseStep DEF CallbackStep, Authorize, Replay, ReadNonce, DeleteNonce, Exchange, MergeTokens, Connected,
       TaskStep, BackfillStarts, NotificationStarts, UseToken, RefreshToken, SaveToken, StoreTokens, Late,
       DiscStep, DiscBegins, DiscWatch, DiscRefresh, DiscSave, DiscRow, DiscCutOff, vars, history
  <2>3. ASSUME NEW c \in Callback, StoreTokens(cb[c].flow) PROVE FALSE
    BY <2>1, <2>3 DEF StoreTokens, Late
  <2>4. ASSUME NEW s \in Source, DiscClear(s) PROVE FALSE
    BY <2>4, SettingStays DEF DiscClear, Droppable, Shape, StoresOK, Key
  <2>5. ASSUME NEW t \in Task, SaveToken(t) PROVE Droppable' = Droppable
    <3>1. task[t].key # "own"
      BY <2>1, <2>5 DEF SaveToken, Late
    <3>. QED
      BY <2>5, <3>1, SettingStays DEF SaveToken, SetToken, Droppable, Shape, StoresOK, TaskOK, Key
  <2>6. ASSUME NEW s \in Source, DiscSave(s) PROVE FALSE
    BY <2>1, <2>6 DEF DiscSave, Late
  <2>7. Droppable
    BY <2>3, <2>4, <2>5, <2>6, StoresStep, SettingStays DEF Droppable
  <2>8. Dropping
    BY <2>1, <2>2, <2>4, <2>7 DEF DropInv
  <2>9. ASSUME NEW s \in Source, DiscStep(s) PROVE Dropping'
    <3>1. Gone(Other(s))
      BY <2>1 DEF Gone, Other, Source
    <3>. QED
      BY <1>2, <2>4, <2>6, <2>8, <2>9, <3>1 DEF DiscStep, DiscWatch, DiscRefresh, DiscRow, DiscCutOff, DiscGoes,
         Dropping, Shape, DiscOK
  <2>. QED
    BY <2>8, <2>9, WhoseStep, CallbackAlone, TaskAlone DEF Dropping, vars, actors
<1>. QED
  BY <1>1, <1>2

\* What a callback may change keeps the parts apart.
LEMMA CallbackApart ==
  ASSUME Shape, FirstInv, ApartInv, NEW c \in Callback, CallbackStep(c), ~mixed' PROVE Apart'
<1>1. ~mixed /\ UNCHANGED <<task, disc>>
  <2>1. Connected(c) => ~mixed
    BY DEF Connected
  <2>2. Exchange(c) => ~mixed
    BY DEF Exchange
  <2>3. Connected(c) \/ Exchange(c) \/ UNCHANGED mixed
    BY DEF CallbackStep, Authorize, Replay, ReadNonce, DeleteNonce, MergeTokens, history
  <2>4. ~mixed
    BY <2>1, <2>2, <2>3
  <2>. QED
    BY <2>4, CallbackAlone
<1>2. Apart
  BY <1>1 DEF ApartInv
<1>3. DiscOpen' = DiscOpen /\ \A s \in Source : Busy(s)' = Busy(s)
  BY <1>1 DEF DiscOpen, Busy
<1>4. CASE Connected(c)
  <2>1. cb[c].pc = "rows" /\ UNCHANGED <<redis, vault>> /\ rows' = Source
    BY <1>4 DEF Connected
  <2>2. CallbackOpen /\ HasToken /\ HasToken' = HasToken
    BY <1>2, <2>1 DEF CallbackOpen, Apart, HasToken, Stored
  <2>3. ~DiscOpen /\ \A s \in Source : ~Busy(s)
    BY <1>2, <2>2 DEF Apart, DiscOpen, Busy
  <2>4. \A s \in Source : Gone(s)' => Gone(s)
    BY StatusStep, <1>4, WhoseStep DEF Gone, Next, DiscBegins, Connected, Stamped, Shape, StatusOK, Source
  <2>. QED
    BY <1>1, <1>2, <1>3, <2>1, <2>2, <2>3, <2>4 DEF Apart, Busy, Source
<1>5. CASE ~Connected(c)
  <2>1. UNCHANGED <<status, rows>>
    BY <1>5 DEF CallbackStep, Authorize, Replay, ReadNonce, DeleteNonce, Exchange, MergeTokens, stores
  <2>2. HasToken => HasToken'
    <3>1. CASE UNCHANGED <<redis, vault>>
      BY <3>1 DEF HasToken, Stored
    <3>2. CASE StoreTokens(cb[c].flow) /\ cb[c].flow \in Flow
      BY <3>2, SetTokenKeeps DEF StoreTokens, Shape, Key
    <3>. QED
      BY <3>1, <3>2 DEF CallbackStep, Authorize, Replay, ReadNonce, DeleteNonce, Exchange, MergeTokens, Connected, stores,
         Shape, FlowNamed, FlowsOK
  <2>3. CallbackOpen' => ~DiscOpen /\ HasToken'
    <3>1. CASE Exchange(c) /\ StoreTokens(cb[c].flow) /\ mixed' = (mixed \/ DiscOpen)
      <4>1. cb[c].flow \in Flow
        BY <3>1 DEF Exchange, Shape, FlowNamed, FlowsOK
      <4>. QED
        BY <3>1, <4>1, SetTokenKeeps DEF StoreTokens, Shape, Key
    <3>. QED
      BY <1>2, <2>2, <3>1, CallbackOpens DEF Apart
  <2>4. \A s \in Source : Gone(s)' = Gone(s)
    BY <2>1 DEF Gone
  <2>. QED
    BY <1>1, <1>2, <1>3, <2>1, <2>2, <2>3, <2>4 DEF Apart
<1>. QED
  BY <1>4, <1>5

\* What a worker may change does.
LEMMA TaskApart ==
  ASSUME Shape, MemInv, FirstInv, ApartInv, NEW t \in Task, TaskStep(t), ~mixed' PROVE Apart'
<1>0. UNCHANGED <<cb, disc, rows>>
  BY TaskAlone
<1>1. DiscOpen' = DiscOpen /\ CallbackOpen' = CallbackOpen /\ \A s \in Source : Busy(s)' = Busy(s)
  BY <1>0 DEF DiscOpen, CallbackOpen, Busy
<1>2. ~mixed
  BY DEF TaskStep, BackfillStarts, NotificationStarts, UseToken, RefreshToken, SaveToken, history
<1>3. Apart
  BY <1>2 DEF ApartInv
<1>4. HasToken => HasToken'
  <2>1. CASE SaveToken(t)
    <3>1. task[t].mem \in Flow /\ task[t].key \in Key
      BY <2>1 DEF SaveToken, MemInv, Shape, TaskOK
    <3>. QED
      BY <2>1, <3>1, SetTokenKeeps DEF SaveToken, Shape
  <2>2. CASE UNCHANGED <<redis, vault>>
    BY <2>2 DEF HasToken, Stored
  <2>. QED
    BY <2>1, <2>2 DEF TaskStep, BackfillStarts, NotificationStarts, UseToken, RefreshToken
\* It is enough that no source comes or goes, none begins to synchronise
\* without a token, and the worker's own is a connected one.
<1>5. ASSUME \A s \in Source : Gone(s)' <=> Gone(s),
             \A s \in Source : status[s] = "not_connected" => status'[s] = "not_connected",
             \A s \in Source : status'[s] \in {"syncing", "active"} => status'[s] = status[s] \/ HasToken,
             \A v \in Task, s \in Source : task'[v].src = s => task[v].src = s \/ (~Gone(s) /\ HasToken)
      PROVE  Apart'
  BY <1>0, <1>1, <1>3, <1>4, <1>5 DEF Apart
<1>6. ASSUME NEW s \in Source, BackfillStarts(t, s) PROVE Apart'
  <2>0. status[s] # "absent"
    BY <1>6 DEF BackfillStarts, FirstInv, Untouched
  <2>1. CASE UNCHANGED <<task, status>>
    BY <1>5, <2>1 DEF Gone
  <2>2. CASE /\ Begin(t, "own", None, s, Stamped(s, "syncing", TRUE))
             /\ mixed' = (mixed \/ DiscOpen \/ (status[s] = "not_connected" /\ s \notin rows))
    <3>1. ~DiscOpen /\ s \in rows
      BY <1>3, <2>0, <2>2 DEF Apart, Gone
    <3>2. Stamped(s, "syncing", TRUE) = [status EXCEPT ![s] = "syncing"]
      BY DEF Stamped
    <3>3. Lookup("own", None) # None <=> HasToken
      BY DEF Lookup, HasToken
    <3>. DEFINE stat == Stamped(s, "syncing", TRUE)
    <3>4. /\ \A v \in Task \ {t} : task'[v] = task[v]
          /\ \/ ~HasToken /\ task'[t].src = None /\ status' = [stat EXCEPT ![s] = "needs_reauth"]
             \/ HasToken /\ task'[t].src = s /\ status' = stat
      <4>1. Begin(t, "own", None, s, stat)
        BY <2>2
      <4>. HIDE DEF stat
      <4>2. s # None
        BY ApartAssumption DEF Source
      <4>. QED
        BY <3>3, <4>1, <4>2, BeginEffect DEF Shape
    <3>5. /\ \A o \in Source \ {s} : status'[o] = status[o]
          /\ status'[s] = IF HasToken THEN "syncing" ELSE "needs_reauth"
      BY <3>2, <3>4 DEF Shape, StatusOK
    <3>6. \A o \in Source : ~Busy(o)
      BY <3>1 DEF DiscOpen, Busy
    <3>7. \A o \in Source : Gone(o)' => Gone(o)
      BY <3>5 DEF Gone
    <3>8. /\ CallbackOpen' => ~DiscOpen' /\ HasToken'
          /\ \A o \in Source : Busy(o)' => status'[o] = "not_connected"
          /\ \A o \in Source : disc'[o].pc = "clear" => \A q \in Source : Gone(q)'
      BY <1>0, <1>1, <1>3, <1>4, <3>6 DEF Apart, Busy
    <3>9. /\ \A o \in Source : ~Gone(o)' => o \in rows'
          /\ \A o \in Source : status'[o] \in {"syncing", "active"} => HasToken'
      BY <1>0, <1>3, <1>4, <3>1, <3>5 DEF Apart, Gone
    <3>10. ASSUME NEW v \in Task, NEW o \in Source, task'[v].src = o PROVE ~Gone(o)' /\ HasToken'
      <4>1. CASE v = t
        BY <1>4, <3>4, <3>5, <3>10, <4>1, ApartAssumption DEF Gone, Source
      <4>2. CASE v # t
        BY <1>3, <1>4, <3>4, <3>7, <3>10, <4>2 DEF Apart
      <4>. QED
        BY <4>1, <4>2
    <3>. QED
      BY <3>8, <3>9, <3>10 DEF Apart
  <2>. QED
    BY <1>6, <2>1, <2>2 DEF BackfillStarts
<1>7. ASSUME NEW s \in Source, NotificationStarts(t, s) PROVE Apart'
  <2>1. UNCHANGED status /\ task'[t].src = None /\ \A v \in Task \ {t} : task'[v] = task[v]
    BY <1>7, BeginEffect DEF NotificationStarts, Shape
  <2>. QED
    BY <1>5, <2>1, ApartAssumption DEF Gone, Source
<1>8. ASSUME task[t].pc # "idle",
             \A s \in Source : status'[s] = status[s] \/ (status[s] # "not_connected" /\ status'[s] = "needs_reauth")
                                \/ (status[s] # "not_connected" /\ task[t].src = s /\ status'[s] = "active"),
             \A v \in Task : task'[v].src \in {None, task[v].src}
      PROVE  Apart'
  <2>1. \A s \in Source : status[s] # "absent"
    BY <1>8 DEF FirstInv, Untouched
  <2>2. \A s \in Source : task[t].src = s => HasToken
    BY <1>3 DEF Apart
  <2>3. \A s \in Source : Gone(s)' <=> Gone(s)
    BY <1>8, <2>1 DEF Gone
  <2>4. \A v \in Task, s \in Source : task'[v].src = s => task[v].src = s
    BY <1>8, ApartAssumption DEF Source
  <2>5. \A s \in Source : status'[s] \in {"syncing", "active"} => status'[s] = status[s] \/ HasToken
    BY <1>8, <2>2
  <2>6. \A s \in Source : status[s] = "not_connected" => status'[s] = "not_connected"
    BY <1>8
  <2>. QED
    BY <1>5, <2>3, <2>4, <2>5, <2>6
<1>9. CASE UseToken(t)
  <2>. DEFINE stat == IF task[t].src = None THEN status ELSE Stamped(task[t].src, "active", FALSE)
  <2>1. \/ task' = [task EXCEPT ![t] = NoTask] /\ status' = stat
        \/ Begin(t, "nested", task[t].mem, None, stat)
    BY <1>9 DEF UseToken
  <2>2. status' = stat /\ task'[t].src = None /\ \A v \in Task \ {t} : task'[v] = task[v]
    <3>1. CASE task' = [task EXCEPT ![t] = NoTask] /\ status' = stat
      BY <3>1 DEF NoTask, Shape, TaskOK
    <3>2. CASE Begin(t, "nested", task[t].mem, None, stat)
      <4>. HIDE DEF stat
      <4>. QED
        BY <3>2, BeginEffect DEF Shape
    <3>. QED
      BY <2>1, <3>1, <3>2
  <2>3. \A s \in Source : stat[s] = status[s] \/ (status[s] # "not_connected" /\ task[t].src = s /\ stat[s] = "active")
    BY DEF Stamped, Shape, StatusOK, TaskOK
  <2>4. task[t].pc # "idle"
    BY <1>9 DEF UseToken
  <2>. HIDE DEF stat
  <2>. QED
    BY <1>8, <2>2, <2>3, <2>4
<1>10. CASE RefreshToken(t) \/ SaveToken(t)
  <2>1. \A s \in Source : status'[s] = status[s] \/ (status[s] # "not_connected" /\ status'[s] = "needs_reauth")
    BY <1>10 DEF RefreshToken, SaveToken, Reauth
  <2>2. task[t].pc # "idle" /\ \A v \in Task : task'[v].src \in {None, task[v].src}
    BY <1>10 DEF RefreshToken, SaveToken, NoTask, Shape, TaskOK
  <2>. QED
    BY <1>8, <2>1, <2>2
<1>. QED
  BY <1>6, <1>7, <1>9, <1>10 DEF TaskStep

\* And what a disconnect may change.
LEMMA DiscApart ==
  ASSUME Shape, MemInv, FirstInv, ApartInv, NEW s \in Source, DiscStep(s), ~mixed' PROVE Apart'
<1>. USE DEF Shape
<1>0. UNCHANGED <<cb, task>> /\ CallbackOpen' = CallbackOpen
  BY DiscAlone DEF CallbackOpen
<1>1. ~mixed
  BY DEF DiscStep, DiscBegins, DiscWatch, DiscRefresh, DiscSave, DiscRow, DiscClear, DiscCutOff, history
<1>2. Apart
  BY <1>1 DEF ApartInv
<1>3. \A o \in Source : o = s \/ o = Other(s)
  BY DEF Other, Source
<1>4. CASE DiscBegins(s)
  <2>1. /\ status' = [status EXCEPT ![s] = "not_connected"] /\ ~Connecting(s)
        /\ \A o \in Source \ {s} : disc'[o] = disc[o]
        /\ disc'[s].pc # "clear" /\ UNCHANGED <<rows, redis, vault>>
    BY <1>4 DEF DiscBegins, DiscGoes, DiscOK
  <2>2. ~CallbackOpen /\ \A t \in Task : task[t].src # s
    BY <2>1 DEF Connecting
  <2>3. \A o \in Source : /\ Gone(o) => Gone(o)'
                          /\ o # s => Gone(o)' = Gone(o) /\ status'[o] = status[o]
    BY <2>1 DEF Gone, StatusOK
  <2>4. Gone(s)' /\ status'[s] = "not_connected"
    BY <2>1 DEF Gone, StatusOK
  <2>5. HasToken' = HasToken
    BY <2>1 DEF HasToken, Stored
  <2>. QED
    BY <1>0, <1>2, <2>1, <2>2, <2>3, <2>4, <2>5 DEF Apart, Busy
<1>5. CASE ~DiscBegins(s)
  <2>1. Busy(s) /\ DiscOpen
    BY <1>5 DEF DiscStep, DiscWatch, DiscRefresh, DiscSave, DiscRow, DiscClear, DiscCutOff, Busy, DiscOpen
  <2>2. ~CallbackOpen /\ status[s] = "not_connected"
    BY <1>2, <2>1 DEF Apart
  <2>3. /\ \A o \in Source \ {s} : disc'[o] = disc[o]
        /\ rows \ {s} \subseteq rows'
    BY <1>5 DEF DiscStep, DiscWatch, DiscRefresh, DiscSave, DiscRow, DiscClear, DiscCutOff, DiscGoes, DiscOK, stores
  <2>4. \A o \in Source : status'[o] = status[o] \/ (~Gone(o) /\ status'[o] = "needs_reauth")
    <3>1. CASE DiscRefresh(s)
      <4>1. disc[s].mem # None
        BY <3>1 DEF DiscRefresh, MemInv
      <4>2. ~Untouched
        BY <2>2, <4>1 DEF FirstInv
      <4>. QED
        BY <3>1, <4>2 DEF DiscRefresh, Reauth, Untouched, Gone
    <3>2. CASE UNCHANGED status
      BY <3>2
    <3>. QED
      BY <1>5, <3>1, <3>2 DEF DiscStep, DiscWatch, DiscSave, DiscRow, DiscClear, DiscCutOff, stores
  <2>5. \A o \in Source : Gone(o)' = Gone(o)
    BY <2>4 DEF Gone
  <2>6. disc'[s].pc = "clear" => \A o \in Source : Gone(o)
    <3>1. CASE DiscRow(s)
      <4>1. Gone(s)
        BY <2>2 DEF Gone
      <4>2. disc'[s].pc = "clear" => Gone(Other(s))
        BY <3>1 DEF DiscRow, DiscGoes, DiscOK
      <4>. QED
        BY <1>3, <4>1, <4>2
    <3>2. CASE ~DiscRow(s)
      BY <1>5, <3>2 DEF DiscStep, DiscWatch, DiscRefresh, DiscSave, DiscClear, DiscCutOff, DiscGoes, DiscOK
    <3>. QED
      BY <3>1, <3>2
  <2>7. HasToken => HasToken' \/ \A o \in Source : Gone(o)
    <3>1. CASE DiscSave(s)
      <4>1. disc[s].mem \in Flow
        BY <3>1 DEF DiscSave, MemInv, DiscOK
      <4>. QED
        BY <3>1, <4>1, SetTokenKeeps DEF DiscSave, Key
    <3>2. CASE DiscClear(s)
      BY <1>2, <3>2 DEF DiscClear, Apart
    <3>3. CASE UNCHANGED <<redis, vault>>
      BY <3>3 DEF HasToken, Stored
    <3>. QED
      BY <1>5, <3>1, <3>2, <3>3 DEF DiscStep, DiscWatch, DiscRefresh, DiscRow, DiscCutOff, stores
  <2>8. \A o \in Source : Busy(o)' => Busy(o)
    BY <2>1, <2>3 DEF Busy
  <2>9. ~CallbackOpen'
    BY <1>0, <2>2
  <2>10. \A o \in Source : Busy(o)' => status'[o] = "not_connected"
    BY <1>2, <2>4, <2>8 DEF Apart, Gone
  <2>11. \A o \in Source : disc'[o].pc = "clear" => \A q \in Source : Gone(q)'
    BY <1>2, <2>3, <2>5, <2>6 DEF Apart
  <2>12. \A o \in Source : ~Gone(o)' => o \in rows'
    BY <1>2, <2>2, <2>3, <2>5 DEF Apart, Gone
  <2>13. \A o \in Source : status'[o] \in {"syncing", "active"} => HasToken'
    BY <1>2, <2>4, <2>7 DEF Apart, Gone
  <2>14. \A t \in Task, o \in Source : task'[t].src = o => ~Gone(o)' /\ HasToken'
    BY <1>0, <1>2, <2>5, <2>7 DEF Apart
  <2>. QED
    BY <2>9, <2>10, <2>11, <2>12, <2>13, <2>14 DEF Apart
<1>. QED
  BY <1>4, <1>5

LEMMA ApartStep == ASSUME Shape, MemInv, FirstInv, ApartInv, [Next]_vars PROVE ApartInv'
<1>. SUFFICES ASSUME ~mixed' PROVE Apart'
  BY DEF ApartInv
<1>1. CASE UNCHANGED vars
  BY <1>1 DEF vars, stores, actors, history, ApartInv, Apart, CallbackOpen, DiscOpen, HasToken, Stored, Busy, Gone
<1>. QED
  BY <1>1, WhoseStep, CallbackApart, TaskApart, DiscApart

TokenInv == MemInv /\ FirstInv /\ DropInv /\ ApartInv

\* A connected source has the user's token, and the last of two disconnects
\* drops every copy that clear_token can drop (Redis's, and the vault's where its
\* client has a delete), for any number of consents, callbacks, workers and
\* failures, but for the exceptions the property names.
THEOREM TokenTracksConnection == Spec => []TokenFollowsConnection
<1>1. Init => Shape /\ TokenInv
  <2>. SUFFICES ASSUME Init PROVE Shape /\ TokenInv
    OBVIOUS
  <2>1. ~HasToken /\ ~CallbackOpen /\ \A s \in Source : Gone(s) /\ ~Busy(s) /\ disc[s].mem = None
    BY DEF Init, HasToken, Stored, Key, NoCallback, CallbackOpen, Gone, Busy
  <2>2. \A t \in Task : task[t].pc = "idle" /\ \A s \in Source : task[t].src # s
    BY ApartAssumption DEF Init, NoTask, Source
  <2>3. queued = {} /\ cursor = {}
    BY DEF Init
  <2>4. MemInv /\ FirstInv /\ DropInv
    <3>1. ~Droppable
      BY DEF Init, Droppable, Key
    <3>. QED
      BY <2>1, <2>2, <2>3, <3>1 DEF MemInv, FirstInv, DropInv, Busy
  <2>5. ApartInv
    BY <2>1, <2>2 DEF ApartInv, Apart, Busy, Gone
  <2>. QED
    BY ShapeInit, <2>4, <2>5 DEF TokenInv
<1>2. Shape /\ TokenInv /\ [Next]_vars => (Shape /\ TokenInv)'
  BY ShapeStep, MemStep, FirstStep, DropStep, ApartStep DEF TokenInv
<1>3. Shape /\ TokenInv => TokenFollowsConnection
  <2>1. SUFFICES ASSUME Shape, TokenInv PROVE DisconnectClears /\ ConnectedHasToken
    BY DEF TokenFollowsConnection
  <2>2. DisconnectClears
    <3>1. SUFFICES ASSUME Quiet, AllGone, ~leftover, Droppable PROVE FALSE
      BY DEF DisconnectClears
    <3>2. ~CallbackOpen /\ ~Dropping
      BY <3>1 DEF Quiet, CallbackOpen, Dropping
    <3>3. ~Untouched
      <4>1. HasToken
        BY <3>1 DEF Droppable, HasToken, Stored
      <4>. QED
        BY <2>1, <3>2, <4>1 DEF TokenInv, FirstInv
    <3>. QED
      BY <2>1, <3>1, <3>2, <3>3 DEF TokenInv, DropInv, AllGone, Gone, Untouched
  <2>3. ConnectedHasToken
    BY <2>1 DEF ConnectedHasToken, TokenInv, ApartInv, Apart, HasToken, Gone
  <2>. QED
    BY <2>2, <2>3
<1>. QED
  BY <1>1, <1>2, <1>3, PTL DEF Spec
====
