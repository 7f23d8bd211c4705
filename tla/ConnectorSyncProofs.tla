------------------------ MODULE ConnectorSyncProofs ------------------------
(* Theorems about ConnectorSync, for every number of pages, workers and     *)
(* every bound.                                                             *)
EXTENDS ConnectorSync, FiniteSetTheorems, TLAPS

(* The page a worker has fetched and not yet indexed is the one after pos,  *)
(* and the token it holds is the one that came with that page.              *)
InHand == \A w \in Workers : pc[w] \in {"pipe", "index"} =>
            /\ pos[w] < ChangesToken
            /\ nxt[w] = IF pos[w] + 1 < NPages THEN pos[w] + 1 ELSE 0

(* A set_status call in progress stamps "syncing" in the middle of a crawl,  *)
(* "active" at its end and a failure in the except clause.                   *)
Stamps == \A w \in Workers : pc[w] \in {"guard", "put"} =>
            \/ val[w] = "syncing" /\ ret[w] \in {"ckptcheck", "store"}
            \/ val[w] = "active" /\ ret[w] = "idle"
            \/ val[w] \in {"error", "needs_reauth"} /\ ret[w] = "exit"

TypeInv == TypeOK /\ InHand /\ Stamps

LEMMA TypeInit == Init => TypeInv
<1>. SUFFICES ASSUME Init PROVE TypeInv
  OBVIOUS
<1>. USE NPagesAssumption DEF Init, Tokens, Pages, Statuses, WorkerPCs, RequestPCs, DisconnectPCs
<1>1. /\ 0 \in Tokens /\ 0 \in 0..NPages - 1
      /\ "idle" \in WorkerPCs /\ "syncing" \in Statuses
  OBVIOUS
<1>2. TypeOK
  BY <1>1 DEF TypeOK
<1>3. InHand /\ Stamps
  BY DEF InHand, Stamps
<1>. QED
  BY <1>2, <1>3 DEF TypeInv

(* A write of the status, lost or not, keeps the types of what it touches.   *)
LEMMA WriteTyped ==
  ASSUME TypeOK, NEW v \in Statuses, WriteStatus(v)
  PROVE  /\ status' \in Statuses \cup {"absent"} /\ late' \in [Workers -> Nat]
         /\ unwritten' \in BOOLEAN /\ redis' \in Nat
<1>1. late' \in [Workers -> Nat] /\ redis' \in Nat /\ status' \in Statuses \cup {"absent"}
  BY DEF TypeOK, WriteStatus, RedisFails
<1>2. unwritten' \in BOOLEAN
  BY Zenon DEF TypeOK, WriteStatus
<1>. QED
  BY <1>1, <1>2

LEMMA TypeStep == TypeInv /\ [Next]_vars => TypeOK'
<1>. SUFFICES ASSUME TypeInv, [Next]_vars PROVE TypeOK'
  OBVIOUS
<1>. USE NPagesAssumption
<1>1. TypeOK /\ InHand /\ Stamps
  BY DEF TypeInv
<1>2. TypeOK'
  <2>1. CASE TriggerStatus
    <3>1. /\ status' \in Statuses \cup {"absent"} /\ late' \in [Workers -> Nat]
          /\ unwritten' \in BOOLEAN /\ redis' \in Nat
      <4>1. "syncing" \in Statuses
        BY <1>1, <2>1 DEF TriggerStatus, TypeOK, Statuses
      <4>. QED
        BY <1>1, <2>1, <4>1, WriteTyped DEF TriggerStatus
    <3>. QED
      BY <2>1, <1>1, <3>1 DEF TriggerStatus, TypeOK, stores, broker, task, history, bounds, Tokens, Pages, Statuses, WorkerPCs, RequestPCs, DisconnectPCs, ChangesToken
  <2>2. CASE TriggerEnqueueFails
    BY <2>2, <1>1 DEF TriggerEnqueueFails, TypeOK, stores, broker, task, history, bounds, Tokens, Pages, Statuses, WorkerPCs, RequestPCs, DisconnectPCs, ChangesToken
  <2>3. CASE CallbackToken
    BY <2>3, <1>1 DEF CallbackToken, TypeOK, stores, broker, task, history, bounds, Tokens, Pages, Statuses, WorkerPCs, RequestPCs, DisconnectPCs, ChangesToken
  <2>4. CASE TriggerEnqueue
    BY <2>4, <1>1 DEF TriggerEnqueue, TypeOK, stores, broker, task, history, bounds, Tokens, Pages, Statuses, WorkerPCs, RequestPCs, DisconnectPCs, ChangesToken
  <2>5. CASE CallbackGuard
    BY <2>5, <1>1 DEF CallbackGuard, IsDisconnected, NotDisconnected, RedisFails, TypeOK, stores, broker, task, history, bounds, Tokens, Pages, Statuses, WorkerPCs, RequestPCs, DisconnectPCs, ChangesToken
  <2>6. CASE CallbackPut
    <3>1. /\ status' \in Statuses \cup {"absent"} /\ late' \in [Workers -> Nat]
          /\ unwritten' \in BOOLEAN /\ redis' \in Nat
      <4>1. PICK v \in Statuses : WriteStatus(v)
        BY <2>6 DEF CallbackPut, Statuses
      <4>. QED
        BY <1>1, <4>1, WriteTyped
    <3>. QED
      BY <2>6, <1>1, <3>1 DEF CallbackPut, TypeOK, stores, broker, task, history, bounds, Tokens, Pages, Statuses, WorkerPCs, RequestPCs, DisconnectPCs, ChangesToken
  <2>7. CASE CallbackEnqueue
    BY <2>7, <1>1 DEF CallbackEnqueue, Fault, TypeOK, stores, broker, task, history, bounds, Tokens, Pages, Statuses, WorkerPCs, RequestPCs, DisconnectPCs, ChangesToken
  <2>8. CASE DisconnectStatus
    <3>1. /\ status' \in Statuses \cup {"absent"} /\ late' \in [Workers -> Nat]
          /\ unwritten' \in BOOLEAN /\ redis' \in Nat
      <4>1. "not_connected" \in Statuses
        BY <1>1, <2>8 DEF DisconnectStatus, TypeOK, Statuses
      <4>. QED
        BY <1>1, <2>8, <4>1, WriteTyped DEF DisconnectStatus
    <3>2. disconnects' \in Nat
      BY <2>8, <1>1 DEF DisconnectStatus, TypeOK
    <3>3. wanted' \in BOOLEAN /\ dpc' \in DisconnectPCs
      BY <2>8 DEF DisconnectStatus, DisconnectPCs
    <3>. QED
      BY <2>8, <1>1, <3>1, <3>2, <3>3 DEF DisconnectStatus, TypeOK, stores, broker, task, history, bounds, Tokens, Pages, Statuses, WorkerPCs, RequestPCs, DisconnectPCs, ChangesToken
  <2>9. CASE DisconnectCursor
    BY <2>9, <1>1 DEF DisconnectCursor, Fault, TypeOK, stores, broker, task, history, bounds, Tokens, Pages, Statuses, WorkerPCs, RequestPCs, DisconnectPCs, ChangesToken
  <2>10. CASE DisconnectPlugin
    BY <2>10, <1>1 DEF DisconnectPlugin, TypeOK, stores, broker, task, history, bounds, Tokens, Pages, Statuses, WorkerPCs, RequestPCs, DisconnectPCs, ChangesToken
  <2>11. CASE DisconnectPurge
    <3>1. /\ canon' \in SUBSET Pages
          /\ purges' \in Nat
          /\ faults' \in Nat
      BY <2>11, <1>1 DEF DisconnectPurge, PurgedRows, Fault, TypeOK, bounds
    <3>. QED
      BY <2>11, <1>1, <3>1 DEF DisconnectPurge, PurgedRows, Fault, TypeOK, stores, broker, task, history, bounds, Tokens, Pages, Statuses, WorkerPCs, RequestPCs, DisconnectPCs, ChangesToken
  <2>12. CASE Purge
    BY <2>12, <1>1 DEF Purge, PurgedRows, PurgedVectors, TypeOK, stores, broker, task, history, bounds, Tokens, Pages, Statuses, WorkerPCs, RequestPCs, DisconnectPCs, ChangesToken
  <2>13. CASE PurgeGivesUp
    BY <2>13, <1>1 DEF PurgeGivesUp, Fault, TypeOK, stores, broker, task, history, bounds, Tokens, Pages, Statuses, WorkerPCs, RequestPCs, DisconnectPCs, ChangesToken
  <2>14. ASSUME NEW w \in Workers, TakeTask(w) PROVE TypeOK'
    BY <2>14, <1>1 DEF TakeTask, Goto, TypeOK, stores, broker, task, history, bounds, Tokens, Pages, Statuses, WorkerPCs, RequestPCs, DisconnectPCs, ChangesToken
  <2>15. ASSUME NEW w \in Workers, ForceSyncing(w) PROVE TypeOK'
    <3>1. /\ status' \in Statuses \cup {"absent"} /\ late' \in [Workers -> Nat]
          /\ unwritten' \in BOOLEAN /\ redis' \in Nat
      <4>1. "syncing" \in Statuses
        BY <1>1, <2>15 DEF ForceSyncing, TypeOK, Statuses
      <4>. QED
        BY <1>1, <2>15, <4>1, WriteTyped DEF ForceSyncing
    <3>. QED
      BY <2>15, <1>1, <3>1 DEF ForceSyncing, Goto, TypeOK, stores, broker, task, history, bounds, Tokens, Pages, Statuses, WorkerPCs, RequestPCs, DisconnectPCs, ChangesToken
  <2>16. ASSUME NEW w \in Workers, Recheck(w) PROVE TypeOK'
    BY <2>16, <1>1 DEF Recheck, IsDisconnected, NotDisconnected, RedisFails, Goto, TypeOK, stores, broker, task, history, bounds, Tokens, Pages, Statuses, WorkerPCs, RequestPCs, DisconnectPCs, ChangesToken
  <2>17. ASSUME NEW w \in Workers, LoadCheckpoint(w) PROVE TypeOK'
    BY <2>17, <1>1 DEF LoadCheckpoint, Goto, TypeOK, stores, broker, task, history, bounds, Tokens, Pages, Statuses, WorkerPCs, RequestPCs, DisconnectPCs, ChangesToken
  <2>18. ASSUME NEW w \in Workers, SkipListing(w) PROVE TypeOK'
    BY <2>18, <1>1 DEF SkipListing, Goto, TypeOK, stores, broker, task, history, bounds, Tokens, Pages, Statuses, WorkerPCs, RequestPCs, DisconnectPCs, ChangesToken
  <2>19. ASSUME NEW w \in Workers, FetchPage(w) PROVE TypeOK'
    BY <2>19, <1>1 DEF FetchPage, Goto, TypeOK, stores, broker, task, history, bounds, Tokens, Pages, Statuses, WorkerPCs, RequestPCs, DisconnectPCs, ChangesToken
  <2>20. ASSUME NEW w \in Workers, FetchInvalidCursor(w) PROVE TypeOK'
    BY <2>20, <1>1 DEF FetchInvalidCursor, Goto, Fault, TypeOK, stores, broker, task, history, bounds, Tokens, Pages, Statuses, WorkerPCs, RequestPCs, DisconnectPCs, ChangesToken
  <2>21. ASSUME NEW w \in Workers, FetchBreak(w) PROVE TypeOK'
    BY <2>21, <1>1 DEF FetchBreak, Goto, Fault, TypeOK, stores, broker, task, history, bounds, Tokens, Pages, Statuses, WorkerPCs, RequestPCs, DisconnectPCs, ChangesToken
  <2>22. ASSUME NEW w \in Workers, PipePage(w) PROVE TypeOK'
    <3>1. pos[w] + 1 \in Pages
      BY <2>22, <1>1 DEF PipePage, InHand, TypeOK, Tokens, Pages, ChangesToken
    <3>2. canon' \in SUBSET Pages /\ faults' \in Nat
      BY <2>22, <1>1, <3>1 DEF PipePage, Fault, TypeOK, bounds
    <3>. QED
      BY <2>22, <1>1, <3>2 DEF PipePage, Goto, Fault, TypeOK, stores, broker, task, history, bounds, Tokens, Pages, Statuses, WorkerPCs, RequestPCs, DisconnectPCs, ChangesToken
  <2>23. ASSUME NEW w \in Workers, IndexPage(w) PROVE TypeOK'
    <3>1. pos[w] + 1 \in Pages
      BY <2>23, <1>1 DEF IndexPage, InHand, TypeOK, Tokens, Pages, ChangesToken
    <3>2. late' \in [Workers -> Nat]
      BY <2>23, <1>1 DEF IndexPage, TypeOK
    <3>3. /\ vectors' \in SUBSET Pages
          /\ partial' \in SUBSET Pages
          /\ faults' \in Nat
      BY <2>23, <1>1, <3>1 DEF IndexPage, Fault, TypeOK, bounds
    <3>. QED
      BY <2>23, <1>1, <3>2, <3>3 DEF IndexPage, Goto, Fault, TypeOK, stores, broker, task, history, bounds, Tokens, Pages, Statuses, WorkerPCs, RequestPCs, DisconnectPCs, ChangesToken
  <2>24. ASSUME NEW w \in Workers, ReportProgress(w) PROVE TypeOK'
    BY <2>24, <1>1 DEF ReportProgress, IsDisconnected, NotDisconnected, RedisFails, CallSetStatus, Goto, TypeOK, stores, broker, task, history, bounds, Tokens, Pages, Statuses, WorkerPCs, RequestPCs, DisconnectPCs, ChangesToken
  <2>25. ASSUME NEW w \in Workers, CheckpointCheck(w) PROVE TypeOK'
    BY <2>25, <1>1 DEF CheckpointCheck, IsDisconnected, NotDisconnected, RedisFails, Goto, TypeOK, stores, broker, task, history, bounds, Tokens, Pages, Statuses, WorkerPCs, RequestPCs, DisconnectPCs, ChangesToken
  <2>26. ASSUME NEW w \in Workers, CheckpointWrite(w) PROVE TypeOK'
    BY <2>26, <1>1 DEF CheckpointWrite, Goto, TypeOK, stores, broker, task, history, bounds, Tokens, Pages, Statuses, WorkerPCs, RequestPCs, DisconnectPCs, ChangesToken
  <2>27. ASSUME NEW w \in Workers, StoreFinal(w) PROVE TypeOK'
    BY <2>27, <1>1 DEF StoreFinal, Goto, Fault, TypeOK, stores, broker, task, history, bounds, Tokens, Pages, Statuses, WorkerPCs, RequestPCs, DisconnectPCs, ChangesToken
  <2>28. ASSUME NEW w \in Workers, Finish(w) PROVE TypeOK'
    BY <2>28, <1>1 DEF Finish, IsDisconnected, NotDisconnected, RedisFails, CallSetStatus, Goto, TypeOK, stores, broker, task, history, bounds, Tokens, Pages, Statuses, WorkerPCs, RequestPCs, DisconnectPCs, ChangesToken
  <2>29. ASSUME NEW w \in Workers, SetStatusGuard(w) PROVE TypeOK'
    BY <2>29, <1>1 DEF SetStatusGuard, IsDisconnected, NotDisconnected, RedisFails, Goto, TypeOK, stores, broker, task, history, bounds, Tokens, Pages, Statuses, WorkerPCs, RequestPCs, DisconnectPCs, ChangesToken
  <2>30. ASSUME NEW w \in Workers, SetStatusPut(w) PROVE TypeOK'
    <3>1. /\ status' \in Statuses \cup {"absent"} /\ late' \in [Workers -> Nat]
          /\ unwritten' \in BOOLEAN /\ redis' \in Nat
      <4>1. val[w] \in Statuses
        BY <1>1, <2>30 DEF SetStatusPut, TypeOK, Statuses
      <4>. QED
        BY <1>1, <2>30, <4>1, WriteTyped DEF SetStatusPut
    <3>. QED
      BY <2>30, <1>1, <3>1 DEF SetStatusPut, Goto, TypeOK, stores, broker, task, history, bounds, Tokens, Pages, Statuses, WorkerPCs, RequestPCs, DisconnectPCs, ChangesToken
  <2>31. ASSUME NEW w \in Workers, Fail(w) PROVE TypeOK'
    BY <2>31, <1>1 DEF Fail, CallSetStatus, Goto, Fault, TypeOK, stores, broker, task, history, bounds, Tokens, Pages, Statuses, WorkerPCs, RequestPCs, DisconnectPCs, ChangesToken
  <2>32. ASSUME NEW w \in Workers, Exit(w) PROVE TypeOK'
    BY <2>32, <1>1 DEF Exit, Goto, Fault, TypeOK, stores, broker, task, history, bounds, Tokens, Pages, Statuses, WorkerPCs, RequestPCs, DisconnectPCs, ChangesToken
  <2>33. ASSUME NEW w \in Workers, Crash(w) PROVE TypeOK'
    BY <2>33, <1>1 DEF Crash, Goto, TypeOK, stores, broker, task, history, bounds, Tokens, Pages, Statuses, WorkerPCs, RequestPCs, DisconnectPCs, ChangesToken
  <2>34. ASSUME NEW w \in Workers, WorkerLost(w) PROVE TypeOK'
    BY <2>34, <1>1 DEF WorkerLost, Goto, TypeOK, stores, broker, task, history, bounds, Tokens, Pages, Statuses, WorkerPCs, RequestPCs, DisconnectPCs, ChangesToken
  <2>35. CASE UNCHANGED vars
    BY <2>35, <1>1 DEF vars, TypeOK, stores, broker, task, history, bounds, Tokens, Pages, Statuses, WorkerPCs, RequestPCs, DisconnectPCs, ChangesToken
  <2>. QED
    BY <2>1, <2>2, <2>3, <2>4, <2>5, <2>6, <2>7, <2>8, <2>9, <2>10, <2>11, <2>12, <2>13, <2>14, <2>15, <2>16, <2>17, <2>18, <2>19, <2>20, <2>21, <2>22, <2>23, <2>24, <2>25, <2>26, <2>27, <2>28, <2>29, <2>30, <2>31, <2>32, <2>33, <2>34, <2>35 DEF Next, RequestStep, DisconnectStep, BackfillStep
<1>. QED
  BY <1>2

LEMMA InHandStep == TypeInv /\ [Next]_vars => InHand'
<1>. SUFFICES ASSUME TypeInv, [Next]_vars PROVE InHand'
  OBVIOUS
<1>. USE NPagesAssumption
<1>1. TypeOK /\ InHand /\ Stamps
  BY DEF TypeInv
<1>2. InHand'
  <2>1. CASE TriggerStatus
    BY <2>1, <1>1 DEF TriggerStatus, WriteStatus, RedisFails, InHand, Stamps, TypeOK, stores, broker, task, history, bounds, ChangesToken, Tokens, WorkerPCs
  <2>2. CASE TriggerEnqueueFails
    BY <2>2, <1>1 DEF TriggerEnqueueFails, InHand, Stamps, TypeOK, stores, broker, task, history, bounds, ChangesToken, Tokens, WorkerPCs
  <2>3. CASE CallbackToken
    BY <2>3, <1>1 DEF CallbackToken, InHand, Stamps, TypeOK, stores, broker, task, history, bounds, ChangesToken, Tokens, WorkerPCs
  <2>4. CASE TriggerEnqueue
    BY <2>4, <1>1 DEF TriggerEnqueue, InHand, Stamps, TypeOK, stores, broker, task, history, bounds, ChangesToken, Tokens, WorkerPCs
  <2>5. CASE CallbackGuard
    BY <2>5, <1>1 DEF CallbackGuard, IsDisconnected, NotDisconnected, RedisFails, InHand, Stamps, TypeOK, stores, broker, task, history, bounds, ChangesToken, Tokens, WorkerPCs
  <2>6. CASE CallbackPut
    BY <2>6, <1>1 DEF CallbackPut, WriteStatus, RedisFails, InHand, Stamps, TypeOK, stores, broker, task, history, bounds, ChangesToken, Tokens, WorkerPCs
  <2>7. CASE CallbackEnqueue
    BY <2>7, <1>1 DEF CallbackEnqueue, Fault, InHand, Stamps, TypeOK, stores, broker, task, history, bounds, ChangesToken, Tokens, WorkerPCs
  <2>8. CASE DisconnectStatus
    BY <2>8, <1>1 DEF DisconnectStatus, WriteStatus, RedisFails, InHand, Stamps, TypeOK, stores, broker, task, history, bounds, ChangesToken, Tokens, WorkerPCs
  <2>9. CASE DisconnectCursor
    BY <2>9, <1>1 DEF DisconnectCursor, Fault, InHand, Stamps, TypeOK, stores, broker, task, history, bounds, ChangesToken, Tokens, WorkerPCs
  <2>10. CASE DisconnectPlugin
    BY <2>10, <1>1 DEF DisconnectPlugin, InHand, Stamps, TypeOK, stores, broker, task, history, bounds, ChangesToken, Tokens, WorkerPCs
  <2>11. CASE DisconnectPurge
    BY <2>11, <1>1 DEF DisconnectPurge, PurgedRows, Fault, InHand, Stamps, TypeOK, stores, broker, task, history, bounds, ChangesToken, Tokens, WorkerPCs
  <2>12. CASE Purge
    BY <2>12, <1>1 DEF Purge, PurgedRows, PurgedVectors, InHand, Stamps, TypeOK, stores, broker, task, history, bounds, ChangesToken, Tokens, WorkerPCs
  <2>13. CASE PurgeGivesUp
    BY <2>13, <1>1 DEF PurgeGivesUp, Fault, InHand, Stamps, TypeOK, stores, broker, task, history, bounds, ChangesToken, Tokens, WorkerPCs
  <2>14. ASSUME NEW w \in Workers, TakeTask(w) PROVE InHand'
    BY <2>14, <1>1 DEF TakeTask, Goto, InHand, Stamps, TypeOK, stores, broker, task, history, bounds, ChangesToken, Tokens, WorkerPCs
  <2>15. ASSUME NEW w \in Workers, ForceSyncing(w) PROVE InHand'
    BY <2>15, <1>1 DEF ForceSyncing, WriteStatus, RedisFails, Goto, InHand, Stamps, TypeOK, stores, broker, task, history, bounds, ChangesToken, Tokens, WorkerPCs
  <2>16. ASSUME NEW w \in Workers, Recheck(w) PROVE InHand'
    BY <2>16, <1>1 DEF Recheck, IsDisconnected, NotDisconnected, RedisFails, Goto, InHand, Stamps, TypeOK, stores, broker, task, history, bounds, ChangesToken, Tokens, WorkerPCs
  <2>17. ASSUME NEW w \in Workers, LoadCheckpoint(w) PROVE InHand'
    BY <2>17, <1>1 DEF LoadCheckpoint, Goto, InHand, Stamps, TypeOK, stores, broker, task, history, bounds, ChangesToken, Tokens, WorkerPCs
  <2>18. ASSUME NEW w \in Workers, SkipListing(w) PROVE InHand'
    BY <2>18, <1>1 DEF SkipListing, Goto, InHand, Stamps, TypeOK, stores, broker, task, history, bounds, ChangesToken, Tokens, WorkerPCs
  <2>19. ASSUME NEW w \in Workers, FetchPage(w) PROVE InHand'
    BY <2>19, <1>1 DEF FetchPage, Goto, InHand, Stamps, TypeOK, stores, broker, task, history, bounds, ChangesToken, Tokens, WorkerPCs
  <2>20. ASSUME NEW w \in Workers, FetchInvalidCursor(w) PROVE InHand'
    BY <2>20, <1>1 DEF FetchInvalidCursor, Goto, Fault, InHand, Stamps, TypeOK, stores, broker, task, history, bounds, ChangesToken, Tokens, WorkerPCs
  <2>21. ASSUME NEW w \in Workers, FetchBreak(w) PROVE InHand'
    BY <2>21, <1>1 DEF FetchBreak, Goto, Fault, InHand, Stamps, TypeOK, stores, broker, task, history, bounds, ChangesToken, Tokens, WorkerPCs
  <2>22. ASSUME NEW w \in Workers, PipePage(w) PROVE InHand'
    BY <2>22, <1>1 DEF PipePage, Goto, Fault, InHand, Stamps, TypeOK, stores, broker, task, history, bounds, ChangesToken, Tokens, WorkerPCs
  <2>23. ASSUME NEW w \in Workers, IndexPage(w) PROVE InHand'
    BY <2>23, <1>1 DEF IndexPage, Goto, Fault, InHand, Stamps, TypeOK, stores, broker, task, history, bounds, ChangesToken, Tokens, WorkerPCs
  <2>24. ASSUME NEW w \in Workers, ReportProgress(w) PROVE InHand'
    BY <2>24, <1>1 DEF ReportProgress, IsDisconnected, NotDisconnected, RedisFails, CallSetStatus, Goto, InHand, Stamps, TypeOK, stores, broker, task, history, bounds, ChangesToken, Tokens, WorkerPCs
  <2>25. ASSUME NEW w \in Workers, CheckpointCheck(w) PROVE InHand'
    BY <2>25, <1>1 DEF CheckpointCheck, IsDisconnected, NotDisconnected, RedisFails, Goto, InHand, Stamps, TypeOK, stores, broker, task, history, bounds, ChangesToken, Tokens, WorkerPCs
  <2>26. ASSUME NEW w \in Workers, CheckpointWrite(w) PROVE InHand'
    BY <2>26, <1>1 DEF CheckpointWrite, Goto, InHand, Stamps, TypeOK, stores, broker, task, history, bounds, ChangesToken, Tokens, WorkerPCs
  <2>27. ASSUME NEW w \in Workers, StoreFinal(w) PROVE InHand'
    BY <2>27, <1>1 DEF StoreFinal, Goto, Fault, InHand, Stamps, TypeOK, stores, broker, task, history, bounds, ChangesToken, Tokens, WorkerPCs
  <2>28. ASSUME NEW w \in Workers, Finish(w) PROVE InHand'
    BY <2>28, <1>1 DEF Finish, IsDisconnected, NotDisconnected, RedisFails, CallSetStatus, Goto, InHand, Stamps, TypeOK, stores, broker, task, history, bounds, ChangesToken, Tokens, WorkerPCs
  <2>29. ASSUME NEW w \in Workers, SetStatusGuard(w) PROVE InHand'
    BY <2>29, <1>1 DEF SetStatusGuard, IsDisconnected, NotDisconnected, RedisFails, Goto, InHand, Stamps, TypeOK, stores, broker, task, history, bounds, ChangesToken, Tokens, WorkerPCs
  <2>30. ASSUME NEW w \in Workers, SetStatusPut(w) PROVE InHand'
    BY <2>30, <1>1 DEF SetStatusPut, WriteStatus, RedisFails, Goto, InHand, Stamps, TypeOK, stores, broker, task, history, bounds, ChangesToken, Tokens, WorkerPCs
  <2>31. ASSUME NEW w \in Workers, Fail(w) PROVE InHand'
    BY <2>31, <1>1 DEF Fail, CallSetStatus, Goto, Fault, InHand, Stamps, TypeOK, stores, broker, task, history, bounds, ChangesToken, Tokens, WorkerPCs
  <2>32. ASSUME NEW w \in Workers, Exit(w) PROVE InHand'
    BY <2>32, <1>1 DEF Exit, Goto, Fault, InHand, Stamps, TypeOK, stores, broker, task, history, bounds, ChangesToken, Tokens, WorkerPCs
  <2>33. ASSUME NEW w \in Workers, Crash(w) PROVE InHand'
    BY <2>33, <1>1 DEF Crash, Goto, InHand, Stamps, TypeOK, stores, broker, task, history, bounds, ChangesToken, Tokens, WorkerPCs
  <2>34. ASSUME NEW w \in Workers, WorkerLost(w) PROVE InHand'
    BY <2>34, <1>1 DEF WorkerLost, Goto, InHand, Stamps, TypeOK, stores, broker, task, history, bounds, ChangesToken, Tokens, WorkerPCs
  <2>35. CASE UNCHANGED vars
    BY <2>35, <1>1 DEF vars, InHand, Stamps, TypeOK, stores, broker, task, history, bounds, ChangesToken, Tokens, WorkerPCs
  <2>. QED
    BY <2>1, <2>2, <2>3, <2>4, <2>5, <2>6, <2>7, <2>8, <2>9, <2>10, <2>11, <2>12, <2>13, <2>14, <2>15, <2>16, <2>17, <2>18, <2>19, <2>20, <2>21, <2>22, <2>23, <2>24, <2>25, <2>26, <2>27, <2>28, <2>29, <2>30, <2>31, <2>32, <2>33, <2>34, <2>35 DEF Next, RequestStep, DisconnectStep, BackfillStep
<1>. QED
  BY <1>2

LEMMA StampsStep == TypeInv /\ [Next]_vars => Stamps'
<1>. SUFFICES ASSUME TypeInv, [Next]_vars PROVE Stamps'
  OBVIOUS
<1>1. TypeOK /\ Stamps
  BY DEF TypeInv
<1>2. Stamps'
  <2>1. CASE TriggerStatus
    BY <2>1, <1>1 DEF TriggerStatus, WriteStatus, RedisFails, Stamps, TypeOK, stores, broker, task, history, bounds, Statuses, WorkerPCs
  <2>2. CASE TriggerEnqueueFails
    BY <2>2, <1>1 DEF TriggerEnqueueFails, Stamps, TypeOK, stores, broker, task, history, bounds, Statuses, WorkerPCs
  <2>3. CASE CallbackToken
    BY <2>3, <1>1 DEF CallbackToken, Stamps, TypeOK, stores, broker, task, history, bounds, Statuses, WorkerPCs
  <2>4. CASE TriggerEnqueue
    BY <2>4, <1>1 DEF TriggerEnqueue, Stamps, TypeOK, stores, broker, task, history, bounds, Statuses, WorkerPCs
  <2>5. CASE CallbackGuard
    BY <2>5, <1>1 DEF CallbackGuard, IsDisconnected, NotDisconnected, RedisFails, Stamps, TypeOK, stores, broker, task, history, bounds, Statuses, WorkerPCs
  <2>6. CASE CallbackPut
    BY <2>6, <1>1 DEF CallbackPut, WriteStatus, RedisFails, Stamps, TypeOK, stores, broker, task, history, bounds, Statuses, WorkerPCs
  <2>7. CASE CallbackEnqueue
    BY <2>7, <1>1 DEF CallbackEnqueue, Fault, Stamps, TypeOK, stores, broker, task, history, bounds, Statuses, WorkerPCs
  <2>8. CASE DisconnectStatus
    BY <2>8, <1>1 DEF DisconnectStatus, WriteStatus, RedisFails, Stamps, TypeOK, stores, broker, task, history, bounds, Statuses, WorkerPCs
  <2>9. CASE DisconnectCursor
    BY <2>9, <1>1 DEF DisconnectCursor, Fault, Stamps, TypeOK, stores, broker, task, history, bounds, Statuses, WorkerPCs
  <2>10. CASE DisconnectPlugin
    BY <2>10, <1>1 DEF DisconnectPlugin, Stamps, TypeOK, stores, broker, task, history, bounds, Statuses, WorkerPCs
  <2>11. CASE DisconnectPurge
    BY <2>11, <1>1 DEF DisconnectPurge, PurgedRows, Fault, Stamps, TypeOK, stores, broker, task, history, bounds, Statuses, WorkerPCs
  <2>12. CASE Purge
    BY <2>12, <1>1 DEF Purge, PurgedRows, PurgedVectors, Stamps, TypeOK, stores, broker, task, history, bounds, Statuses, WorkerPCs
  <2>13. CASE PurgeGivesUp
    BY <2>13, <1>1 DEF PurgeGivesUp, Fault, Stamps, TypeOK, stores, broker, task, history, bounds, Statuses, WorkerPCs
  <2>14. ASSUME NEW w \in Workers, TakeTask(w) PROVE Stamps'
    BY <2>14, <1>1 DEF TakeTask, Goto, Stamps, TypeOK, stores, broker, task, history, bounds, Statuses, WorkerPCs
  <2>15. ASSUME NEW w \in Workers, ForceSyncing(w) PROVE Stamps'
    BY <2>15, <1>1 DEF ForceSyncing, WriteStatus, RedisFails, Goto, Stamps, TypeOK, stores, broker, task, history, bounds, Statuses, WorkerPCs
  <2>16. ASSUME NEW w \in Workers, Recheck(w) PROVE Stamps'
    BY <2>16, <1>1 DEF Recheck, IsDisconnected, NotDisconnected, RedisFails, Goto, Stamps, TypeOK, stores, broker, task, history, bounds, Statuses, WorkerPCs
  <2>17. ASSUME NEW w \in Workers, LoadCheckpoint(w) PROVE Stamps'
    BY <2>17, <1>1 DEF LoadCheckpoint, Goto, Stamps, TypeOK, stores, broker, task, history, bounds, Statuses, WorkerPCs
  <2>18. ASSUME NEW w \in Workers, SkipListing(w) PROVE Stamps'
    BY <2>18, <1>1 DEF SkipListing, Goto, Stamps, TypeOK, stores, broker, task, history, bounds, Statuses, WorkerPCs
  <2>19. ASSUME NEW w \in Workers, FetchPage(w) PROVE Stamps'
    BY <2>19, <1>1 DEF FetchPage, Goto, Stamps, TypeOK, stores, broker, task, history, bounds, Statuses, WorkerPCs
  <2>20. ASSUME NEW w \in Workers, FetchInvalidCursor(w) PROVE Stamps'
    BY <2>20, <1>1 DEF FetchInvalidCursor, Goto, Fault, Stamps, TypeOK, stores, broker, task, history, bounds, Statuses, WorkerPCs
  <2>21. ASSUME NEW w \in Workers, FetchBreak(w) PROVE Stamps'
    BY <2>21, <1>1 DEF FetchBreak, Goto, Fault, Stamps, TypeOK, stores, broker, task, history, bounds, Statuses, WorkerPCs
  <2>22. ASSUME NEW w \in Workers, PipePage(w) PROVE Stamps'
    BY <2>22, <1>1 DEF PipePage, Goto, Fault, Stamps, TypeOK, stores, broker, task, history, bounds, Statuses, WorkerPCs
  <2>23. ASSUME NEW w \in Workers, IndexPage(w) PROVE Stamps'
    BY <2>23, <1>1 DEF IndexPage, Goto, Fault, Stamps, TypeOK, stores, broker, task, history, bounds, Statuses, WorkerPCs
  <2>24. ASSUME NEW w \in Workers, ReportProgress(w) PROVE Stamps'
    BY <2>24, <1>1 DEF ReportProgress, IsDisconnected, NotDisconnected, RedisFails, CallSetStatus, Goto, Stamps, TypeOK, stores, broker, task, history, bounds, Statuses, WorkerPCs
  <2>25. ASSUME NEW w \in Workers, CheckpointCheck(w) PROVE Stamps'
    BY <2>25, <1>1 DEF CheckpointCheck, IsDisconnected, NotDisconnected, RedisFails, Goto, Stamps, TypeOK, stores, broker, task, history, bounds, Statuses, WorkerPCs
  <2>26. ASSUME NEW w \in Workers, CheckpointWrite(w) PROVE Stamps'
    BY <2>26, <1>1 DEF CheckpointWrite, Goto, Stamps, TypeOK, stores, broker, task, history, bounds, Statuses, WorkerPCs
  <2>27. ASSUME NEW w \in Workers, StoreFinal(w) PROVE Stamps'
    BY <2>27, <1>1 DEF StoreFinal, Goto, Fault, Stamps, TypeOK, stores, broker, task, history, bounds, Statuses, WorkerPCs
  <2>28. ASSUME NEW w \in Workers, Finish(w) PROVE Stamps'
    BY <2>28, <1>1 DEF Finish, IsDisconnected, NotDisconnected, RedisFails, CallSetStatus, Goto, Stamps, TypeOK, stores, broker, task, history, bounds, Statuses, WorkerPCs
  <2>29. ASSUME NEW w \in Workers, SetStatusGuard(w) PROVE Stamps'
    BY <2>29, <1>1 DEF SetStatusGuard, IsDisconnected, NotDisconnected, RedisFails, Goto, Stamps, TypeOK, stores, broker, task, history, bounds, Statuses, WorkerPCs
  <2>30. ASSUME NEW w \in Workers, SetStatusPut(w) PROVE Stamps'
    BY <2>30, <1>1 DEF SetStatusPut, WriteStatus, RedisFails, Goto, Stamps, TypeOK, stores, broker, task, history, bounds, Statuses, WorkerPCs
  <2>31. ASSUME NEW w \in Workers, Fail(w) PROVE Stamps'
    BY <2>31, <1>1 DEF Fail, CallSetStatus, Goto, Fault, Stamps, TypeOK, stores, broker, task, history, bounds, Statuses, WorkerPCs
  <2>32. ASSUME NEW w \in Workers, Exit(w) PROVE Stamps'
    BY <2>32, <1>1 DEF Exit, Goto, Fault, Stamps, TypeOK, stores, broker, task, history, bounds, Statuses, WorkerPCs
  <2>33. ASSUME NEW w \in Workers, Crash(w) PROVE Stamps'
    BY <2>33, <1>1 DEF Crash, Goto, Stamps, TypeOK, stores, broker, task, history, bounds, Statuses, WorkerPCs
  <2>34. ASSUME NEW w \in Workers, WorkerLost(w) PROVE Stamps'
    BY <2>34, <1>1 DEF WorkerLost, Goto, Stamps, TypeOK, stores, broker, task, history, bounds, Statuses, WorkerPCs
  <2>35. CASE UNCHANGED vars
    BY <2>35, <1>1 DEF vars, Stamps, TypeOK, stores, broker, task, history, bounds, Statuses, WorkerPCs
  <2>. QED
    BY <2>1, <2>2, <2>3, <2>4, <2>5, <2>6, <2>7, <2>8, <2>9, <2>10, <2>11, <2>12, <2>13, <2>14, <2>15, <2>16, <2>17, <2>18, <2>19, <2>20, <2>21, <2>22, <2>23, <2>24, <2>25, <2>26, <2>27, <2>28, <2>29, <2>30, <2>31, <2>32, <2>33, <2>34, <2>35 DEF Next, RequestStep, DisconnectStep, BackfillStep
<1>. QED
  BY <1>2

(* The status, the cursor, the index and every worker's registers stay in   *)
(* the domains the code gives them; a page token in hand is always the      *)
(* token of a page before the last.                                         *)
THEOREM TypeCorrect == Spec => []TypeOK
<1>1. TypeInv /\ [Next]_vars => TypeInv'
  BY TypeStep, InHandStep, StampsStep DEF TypeInv
<1>2. TypeInv => TypeOK
  BY DEF TypeInv
<1>3. QED
  BY TypeInit, <1>1, <1>2, PTL DEF Spec

(* The checkpoint argument: a worker's position, its final cursor and, once *)
(* the page is indexed, the token it is about to store are all covered.     *)
AfterIndex(w) == \/ pc[w] \in {"report", "ckptcheck", "ckptwrite"}
                 \/ pc[w] \in {"guard", "put"} /\ ret[w] = "ckptcheck"

Covered(k) == k # ChangesToken => Reached(k)

CoverInv == /\ Covered(cursor)
            /\ \A w \in Workers : /\ Covered(pos[w])
                                  /\ Covered(fin[w])
                                  /\ AfterIndex(w) => Reached(nxt[w])

(* What has been reached stays reached: no step takes a page out of the     *)
(* index.                                                                   *)
LEMMA IndexGrows ==
  [Next]_vars => vectors \subseteq vectors' /\ partial \subseteq partial'
<1>. SUFFICES ASSUME [Next]_vars
              PROVE  vectors \subseteq vectors' /\ partial \subseteq partial'
  OBVIOUS
<1>2. vectors \subseteq vectors' /\ partial \subseteq partial'
  <2>1. CASE TriggerStatus
    BY <2>1 DEF TriggerStatus, WriteStatus, RedisFails, PurgedVectors, stores, broker, task, history, bounds
  <2>2. CASE TriggerEnqueueFails
    BY <2>2 DEF TriggerEnqueueFails, PurgedVectors, stores, broker, task, history, bounds
  <2>3. CASE CallbackToken
    BY <2>3 DEF CallbackToken, PurgedVectors, stores, broker, task, history, bounds
  <2>4. CASE TriggerEnqueue
    BY <2>4 DEF TriggerEnqueue, PurgedVectors, stores, broker, task, history, bounds
  <2>5. CASE CallbackGuard
    BY <2>5 DEF CallbackGuard, IsDisconnected, NotDisconnected, RedisFails, PurgedVectors, stores, broker, task, history, bounds
  <2>6. CASE CallbackPut
    BY <2>6 DEF CallbackPut, WriteStatus, RedisFails, PurgedVectors, stores, broker, task, history, bounds
  <2>7. CASE CallbackEnqueue
    BY <2>7 DEF CallbackEnqueue, Fault, PurgedVectors, stores, broker, task, history, bounds
  <2>8. CASE DisconnectStatus
    BY <2>8 DEF DisconnectStatus, WriteStatus, RedisFails, PurgedVectors, stores, broker, task, history, bounds
  <2>9. CASE DisconnectCursor
    BY <2>9 DEF DisconnectCursor, Fault, PurgedVectors, stores, broker, task, history, bounds
  <2>10. CASE DisconnectPlugin
    BY <2>10 DEF DisconnectPlugin, PurgedVectors, stores, broker, task, history, bounds
  <2>11. CASE DisconnectPurge
    BY <2>11 DEF DisconnectPurge, PurgedRows, Fault, PurgedVectors, stores, broker, task, history, bounds
  <2>12. CASE Purge
    BY <2>12 DEF Purge, PurgedRows, PurgedVectors, stores, broker, task, history, bounds
  <2>13. CASE PurgeGivesUp
    BY <2>13 DEF PurgeGivesUp, Fault, PurgedVectors, stores, broker, task, history, bounds
  <2>14. ASSUME NEW w \in Workers, TakeTask(w) PROVE vectors \subseteq vectors' /\ partial \subseteq partial'
    BY <2>14 DEF TakeTask, Goto, PurgedVectors, stores, broker, task, history, bounds
  <2>15. ASSUME NEW w \in Workers, ForceSyncing(w) PROVE vectors \subseteq vectors' /\ partial \subseteq partial'
    BY <2>15 DEF ForceSyncing, WriteStatus, RedisFails, Goto, PurgedVectors, stores, broker, task, history, bounds
  <2>16. ASSUME NEW w \in Workers, Recheck(w) PROVE vectors \subseteq vectors' /\ partial \subseteq partial'
    BY <2>16 DEF Recheck, IsDisconnected, NotDisconnected, RedisFails, Goto, PurgedVectors, stores, broker, task, history, bounds
  <2>17. ASSUME NEW w \in Workers, LoadCheckpoint(w) PROVE vectors \subseteq vectors' /\ partial \subseteq partial'
    BY <2>17 DEF LoadCheckpoint, Goto, PurgedVectors, stores, broker, task, history, bounds
  <2>18. ASSUME NEW w \in Workers, SkipListing(w) PROVE vectors \subseteq vectors' /\ partial \subseteq partial'
    BY <2>18 DEF SkipListing, Goto, PurgedVectors, stores, broker, task, history, bounds
  <2>19. ASSUME NEW w \in Workers, FetchPage(w) PROVE vectors \subseteq vectors' /\ partial \subseteq partial'
    BY <2>19 DEF FetchPage, Goto, PurgedVectors, stores, broker, task, history, bounds
  <2>20. ASSUME NEW w \in Workers, FetchInvalidCursor(w) PROVE vectors \subseteq vectors' /\ partial \subseteq partial'
    BY <2>20 DEF FetchInvalidCursor, Goto, Fault, PurgedVectors, stores, broker, task, history, bounds
  <2>21. ASSUME NEW w \in Workers, FetchBreak(w) PROVE vectors \subseteq vectors' /\ partial \subseteq partial'
    BY <2>21 DEF FetchBreak, Goto, Fault, PurgedVectors, stores, broker, task, history, bounds
  <2>22. ASSUME NEW w \in Workers, PipePage(w) PROVE vectors \subseteq vectors' /\ partial \subseteq partial'
    BY <2>22 DEF PipePage, Goto, Fault, PurgedVectors, stores, broker, task, history, bounds
  <2>23. ASSUME NEW w \in Workers, IndexPage(w) PROVE vectors \subseteq vectors' /\ partial \subseteq partial'
    BY <2>23 DEF IndexPage, Goto, Fault, PurgedVectors, stores, broker, task, history, bounds
  <2>24. ASSUME NEW w \in Workers, ReportProgress(w) PROVE vectors \subseteq vectors' /\ partial \subseteq partial'
    BY <2>24 DEF ReportProgress, IsDisconnected, NotDisconnected, RedisFails, CallSetStatus, Goto, PurgedVectors, stores, broker, task, history, bounds
  <2>25. ASSUME NEW w \in Workers, CheckpointCheck(w) PROVE vectors \subseteq vectors' /\ partial \subseteq partial'
    BY <2>25 DEF CheckpointCheck, IsDisconnected, NotDisconnected, RedisFails, Goto, PurgedVectors, stores, broker, task, history, bounds
  <2>26. ASSUME NEW w \in Workers, CheckpointWrite(w) PROVE vectors \subseteq vectors' /\ partial \subseteq partial'
    BY <2>26 DEF CheckpointWrite, Goto, PurgedVectors, stores, broker, task, history, bounds
  <2>27. ASSUME NEW w \in Workers, StoreFinal(w) PROVE vectors \subseteq vectors' /\ partial \subseteq partial'
    BY <2>27 DEF StoreFinal, Goto, Fault, PurgedVectors, stores, broker, task, history, bounds
  <2>28. ASSUME NEW w \in Workers, Finish(w) PROVE vectors \subseteq vectors' /\ partial \subseteq partial'
    BY <2>28 DEF Finish, IsDisconnected, NotDisconnected, RedisFails, CallSetStatus, Goto, PurgedVectors, stores, broker, task, history, bounds
  <2>29. ASSUME NEW w \in Workers, SetStatusGuard(w) PROVE vectors \subseteq vectors' /\ partial \subseteq partial'
    BY <2>29 DEF SetStatusGuard, IsDisconnected, NotDisconnected, RedisFails, Goto, PurgedVectors, stores, broker, task, history, bounds
  <2>30. ASSUME NEW w \in Workers, SetStatusPut(w) PROVE vectors \subseteq vectors' /\ partial \subseteq partial'
    BY <2>30 DEF SetStatusPut, WriteStatus, RedisFails, Goto, PurgedVectors, stores, broker, task, history, bounds
  <2>31. ASSUME NEW w \in Workers, Fail(w) PROVE vectors \subseteq vectors' /\ partial \subseteq partial'
    BY <2>31 DEF Fail, CallSetStatus, Goto, Fault, PurgedVectors, stores, broker, task, history, bounds
  <2>32. ASSUME NEW w \in Workers, Exit(w) PROVE vectors \subseteq vectors' /\ partial \subseteq partial'
    BY <2>32 DEF Exit, Goto, Fault, PurgedVectors, stores, broker, task, history, bounds
  <2>33. ASSUME NEW w \in Workers, Crash(w) PROVE vectors \subseteq vectors' /\ partial \subseteq partial'
    BY <2>33 DEF Crash, Goto, PurgedVectors, stores, broker, task, history, bounds
  <2>34. ASSUME NEW w \in Workers, WorkerLost(w) PROVE vectors \subseteq vectors' /\ partial \subseteq partial'
    BY <2>34 DEF WorkerLost, Goto, PurgedVectors, stores, broker, task, history, bounds
  <2>35. CASE UNCHANGED vars
    BY <2>35 DEF vars, PurgedVectors, stores, broker, task, history, bounds
  <2>. QED
    BY <2>1, <2>2, <2>3, <2>4, <2>5, <2>6, <2>7, <2>8, <2>9, <2>10, <2>11, <2>12, <2>13, <2>14, <2>15, <2>16, <2>17, <2>18, <2>19, <2>20, <2>21, <2>22, <2>23, <2>24, <2>25, <2>26, <2>27, <2>28, <2>29, <2>30, <2>31, <2>32, <2>33, <2>34, <2>35 DEF Next, RequestStep, DisconnectStep, BackfillStep
<1>. QED
  BY <1>2

LEMMA CoverInit == Init => CoverInv
<1>. SUFFICES ASSUME Init PROVE CoverInv
  OBVIOUS
<1>1. Reached(0)
  BY DEF Reached
<1>. QED
  BY <1>1 DEF Init, CoverInv, Covered, AfterIndex

LEMMA CoverStep == TypeInv /\ CoverInv /\ [Next]_vars => CoverInv'
<1>. SUFFICES ASSUME TypeInv, CoverInv, [Next]_vars PROVE CoverInv'
  OBVIOUS
<1>. USE NPagesAssumption
<1>1. TypeOK /\ InHand /\ Stamps /\ CoverInv
  BY DEF TypeInv
<1>2. \A k : Reached(k) => Reached(k)'
  BY IndexGrows DEF Reached
<1>3. \A k : Covered(k) => Covered(k)'
  BY <1>2 DEF Covered
<1>4. Reached(0)'
  BY DEF Reached
<1>5. CoverInv'
  <2>1. CASE TriggerStatus
    BY <2>1, <1>1, <1>2, <1>3, <1>4 DEF TriggerStatus, WriteStatus, RedisFails, CoverInv, AfterIndex, stores, broker, task, history, bounds, TypeOK, WorkerPCs
  <2>2. CASE TriggerEnqueueFails
    BY <2>2, <1>1, <1>2, <1>3, <1>4 DEF TriggerEnqueueFails, CoverInv, AfterIndex, stores, broker, task, history, bounds, TypeOK, WorkerPCs
  <2>3. CASE CallbackToken
    BY <2>3, <1>1, <1>2, <1>3, <1>4 DEF CallbackToken, CoverInv, AfterIndex, stores, broker, task, history, bounds, TypeOK, WorkerPCs
  <2>4. CASE TriggerEnqueue
    BY <2>4, <1>1, <1>2, <1>3, <1>4 DEF TriggerEnqueue, CoverInv, AfterIndex, stores, broker, task, history, bounds, TypeOK, WorkerPCs
  <2>5. CASE CallbackGuard
    BY <2>5, <1>1, <1>2, <1>3, <1>4 DEF CallbackGuard, IsDisconnected, NotDisconnected, RedisFails, CoverInv, AfterIndex, stores, broker, task, history, bounds, TypeOK, WorkerPCs
  <2>6. CASE CallbackPut
    BY <2>6, <1>1, <1>2, <1>3, <1>4 DEF CallbackPut, WriteStatus, RedisFails, CoverInv, AfterIndex, stores, broker, task, history, bounds, TypeOK, WorkerPCs
  <2>7. CASE CallbackEnqueue
    BY <2>7, <1>1, <1>2, <1>3, <1>4 DEF CallbackEnqueue, Fault, CoverInv, AfterIndex, stores, broker, task, history, bounds, TypeOK, WorkerPCs
  <2>8. CASE DisconnectStatus
    BY <2>8, <1>1, <1>2, <1>3, <1>4 DEF DisconnectStatus, WriteStatus, RedisFails, CoverInv, AfterIndex, stores, broker, task, history, bounds, TypeOK, WorkerPCs
  <2>9. CASE DisconnectCursor
    BY <2>9, <1>1, <1>2, <1>3, <1>4 DEF DisconnectCursor, Fault, Covered, CoverInv, AfterIndex, stores, broker, task, history, bounds, TypeOK, WorkerPCs
  <2>10. CASE DisconnectPlugin
    BY <2>10, <1>1, <1>2, <1>3, <1>4 DEF DisconnectPlugin, CoverInv, AfterIndex, stores, broker, task, history, bounds, TypeOK, WorkerPCs
  <2>11. CASE DisconnectPurge
    BY <2>11, <1>1, <1>2, <1>3, <1>4 DEF DisconnectPurge, PurgedRows, Fault, CoverInv, AfterIndex, stores, broker, task, history, bounds, TypeOK, WorkerPCs
  <2>12. CASE Purge
    BY <2>12, <1>1, <1>2, <1>3, <1>4 DEF Purge, PurgedRows, PurgedVectors, CoverInv, AfterIndex, stores, broker, task, history, bounds, TypeOK, WorkerPCs
  <2>13. CASE PurgeGivesUp
    BY <2>13, <1>1, <1>2, <1>3, <1>4 DEF PurgeGivesUp, Fault, CoverInv, AfterIndex, stores, broker, task, history, bounds, TypeOK, WorkerPCs
  <2>14. ASSUME NEW w \in Workers, TakeTask(w) PROVE CoverInv'
    BY <2>14, <1>1, <1>2, <1>3, <1>4 DEF TakeTask, Goto, CoverInv, AfterIndex, stores, broker, task, history, bounds, TypeOK, WorkerPCs
  <2>15. ASSUME NEW w \in Workers, ForceSyncing(w) PROVE CoverInv'
    BY <2>15, <1>1, <1>2, <1>3, <1>4 DEF ForceSyncing, WriteStatus, RedisFails, Goto, CoverInv, AfterIndex, stores, broker, task, history, bounds, TypeOK, WorkerPCs
  <2>16. ASSUME NEW w \in Workers, Recheck(w) PROVE CoverInv'
    BY <2>16, <1>1, <1>2, <1>3, <1>4 DEF Recheck, IsDisconnected, NotDisconnected, RedisFails, Goto, CoverInv, AfterIndex, stores, broker, task, history, bounds, TypeOK, WorkerPCs
  <2>17. ASSUME NEW w \in Workers, LoadCheckpoint(w) PROVE CoverInv'
    BY <2>17, <1>1, <1>2, <1>3, <1>4 DEF LoadCheckpoint, Goto, CoverInv, AfterIndex, stores, broker, task, history, bounds, TypeOK, WorkerPCs
  <2>18. ASSUME NEW w \in Workers, SkipListing(w) PROVE CoverInv'
    BY <2>18, <1>1, <1>2, <1>3, <1>4 DEF SkipListing, Goto, CoverInv, AfterIndex, stores, broker, task, history, bounds, TypeOK, WorkerPCs
  <2>19. ASSUME NEW w \in Workers, FetchPage(w) PROVE CoverInv'
    BY <2>19, <1>1, <1>2, <1>3, <1>4 DEF FetchPage, Goto, CoverInv, AfterIndex, stores, broker, task, history, bounds, TypeOK, WorkerPCs
  <2>20. ASSUME NEW w \in Workers, FetchInvalidCursor(w) PROVE CoverInv'
    BY <2>20, <1>1, <1>2, <1>3, <1>4 DEF FetchInvalidCursor, Goto, Fault, Covered, CoverInv, AfterIndex, stores, broker, task, history, bounds, TypeOK, WorkerPCs
  <2>21. ASSUME NEW w \in Workers, FetchBreak(w) PROVE CoverInv'
    BY <2>21, <1>1, <1>2, <1>3, <1>4 DEF FetchBreak, Goto, Fault, CoverInv, AfterIndex, stores, broker, task, history, bounds, TypeOK, WorkerPCs
  <2>22. ASSUME NEW w \in Workers, PipePage(w) PROVE CoverInv'
    BY <2>22, <1>1, <1>2, <1>3, <1>4 DEF PipePage, Goto, Fault, CoverInv, AfterIndex, stores, broker, task, history, bounds, TypeOK, WorkerPCs
  <2>23. ASSUME NEW w \in Workers, IndexPage(w) PROVE CoverInv'
    <3>1. Reached(pos[w])
      BY <2>23, <1>1 DEF IndexPage, InHand, CoverInv, Covered, TypeOK, Tokens, ChangesToken
    <3>2. pos[w] \in Nat /\ pos[w] + 1 \in vectors' \cup partial'
      BY <2>23, <1>1 DEF IndexPage, TypeOK, Tokens
    <3>3. Reached(pos[w] + 1)'
      <4>1. \A p \in 1..pos[w] : p \in vectors' \cup partial'
        BY <3>1, IndexGrows DEF Reached
      <4>2. pos'[w] = pos[w]
        BY <2>23 DEF IndexPage
      <4>. QED
        BY <3>2, <4>1, <4>2 DEF Reached
    <3>4. nxt[w] = 0 \/ nxt[w] = pos[w] + 1
      BY <2>23, <1>1 DEF IndexPage, InHand
    <3>5. Reached(nxt[w])'
      BY <2>23, <3>3, <3>4, <1>4 DEF IndexPage
    <3>. QED
      BY <2>23, <1>1, <1>2, <1>3, <3>5 DEF IndexPage, Goto, CoverInv, AfterIndex, broker, TypeOK, WorkerPCs
  <2>24. ASSUME NEW w \in Workers, ReportProgress(w) PROVE CoverInv'
    BY <2>24, <1>1, <1>2, <1>3, <1>4 DEF ReportProgress, IsDisconnected, NotDisconnected, RedisFails, CallSetStatus, Goto, CoverInv, AfterIndex, stores, broker, task, history, bounds, TypeOK, WorkerPCs
  <2>25. ASSUME NEW w \in Workers, CheckpointCheck(w) PROVE CoverInv'
    BY <2>25, <1>1, <1>2, <1>3, <1>4 DEF CheckpointCheck, IsDisconnected, NotDisconnected, RedisFails, Goto, CoverInv, AfterIndex, stores, broker, task, history, bounds, TypeOK, WorkerPCs
  <2>26. ASSUME NEW w \in Workers, CheckpointWrite(w) PROVE CoverInv'
    <3>1. Reached(nxt[w])
      BY <2>26, <1>1 DEF CheckpointWrite, CoverInv, AfterIndex
    <3>2. \A v \in Workers : Covered(pos[v]) /\ Covered(fin[v]) /\ (AfterIndex(v) => Reached(nxt[v]))
      BY <1>1 DEF CoverInv
    <3>. QED
      BY <2>26, <1>1, <1>2, <1>3, <3>1, <3>2 DEF CheckpointWrite, Goto, CoverInv, Covered, AfterIndex, ChangesToken, TypeOK, WorkerPCs
  <2>27. ASSUME NEW w \in Workers, StoreFinal(w) PROVE CoverInv'
    BY <2>27, <1>1, <1>2, <1>3, <1>4 DEF StoreFinal, Goto, Covered, Fault, CoverInv, AfterIndex, stores, broker, task, history, bounds, TypeOK, WorkerPCs
  <2>28. ASSUME NEW w \in Workers, Finish(w) PROVE CoverInv'
    BY <2>28, <1>1, <1>2, <1>3, <1>4 DEF Finish, IsDisconnected, NotDisconnected, RedisFails, CallSetStatus, Goto, CoverInv, AfterIndex, stores, broker, task, history, bounds, TypeOK, WorkerPCs
  <2>29. ASSUME NEW w \in Workers, SetStatusGuard(w) PROVE CoverInv'
    BY <2>29, <1>1, <1>2, <1>3, <1>4 DEF SetStatusGuard, IsDisconnected, NotDisconnected, RedisFails, Goto, Stamps, CoverInv, AfterIndex, stores, broker, task, history, bounds, TypeOK, WorkerPCs
  <2>30. ASSUME NEW w \in Workers, SetStatusPut(w) PROVE CoverInv'
    BY <2>30, <1>1, <1>2, <1>3, <1>4 DEF SetStatusPut, WriteStatus, RedisFails, Goto, Stamps, CoverInv, AfterIndex, stores, broker, task, history, bounds, TypeOK, WorkerPCs
  <2>31. ASSUME NEW w \in Workers, Fail(w) PROVE CoverInv'
    BY <2>31, <1>1, <1>2, <1>3, <1>4 DEF Fail, CallSetStatus, Goto, Fault, CoverInv, AfterIndex, stores, broker, task, history, bounds, TypeOK, WorkerPCs
  <2>32. ASSUME NEW w \in Workers, Exit(w) PROVE CoverInv'
    BY <2>32, <1>1, <1>2, <1>3, <1>4 DEF Exit, Goto, Fault, CoverInv, AfterIndex, stores, broker, task, history, bounds, TypeOK, WorkerPCs
  <2>33. ASSUME NEW w \in Workers, Crash(w) PROVE CoverInv'
    BY <2>33, <1>1, <1>2, <1>3, <1>4 DEF Crash, Goto, CoverInv, AfterIndex, stores, broker, task, history, bounds, TypeOK, WorkerPCs
  <2>34. ASSUME NEW w \in Workers, WorkerLost(w) PROVE CoverInv'
    BY <2>34, <1>1, <1>2, <1>3, <1>4 DEF WorkerLost, Goto, CoverInv, AfterIndex, stores, broker, task, history, bounds, TypeOK, WorkerPCs
  <2>35. CASE UNCHANGED vars
    BY <2>35, <1>1, <1>2, <1>3, <1>4 DEF vars, CoverInv, AfterIndex, stores, broker, task, history, bounds, TypeOK, WorkerPCs
  <2>. QED
    BY <2>1, <2>2, <2>3, <2>4, <2>5, <2>6, <2>7, <2>8, <2>9, <2>10, <2>11, <2>12, <2>13, <2>14, <2>15, <2>16, <2>17, <2>18, <2>19, <2>20, <2>21, <2>22, <2>23, <2>24, <2>25, <2>26, <2>27, <2>28, <2>29, <2>30, <2>31, <2>32, <2>33, <2>34, <2>35 DEF Next, RequestStep, DisconnectStep, BackfillStep
<1>. QED
  BY <1>5

(* A checkpoint never points past a page that was not processed, for any    *)
(* number of workers, pages, requests, faults and crashes: the stored list  *)
(* token was written by a worker that had indexed up to it.                 *)
THEOREM CheckpointsAreCovered == Spec => []CheckpointCovered
<1>1. TypeInv /\ CoverInv /\ [Next]_vars => (TypeInv /\ CoverInv)'
  BY TypeStep, InHandStep, StampsStep, CoverStep DEF TypeInv
<1>2. TypeInv /\ CoverInv => CheckpointCovered
  BY DEF CoverInv, Covered, CheckpointCovered
<1>3. Init => TypeInv /\ CoverInv
  BY TypeInit, CoverInit
<1>. QED
  BY <1>1, <1>2, <1>3, PTL DEF Spec

LEMMA OwnerStep == TypeInv /\ SyncingHasOwner /\ [Next]_vars => SyncingHasOwner'
<1>. SUFFICES ASSUME TypeInv, SyncingHasOwner, [Next]_vars PROVE SyncingHasOwner'
  OBVIOUS
<1>1. TypeOK /\ Stamps /\ SyncingHasOwner
  BY DEF TypeInv
<1>2. SyncingHasOwner'
  <2>1. CASE TriggerStatus
    BY <2>1, <1>1 DEF TriggerStatus, WriteStatus, RedisFails, SyncingHasOwner, SyncingOwner, Stamps, TypeOK, stores, broker, task, history, bounds, Statuses, WorkerPCs
  <2>2. CASE TriggerEnqueueFails
    BY <2>2, <1>1 DEF TriggerEnqueueFails, SyncingHasOwner, SyncingOwner, Stamps, TypeOK, stores, broker, task, history, bounds, Statuses, WorkerPCs
  <2>3. CASE CallbackToken
    BY <2>3, <1>1 DEF CallbackToken, SyncingHasOwner, SyncingOwner, Stamps, TypeOK, stores, broker, task, history, bounds, Statuses, WorkerPCs
  <2>4. CASE TriggerEnqueue
    BY <2>4, <1>1 DEF TriggerEnqueue, SyncingHasOwner, SyncingOwner, Stamps, TypeOK, stores, broker, task, history, bounds, Statuses, WorkerPCs
  <2>5. CASE CallbackGuard
    BY <2>5, <1>1 DEF CallbackGuard, IsDisconnected, NotDisconnected, RedisFails, SyncingHasOwner, SyncingOwner, Stamps, TypeOK, stores, broker, task, history, bounds, Statuses, WorkerPCs
  <2>6. CASE CallbackPut
    BY <2>6, <1>1 DEF CallbackPut, WriteStatus, RedisFails, SyncingHasOwner, SyncingOwner, Stamps, TypeOK, stores, broker, task, history, bounds, Statuses, WorkerPCs
  <2>7. CASE CallbackEnqueue
    BY <2>7, <1>1 DEF CallbackEnqueue, Fault, SyncingHasOwner, SyncingOwner, Stamps, TypeOK, stores, broker, task, history, bounds, Statuses, WorkerPCs
  <2>8. CASE DisconnectStatus
    BY <2>8, <1>1 DEF DisconnectStatus, WriteStatus, RedisFails, SyncingHasOwner, SyncingOwner, Stamps, TypeOK, stores, broker, task, history, bounds, Statuses, WorkerPCs
  <2>9. CASE DisconnectCursor
    BY <2>9, <1>1 DEF DisconnectCursor, Fault, SyncingHasOwner, SyncingOwner, Stamps, TypeOK, stores, broker, task, history, bounds, Statuses, WorkerPCs
  <2>10. CASE DisconnectPlugin
    BY <2>10, <1>1 DEF DisconnectPlugin, SyncingHasOwner, SyncingOwner, Stamps, TypeOK, stores, broker, task, history, bounds, Statuses, WorkerPCs
  <2>11. CASE DisconnectPurge
    BY <2>11, <1>1 DEF DisconnectPurge, PurgedRows, Fault, SyncingHasOwner, SyncingOwner, Stamps, TypeOK, stores, broker, task, history, bounds, Statuses, WorkerPCs
  <2>12. CASE Purge
    BY <2>12, <1>1 DEF Purge, PurgedRows, PurgedVectors, SyncingHasOwner, SyncingOwner, Stamps, TypeOK, stores, broker, task, history, bounds, Statuses, WorkerPCs
  <2>13. CASE PurgeGivesUp
    BY <2>13, <1>1 DEF PurgeGivesUp, Fault, SyncingHasOwner, SyncingOwner, Stamps, TypeOK, stores, broker, task, history, bounds, Statuses, WorkerPCs
  <2>14. ASSUME NEW w \in Workers, TakeTask(w) PROVE SyncingHasOwner'
    BY <2>14, <1>1 DEF TakeTask, Goto, SyncingHasOwner, SyncingOwner, Stamps, TypeOK, stores, broker, task, history, bounds, Statuses, WorkerPCs
  <2>15. ASSUME NEW w \in Workers, ForceSyncing(w) PROVE SyncingHasOwner'
    BY <2>15, <1>1 DEF ForceSyncing, WriteStatus, RedisFails, Goto, SyncingHasOwner, SyncingOwner, Stamps, TypeOK, stores, broker, task, history, bounds, Statuses, WorkerPCs
  <2>16. ASSUME NEW w \in Workers, Recheck(w) PROVE SyncingHasOwner'
    BY <2>16, <1>1 DEF Recheck, IsDisconnected, NotDisconnected, RedisFails, Goto, SyncingHasOwner, SyncingOwner, Stamps, TypeOK, stores, broker, task, history, bounds, Statuses, WorkerPCs
  <2>17. ASSUME NEW w \in Workers, LoadCheckpoint(w) PROVE SyncingHasOwner'
    BY <2>17, <1>1 DEF LoadCheckpoint, Goto, SyncingHasOwner, SyncingOwner, Stamps, TypeOK, stores, broker, task, history, bounds, Statuses, WorkerPCs
  <2>18. ASSUME NEW w \in Workers, SkipListing(w) PROVE SyncingHasOwner'
    BY <2>18, <1>1 DEF SkipListing, Goto, SyncingHasOwner, SyncingOwner, Stamps, TypeOK, stores, broker, task, history, bounds, Statuses, WorkerPCs
  <2>19. ASSUME NEW w \in Workers, FetchPage(w) PROVE SyncingHasOwner'
    BY <2>19, <1>1 DEF FetchPage, Goto, SyncingHasOwner, SyncingOwner, Stamps, TypeOK, stores, broker, task, history, bounds, Statuses, WorkerPCs
  <2>20. ASSUME NEW w \in Workers, FetchInvalidCursor(w) PROVE SyncingHasOwner'
    BY <2>20, <1>1 DEF FetchInvalidCursor, Goto, Fault, SyncingHasOwner, SyncingOwner, Stamps, TypeOK, stores, broker, task, history, bounds, Statuses, WorkerPCs
  <2>21. ASSUME NEW w \in Workers, FetchBreak(w) PROVE SyncingHasOwner'
    BY <2>21, <1>1 DEF FetchBreak, Goto, Fault, SyncingHasOwner, SyncingOwner, Stamps, TypeOK, stores, broker, task, history, bounds, Statuses, WorkerPCs
  <2>22. ASSUME NEW w \in Workers, PipePage(w) PROVE SyncingHasOwner'
    BY <2>22, <1>1 DEF PipePage, Goto, Fault, SyncingHasOwner, SyncingOwner, Stamps, TypeOK, stores, broker, task, history, bounds, Statuses, WorkerPCs
  <2>23. ASSUME NEW w \in Workers, IndexPage(w) PROVE SyncingHasOwner'
    BY <2>23, <1>1 DEF IndexPage, Goto, Fault, SyncingHasOwner, SyncingOwner, Stamps, TypeOK, stores, broker, task, history, bounds, Statuses, WorkerPCs
  <2>24. ASSUME NEW w \in Workers, ReportProgress(w) PROVE SyncingHasOwner'
    BY <2>24, <1>1 DEF ReportProgress, IsDisconnected, NotDisconnected, RedisFails, CallSetStatus, Goto, SyncingHasOwner, SyncingOwner, Stamps, TypeOK, stores, broker, task, history, bounds, Statuses, WorkerPCs
  <2>25. ASSUME NEW w \in Workers, CheckpointCheck(w) PROVE SyncingHasOwner'
    BY <2>25, <1>1 DEF CheckpointCheck, IsDisconnected, NotDisconnected, RedisFails, Goto, SyncingHasOwner, SyncingOwner, Stamps, TypeOK, stores, broker, task, history, bounds, Statuses, WorkerPCs
  <2>26. ASSUME NEW w \in Workers, CheckpointWrite(w) PROVE SyncingHasOwner'
    BY <2>26, <1>1 DEF CheckpointWrite, Goto, SyncingHasOwner, SyncingOwner, Stamps, TypeOK, stores, broker, task, history, bounds, Statuses, WorkerPCs
  <2>27. ASSUME NEW w \in Workers, StoreFinal(w) PROVE SyncingHasOwner'
    BY <2>27, <1>1 DEF StoreFinal, Goto, Fault, SyncingHasOwner, SyncingOwner, Stamps, TypeOK, stores, broker, task, history, bounds, Statuses, WorkerPCs
  <2>28. ASSUME NEW w \in Workers, Finish(w) PROVE SyncingHasOwner'
    BY <2>28, <1>1 DEF Finish, IsDisconnected, NotDisconnected, RedisFails, CallSetStatus, Goto, SyncingHasOwner, SyncingOwner, Stamps, TypeOK, stores, broker, task, history, bounds, Statuses, WorkerPCs
  <2>29. ASSUME NEW w \in Workers, SetStatusGuard(w) PROVE SyncingHasOwner'
    BY <2>29, <1>1 DEF SetStatusGuard, IsDisconnected, NotDisconnected, RedisFails, Goto, SyncingHasOwner, SyncingOwner, Stamps, TypeOK, stores, broker, task, history, bounds, Statuses, WorkerPCs
  <2>30. ASSUME NEW w \in Workers, SetStatusPut(w) PROVE SyncingHasOwner'
    BY <2>30, <1>1 DEF SetStatusPut, WriteStatus, RedisFails, Goto, SyncingHasOwner, SyncingOwner, Stamps, TypeOK, stores, broker, task, history, bounds, Statuses, WorkerPCs
  <2>31. ASSUME NEW w \in Workers, Fail(w) PROVE SyncingHasOwner'
    BY <2>31, <1>1 DEF Fail, CallSetStatus, Goto, Fault, SyncingHasOwner, SyncingOwner, Stamps, TypeOK, stores, broker, task, history, bounds, Statuses, WorkerPCs
  <2>32. ASSUME NEW w \in Workers, Exit(w) PROVE SyncingHasOwner'
    BY <2>32, <1>1 DEF Exit, Goto, Fault, SyncingHasOwner, SyncingOwner, Stamps, TypeOK, stores, broker, task, history, bounds, Statuses, WorkerPCs
  <2>33. ASSUME NEW w \in Workers, Crash(w) PROVE SyncingHasOwner'
    BY <2>33, <1>1 DEF Crash, Goto, SyncingHasOwner, SyncingOwner, Stamps, TypeOK, stores, broker, task, history, bounds, Statuses, WorkerPCs
  <2>34. ASSUME NEW w \in Workers, WorkerLost(w) PROVE SyncingHasOwner'
    BY <2>34, <1>1 DEF WorkerLost, Goto, SyncingHasOwner, SyncingOwner, Stamps, TypeOK, stores, broker, task, history, bounds, Statuses, WorkerPCs
  <2>35. CASE UNCHANGED vars
    BY <2>35, <1>1 DEF vars, SyncingHasOwner, SyncingOwner, Stamps, TypeOK, stores, broker, task, history, bounds, Statuses, WorkerPCs
  <2>. QED
    BY <2>1, <2>2, <2>3, <2>4, <2>5, <2>6, <2>7, <2>8, <2>9, <2>10, <2>11, <2>12, <2>13, <2>14, <2>15, <2>16, <2>17, <2>18, <2>19, <2>20, <2>21, <2>22, <2>23, <2>24, <2>25, <2>26, <2>27, <2>28, <2>29, <2>30, <2>31, <2>32, <2>33, <2>34, <2>35 DEF Next, RequestStep, DisconnectStep, BackfillStep
<1>. QED
  BY <1>2

(* As long as no message was lost and the last write that was to end a      *)
(* "syncing" status took place, that status has somebody who will change it, *)
(* for any number of workers, requests, faults, failed calls and crashes.   *)
THEOREM SyncingIsOwned == Spec => []SyncingHasOwner
<1>1. TypeInv /\ SyncingHasOwner /\ [Next]_vars => (TypeInv /\ SyncingHasOwner)'
  BY TypeStep, InHandStep, StampsStep, OwnerStep DEF TypeInv
<1>2. Init => TypeInv /\ SyncingHasOwner
  BY TypeInit DEF Init, SyncingHasOwner
<1>. QED
  BY <1>1, <1>2, PTL DEF Spec

-----------------------------------------------------------------------------
(* A worker that indexed a page while the connector is disconnected has to   *)
(* ask twice before it indexes another, and only a failed read lets it pass. *)
(* Due counts the questions behind it since the last page it indexed, from   *)
(* two downwards.                                                            *)
Due(there, next) ==
    CASE there \in {"resume", "crawl", "pipe", "index", "ckptwrite"} -> 0
      [] \/ there \in {"recheck", "ckptcheck"}
         \/ there \in {"guard", "put"} /\ next = "ckptcheck" -> 1
      [] OTHER -> 2

LateInv == \A w \in Workers : late[w] # 0 =>
              /\ status = "not_connected"
              /\ 2 * late[w] <= redis + Due(pc[w], ret[w])

LEMMA DueNumbers == \A there, next : Due(there, next) \in 0..2
BY DEF Due

(* A write of the status keeps the counts of a disconnected connector,       *)
(* restarts all of them, or fails.                                           *)
LEMMA WriteKeepsLate ==
  ASSUME TypeOK, LateInv, NEW v, WriteStatus(v),
         \A w \in Workers : \/ pc'[w] = pc[w] /\ ret'[w] = ret[w]
                            \/ v # "not_connected" /\ Due(pc[w], ret[w]) <= Due(pc'[w], ret'[w]) + 1
  PROVE  LateInv'
<1>. SUFFICES ASSUME NEW w \in Workers, late'[w] # 0
              PROVE  status' = "not_connected" /\ 2 * late'[w] <= redis' + Due(pc'[w], ret'[w])
  BY DEF LateInv
<1>1. late[w] \in Nat /\ redis \in Nat /\ Due(pc[w], ret[w]) \in 0..2 /\ Due(pc'[w], ret'[w]) \in 0..2
  BY DueNumbers DEF TypeOK
<1>2. \/ status' = v /\ v = "not_connected" /\ late' = late /\ redis' = redis
      \/ status' = status /\ late' = late /\ redis' = redis + 1
  BY DEF WriteStatus, RedisFails
<1>3. late[w] # 0 /\ status = "not_connected" /\ 2 * late[w] <= redis + Due(pc[w], ret[w])
  BY <1>2 DEF LateInv
<1>. QED
  BY <1>1, <1>2, <1>3

(* A step of one worker that leaves status, late and the other workers      *)
(* alone, and gets on by a failed read.                                     *)
LEMMA WorkerKeepsLate ==
  ASSUME TypeOK, LateInv, NEW w \in Workers, UNCHANGED <<status, late>>,
         redis' = redis \/ redis' = redis + 1,
         \A u \in Workers \ {w} : pc'[u] = pc[u] /\ ret'[u] = ret[u],
         late[w] # 0 => redis + Due(pc[w], ret[w]) <= redis' + Due(pc'[w], ret'[w])
  PROVE  LateInv'
<1>. SUFFICES ASSUME NEW u \in Workers, late[u] # 0
              PROVE  status = "not_connected" /\ 2 * late[u] <= redis' + Due(pc'[u], ret'[u])
  BY DEF LateInv
<1>1. /\ late[u] \in Nat /\ redis \in Nat
      /\ Due(pc[u], ret[u]) \in 0..2 /\ Due(pc'[u], ret'[u]) \in 0..2
  BY DueNumbers DEF TypeOK
<1>2. status = "not_connected" /\ 2 * late[u] <= redis + Due(pc[u], ret[u])
  BY DEF LateInv
<1>3. CASE u # w
  BY <1>1, <1>2, <1>3
<1>4. CASE u = w
  BY <1>1, <1>2, <1>4
<1>. QED
  BY <1>3, <1>4

LEMMA LateStep == TypeInv /\ LateInv /\ [Next]_vars => LateInv'
<1>. SUFFICES ASSUME TypeInv, LateInv, [Next]_vars PROVE LateInv'
  OBVIOUS
<1>1. TypeOK /\ Stamps
  BY DEF TypeInv
<1>2. ASSUME UNCHANGED <<status, late, pc, ret>>, redis' = redis \/ redis' = redis + 1 PROVE LateInv'
  <2>. SUFFICES ASSUME NEW u \in Workers, late[u] # 0
                PROVE  status = "not_connected" /\ 2 * late[u] <= redis' + Due(pc[u], ret[u])
    BY <1>2 DEF LateInv
  <2>1. late[u] \in Nat /\ redis \in Nat /\ Due(pc[u], ret[u]) \in 0..2
    BY <1>1, DueNumbers DEF TypeOK
  <2>. QED
    BY <1>2, <2>1 DEF LateInv
<1>3. CASE \/ TriggerEnqueueFails \/ CallbackToken \/ TriggerEnqueue \/ CallbackGuard
           \/ CallbackEnqueue \/ DisconnectStep \/ Purge \/ PurgeGivesUp \/ UNCHANGED vars
  BY <1>2, <1>3 DEF TriggerEnqueueFails, CallbackToken, TriggerEnqueue, CallbackGuard, IsDisconnected,
     NotDisconnected, RedisFails, CallbackEnqueue,
     DisconnectStep, DisconnectCursor, DisconnectPlugin, DisconnectPurge, Purge, PurgeGivesUp,
     vars, stores, task, history
<1>4. CASE TriggerStatus \/ CallbackPut \/ DisconnectStatus
  BY <1>1, <1>4, WriteKeepsLate DEF TriggerStatus, CallbackPut, DisconnectStatus, task
<1>5. ASSUME NEW w \in Workers, ForceSyncing(w) PROVE LateInv'
  <2>1. \A u \in Workers : \/ pc'[u] = pc[u] /\ ret'[u] = ret[u]
                           \/ Due(pc[u], ret[u]) <= Due(pc'[u], ret'[u]) + 1
    BY <1>1, <1>5 DEF ForceSyncing, Goto, TypeOK, Due
  <2>. QED
    BY <1>1, <1>5, <2>1, WriteKeepsLate DEF ForceSyncing
<1>6. ASSUME NEW w \in Workers, SetStatusPut(w) PROVE LateInv'
  <2>1. val[w] # "not_connected" /\ ret[w] \in {"ckptcheck", "store", "idle", "exit"}
    BY <1>1, <1>6 DEF SetStatusPut, Stamps
  <2>2. \A u \in Workers : \/ pc'[u] = pc[u] /\ ret'[u] = ret[u]
                           \/ Due(pc[u], ret[u]) <= Due(pc'[u], ret'[u]) + 1
    BY <1>1, <1>6, <2>1 DEF SetStatusPut, Goto, TypeOK, Due
  <2>. QED
    BY <1>1, <1>6, <2>1, <2>2, WriteKeepsLate DEF SetStatusPut
<1>7. ASSUME NEW w \in Workers, IndexPage(w) PROVE LateInv'
  <2>. SUFFICES ASSUME NEW u \in Workers, late'[u] # 0
                PROVE  status = "not_connected" /\ 2 * late'[u] <= redis + Due(pc'[u], ret[u])
    BY <1>7 DEF LateInv, IndexPage
  <2>1. late[u] \in Nat /\ redis \in Nat /\ Due(pc[u], ret[u]) \in 0..2
    BY <1>1, DueNumbers DEF TypeOK
  <2>2. CASE u = w
    <3>1. pc[w] = "index" /\ pc'[w] = "report"
      BY <1>1, <1>7 DEF IndexPage, Goto, TypeOK
    <3>2. Due(pc[w], ret[w]) = 0 /\ Due(pc'[w], ret[w]) = 2
      BY <3>1 DEF Due
    <3>3. \/ status = "not_connected" /\ late'[w] = late[w] + 1
          \/ late'[w] = late[w]
      BY <1>1, <1>7 DEF IndexPage, TypeOK
    <3>4. late[w] # 0 => status = "not_connected" /\ 2 * late[w] <= redis
      BY <1>1, <3>2 DEF LateInv, TypeOK
    <3>. QED
      BY <2>1, <2>2, <3>2, <3>3, <3>4
  <2>3. CASE u # w
    <3>1. late'[u] = late[u] /\ pc'[u] = pc[u]
      BY <1>1, <1>7, <2>3 DEF IndexPage, Goto, TypeOK
    <3>. QED
      BY <3>1 DEF LateInv
  <2>. QED
    BY <2>2, <2>3
<1>8. ASSUME NEW w \in Workers,
             TakeTask(w) \/ LoadCheckpoint(w) \/ SkipListing(w) \/ FetchPage(w)
             \/ FetchInvalidCursor(w) \/ FetchBreak(w) \/ PipePage(w)
             \/ CheckpointWrite(w) \/ StoreFinal(w) \/ Crash(w) \/ WorkerLost(w) \/ Exit(w) \/ Fail(w)
      PROVE LateInv'
  <2>1. UNCHANGED <<status, late, redis>>
    BY <1>8 DEF TakeTask, LoadCheckpoint, SkipListing, FetchPage, FetchInvalidCursor, FetchBreak, PipePage,
       CheckpointWrite, StoreFinal, Crash, WorkerLost, Exit, Fail, stores, history
  <2>2. /\ \A u \in Workers \ {w} : pc'[u] = pc[u] /\ ret'[u] = ret[u]
        /\ Due(pc[w], ret[w]) <= Due(pc'[w], ret'[w])
    BY <1>1, <1>8 DEF TakeTask, LoadCheckpoint, SkipListing, FetchPage, FetchInvalidCursor, FetchBreak,
       PipePage, CheckpointWrite, StoreFinal, Crash, WorkerLost, Exit, Fail, CallSetStatus, Goto, TypeOK, Due
  <2>3. redis + Due(pc[w], ret[w]) <= redis + Due(pc'[w], ret'[w])
    BY <1>1, <2>2, DueNumbers DEF TypeOK
  <2>. QED
    BY <1>1, <2>1, <2>2, <2>3, WorkerKeepsLate
<1>9. ASSUME NEW w \in Workers,
             Recheck(w) \/ CheckpointCheck(w) \/ ReportProgress(w) \/ Finish(w) \/ SetStatusGuard(w)
      PROVE LateInv'
  <2>1. /\ UNCHANGED <<status, late>>
        /\ \/ redis' = redis /\ (IsDisconnected \/ status # "not_connected")
           \/ redis' = redis + 1
    BY <1>9 DEF Recheck, CheckpointCheck, ReportProgress, Finish, SetStatusGuard, IsDisconnected,
       NotDisconnected, RedisFails, stores, history
  <2>2. \A u \in Workers \ {w} : pc'[u] = pc[u] /\ ret'[u] = ret[u]
    BY <1>1, <1>9 DEF Recheck, CheckpointCheck, ReportProgress, Finish, SetStatusGuard, CallSetStatus, Goto, TypeOK
  <2>3. status = "not_connected" => redis + Due(pc[w], ret[w]) <= redis' + Due(pc'[w], ret'[w])
    <3>1. redis \in Nat
      BY <1>1 DEF TypeOK
    <3>2. CASE Recheck(w) \/ CheckpointCheck(w)
      BY <1>1, <3>1, <3>2 DEF Recheck, CheckpointCheck, IsDisconnected, NotDisconnected, RedisFails, Goto, TypeOK, Due
    <3>3. CASE ReportProgress(w) \/ Finish(w)
      BY <1>1, <3>1, <3>3 DEF ReportProgress, Finish, IsDisconnected, NotDisconnected, RedisFails, CallSetStatus, Goto, TypeOK, Due
    <3>4. CASE SetStatusGuard(w)
      BY <1>1, <3>1, <3>4 DEF SetStatusGuard, Stamps, IsDisconnected, NotDisconnected, RedisFails, Goto, TypeOK, Due
    <3>. QED
      BY <1>9, <3>2, <3>3, <3>4
  <2>. QED
    BY <1>1, <2>1, <2>2, <2>3, WorkerKeepsLate DEF LateInv
<1>. QED
  BY <1>3, <1>4, <1>5, <1>6, <1>7, <1>8, <1>9 DEF Next, RequestStep, BackfillStep

(* While the connector stays disconnected, a worker indexes at most the     *)
(* page it had in hand and one more for every two failed reads, for any     *)
(* number of workers, pages and requests.                                   *)
THEOREM LateIndexingIsBounded == Spec => []BoundedLateIndexing
<1>1. Init => TypeInv /\ LateInv
  BY TypeInit DEF Init, LateInv
<1>2. TypeInv /\ LateInv /\ [Next]_vars => (TypeInv /\ LateInv)'
  BY TypeStep, InHandStep, StampsStep, LateStep DEF TypeInv
<1>3. TypeInv /\ LateInv => BoundedLateIndexing
  <2>. SUFFICES ASSUME TypeInv, LateInv, NEW w \in Workers PROVE 2 * late[w] <= 2 + redis
    BY DEF BoundedLateIndexing
  <2>1. late[w] \in Nat /\ redis \in Nat /\ Due(pc[w], ret[w]) \in 0..2
    BY DueNumbers DEF TypeInv, TypeOK
  <2>. QED
    BY <2>1 DEF LateInv
<1>. QED
  BY <1>1, <1>2, <1>3, PTL DEF Spec

-----------------------------------------------------------------------------
(* The crawl, step by step.                                                 *)

(* What is indexed is a prefix of the listing.                              *)
Indexed == vectors \cup partial
Prefix == \E n \in 0..NPages : Indexed = 1..n

(* Only IndexPage puts a page into the index.                               *)
LEMMA IndexedByIndexPage ==
  ASSUME [Next]_vars, \A w \in Workers : ~IndexPage(w)
  PROVE  UNCHANGED <<vectors, partial>>
<1>1. CASE \/ TriggerStatus \/ TriggerEnqueueFails \/ CallbackToken \/ TriggerEnqueue \/ CallbackGuard
           \/ CallbackPut \/ CallbackEnqueue \/ DisconnectStatus \/ DisconnectStep \/ Purge
           \/ PurgeGivesUp \/ UNCHANGED vars
  BY <1>1 DEF TriggerStatus, TriggerEnqueueFails, CallbackToken, TriggerEnqueue, CallbackGuard,
     CallbackPut, CallbackEnqueue, DisconnectStatus, DisconnectStep, DisconnectCursor,
     DisconnectPlugin, DisconnectPurge, Purge, PurgedVectors, PurgeGivesUp, vars, stores
<1>2. ASSUME NEW w \in Workers,
             TakeTask(w) \/ Recheck(w) \/ LoadCheckpoint(w) \/ SkipListing(w) \/ FetchPage(w)
             \/ FetchInvalidCursor(w) \/ FetchBreak(w) \/ PipePage(w) \/ CheckpointCheck(w)
             \/ CheckpointWrite(w) \/ StoreFinal(w) \/ Crash(w) \/ WorkerLost(w) \/ Exit(w)
             \/ ForceSyncing(w) \/ ReportProgress(w) \/ Finish(w) \/ SetStatusGuard(w)
             \/ SetStatusPut(w) \/ Fail(w)
      PROVE UNCHANGED <<vectors, partial>>
  BY <1>2 DEF TakeTask, Recheck, LoadCheckpoint, SkipListing, FetchPage,
     FetchInvalidCursor, FetchBreak, PipePage, CheckpointCheck, CheckpointWrite, StoreFinal, Crash,
     WorkerLost, Exit, ForceSyncing, ReportProgress, Finish, SetStatusGuard, SetStatusPut, Fail, stores
<1>. QED
  BY <1>1, <1>2 DEF Next, RequestStep, BackfillStep

(* A worker indexes a page after the pages before it.                       *)
LEMMA IndexPageIsNext ==
  ASSUME TypeInv, CoverInv, NEW w \in Workers, IndexPage(w)
  PROVE  /\ pos[w] \in 0..NPages - 1 /\ Reached(pos[w])
         /\ vectors' \cup partial' = vectors \cup partial \cup {pos[w] + 1}
         /\ cursor' = cursor
<1>1. pos[w] \in Nat /\ pos[w] < NPages
  BY NPagesAssumption DEF TypeInv, TypeOK, InHand, IndexPage, Tokens, ChangesToken
<1>. QED
  BY <1>1, NPagesAssumption DEF CoverInv, Covered, ChangesToken, IndexPage

(* The prefix stays or grows by the page after it.                          *)
LEMMA PrefixGrows ==
  ASSUME TypeInv, CoverInv, NEW n \in 0..NPages, Indexed = 1..n, [Next]_vars
  PROVE  \/ Indexed' = 1..n
         \/ n + 1 <= NPages /\ Indexed' = 1..n + 1 /\ cursor' = cursor
<1>1. ASSUME NEW w \in Workers, IndexPage(w)
      PROVE  \/ Indexed' = 1..n
             \/ n + 1 <= NPages /\ Indexed' = 1..n + 1 /\ cursor' = cursor
  <2>1. /\ pos[w] \in 0..NPages - 1 /\ 1..pos[w] \subseteq 1..n
        /\ Indexed' = 1..n \cup {pos[w] + 1} /\ cursor' = cursor
    BY <1>1, IndexPageIsNext DEF Reached, Indexed
  <2>2. pos[w] <= n
    BY <2>1, NPagesAssumption
  <2>3. CASE pos[w] + 1 <= n
    BY <2>1, <2>3, NPagesAssumption
  <2>4. CASE pos[w] = n
    BY <2>1, <2>4, NPagesAssumption
  <2>. QED
    BY <2>1, <2>2, <2>3, <2>4, NPagesAssumption
<1>2. CASE \A w \in Workers : ~IndexPage(w)
  BY <1>2, IndexedByIndexPage DEF Indexed
<1>. QED
  BY <1>1, <1>2

(* The abstract variables, read off a prefix: the last page of the prefix,   *)
(* and a page that is not past it.                                          *)
LEMMA LastOfPrefix ==
  \A n \in 0..NPages : Cardinality(1..n) = n
BY FS_Interval, NPagesAssumption

LEMMA InsidePrefix ==
  ASSUME NEW n \in 0..NPages, NEW c \in Tokens, c # ChangesToken => 1..c \subseteq 1..n
  PROVE  (IF c = ChangesToken THEN 0 ELSE c) \in 0..n
BY NPagesAssumption DEF Tokens, ChangesToken

Checkpoint == IF cursor = ChangesToken THEN 0 ELSE cursor

(* The detailed crawl with its stores, tasks, crashes and disconnects       *)
(* implements ResumableCrawl: every step processes the next page, moves the *)
(* checkpoint to a page processed, or changes nothing.                      *)
THEOREM CrawlIsResumable == Spec => CrawlSpec
<1> DEFINE Inv == TypeInv /\ CoverInv /\ Prefix
<1>1. Init => Inv
  <2>. SUFFICES ASSUME Init PROVE Prefix
    BY TypeInit, CoverInit
  <2>1. Indexed = 1..0
    BY DEF Init, Indexed
  <2>. QED
    BY <2>1, NPagesAssumption DEF Prefix
<1>2. Init => Crawl!Init
  <2>. SUFFICES ASSUME Init PROVE Crawled = 0 /\ Checkpoint = 0
    BY DEF Crawl!Init, Checkpoint
  <2>1. Indexed = 1..0
    BY DEF Init, Indexed
  <2>. QED
    BY <2>1, LastOfPrefix, NPagesAssumption DEF Init, Checkpoint, Crawled, Indexed
<1>3. Inv /\ [Next]_vars => Inv'
  <2>. SUFFICES ASSUME Inv, [Next]_vars PROVE Prefix'
    BY TypeStep, InHandStep, StampsStep, CoverStep DEF TypeInv
  <2>1. PICK n \in 0..NPages : Indexed = 1..n
    BY DEF Prefix
  <2>. QED
    BY <2>1, PrefixGrows, NPagesAssumption DEF Prefix
<1>4. Inv /\ Inv' /\ [Next]_vars => [Crawl!Next]_<<Crawled, Checkpoint>>
  <2>. SUFFICES ASSUME Inv, Inv', [Next]_vars PROVE [Crawl!Next]_<<Crawled, Checkpoint>>
    OBVIOUS
  <2>1. PICK n \in 0..NPages : Indexed = 1..n
    BY DEF Prefix
  <2>2. Crawled = n
    BY <2>1, LastOfPrefix DEF Crawled, Indexed
  <2>3. CASE Indexed' = 1..n
    <3>1. Crawled' = n
      BY <2>3, LastOfPrefix DEF Crawled, Indexed
    <3>2. Checkpoint' \in 0..n
      <4>1. cursor' \in Tokens /\ (cursor' # ChangesToken => 1..cursor' \subseteq 1..n)
        BY <2>3 DEF TypeInv, TypeOK, CoverInv, Covered, Reached, Indexed
      <4>. QED
        BY <4>1, InsidePrefix DEF Checkpoint
    <3>. QED
      BY <2>2, <3>1, <3>2 DEF Crawl!Next, Crawl!SaveCheckpoint, Checkpoint
  <2>4. CASE n + 1 <= NPages /\ Indexed' = 1..n + 1 /\ cursor' = cursor
    <3>1. Crawled' = n + 1
      <4>1. n + 1 \in 0..NPages
        BY <2>4, NPagesAssumption
      <4>. QED
        BY <2>4, <4>1, LastOfPrefix DEF Crawled, Indexed
    <3>2. Checkpoint' = Checkpoint
      BY <2>4 DEF Checkpoint
    <3>. QED
      BY <2>2, <2>4, <3>1, <3>2, NPagesAssumption DEF Crawl!Next, Crawl!ProcessPage, Checkpoint
  <2>. QED
    BY <2>1, <2>3, <2>4, PrefixGrows
<1>. QED
  BY <1>1, <1>2, <1>3, <1>4, PTL DEF Spec, CrawlSpec, Crawl!Spec, Checkpoint

=============================================================================
