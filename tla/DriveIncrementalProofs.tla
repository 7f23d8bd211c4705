----------------------- MODULE DriveIncrementalProofs -----------------------
(* Theorems about DriveIncremental, for every set of files and workers, page *)
(* size and bound.                                                           *)
EXTENDS DriveIncremental, FiniteSetTheorems, TLAPS

-----------------------------------------------------------------------------
(* Type correctness. *)

LEMMA TypeInit == Init => TypeOK
<1>. SUFFICES ASSUME Init PROVE TypeOK
  OBVIOUS
<1>1. 0 \in Changes /\ "out" \in Stages
  BY BoundsAssumption DEF Changes, Stages
<1>. QED
  BY <1>1 DEF Init, TypeOK

LEMMA TypeStep == TypeOK /\ [Next]_vars => TypeOK'
<1>. SUFFICES ASSUME TypeOK, [Next]_vars PROVE TypeOK'
  OBVIOUS
<1>2. TypeOK'
  <2>1. ASSUME NEW f \in Files, Change(f) PROVE TypeOK'
    BY <2>1, BoundsAssumption DEF Change, upstream, indexes, task, history, bounds, TypeOK, Changes, Stages
  <2>2. CASE Notify
    BY <2>2, BoundsAssumption DEF Notify, upstream, indexes, task, history, bounds, TypeOK, Changes, Stages
  <2>3. ASSUME NEW w \in Workers, TakeTask(w) PROVE TypeOK'
    BY <2>3, BoundsAssumption DEF TakeTask, upstream, indexes, task, history, bounds, TypeOK, Changes, Stages
  <2>4. ASSUME NEW w \in Workers, FetchChanges(w) PROVE TypeOK'
    <3>1. token' \in [Workers -> Changes]
      BY <2>4 DEF FetchChanges, NextToken, TypeOK
    <3>2. /\ page' \in [Workers -> [Files -> Changes]]
          /\ gone' \in [Workers -> SUBSET Files]
          /\ stage' \in [Workers -> [Files -> Stages]]
      BY <2>4, BoundsAssumption DEF FetchChanges, PageAfter, After, TypeOK, Changes, Stages
    <3>. QED
      BY <2>4, <3>1, <3>2 DEF FetchChanges, upstream, indexes, history, bounds, TypeOK
  <2>5. ASSUME NEW w \in Workers, EndBatch(w) PROVE TypeOK'
    <3>1. dropped' \in [Files -> Changes]
      <4>1. CASE UNCHANGED dropped
        BY <4>1 DEF TypeOK
      <4>2. CASE dropped' = [f \in Files |-> IF f \in Staged(w, "failed")
                                             THEN Later(dropped[f], page[w][f])
                                             ELSE dropped[f]]
        BY <4>2 DEF Later, TypeOK
      <4>. QED
        BY <2>5, <4>1, <4>2 DEF EndBatch
    <3>2. pc' \in [Workers -> {"idle", "fetch", "batch", "docs", "chunks", "delete", "canon", "cursor"}]
      BY <2>5 DEF EndBatch, AfterIndexing, TypeOK
    <3>. QED
      BY <2>5, <3>1, <3>2 DEF EndBatch, upstream, indexes, task, bounds, TypeOK
  <2>6. ASSUME NEW w \in Workers, IndexDocs(w) PROVE TypeOK'
    BY <2>6, BoundsAssumption DEF IndexDocs, Staged, upstream, indexes, task, history, bounds, TypeOK, Changes, Stages
  <2>7. ASSUME NEW w \in Workers, DeleteDocs(w) PROVE TypeOK'
    BY <2>7, BoundsAssumption DEF DeleteDocs, upstream, indexes, task, history, bounds, TypeOK, Changes, Stages
  <2>8. ASSUME NEW w \in Workers, DeleteCanon(w) PROVE TypeOK'
    <3>1. /\ acl' \in [Files -> SUBSET Changes]
          /\ applied' \in [Files -> Changes]
      BY <2>8, BoundsAssumption DEF DeleteCanon, Later, TypeOK, Changes
    <3>2. old' \in [Workers -> [Files -> SUBSET Changes]]
      BY <2>8 DEF DeleteCanon, TypeOK
    <3>. QED
      BY <2>8, <3>1, <3>2 DEF DeleteCanon, upstream, bounds, TypeOK
  <2>9. ASSUME NEW w \in Workers, StoreCursor(w) PROVE TypeOK'
    BY <2>9, BoundsAssumption DEF StoreCursor, Leave, upstream, indexes, task, history, bounds, TypeOK, Changes, Stages
  <2>10. ASSUME NEW w \in Workers, Raise(w) PROVE TypeOK'
    BY <2>10, BoundsAssumption DEF Raise, Leave, Fault, Staged, Todo, upstream, indexes, task, history, bounds, TypeOK, Changes, Stages
  <2>11. ASSUME NEW w \in Workers, Crash(w) PROVE TypeOK'
    BY <2>11, BoundsAssumption DEF Crash, Leave, upstream, indexes, task, history, bounds, TypeOK, Changes, Stages
  <2>12. ASSUME NEW w \in Workers, NEW f \in Files, Hydrate(w, f) PROVE TypeOK'
    <3>1. perms' \in [Workers -> [Files -> SUBSET Changes]]
      <4>1. CASE UNCHANGED perms
        BY <4>1 DEF TypeOK
      <4>2. CASE perms' = [perms EXCEPT ![w][f] = IF live[f] THEN {ver[f]} ELSE {}]
        <5>1. (IF live[f] THEN {ver[f]} ELSE {}) \in SUBSET Changes
          BY DEF TypeOK
        <5>. QED
          BY <5>1, <4>2 DEF TypeOK
      <4>. QED
        BY <4>1, <4>2, <2>12 DEF Hydrate
    <3>2. stage' \in [Workers -> [Files -> Stages]] /\ faults' \in Nat
      BY <2>12 DEF Hydrate, Fault, bounds, TypeOK, Stages
    <3>3. crashes' = crashes
      BY <2>12 DEF Hydrate, Fault, bounds
    <3>. QED
      BY <2>12, <3>1, <3>2, <3>3 DEF Hydrate, upstream, indexes, history, TypeOK
  <2>13. ASSUME NEW w \in Workers, NEW f \in Files, BeginReplace(w, f) PROVE TypeOK'
    BY <2>13, BoundsAssumption DEF BeginReplace, Staged, upstream, indexes, task, history, bounds, TypeOK, Changes, Stages
  <2>14. ASSUME NEW w \in Workers, NEW f \in Files, CommitReplace(w, f) PROVE TypeOK'
    <3>1. /\ acl' \in [Files -> SUBSET Changes]
          /\ applied' \in [Files -> Changes]
      BY <2>14, BoundsAssumption DEF CommitReplace, Later, TypeOK, Changes
    <3>2. old' \in [Workers -> [Files -> SUBSET Changes]]
      BY <2>14 DEF CommitReplace, Overtake, TypeOK
    <3>3. stage' \in [Workers -> [Files -> Stages]]
      BY <2>14 DEF CommitReplace, TypeOK, Stages
    <3>. QED
      BY <2>14, <3>1, <3>2, <3>3 DEF CommitReplace, upstream, bounds, TypeOK
  <2>15. ASSUME NEW w \in Workers, NEW f \in Files, ItemFails(w, f) PROVE TypeOK'
    BY <2>15, BoundsAssumption DEF ItemFails, Fault, Staged, upstream, indexes, task, history, bounds, TypeOK, Changes, Stages
  <2>16. ASSUME NEW w \in Workers, NEW f \in Files, IndexChunks(w, f) PROVE TypeOK'
    BY <2>16, BoundsAssumption DEF IndexChunks, Staged, AfterIndexing, upstream, indexes, task, history, bounds, TypeOK, Changes, Stages
  <2>17. CASE UNCHANGED vars
    BY <2>17, BoundsAssumption DEF vars, upstream, indexes, task, history, bounds, TypeOK, Changes, Stages
  <2>. QED
    BY <2>1, <2>2, <2>3, <2>4, <2>5, <2>6, <2>7, <2>8, <2>9, <2>10, <2>11, <2>12, <2>13, <2>14, <2>15, <2>16, <2>17 DEF Next, Work
<1>. QED
  BY <1>2


\* Every variable keeps to its values, for every instance: versions stay
\* within the changes made, and the stages of a page within the pipeline's.
THEOREM TypeCorrect == Spec => []TypeOK
<1>. QED
  BY TypeInit, TypeStep, PTL DEF Spec

-----------------------------------------------------------------------------
(* Coverage.  CursorCovered is not inductive: what the token stored next     *)
(* covers is decided when the page is fetched.  The strengthening says, for  *)
(* each worker, what its token covers while the page is in hand.             *)

Passed(f, n) == applied[f] >= n \/ dropped[f] >= n

\* Tokens never run ahead of upstream.
Ahead == /\ cursor <= head
         /\ \A f \in Files : ver[f] <= head
         /\ \A w \in Workers : token[w] <= head

\* The token a task has read covers what the stored one covered.
Held == \A w \in Workers : pc[w] = "fetch" =>
            \A f \in Files : ver[f] <= token[w] => Passed(f, ver[f])

\* What the new token covers is covered already or on the page in hand.
OnPage == \A w \in Workers : pc[w] \notin {"idle", "fetch"} =>
            \A f \in Files : ver[f] <= token[w] => Passed(f, ver[f]) \/ page[w][f] = ver[f]

\* The pipeline works on the files of the page, and a file is done when its
\* rows are committed.
InBatch == \A w \in Workers : \A f \in Files :
            /\ stage[w][f] # "out" => f \in Todo(w)
            /\ pc[w] = "batch" /\ f \in Todo(w) => stage[w][f] # "out"
            /\ stage[w][f] = "done" => applied[f] >= page[w][f]

\* Past the batch every changed file of the page is persisted or dropped, and
\* before the token is stored the removed ones are deleted.
Handled == \A w \in Workers : \A f \in Files :
            /\ pc[w] \in {"docs", "chunks", "delete", "canon", "cursor"}
            /\ page[w][f] # 0
            /\ f \notin gone[w] \/ pc[w] = "cursor"
            => Passed(f, page[w][f])

CoverInv == CursorCovered /\ Ahead /\ Held /\ OnPage /\ InBatch /\ Handled

\* A page is a prefix of the changes after the token: what the next token
\* passes is on the page.
LEMMA PageIsPrefix ==
    ASSUME TypeOK, NEW t \in Changes, NEW n \in NextToken(t),
           NEW f \in Files, ver[f] > t, ver[f] <= n
    PROVE  f \in PageAfter(t)
<1>1. CASE PageAfter(t) = After(t)
  BY <1>1 DEF After
<1>2. CASE PageAfter(t) # After(t)
  <2>1. PICK g \in PageAfter(t) : ver[g] = n
    BY <1>2 DEF NextToken
  <2>2. f \in After(t)
    BY DEF After
  <2>. DEFINE Below(h) == {x \in After(t) : ver[x] < ver[h]}
  <2>3. IsFiniteSet(Below(g)) /\ IsFiniteSet(Below(f))
    BY FilesAssumption, FS_Subset DEF After
  <2>4. Below(f) \subseteq Below(g)
    BY <2>1 DEF After, TypeOK, Changes, PageAfter
  <2>5. Cardinality(Below(f)) <= Cardinality(Below(g))
    BY <2>3, <2>4, FS_Subset
  <2>6. Cardinality(Below(f)) \in Nat /\ Cardinality(Below(g)) \in Nat
    BY <2>3, FS_CardinalityType
  <2>7. Cardinality(Below(g)) < PageSize
    BY <2>1 DEF PageAfter
  <2>. QED
    BY <2>2, <2>5, <2>6, <2>7, PageSizeAssumption DEF PageAfter
<1>. QED
  BY <1>1, <1>2

LEMMA NextTokenBound ==
    ASSUME TypeOK, \A f \in Files : ver[f] <= head, NEW t \in Changes, NEW n \in NextToken(t)
    PROVE  n <= head
<1>1. head \in Nat /\ head <= head
  BY DEF TypeOK, Changes
<1>2. CASE PageAfter(t) = After(t)
  BY <1>1, <1>2 DEF NextToken
<1>3. CASE PageAfter(t) # After(t)
  BY <1>3 DEF NextToken, PageAfter, After
<1>. QED
  BY <1>2, <1>3

\* What has been passed stays passed.
Grown == \A f \in Files : applied'[f] >= applied[f] /\ dropped'[f] >= dropped[f]


LEMMA HistoryGrows == TypeOK /\ [Next]_vars => Grown
<1>. SUFFICES ASSUME TypeOK, [Next]_vars PROVE Grown
  OBVIOUS
<1>2. Grown
  <2>1. ASSUME NEW f \in Files, Change(f) PROVE Grown
    BY <2>1 DEF Change, upstream, indexes, task, history, bounds, TypeOK, Changes, Grown
  <2>2. CASE Notify
    BY <2>2 DEF Notify, upstream, indexes, task, history, bounds, TypeOK, Changes, Grown
  <2>3. ASSUME NEW w \in Workers, TakeTask(w) PROVE Grown
    BY <2>3 DEF TakeTask, upstream, indexes, task, history, bounds, TypeOK, Changes, Grown
  <2>4. ASSUME NEW w \in Workers, FetchChanges(w) PROVE Grown
    BY <2>4 DEF FetchChanges, upstream, indexes, task, history, bounds, TypeOK, Changes, Grown
  <2>5. ASSUME NEW w \in Workers, EndBatch(w) PROVE Grown
    <3>1. applied' = applied
      BY <2>5 DEF EndBatch
    <3>2. \A f \in Files : dropped'[f] = dropped[f] \/ dropped'[f] = Later(dropped[f], page[w][f])
      BY <2>5 DEF EndBatch, TypeOK
    <3>3. \A f \in Files : applied[f] \in Nat /\ dropped[f] \in Nat /\ page[w][f] \in Nat
      BY DEF TypeOK, Changes
    <3>. QED
      BY <3>1, <3>2, <3>3 DEF Later, Grown
  <2>6. ASSUME NEW w \in Workers, IndexDocs(w) PROVE Grown
    BY <2>6 DEF IndexDocs, Staged, upstream, indexes, task, history, bounds, TypeOK, Changes, Grown
  <2>7. ASSUME NEW w \in Workers, DeleteDocs(w) PROVE Grown
    BY <2>7 DEF DeleteDocs, upstream, indexes, task, history, bounds, TypeOK, Changes, Grown
  <2>8. ASSUME NEW w \in Workers, DeleteCanon(w) PROVE Grown
    BY <2>8 DEF DeleteCanon, Later, upstream, indexes, task, history, bounds, TypeOK, Changes, Grown
  <2>9. ASSUME NEW w \in Workers, StoreCursor(w) PROVE Grown
    BY <2>9 DEF StoreCursor, Leave, upstream, indexes, task, history, bounds, TypeOK, Changes, Grown
  <2>10. ASSUME NEW w \in Workers, Raise(w) PROVE Grown
    BY <2>10 DEF Raise, Leave, Fault, Staged, Todo, upstream, indexes, task, history, bounds, TypeOK, Changes, Grown
  <2>11. ASSUME NEW w \in Workers, Crash(w) PROVE Grown
    BY <2>11 DEF Crash, Leave, upstream, indexes, task, history, bounds, TypeOK, Changes, Grown
  <2>12. ASSUME NEW w \in Workers, NEW f \in Files, Hydrate(w, f) PROVE Grown
    BY <2>12 DEF Hydrate, Fault, upstream, indexes, task, history, bounds, TypeOK, Changes, Grown
  <2>13. ASSUME NEW w \in Workers, NEW f \in Files, BeginReplace(w, f) PROVE Grown
    BY <2>13 DEF BeginReplace, Staged, upstream, indexes, task, history, bounds, TypeOK, Changes, Grown
  <2>14. ASSUME NEW w \in Workers, NEW f \in Files, CommitReplace(w, f) PROVE Grown
    BY <2>14 DEF CommitReplace, Overtake, Later, upstream, indexes, task, history, bounds, TypeOK, Changes, Grown
  <2>15. ASSUME NEW w \in Workers, NEW f \in Files, ItemFails(w, f) PROVE Grown
    BY <2>15 DEF ItemFails, Fault, Staged, upstream, indexes, task, history, bounds, TypeOK, Changes, Grown
  <2>16. ASSUME NEW w \in Workers, NEW f \in Files, IndexChunks(w, f) PROVE Grown
    BY <2>16 DEF IndexChunks, Staged, AfterIndexing, upstream, indexes, task, history, bounds, TypeOK, Changes, Grown
  <2>17. CASE UNCHANGED vars
    BY <2>17 DEF vars, upstream, indexes, task, history, bounds, TypeOK, Changes, Grown
  <2>. QED
    BY <2>1, <2>2, <2>3, <2>4, <2>5, <2>6, <2>7, <2>8, <2>9, <2>10, <2>11, <2>12, <2>13, <2>14, <2>15, <2>16, <2>17 DEF Next, Work
<1>. QED
  BY <1>2


LEMMA CoverInit == Init => CoverInv
BY BoundsAssumption DEF Init, CoverInv, CursorCovered, Ahead, Held, OnPage, InBatch, Handled, Passed, Todo, Changes

LEMMA AheadStep == TypeOK /\ Ahead /\ [Next]_vars => Ahead'
<1>. SUFFICES ASSUME TypeOK /\ Ahead, [Next]_vars PROVE Ahead'
  OBVIOUS
<1>1. TypeOK /\ Ahead
  OBVIOUS
<1>2. Ahead'
  <2>1. ASSUME NEW f \in Files, Change(f) PROVE Ahead'
    BY <2>1, <1>1, BoundsAssumption DEF Change, upstream, indexes, task, history, bounds, TypeOK, Changes, Ahead
  <2>2. CASE Notify
    BY <2>2, <1>1, BoundsAssumption DEF Notify, upstream, indexes, task, history, bounds, TypeOK, Changes, Ahead
  <2>3. ASSUME NEW w \in Workers, TakeTask(w) PROVE Ahead'
    BY <2>3, <1>1, BoundsAssumption DEF TakeTask, upstream, indexes, task, history, bounds, TypeOK, Changes, Ahead
  <2>4. ASSUME NEW w \in Workers, FetchChanges(w) PROVE Ahead'
    <3>1. \A n \in NextToken(token[w]) : n <= head
      BY <1>1, NextTokenBound DEF Ahead, TypeOK
    <3>. QED
      BY <2>4, <1>1, <3>1 DEF FetchChanges, upstream, indexes, history, bounds, TypeOK, Changes, Ahead, NextToken
  <2>5. ASSUME NEW w \in Workers, EndBatch(w) PROVE Ahead'
    BY <2>5, <1>1, BoundsAssumption DEF EndBatch, Staged, Todo, AfterIndexing, Later, upstream, indexes, task, history, bounds, TypeOK, Changes, Ahead
  <2>6. ASSUME NEW w \in Workers, IndexDocs(w) PROVE Ahead'
    BY <2>6, <1>1, BoundsAssumption DEF IndexDocs, Staged, upstream, indexes, task, history, bounds, TypeOK, Changes, Ahead
  <2>7. ASSUME NEW w \in Workers, DeleteDocs(w) PROVE Ahead'
    BY <2>7, <1>1, BoundsAssumption DEF DeleteDocs, upstream, indexes, task, history, bounds, TypeOK, Changes, Ahead
  <2>8. ASSUME NEW w \in Workers, DeleteCanon(w) PROVE Ahead'
    BY <2>8, <1>1, BoundsAssumption DEF DeleteCanon, Later, upstream, indexes, task, history, bounds, TypeOK, Changes, Ahead
  <2>9. ASSUME NEW w \in Workers, StoreCursor(w) PROVE Ahead'
    BY <2>9, <1>1, BoundsAssumption DEF StoreCursor, Leave, upstream, indexes, task, history, bounds, TypeOK, Changes, Ahead
  <2>10. ASSUME NEW w \in Workers, Raise(w) PROVE Ahead'
    BY <2>10, <1>1, BoundsAssumption DEF Raise, Leave, Fault, Staged, Todo, upstream, indexes, task, history, bounds, TypeOK, Changes, Ahead
  <2>11. ASSUME NEW w \in Workers, Crash(w) PROVE Ahead'
    BY <2>11, <1>1, BoundsAssumption DEF Crash, Leave, upstream, indexes, task, history, bounds, TypeOK, Changes, Ahead
  <2>12. ASSUME NEW w \in Workers, NEW f \in Files, Hydrate(w, f) PROVE Ahead'
    BY <2>12, <1>1, BoundsAssumption DEF Hydrate, Fault, upstream, indexes, task, history, bounds, TypeOK, Changes, Ahead
  <2>13. ASSUME NEW w \in Workers, NEW f \in Files, BeginReplace(w, f) PROVE Ahead'
    BY <2>13, <1>1, BoundsAssumption DEF BeginReplace, Staged, upstream, indexes, task, history, bounds, TypeOK, Changes, Ahead
  <2>14. ASSUME NEW w \in Workers, NEW f \in Files, CommitReplace(w, f) PROVE Ahead'
    BY <2>14, <1>1, BoundsAssumption DEF CommitReplace, Overtake, Later, upstream, indexes, task, history, bounds, TypeOK, Changes, Ahead
  <2>15. ASSUME NEW w \in Workers, NEW f \in Files, ItemFails(w, f) PROVE Ahead'
    BY <2>15, <1>1, BoundsAssumption DEF ItemFails, Fault, Staged, upstream, indexes, task, history, bounds, TypeOK, Changes, Ahead
  <2>16. ASSUME NEW w \in Workers, NEW f \in Files, IndexChunks(w, f) PROVE Ahead'
    BY <2>16, <1>1, BoundsAssumption DEF IndexChunks, Staged, AfterIndexing, upstream, indexes, task, history, bounds, TypeOK, Changes, Ahead
  <2>17. CASE UNCHANGED vars
    BY <2>17, <1>1, BoundsAssumption DEF vars, upstream, indexes, task, history, bounds, TypeOK, Changes, Ahead
  <2>. QED
    BY <2>1, <2>2, <2>3, <2>4, <2>5, <2>6, <2>7, <2>8, <2>9, <2>10, <2>11, <2>12, <2>13, <2>14, <2>15, <2>16, <2>17 DEF Next, Work
<1>. QED
  BY <1>2


LEMMA HeldStep == TypeOK /\ CoverInv /\ [Next]_vars => Held'
<1>. SUFFICES ASSUME TypeOK /\ CoverInv, [Next]_vars PROVE Held'
  OBVIOUS
<1>1. /\ TypeOK /\ TypeOK' /\ Grown /\ CoverInv
      /\ CursorCovered /\ Ahead /\ Held /\ OnPage /\ InBatch /\ Handled
  BY TypeStep, HistoryGrows DEF CoverInv
<1>2. Held'
  <2>1. ASSUME NEW f \in Files, Change(f) PROVE Held'
    BY <2>1, <1>1 DEF Change, upstream, indexes, task, history, bounds, TypeOK, Changes, Grown, Passed, Ahead, Held, CursorCovered
  <2>2. CASE Notify
    BY <2>2, <1>1 DEF Notify, upstream, indexes, task, history, bounds, TypeOK, Changes, Grown, Passed, Ahead, Held, CursorCovered
  <2>3. ASSUME NEW w \in Workers, TakeTask(w) PROVE Held'
    BY <2>3, <1>1 DEF TakeTask, upstream, indexes, task, history, bounds, TypeOK, Changes, Grown, Passed, Ahead, Held, CursorCovered
  <2>4. ASSUME NEW w \in Workers, FetchChanges(w) PROVE Held'
    BY <2>4, <1>1 DEF FetchChanges, history, upstream, TypeOK, Held, Passed
  <2>5. ASSUME NEW w \in Workers, EndBatch(w) PROVE Held'
    <3>1. /\ ver' = ver /\ token' = token /\ page' = page
          /\ pc[w] = "batch" /\ pc'[w] # "fetch" /\ \A v \in Workers : v # w => pc'[v] = pc[v]
      BY <2>5, <1>1 DEF EndBatch, AfterIndexing, upstream, task, TypeOK
    <3>2. ASSUME NEW v \in Workers, pc'[v] = "fetch", NEW f \in Files, ver'[f] <= token'[v]
          PROVE  Passed(f, ver[f])'
      <4>1. v # w
        BY <3>1, <3>2
      <4>2. pc[v] = "fetch" /\ ver[f] <= token[v]
        BY <4>1, <3>1, <3>2
      <4>3. Passed(f, ver[f])
        BY <4>2, <1>1 DEF Held
      <4>4. ver[f] \in Nat
        BY <1>1 DEF TypeOK, Changes
      <4>. QED
        BY <4>3, <4>4, <3>1, <1>1 DEF TypeOK, Changes, Grown, Passed
    <3>. QED
      BY <3>2 DEF Held
  <2>6. ASSUME NEW w \in Workers, IndexDocs(w) PROVE Held'
    BY <2>6, <1>1 DEF IndexDocs, Staged, upstream, indexes, task, history, bounds, TypeOK, Changes, Grown, Passed, Ahead, Held, CursorCovered
  <2>7. ASSUME NEW w \in Workers, DeleteDocs(w) PROVE Held'
    BY <2>7, <1>1 DEF DeleteDocs, upstream, indexes, task, history, bounds, TypeOK, Changes, Grown, Passed, Ahead, Held, CursorCovered
  <2>8. ASSUME NEW w \in Workers, DeleteCanon(w) PROVE Held'
    BY <2>8, <1>1 DEF DeleteCanon, Later, upstream, indexes, task, history, bounds, TypeOK, Changes, Grown, Passed, Ahead, Held, CursorCovered
  <2>9. ASSUME NEW w \in Workers, StoreCursor(w) PROVE Held'
    BY <2>9, <1>1 DEF StoreCursor, Leave, upstream, indexes, task, history, bounds, TypeOK, Changes, Grown, Passed, Ahead, Held, CursorCovered
  <2>10. ASSUME NEW w \in Workers, Raise(w) PROVE Held'
    BY <2>10, <1>1 DEF Raise, Leave, Fault, Staged, Todo, upstream, indexes, task, history, bounds, TypeOK, Changes, Grown, Passed, Ahead, Held, CursorCovered
  <2>11. ASSUME NEW w \in Workers, Crash(w) PROVE Held'
    BY <2>11, <1>1 DEF Crash, Leave, upstream, indexes, task, history, bounds, TypeOK, Changes, Grown, Passed, Ahead, Held, CursorCovered
  <2>12. ASSUME NEW w \in Workers, NEW f \in Files, Hydrate(w, f) PROVE Held'
    BY <2>12, <1>1 DEF Hydrate, Fault, upstream, indexes, task, history, bounds, TypeOK, Changes, Grown, Passed, Ahead, Held, CursorCovered
  <2>13. ASSUME NEW w \in Workers, NEW f \in Files, BeginReplace(w, f) PROVE Held'
    BY <2>13, <1>1 DEF BeginReplace, Staged, upstream, indexes, task, history, bounds, TypeOK, Changes, Grown, Passed, Ahead, Held, CursorCovered
  <2>14. ASSUME NEW w \in Workers, NEW f \in Files, CommitReplace(w, f) PROVE Held'
    BY <2>14, <1>1 DEF CommitReplace, Overtake, Later, upstream, indexes, task, history, bounds, TypeOK, Changes, Grown, Passed, Ahead, Held, CursorCovered
  <2>15. ASSUME NEW w \in Workers, NEW f \in Files, ItemFails(w, f) PROVE Held'
    BY <2>15, <1>1 DEF ItemFails, Fault, Staged, upstream, indexes, task, history, bounds, TypeOK, Changes, Grown, Passed, Ahead, Held, CursorCovered
  <2>16. ASSUME NEW w \in Workers, NEW f \in Files, IndexChunks(w, f) PROVE Held'
    BY <2>16, <1>1 DEF IndexChunks, Staged, AfterIndexing, upstream, indexes, task, history, bounds, TypeOK, Changes, Grown, Passed, Ahead, Held, CursorCovered
  <2>17. CASE UNCHANGED vars
    BY <2>17, <1>1 DEF vars, upstream, indexes, task, history, bounds, TypeOK, Changes, Grown, Passed, Ahead, Held, CursorCovered
  <2>. QED
    BY <2>1, <2>2, <2>3, <2>4, <2>5, <2>6, <2>7, <2>8, <2>9, <2>10, <2>11, <2>12, <2>13, <2>14, <2>15, <2>16, <2>17 DEF Next, Work
<1>. QED
  BY <1>2


LEMMA OnPageStep == TypeOK /\ CoverInv /\ [Next]_vars => OnPage'
<1>. SUFFICES ASSUME TypeOK /\ CoverInv, [Next]_vars PROVE OnPage'
  OBVIOUS
<1>1. /\ TypeOK /\ TypeOK' /\ Grown /\ CoverInv
      /\ CursorCovered /\ Ahead /\ Held /\ OnPage /\ InBatch /\ Handled
  BY TypeStep, HistoryGrows DEF CoverInv
<1>2. OnPage'
  <2>1. ASSUME NEW f \in Files, Change(f) PROVE OnPage'
    BY <2>1, <1>1 DEF Change, upstream, indexes, task, history, bounds, TypeOK, Changes, Grown, Passed, Ahead, OnPage
  <2>2. CASE Notify
    BY <2>2, <1>1 DEF Notify, upstream, indexes, task, history, bounds, TypeOK, Changes, Grown, Passed, Ahead, OnPage
  <2>3. ASSUME NEW w \in Workers, TakeTask(w) PROVE OnPage'
    BY <2>3, <1>1 DEF TakeTask, upstream, indexes, task, history, bounds, TypeOK, Changes, Grown, Passed, Ahead, OnPage
  <2>4. ASSUME NEW w \in Workers, FetchChanges(w) PROVE OnPage'
    <3>. SUFFICES ASSUME NEW v \in Workers, pc'[v] \notin {"idle", "fetch"},
                         NEW f \in Files, ver'[f] <= token'[v]
                  PROVE  Passed(f, ver[f])' \/ page'[v][f] = ver'[f]
      BY DEF OnPage
    <3>1. CASE v # w
      BY <3>1, <2>4, <1>1 DEF FetchChanges, upstream, history, OnPage, Passed, TypeOK
    <3>2. CASE v = w
      <4>1. PICK n \in NextToken(token[w]) : token' = [token EXCEPT ![w] = n]
        BY <2>4 DEF FetchChanges
      <4>2. token[w] \in Changes /\ n \in Nat /\ ver[f] \in Nat /\ ver' = ver /\ token'[w] = n
        BY <2>4, <1>1, <4>1 DEF FetchChanges, TypeOK, Changes, upstream, NextToken
      <4>3. CASE ver[f] <= token[w]
        BY <4>3, <3>2, <2>4, <1>1 DEF FetchChanges, upstream, history, Held, Passed, TypeOK
      <4>4. CASE ver[f] > token[w]
        <5>1. f \in PageAfter(token[w])
          BY <4>1, <4>2, <4>4, <3>2, <1>1, PageIsPrefix
        <5>. QED
          BY <5>1, <3>2, <4>2, <2>4, <1>1 DEF FetchChanges, TypeOK
      <4>. QED
        BY <4>2, <4>3, <4>4, <1>1 DEF TypeOK, Changes
    <3>. QED
      BY <3>1, <3>2
  <2>5. ASSUME NEW w \in Workers, EndBatch(w) PROVE OnPage'
    <3>1. /\ ver' = ver /\ token' = token /\ page' = page
          /\ pc[w] = "batch" /\ pc'[w] # "fetch" /\ \A v \in Workers : v # w => pc'[v] = pc[v]
      BY <2>5, <1>1 DEF EndBatch, AfterIndexing, upstream, task, TypeOK
    <3>2. ASSUME NEW v \in Workers, pc'[v] \notin {"idle", "fetch"},
                 NEW f \in Files, ver'[f] <= token'[v]
          PROVE  Passed(f, ver[f])' \/ page'[v][f] = ver'[f]
      <4>1. pc[v] \notin {"idle", "fetch"}
        BY <3>1, <3>2
      <4>2. ver[f] <= token[v]
        BY <3>1, <3>2
      <4>3. Passed(f, ver[f]) \/ page[v][f] = ver[f]
        BY <4>1, <4>2, <1>1 DEF OnPage
      <4>4. ver[f] \in Nat
        BY <1>1 DEF TypeOK, Changes
      <4>. QED
        BY <4>3, <4>4, <3>1, <1>1 DEF TypeOK, Changes, Grown, Passed
    <3>. QED
      BY <3>2 DEF OnPage
  <2>6. ASSUME NEW w \in Workers, IndexDocs(w) PROVE OnPage'
    BY <2>6, <1>1 DEF IndexDocs, Staged, upstream, indexes, task, history, bounds, TypeOK, Changes, Grown, Passed, Ahead, OnPage
  <2>7. ASSUME NEW w \in Workers, DeleteDocs(w) PROVE OnPage'
    BY <2>7, <1>1 DEF DeleteDocs, upstream, indexes, task, history, bounds, TypeOK, Changes, Grown, Passed, Ahead, OnPage
  <2>8. ASSUME NEW w \in Workers, DeleteCanon(w) PROVE OnPage'
    BY <2>8, <1>1 DEF DeleteCanon, Later, upstream, indexes, task, history, bounds, TypeOK, Changes, Grown, Passed, Ahead, OnPage
  <2>9. ASSUME NEW w \in Workers, StoreCursor(w) PROVE OnPage'
    BY <2>9, <1>1 DEF StoreCursor, Leave, upstream, indexes, task, history, bounds, TypeOK, Changes, Grown, Passed, Ahead, OnPage
  <2>10. ASSUME NEW w \in Workers, Raise(w) PROVE OnPage'
    BY <2>10, <1>1 DEF Raise, Leave, Fault, Staged, Todo, upstream, indexes, task, history, bounds, TypeOK, Changes, Grown, Passed, Ahead, OnPage
  <2>11. ASSUME NEW w \in Workers, Crash(w) PROVE OnPage'
    BY <2>11, <1>1 DEF Crash, Leave, upstream, indexes, task, history, bounds, TypeOK, Changes, Grown, Passed, Ahead, OnPage
  <2>12. ASSUME NEW w \in Workers, NEW f \in Files, Hydrate(w, f) PROVE OnPage'
    BY <2>12, <1>1 DEF Hydrate, Fault, upstream, indexes, task, history, bounds, TypeOK, Changes, Grown, Passed, Ahead, OnPage
  <2>13. ASSUME NEW w \in Workers, NEW f \in Files, BeginReplace(w, f) PROVE OnPage'
    BY <2>13, <1>1 DEF BeginReplace, Staged, upstream, indexes, task, history, bounds, TypeOK, Changes, Grown, Passed, Ahead, OnPage
  <2>14. ASSUME NEW w \in Workers, NEW f \in Files, CommitReplace(w, f) PROVE OnPage'
    BY <2>14, <1>1 DEF CommitReplace, Overtake, Later, upstream, indexes, task, history, bounds, TypeOK, Changes, Grown, Passed, Ahead, OnPage
  <2>15. ASSUME NEW w \in Workers, NEW f \in Files, ItemFails(w, f) PROVE OnPage'
    BY <2>15, <1>1 DEF ItemFails, Fault, Staged, upstream, indexes, task, history, bounds, TypeOK, Changes, Grown, Passed, Ahead, OnPage
  <2>16. ASSUME NEW w \in Workers, NEW f \in Files, IndexChunks(w, f) PROVE OnPage'
    BY <2>16, <1>1 DEF IndexChunks, Staged, AfterIndexing, upstream, indexes, task, history, bounds, TypeOK, Changes, Grown, Passed, Ahead, OnPage
  <2>17. CASE UNCHANGED vars
    BY <2>17, <1>1 DEF vars, upstream, indexes, task, history, bounds, TypeOK, Changes, Grown, Passed, Ahead, OnPage
  <2>. QED
    BY <2>1, <2>2, <2>3, <2>4, <2>5, <2>6, <2>7, <2>8, <2>9, <2>10, <2>11, <2>12, <2>13, <2>14, <2>15, <2>16, <2>17 DEF Next, Work
<1>. QED
  BY <1>2


LEMMA InBatchStep == TypeOK /\ CoverInv /\ [Next]_vars => InBatch'
<1>. SUFFICES ASSUME TypeOK /\ CoverInv, [Next]_vars PROVE InBatch'
  OBVIOUS
<1>1. /\ TypeOK /\ TypeOK' /\ Grown /\ CoverInv
      /\ CursorCovered /\ Ahead /\ Held /\ OnPage /\ InBatch /\ Handled
  BY TypeStep, HistoryGrows DEF CoverInv
<1>2. InBatch'
  <2>1. ASSUME NEW f \in Files, Change(f) PROVE InBatch'
    BY <2>1, <1>1 DEF Change, upstream, indexes, task, history, bounds, TypeOK, Changes, Stages, Grown, InBatch, Todo
  <2>2. CASE Notify
    BY <2>2, <1>1 DEF Notify, upstream, indexes, task, history, bounds, TypeOK, Changes, Stages, Grown, InBatch, Todo
  <2>3. ASSUME NEW w \in Workers, TakeTask(w) PROVE InBatch'
    BY <2>3, <1>1 DEF TakeTask, upstream, indexes, task, history, bounds, TypeOK, Changes, Stages, Grown, InBatch, Todo
  <2>4. ASSUME NEW w \in Workers, FetchChanges(w) PROVE InBatch'
    <3>. SUFFICES ASSUME NEW v \in Workers, NEW f \in Files
                  PROVE  /\ stage'[v][f] # "out" => f \in Todo(v)'
                         /\ pc'[v] = "batch" /\ f \in Todo(v)' => stage'[v][f] # "out"
                         /\ stage'[v][f] = "done" => applied'[f] >= page'[v][f]
      BY DEF InBatch
    <3>1. CASE v # w
      BY <3>1, <2>4, <1>1 DEF FetchChanges, history, TypeOK, InBatch, Todo
    <3>2. CASE v = w
      <4>1. /\ page'[w][f] = IF f \in PageAfter(token[w]) THEN ver[f] ELSE 0
            /\ gone'[w] = {x \in PageAfter(token[w]) : ~live[x]}
            /\ stage'[w][f] = IF f \in PageAfter(token[w]) /\ live[f] THEN "listed" ELSE "out"
        BY <2>4, <1>1 DEF FetchChanges, TypeOK
      <4>2. f \in PageAfter(token[w]) => ver[f] # 0
        BY <1>1 DEF PageAfter, After, TypeOK, Changes
      <4>. QED
        BY <3>2, <4>1, <4>2 DEF Todo
    <3>. QED
      BY <3>1, <3>2
  <2>5. ASSUME NEW w \in Workers, EndBatch(w) PROVE InBatch'
    BY <2>5, <1>1 DEF EndBatch, upstream, indexes, task, history, bounds, TypeOK, Changes, Stages, Grown, InBatch, Todo
  <2>6. ASSUME NEW w \in Workers, IndexDocs(w) PROVE InBatch'
    BY <2>6, <1>1 DEF IndexDocs, Staged, upstream, indexes, task, history, bounds, TypeOK, Changes, Stages, Grown, InBatch, Todo
  <2>7. ASSUME NEW w \in Workers, DeleteDocs(w) PROVE InBatch'
    BY <2>7, <1>1 DEF DeleteDocs, upstream, indexes, task, history, bounds, TypeOK, Changes, Stages, Grown, InBatch, Todo
  <2>8. ASSUME NEW w \in Workers, DeleteCanon(w) PROVE InBatch'
    BY <2>8, <1>1 DEF DeleteCanon, Later, upstream, indexes, task, history, bounds, TypeOK, Changes, Stages, Grown, InBatch, Todo
  <2>9. ASSUME NEW w \in Workers, StoreCursor(w) PROVE InBatch'
    BY <2>9, <1>1 DEF StoreCursor, Leave, upstream, indexes, task, history, bounds, TypeOK, Changes, Stages, Grown, InBatch, Todo
  <2>10. ASSUME NEW w \in Workers, Raise(w) PROVE InBatch'
    BY <2>10, <1>1 DEF Raise, Leave, Fault, upstream, indexes, task, history, bounds, TypeOK, Changes, Stages, Grown, InBatch, Todo
  <2>11. ASSUME NEW w \in Workers, Crash(w) PROVE InBatch'
    BY <2>11, <1>1 DEF Crash, Leave, upstream, indexes, task, history, bounds, TypeOK, Changes, Stages, Grown, InBatch, Todo
  <2>12. ASSUME NEW w \in Workers, NEW f \in Files, Hydrate(w, f) PROVE InBatch'
    BY <2>12, <1>1 DEF Hydrate, Fault, upstream, indexes, task, history, bounds, TypeOK, Changes, Stages, Grown, InBatch, Todo
  <2>13. ASSUME NEW w \in Workers, NEW f \in Files, BeginReplace(w, f) PROVE InBatch'
    BY <2>13, <1>1 DEF BeginReplace, Staged, upstream, indexes, task, history, bounds, TypeOK, Changes, Stages, Grown, InBatch, Todo
  <2>14. ASSUME NEW w \in Workers, NEW f \in Files, CommitReplace(w, f) PROVE InBatch'
    BY <2>14, <1>1 DEF CommitReplace, Overtake, Later, upstream, indexes, task, history, bounds, TypeOK, Changes, Stages, Grown, InBatch, Todo
  <2>15. ASSUME NEW w \in Workers, NEW f \in Files, ItemFails(w, f) PROVE InBatch'
    BY <2>15, <1>1 DEF ItemFails, Fault, Staged, upstream, indexes, task, history, bounds, TypeOK, Changes, Stages, Grown, InBatch, Todo
  <2>16. ASSUME NEW w \in Workers, NEW f \in Files, IndexChunks(w, f) PROVE InBatch'
    BY <2>16, <1>1 DEF IndexChunks, Staged, AfterIndexing, upstream, indexes, task, history, bounds, TypeOK, Changes, Stages, Grown, InBatch, Todo
  <2>17. CASE UNCHANGED vars
    BY <2>17, <1>1 DEF vars, upstream, indexes, task, history, bounds, TypeOK, Changes, Stages, Grown, InBatch, Todo
  <2>. QED
    BY <2>1, <2>2, <2>3, <2>4, <2>5, <2>6, <2>7, <2>8, <2>9, <2>10, <2>11, <2>12, <2>13, <2>14, <2>15, <2>16, <2>17 DEF Next, Work
<1>. QED
  BY <1>2


LEMMA HandledStep == TypeOK /\ CoverInv /\ [Next]_vars => Handled'
<1>. SUFFICES ASSUME TypeOK /\ CoverInv, [Next]_vars PROVE Handled'
  OBVIOUS
<1>1. /\ TypeOK /\ TypeOK' /\ Grown /\ CoverInv
      /\ CursorCovered /\ Ahead /\ Held /\ OnPage /\ InBatch /\ Handled
  BY TypeStep, HistoryGrows DEF CoverInv
<1>2. Handled'
  <2>1. ASSUME NEW f \in Files, Change(f) PROVE Handled'
    BY <2>1, <1>1 DEF Change, upstream, indexes, task, history, bounds, TypeOK, Changes, Grown, Passed, Handled, InBatch, Todo
  <2>2. CASE Notify
    BY <2>2, <1>1 DEF Notify, upstream, indexes, task, history, bounds, TypeOK, Changes, Grown, Passed, Handled, InBatch, Todo
  <2>3. ASSUME NEW w \in Workers, TakeTask(w) PROVE Handled'
    BY <2>3, <1>1 DEF TakeTask, upstream, indexes, task, history, bounds, TypeOK, Changes, Grown, Passed, Handled, InBatch, Todo
  <2>4. ASSUME NEW w \in Workers, FetchChanges(w) PROVE Handled'
    BY <2>4, <1>1 DEF FetchChanges, upstream, indexes, task, history, bounds, TypeOK, Changes, Grown, Passed, Handled, InBatch, Todo
  <2>5. ASSUME NEW w \in Workers, EndBatch(w) PROVE Handled'
    BY <2>5, <1>1 DEF EndBatch, Staged, AfterIndexing, Later, upstream, indexes, task, history, bounds, TypeOK, Changes, Grown, Passed, Handled, InBatch, Todo
  <2>6. ASSUME NEW w \in Workers, IndexDocs(w) PROVE Handled'
    BY <2>6, <1>1 DEF IndexDocs, Staged, upstream, indexes, task, history, bounds, TypeOK, Changes, Grown, Passed, Handled, InBatch, Todo
  <2>7. ASSUME NEW w \in Workers, DeleteDocs(w) PROVE Handled'
    BY <2>7, <1>1 DEF DeleteDocs, upstream, indexes, task, history, bounds, TypeOK, Changes, Grown, Passed, Handled, InBatch, Todo
  <2>8. ASSUME NEW w \in Workers, DeleteCanon(w) PROVE Handled'
    BY <2>8, <1>1 DEF DeleteCanon, Later, upstream, indexes, task, history, bounds, TypeOK, Changes, Grown, Passed, Handled, InBatch, Todo
  <2>9. ASSUME NEW w \in Workers, StoreCursor(w) PROVE Handled'
    BY <2>9, <1>1 DEF StoreCursor, Leave, upstream, indexes, task, history, bounds, TypeOK, Changes, Grown, Passed, Handled, InBatch, Todo
  <2>10. ASSUME NEW w \in Workers, Raise(w) PROVE Handled'
    BY <2>10, <1>1 DEF Raise, Leave, Fault, upstream, indexes, task, history, bounds, TypeOK, Changes, Grown, Passed, Handled, InBatch, Todo
  <2>11. ASSUME NEW w \in Workers, Crash(w) PROVE Handled'
    BY <2>11, <1>1 DEF Crash, Leave, upstream, indexes, task, history, bounds, TypeOK, Changes, Grown, Passed, Handled, InBatch, Todo
  <2>12. ASSUME NEW w \in Workers, NEW f \in Files, Hydrate(w, f) PROVE Handled'
    BY <2>12, <1>1 DEF Hydrate, Fault, upstream, indexes, task, history, bounds, TypeOK, Changes, Grown, Passed, Handled, InBatch, Todo
  <2>13. ASSUME NEW w \in Workers, NEW f \in Files, BeginReplace(w, f) PROVE Handled'
    BY <2>13, <1>1 DEF BeginReplace, Staged, upstream, indexes, task, history, bounds, TypeOK, Changes, Grown, Passed, Handled, InBatch, Todo
  <2>14. ASSUME NEW w \in Workers, NEW f \in Files, CommitReplace(w, f) PROVE Handled'
    BY <2>14, <1>1 DEF CommitReplace, Overtake, Later, upstream, indexes, task, history, bounds, TypeOK, Changes, Grown, Passed, Handled, InBatch, Todo
  <2>15. ASSUME NEW w \in Workers, NEW f \in Files, ItemFails(w, f) PROVE Handled'
    BY <2>15, <1>1 DEF ItemFails, Fault, Staged, upstream, indexes, task, history, bounds, TypeOK, Changes, Grown, Passed, Handled, InBatch, Todo
  <2>16. ASSUME NEW w \in Workers, NEW f \in Files, IndexChunks(w, f) PROVE Handled'
    BY <2>16, <1>1 DEF IndexChunks, Staged, AfterIndexing, upstream, indexes, task, history, bounds, TypeOK, Changes, Grown, Passed, Handled, InBatch, Todo
  <2>17. CASE UNCHANGED vars
    BY <2>17, <1>1 DEF vars, upstream, indexes, task, history, bounds, TypeOK, Changes, Grown, Passed, Handled, InBatch, Todo
  <2>. QED
    BY <2>1, <2>2, <2>3, <2>4, <2>5, <2>6, <2>7, <2>8, <2>9, <2>10, <2>11, <2>12, <2>13, <2>14, <2>15, <2>16, <2>17 DEF Next, Work
<1>. QED
  BY <1>2


LEMMA CursorStep == TypeOK /\ CoverInv /\ [Next]_vars => CursorCovered'
<1>. SUFFICES ASSUME TypeOK /\ CoverInv, [Next]_vars PROVE CursorCovered'
  OBVIOUS
<1>1. /\ TypeOK /\ TypeOK' /\ Grown /\ CoverInv
      /\ CursorCovered /\ Ahead /\ Held /\ OnPage /\ InBatch /\ Handled
  BY TypeStep, HistoryGrows DEF CoverInv
<1>2. CursorCovered'
  <2>1. ASSUME NEW f \in Files, Change(f) PROVE CursorCovered'
    BY <2>1, <1>1 DEF Change, upstream, indexes, task, history, bounds, TypeOK, Changes, Grown, Passed, Ahead, CursorCovered, OnPage, Handled
  <2>2. CASE Notify
    BY <2>2, <1>1 DEF Notify, upstream, indexes, task, history, bounds, TypeOK, Changes, Grown, Passed, Ahead, CursorCovered, OnPage, Handled
  <2>3. ASSUME NEW w \in Workers, TakeTask(w) PROVE CursorCovered'
    BY <2>3, <1>1 DEF TakeTask, upstream, indexes, task, history, bounds, TypeOK, Changes, Grown, Passed, Ahead, CursorCovered, OnPage, Handled
  <2>4. ASSUME NEW w \in Workers, FetchChanges(w) PROVE CursorCovered'
    BY <2>4, <1>1 DEF FetchChanges, upstream, indexes, task, history, bounds, TypeOK, Changes, Grown, Passed, Ahead, CursorCovered, OnPage, Handled
  <2>5. ASSUME NEW w \in Workers, EndBatch(w) PROVE CursorCovered'
    BY <2>5, <1>1 DEF EndBatch, Staged, Todo, AfterIndexing, Later, upstream, indexes, task, history, bounds, TypeOK, Changes, Grown, Passed, Ahead, CursorCovered, OnPage, Handled
  <2>6. ASSUME NEW w \in Workers, IndexDocs(w) PROVE CursorCovered'
    BY <2>6, <1>1 DEF IndexDocs, Staged, upstream, indexes, task, history, bounds, TypeOK, Changes, Grown, Passed, Ahead, CursorCovered, OnPage, Handled
  <2>7. ASSUME NEW w \in Workers, DeleteDocs(w) PROVE CursorCovered'
    BY <2>7, <1>1 DEF DeleteDocs, upstream, indexes, task, history, bounds, TypeOK, Changes, Grown, Passed, Ahead, CursorCovered, OnPage, Handled
  <2>8. ASSUME NEW w \in Workers, DeleteCanon(w) PROVE CursorCovered'
    BY <2>8, <1>1 DEF DeleteCanon, Later, upstream, indexes, task, history, bounds, TypeOK, Changes, Grown, Passed, Ahead, CursorCovered, OnPage, Handled
  <2>9. ASSUME NEW w \in Workers, StoreCursor(w) PROVE CursorCovered'
    <3>. SUFFICES ASSUME NEW f \in Files, ver'[f] <= cursor' PROVE Passed(f, ver[f])'
      BY DEF CursorCovered, Passed
    <3>1. ver' = ver /\ cursor' = token[w] /\ pc[w] = "cursor"
      BY <2>9 DEF StoreCursor, upstream
    <3>2. Passed(f, ver[f]) \/ page[w][f] = ver[f]
      BY <3>1, <1>1 DEF OnPage
    <3>3. page[w][f] # 0 => Passed(f, page[w][f])
      BY <3>1, <1>1 DEF Handled
    <3>4. Passed(f, 0)
      BY <1>1 DEF Passed, TypeOK, Changes
    <3>5. Passed(f, ver[f])
      BY <3>2, <3>3, <3>4
    <3>. QED
      BY <3>1, <3>5, <2>9 DEF StoreCursor, history, Passed
  <2>10. ASSUME NEW w \in Workers, Raise(w) PROVE CursorCovered'
    BY <2>10, <1>1 DEF Raise, Leave, Fault, Staged, Todo, upstream, indexes, task, history, bounds, TypeOK, Changes, Grown, Passed, Ahead, CursorCovered, OnPage, Handled
  <2>11. ASSUME NEW w \in Workers, Crash(w) PROVE CursorCovered'
    BY <2>11, <1>1 DEF Crash, Leave, upstream, indexes, task, history, bounds, TypeOK, Changes, Grown, Passed, Ahead, CursorCovered, OnPage, Handled
  <2>12. ASSUME NEW w \in Workers, NEW f \in Files, Hydrate(w, f) PROVE CursorCovered'
    BY <2>12, <1>1 DEF Hydrate, Fault, upstream, indexes, task, history, bounds, TypeOK, Changes, Grown, Passed, Ahead, CursorCovered, OnPage, Handled
  <2>13. ASSUME NEW w \in Workers, NEW f \in Files, BeginReplace(w, f) PROVE CursorCovered'
    BY <2>13, <1>1 DEF BeginReplace, Staged, upstream, indexes, task, history, bounds, TypeOK, Changes, Grown, Passed, Ahead, CursorCovered, OnPage, Handled
  <2>14. ASSUME NEW w \in Workers, NEW f \in Files, CommitReplace(w, f) PROVE CursorCovered'
    BY <2>14, <1>1 DEF CommitReplace, Overtake, Later, upstream, indexes, task, history, bounds, TypeOK, Changes, Grown, Passed, Ahead, CursorCovered, OnPage, Handled
  <2>15. ASSUME NEW w \in Workers, NEW f \in Files, ItemFails(w, f) PROVE CursorCovered'
    BY <2>15, <1>1 DEF ItemFails, Fault, Staged, upstream, indexes, task, history, bounds, TypeOK, Changes, Grown, Passed, Ahead, CursorCovered, OnPage, Handled
  <2>16. ASSUME NEW w \in Workers, NEW f \in Files, IndexChunks(w, f) PROVE CursorCovered'
    BY <2>16, <1>1 DEF IndexChunks, Staged, AfterIndexing, upstream, indexes, task, history, bounds, TypeOK, Changes, Grown, Passed, Ahead, CursorCovered, OnPage, Handled
  <2>17. CASE UNCHANGED vars
    BY <2>17, <1>1 DEF vars, upstream, indexes, task, history, bounds, TypeOK, Changes, Grown, Passed, Ahead, CursorCovered, OnPage, Handled
  <2>. QED
    BY <2>1, <2>2, <2>3, <2>4, <2>5, <2>6, <2>7, <2>8, <2>9, <2>10, <2>11, <2>12, <2>13, <2>14, <2>15, <2>16, <2>17 DEF Next, Work
<1>. QED
  BY <1>2


LEMMA CoverStep == TypeOK /\ CoverInv /\ [Next]_vars => CoverInv'
BY AheadStep, HeldStep, OnPageStep, InBatchStep, HandledStep, CursorStep DEF CoverInv

\* A change behind the stored token has been persisted, or is one whose file
\* the pipeline dropped, for any number of overlapping, failing, repeated
\* tasks and any page size: process_drive_notification stores only the token
\* of a page it has handled.
THEOREM TokenCoversChanges == Spec => []CursorCovered
<1>1. Init => TypeOK /\ CoverInv
  BY TypeInit, CoverInit
<1>2. (TypeOK /\ CoverInv) /\ [Next]_vars => (TypeOK /\ CoverInv)'
  BY TypeStep, CoverStep
<1>3. CoverInv => CursorCovered
  BY DEF CoverInv
<1>. QED
  BY <1>1, <1>2, <1>3, PTL DEF Spec

-----------------------------------------------------------------------------
(* What the indexes hold once every change has been processed, with one     *)
(* worker.  The indexes are right for the files the stored token has        *)
(* passed; those on the page in hand come after it.                         *)

OneWorker == \A u, v \in Workers : u = v

Current(f) == acl[f] \subseteq Visible(f) /\ doc[f] = acl[f] /\ (live[f] => chunks[f] = acl[f])

Fresh == \A f \in Files : ver[f] <= cursor /\ ~Dropped(f) => Current(f)

Recorded == \A f \in Files : dropped[f] <= ver[f]

\* The page in hand has the files whose latest change lies between the stored
\* token and the next one, unless they changed again.
Paged == \A w \in Workers :
    /\ pc[w] = "fetch" => token[w] = cursor
    /\ \A f \in Files :
        /\ page[w][f] # 0 => /\ pc[w] \notin {"idle", "fetch"}
                             /\ cursor < page[w][f] /\ page[w][f] <= ver[f]
        /\ pc[w] \notin {"idle", "fetch"} /\ cursor < ver[f] /\ ver[f] <= token[w]
              => page[w][f] = ver[f]
        /\ f \in gone[w] => page[w][f] # 0
        /\ page[w][f] = 0 => perms[w][f] = {}

\* The file has not changed since the page was fetched.
Still(w, f) == page[w][f] # 0 /\ page[w][f] = ver[f]

Seen == \A w \in Workers : \A f \in Files : Still(w, f) =>
            /\ f \in gone[w] <=> ~live[f]
            /\ perms[w][f] \subseteq {ver[f]}

\* How far a file of the page is, and what the indexes hold of it by then.
Piped == \A w \in Workers : \A f \in Files :
    /\ stage[w][f] \in {"listed", "read", "replacing"} => pc[w] = "batch"
    /\ stage[w][f] = "replacing" => old[w][f] = acl[f]
    /\ stage[w][f] = "done" => /\ pc[w] \in {"batch", "docs", "chunks"}
                               /\ acl[f] = perms[w][f]
                               /\ pc[w] = "chunks" => doc[f] = perms[w][f]
    /\ stage[w][f] = "failed" /\ pc[w] # "batch" => dropped[f] >= page[w][f]
    /\ stage[w][f] = "out" /\ f \in Todo(w) =>
          /\ pc[w] \in {"chunks", "delete", "canon", "cursor"}
          /\ acl[f] = perms[w][f] /\ doc[f] = perms[w][f] /\ chunks[f] = perms[w][f]

Removed == \A w \in Workers : \A f \in gone[w] :
    /\ pc[w] \in {"canon", "cursor"} => doc[f] = {}
    /\ pc[w] = "cursor" => acl[f] = {}

SettleInv == Fresh /\ Recorded /\ Paged /\ Seen /\ Piped /\ Removed

\* The initial state is settled and nothing is in hand.
LEMMA SettleInit == Init => SettleInv
BY DEF Init, SettleInv, Fresh, Current, Visible, Recorded, Paged, Still, Seen, Piped, Todo, Removed

LEMMA ChangeSettles ==
  ASSUME TypeOK, TypeOK', Ahead, SettleInv, NEW f \in Files, Change(f)
  PROVE  SettleInv'
<1>1. /\ head \in Nat /\ head' = head + 1 /\ ver'[f] = head + 1
      /\ \A g \in Files : ver[g] \in Nat /\ ver[g] <= head
      /\ \A g \in Files \ {f} : ver'[g] = ver[g] /\ live'[g] = live[g]
      /\ cursor \in Nat /\ cursor <= head
      /\ \A w \in Workers : token[w] \in Nat /\ token[w] <= head
      /\ \A w \in Workers, g \in Files : page[w][g] \in Nat
      /\ \A g \in Files : dropped[g] \in Nat
  BY DEF Change, TypeOK, Changes, Ahead
<1>2. UNCHANGED <<cursor, acl, doc, chunks, pc, page, gone, token, perms, stage, old, dropped>>
  BY DEF Change, indexes, task, history
<1>3. Fresh'
  BY <1>1, <1>2 DEF SettleInv, Fresh, Current, Visible, Dropped
<1>4. Recorded'
  BY <1>1, <1>2 DEF SettleInv, Recorded
<1>5. Paged'
  BY <1>1, <1>2 DEF SettleInv, Paged
<1>6. Seen'
  BY <1>1, <1>2 DEF SettleInv, Seen, Still, Paged
<1>7. Piped' /\ Removed'
  BY <1>1, <1>2 DEF SettleInv, Piped, Removed, Todo
<1>. QED
  BY <1>3, <1>4, <1>5, <1>6, <1>7 DEF SettleInv

LEMMA LeaveSettles ==
  ASSUME TypeOK, SettleInv, NEW w \in Workers, OneWorker, Leave(w),
         UNCHANGED <<upstream, cursor, indexes, history>>
  PROVE  SettleInv'
<1>1. /\ Workers = {w} /\ pc'[w] = "idle" /\ gone'[w] = {}
      /\ \A f \in Files : page'[w][f] = 0 /\ stage'[w][f] = "out" /\ perms'[w][f] = {}
  BY DEF Leave, TypeOK, OneWorker
<1>. QED
  BY <1>1 DEF SettleInv, Fresh, Current, Visible, Dropped, Recorded, Paged, Seen, Still, Piped, Todo,
     Removed, upstream, indexes, history

LEMMA StoreSettles ==
  ASSUME TypeOK, InBatch, SettleInv, NEW w \in Workers, OneWorker, StoreCursor(w)
  PROVE  SettleInv'
<1>1. /\ Workers = {w} /\ pc'[w] = "idle" /\ gone'[w] = {}
      /\ \A f \in Files : page'[w][f] = 0 /\ stage'[w][f] = "out" /\ perms'[w][f] = {}
  BY DEF StoreCursor, Leave, TypeOK, OneWorker
<1>2. /\ pc[w] = "cursor" /\ cursor' = token[w]
      /\ UNCHANGED <<ver, live, acl, doc, chunks, dropped>>
  BY DEF StoreCursor, upstream, indexes, history
<1>3. ASSUME NEW f \in Files, ver[f] <= token[w], ~Dropped(f)
      PROVE  Current(f)
  <2>1. CASE ver[f] <= cursor
    BY <1>3, <2>1 DEF SettleInv, Fresh
  <2>2. CASE cursor < ver[f]
    <3>1. Still(w, f) /\ ver[f] \in Nat /\ dropped[f] \in Nat
      BY <1>2, <1>3, <2>2 DEF SettleInv, Paged, Still, TypeOK, Changes
    <3>2. /\ f \in gone[w] <=> ~live[f]
          /\ perms[w][f] \subseteq {ver[f]}
      BY <3>1 DEF SettleInv, Seen
    <3>3. CASE f \in gone[w]
      BY <1>2, <3>2, <3>3 DEF SettleInv, Removed, Current
    <3>4. CASE f \notin gone[w]
      <4>1. f \in Todo(w)
        BY <3>1, <3>4 DEF Todo, Still
      <4>2. stage[w][f] # "failed"
        BY <1>2, <1>3, <3>1 DEF SettleInv, Piped, Recorded, Dropped, Still
      <4>3. stage[w][f] = "out"
        <5>1. stage[w][f] \in Stages
          BY DEF TypeOK
        <5>. QED
          BY <1>2, <4>2, <5>1 DEF SettleInv, Piped, Stages
      <4>. QED
        BY <3>2, <3>4, <4>1, <4>3 DEF SettleInv, Piped, Current, Visible
    <3>. QED
      BY <3>3, <3>4
  <2>. QED
    BY <2>1, <2>2 DEF TypeOK, Changes
<1>4. Fresh'
  BY <1>2, <1>3 DEF Fresh, Current, Visible, Dropped
<1>. QED
  BY <1>1, <1>2, <1>4 DEF SettleInv, Recorded, Paged, Seen, Still, Piped, Todo, Removed

LEMMA TakeSettles ==
  ASSUME TypeOK, SettleInv, NEW w \in Workers, OneWorker, TakeTask(w)
  PROVE  SettleInv'
<1>1. /\ Workers = {w} /\ pc[w] = "idle" /\ pc'[w] = "fetch" /\ token'[w] = cursor
      /\ UNCHANGED <<ver, live, cursor, acl, doc, chunks, dropped, page, gone, perms, stage, old>>
  BY DEF TakeTask, TypeOK, OneWorker, upstream, indexes, history
<1>2. Fresh' /\ Recorded' /\ Seen'
  BY <1>1 DEF SettleInv, Fresh, Current, Visible, Dropped, Recorded, Seen, Still
<1>3. \A f \in Files : page[w][f] = 0
  BY <1>1 DEF SettleInv, Paged
<1>. QED
  BY <1>1, <1>2, <1>3 DEF SettleInv, Paged, Piped, Todo, Removed

LEMMA FetchSettles ==
  ASSUME TypeOK, TypeOK', Ahead, SettleInv, InBatch, NEW w \in Workers, OneWorker, FetchChanges(w)
  PROVE  SettleInv'
<1> DEFINE P == PageAfter(cursor)
<1>1. /\ Workers = {w} /\ pc[w] = "fetch" /\ pc'[w] = "batch"
      /\ UNCHANGED <<ver, live, cursor, acl, doc, chunks, dropped, perms, old>>
  BY DEF FetchChanges, TypeOK, OneWorker, upstream, indexes, history
<1>2. token[w] = cursor /\ \A f \in Files : page[w][f] = 0 /\ stage[w][f] = "out"
  BY <1>1 DEF SettleInv, Paged, InBatch, Todo
<1>3. \A f \in Files :
         /\ page'[w][f] = IF f \in P THEN ver[f] ELSE 0
         /\ f \in gone'[w] <=> f \in P /\ ~live[f]
         /\ stage'[w][f] = IF f \in P /\ live[f] THEN "listed" ELSE "out"
  BY <1>2 DEF FetchChanges, TypeOK
<1>4. gone'[w] \subseteq P /\ P \subseteq Files /\ \A f \in P : cursor < ver[f]
  BY <1>2 DEF FetchChanges, TypeOK, PageAfter, After, Changes
<1>5. \A f \in Files : cursor < ver[f] /\ ver[f] <= token'[w] => f \in P
  <2>1. PICK n \in NextToken(cursor) : token'[w] = n
    BY <1>2 DEF FetchChanges, TypeOK
  <2>. QED
    BY <2>1, PageIsPrefix DEF TypeOK
<1>6. Fresh' /\ Recorded'
  BY <1>1 DEF SettleInv, Fresh, Current, Visible, Dropped, Recorded
<1>7. Paged'
  BY <1>1, <1>2, <1>3, <1>4, <1>5 DEF SettleInv, Paged, TypeOK, Changes
<1>8. \A f \in Files : perms[w][f] = {}
  BY <1>2 DEF SettleInv, Paged
<1>9. Seen'
  BY <1>1, <1>3, <1>8 DEF Seen, Still
<1>10. Piped' /\ Removed'
  BY <1>1, <1>3, <1>4 DEF Piped, Todo, Removed
<1>. QED
  BY <1>6, <1>7, <1>9, <1>10 DEF SettleInv

\* The steps of the batch: each moves one file of the page by one stage.
LEMMA BatchSettles ==
  ASSUME TypeOK, TypeOK', InBatch, SettleInv, NEW w \in Workers, OneWorker, NEW f \in Files,
         Hydrate(w, f) \/ BeginReplace(w, f) \/ CommitReplace(w, f) \/ ItemFails(w, f)
  PROVE  SettleInv'
<1>1. /\ Workers = {w} /\ f \in Todo(w) /\ pc[w] = "batch" /\ page[w][f] # 0
      /\ stage[w][f] \in {"listed", "read", "replacing"}
  BY DEF OneWorker, Hydrate, BeginReplace, CommitReplace, ItemFails, InBatch, SettleInv, Piped, Todo
<1>2. /\ UNCHANGED <<ver, live, cursor, doc, chunks, dropped, pc, page, gone, token>>
      /\ \A g \in Files \ {f} :
            /\ stage'[w][g] = stage[w][g] /\ perms'[w][g] = perms[w][g]
            /\ acl'[g] = acl[g] /\ old'[w][g] = old[w][g]
  BY <1>1 DEF Hydrate, BeginReplace, CommitReplace, ItemFails, Overtake, TypeOK, upstream, indexes, history
<1>3. /\ perms'[w][f] \in {perms[w][f], {}, {ver[f]}}
      /\ stage'[w][f] \in {"read", "replacing", "done", "failed"}
      /\ stage'[w][f] = "replacing" => old'[w][f] = acl'[f]
      /\ stage'[w][f] = "done" => acl'[f] = perms'[w][f]
  <2>1. CASE Hydrate(w, f)
    BY <2>1 DEF Hydrate, TypeOK
  <2>2. CASE BeginReplace(w, f)
    BY <2>2 DEF BeginReplace, TypeOK, indexes
  <2>3. CASE CommitReplace(w, f)
    <3>1. old[w][f] = acl[f]
      BY <2>3 DEF CommitReplace, SettleInv, Piped
    <3>. QED
      BY <2>3, <3>1 DEF CommitReplace, TypeOK
  <2>4. CASE ItemFails(w, f)
    BY <2>4 DEF ItemFails, TypeOK
  <2>. QED
    BY <2>1, <2>2, <2>3, <2>4
<1>4. cursor < ver[f]
  BY <1>1 DEF SettleInv, Paged, TypeOK, Changes
<1>5. Fresh' /\ Recorded'
  <2>1. \A g \in Files : ver[g] <= cursor => g # f
    BY <1>4 DEF TypeOK, Changes
  <2>. QED
    BY <1>2, <2>1 DEF SettleInv, Fresh, Current, Visible, Dropped, Recorded
<1>6. Paged'
  BY <1>1, <1>2 DEF SettleInv, Paged
<1>7. Seen'
  BY <1>1, <1>2, <1>3 DEF SettleInv, Seen, Still
<1>8. Piped'
  <2>1. SUFFICES ASSUME NEW g \in Files
                 PROVE  /\ stage'[w][g] = "replacing" => old'[w][g] = acl'[g]
                        /\ stage'[w][g] = "done" => acl'[g] = perms'[w][g]
                        /\ stage'[w][g] # "out" \/ g \notin Todo(w)
    BY <1>1, <1>2 DEF Piped, Todo
  <2>2. CASE g = f
    BY <1>3, <2>2
  <2>3. CASE g # f
    BY <1>1, <1>2, <2>3 DEF SettleInv, Piped
  <2>. QED
    BY <2>2, <2>3
<1>9. Removed'
  BY <1>1, <1>2 DEF Removed
<1>. QED
  BY <1>5, <1>6, <1>7, <1>8, <1>9 DEF SettleInv

\* The batch ends with every file done or failed.
LEMMA EndBatchSettles ==
  ASSUME TypeOK, TypeOK', InBatch, SettleInv, NEW w \in Workers, OneWorker, EndBatch(w)
  PROVE  SettleInv'
<1>1. /\ Workers = {w} /\ pc[w] = "batch" /\ pc'[w] \in {"docs", "delete", "cursor"}
      /\ pc'[w] # "docs" => Todo(w) = {}
      /\ pc'[w] = "cursor" => gone[w] = {}
      /\ Todo(w) = Staged(w, "done") \cup Staged(w, "failed")
      /\ UNCHANGED <<ver, live, cursor, acl, doc, chunks, page, gone, token, perms, stage, old>>
  BY DEF EndBatch, AfterIndexing, OneWorker, TypeOK, upstream, indexes, task
<1>2. \A f \in Files : /\ page[w][f] <= ver[f] /\ page[w][f] \in Nat
                       /\ dropped[f] <= ver[f] /\ dropped[f] \in Nat /\ ver[f] \in Nat
  BY DEF SettleInv, Paged, Recorded, TypeOK, Changes
<1>3. \A f \in Files :
         /\ dropped'[f] >= dropped[f] /\ dropped'[f] <= ver[f]
         /\ f \in Staged(w, "failed") => dropped'[f] >= page[w][f]
         /\ dropped'[f] # dropped[f] => page[w][f] # 0
  BY <1>1, <1>2 DEF EndBatch, Later, Staged, Todo
<1>4. Fresh'
  <2>1. \A f \in Files : Dropped(f) => Dropped(f)'
    <3>1. \A f \in Files : dropped'[f] \in Nat
      BY DEF TypeOK, Changes
    <3>. QED
      BY <1>1, <1>2, <1>3, <3>1 DEF Dropped
  <2>2. \A f \in Files : Current(f) => Current(f)'
    BY <1>1 DEF Current, Visible
  <2>. QED
    BY <1>1, <2>1, <2>2 DEF SettleInv, Fresh
<1>5. Recorded'
  BY <1>1, <1>3 DEF Recorded
<1>6. Paged' /\ Seen'
  BY <1>1 DEF SettleInv, Paged, Seen, Still
<1>7. Piped'
  BY <1>1, <1>3 DEF SettleInv, Piped, Todo, Staged, InBatch
<1>8. Removed'
  BY <1>1 DEF Removed
<1>. QED
  BY <1>4, <1>5, <1>6, <1>7, <1>8 DEF SettleInv

LEMMA IndexDocsSettles ==
  ASSUME TypeOK, InBatch, SettleInv, NEW w \in Workers, OneWorker, IndexDocs(w)
  PROVE  SettleInv'
<1>1. /\ Workers = {w} /\ pc[w] = "docs" /\ pc'[w] = "chunks"
      /\ UNCHANGED <<ver, live, cursor, acl, chunks, dropped, page, gone, token, perms, stage, old>>
      /\ \A f \in Files : doc'[f] = IF stage[w][f] = "done" THEN perms[w][f] ELSE doc[f]
  BY DEF IndexDocs, Staged, OneWorker, TypeOK, upstream, indexes, task, history
<1>2. \A f \in Files : stage[w][f] = "done" => cursor < ver[f]
  BY <1>1 DEF InBatch, Todo, SettleInv, Paged, TypeOK, Changes
<1>3. \A f \in Files : ver[f] <= cursor => doc'[f] = doc[f]
  BY <1>1, <1>2 DEF TypeOK, Changes
<1>4. Fresh' /\ Recorded' /\ Paged' /\ Seen' /\ Removed'
  BY <1>1, <1>3 DEF SettleInv, Fresh, Current, Visible, Dropped, Recorded, Paged, Seen, Still, Removed
<1>5. Piped'
  BY <1>1 DEF SettleInv, Piped, Todo
<1>. QED
  BY <1>4, <1>5 DEF SettleInv

LEMMA IndexChunksSettles ==
  ASSUME TypeOK, TypeOK', InBatch, SettleInv, NEW w \in Workers, OneWorker, NEW f \in Files,
         IndexChunks(w, f)
  PROVE  SettleInv'
<1>1. /\ Workers = {w} /\ pc[w] = "chunks" /\ stage[w][f] = "done"
      /\ pc'[w] \in {"chunks", "delete", "cursor"}
      /\ pc'[w] # "chunks" => \A g \in Files : stage[w][g] = "done" => g = f
      /\ pc'[w] = "cursor" => gone[w] = {}
      /\ UNCHANGED <<ver, live, cursor, acl, doc, dropped, page, gone, token, perms, old>>
      /\ stage'[w][f] = "out" /\ chunks'[f] = perms[w][f]
      /\ \A g \in Files \ {f} : stage'[w][g] = stage[w][g] /\ chunks'[g] = chunks[g]
  BY DEF IndexChunks, Staged, AfterIndexing, OneWorker, TypeOK, upstream, history
<1>2. cursor < ver[f]
  BY <1>1 DEF InBatch, Todo, SettleInv, Paged, TypeOK, Changes
<1>3. \A g \in Files : ver[g] <= cursor => chunks'[g] = chunks[g]
  BY <1>1, <1>2 DEF TypeOK, Changes
<1>4. Fresh' /\ Recorded' /\ Paged' /\ Seen' /\ Removed'
  BY <1>1, <1>3 DEF SettleInv, Fresh, Current, Visible, Dropped, Recorded, Paged, Seen, Still, Removed
<1>5. Piped'
  BY <1>1 DEF SettleInv, Piped, Todo
<1>. QED
  BY <1>4, <1>5 DEF SettleInv

LEMMA DeleteSettles ==
  ASSUME TypeOK, TypeOK', SettleInv, InBatch, NEW w \in Workers, OneWorker, DeleteDocs(w) \/ DeleteCanon(w)
  PROVE  SettleInv'
<1>1. /\ Workers = {w}
      /\ \/ pc[w] = "delete" /\ pc'[w] = "canon" /\ acl' = acl
         \/ pc[w] = "canon" /\ pc'[w] = "cursor" /\ doc' = doc
      /\ UNCHANGED <<ver, live, cursor, chunks, dropped, page, gone, token, perms, stage>>
  BY DEF DeleteDocs, DeleteCanon, OneWorker, TypeOK, upstream, indexes, task, history
<1>2. \A f \in Files : /\ f \notin gone[w] => acl'[f] = acl[f] /\ doc'[f] = doc[f]
                       /\ f \in gone[w] /\ pc'[w] = "canon" => doc'[f] = {}
                       /\ f \in gone[w] /\ pc'[w] = "cursor" => acl'[f] = {}
  <2>1. CASE DeleteDocs(w)
    BY <1>1, <2>1 DEF DeleteDocs, TypeOK
  <2>2. CASE DeleteCanon(w)
    BY <1>1, <2>2 DEF DeleteCanon, TypeOK
  <2>. QED
    BY <2>1, <2>2
<1>3. \A f \in gone[w] : f \in Files /\ cursor < ver[f] /\ f \notin Todo(w)
  BY <1>1 DEF Todo, SettleInv, Paged, TypeOK, Changes
<1>4. \A f \in Files : ver[f] <= cursor => f \notin gone[w]
  BY <1>3 DEF TypeOK, Changes
<1>5. Fresh' /\ Recorded' /\ Paged' /\ Seen'
  BY <1>1, <1>2, <1>4 DEF SettleInv, Fresh, Current, Visible, Dropped, Recorded, Paged, Seen, Still
<1>6. Removed'
  BY <1>1, <1>2, <1>3 DEF SettleInv, Removed
<1>7. Piped'
  BY <1>1, <1>2, <1>3 DEF SettleInv, Piped, Todo
<1>. QED
  BY <1>5, <1>6, <1>7 DEF SettleInv

\* Every step keeps the invariant: one case per action.
LEMMA SettleStep ==
  ASSUME OneWorker, TypeOK, CoverInv, SettleInv, [Next]_vars
  PROVE  SettleInv'
<1>1. TypeOK' /\ Ahead /\ InBatch
  BY TypeStep DEF CoverInv
<1>2. CASE UNCHANGED <<upstream, cursor, indexes, pc, task, history>>
  BY <1>2 DEF upstream, indexes, task, history, SettleInv, Fresh, Current, Visible, Dropped, Recorded,
     Paged, Seen, Still, Piped, Todo, Removed
<1>3. ASSUME NEW w \in Workers, Raise(w) \/ Crash(w) PROVE SettleInv'
  BY <1>3, LeaveSettles DEF Raise, Crash
<1>4. ASSUME NEW w \in Workers, TakeTask(w) \/ FetchChanges(w) \/ EndBatch(w) \/ IndexDocs(w)
                                \/ DeleteDocs(w) \/ DeleteCanon(w) \/ StoreCursor(w)
      PROVE SettleInv'
  BY <1>1, <1>4, TakeSettles, FetchSettles, EndBatchSettles, IndexDocsSettles, DeleteSettles, StoreSettles
<1>5. ASSUME NEW w \in Workers, NEW f \in Files,
             Hydrate(w, f) \/ BeginReplace(w, f) \/ CommitReplace(w, f) \/ ItemFails(w, f)
             \/ IndexChunks(w, f)
      PROVE SettleInv'
  BY <1>1, <1>5, BatchSettles, IndexChunksSettles
<1>6. ASSUME NEW f \in Files, Change(f) PROVE SettleInv'
  BY <1>1, <1>6, ChangeSettles
<1>. QED
  BY <1>2, <1>3, <1>4, <1>5, <1>6 DEF Next, Work, Notify, vars

\* With one worker process, once every change has been processed each index
\* lets in at most those who can see the file upstream and the indexes agree,
\* for any number of files, changes, failures, crashes and any page size.
THEOREM SettledIndexesAreCurrent ==
  ASSUME OneWorker PROVE Spec => []SettledIsCurrent
<1>1. Init => TypeOK /\ CoverInv /\ SettleInv
  BY TypeInit, CoverInit, SettleInit
<1>2. TypeOK /\ CoverInv /\ SettleInv /\ [Next]_vars => (TypeOK /\ CoverInv /\ SettleInv)'
  BY TypeStep, CoverStep, SettleStep
<1>3. CoverInv /\ SettleInv => SettledIsCurrent
  BY DEF CoverInv, Ahead, SettleInv, Fresh, Current, SettledIsCurrent, Settled
<1>. QED
  BY <1>1, <1>2, <1>3, PTL DEF Spec
=============================================================================
