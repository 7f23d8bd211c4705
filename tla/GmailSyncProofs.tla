--------------------------- MODULE GmailSyncProofs ---------------------------
(* Theorems about GmailSync, for any messages, workers, page sizes and       *)
(* bounds.                                                                   *)
EXTENDS GmailSync, FiniteSetTheorems, TLAPS

-----------------------------------------------------------------------------
(* Type correctness, one part of the state at a time. *)

BoxOK == /\ box \in Seq(Event) /\ Now <= MaxEvents
         /\ floor \in 0..Now
         /\ notes \subseteq Events

FlagsOK == armed \in BOOLEAN /\ push \in BOOLEAN /\ overlap \in BOOLEAN

RowsOK == /\ cursor \in Cursor /\ queue \in Nat /\ index \subseteq Msg
          /\ watch \in -1..Now
          /\ term \in {"none", "far", "due"} /\ (term = "none") = (watch = -1)

WorkOK == /\ pc \in [Worker -> Stages]
          /\ from \in [Worker -> Cursor] /\ next \in [Worker -> Cursor]
          /\ held \in [Worker -> 0..Now] /\ ids \in [Worker -> SUBSET Msg]

PullOK == pulled \in [Worker -> SUBSET Events] /\ acks \in [Worker -> SUBSET Events]

PastOK == /\ renew \in {"idle", "stop", "register"}
          /\ crawls \in 0..MaxCrawls /\ faults \in 0..MaxFaults /\ terms \in 0..MaxTerms
          /\ top \in 0..Now /\ missed \cup silent \subseteq Events

LEMMA TypeParts == TypeOK <=> BoxOK /\ FlagsOK /\ RowsOK /\ WorkOK /\ PullOK /\ PastOK
BY DEF TypeOK, BoxOK, FlagsOK, RowsOK, WorkOK, PullOK, PastOK

\* Every variable has its type at the start.
LEMMA TypeInit == Init => TypeOK
<1>. SUFFICES ASSUME Init PROVE TypeOK
  OBVIOUS
<1>. USE MessagesAssumption, BoundsAssumption DEF Init
<1>1. box \in Seq(Event) /\ Len(box) = Len(Present)
  <2>1. Len(Present) \in Nat /\ DOMAIN Present = 1..Len(Present)
    OBVIOUS
  <2>2. \A i \in 1..Len(Present) : [msg |-> Present[i], gone |-> FALSE] \in Event
    BY DEF Event
  <2>3. box = [i \in 1..Len(Present) |-> [msg |-> Present[i], gone |-> FALSE]]
    BY <2>1
  <2>. QED
    BY <2>1, <2>2, <2>3
<1>2. BoxOK
  BY <1>1 DEF BoxOK, Now, Events
<1>6. FlagsOK
  BY Zenon DEF FlagsOK
<1>3. RowsOK
  BY <1>1 DEF RowsOK, Now, Cursor, NoCursor, History
<1>4. WorkOK /\ PullOK
  BY <1>1 DEF WorkOK, PullOK, Now, Cursor, NoCursor, Stages
<1>5. PastOK
  BY <1>1 DEF PastOK, Now
<1>. QED
  BY <1>2, <1>3, <1>4, <1>5, <1>6, TypeParts

\* An event that arrives is the last of the history.
LEMMA Grows ==
  ASSUME BoxOK, NEW m \in Msg, NEW g \in BOOLEAN, Happen(m, g)
  PROVE  /\ box' \in Seq(Event) /\ Now' = Now + 1 /\ Now \in Nat
         /\ box'[Now + 1] = [msg |-> m, gone |-> g]
         /\ \A e \in Events : box'[e] = box[e] /\ e \in Events'
         /\ Events' = Events \cup {Now + 1}
<1>1. box \in Seq(Event) /\ [msg |-> m, gone |-> g] \in Event
  BY DEF BoxOK, Event
<1>2. box' = Append(box, [msg |-> m, gone |-> g])
  BY DEF Happen
<1>. QED
  BY <1>1, <1>2 DEF Now, Events

\* The one arrival of a message that is there.
LEMMA ArrivedThere ==
  ASSUME NEW m \in Alive
  PROVE  Arrived(m) \in Events /\ box[Arrived(m)].msg = m /\ ~box[Arrived(m)].gone
BY DEF Alive, Added, Arrived

\* Who takes a step.
Elsewhere == Forgotten \/ TermPasses \/ Renewal \/ Webhook
LEMMA WhoseStep ==
  ASSUME [Next]_vars
  PROVE  \/ \E m \in Msg, g \in BOOLEAN : Happen(m, g)
         \/ Elsewhere
         \/ \E w \in Worker : BeginCrawl(w) \/ Crawl(w)
         \/ \E w \in Worker : Notify(w)
         \/ UNCHANGED vars
BY DEF Next, Elsewhere, Arrive, Remove, Worker

\* What each kind of step leaves alone.
LEMMA ElsewhereAlone ==
  ASSUME Elsewhere
  PROVE  UNCHANGED <<box, push, cursor, index, pc, from, held, ids, next, pulled, acks, crawls, top, missed, silent, overlap>>
BY DEF Elsewhere, Forgotten, TermPasses, Renewal, RenewBegin, RenewStop, RenewRegister, RenewFails, Webhook,
   upstream, rows, worker, bounds

LEMMA CrawlAlone ==
  ASSUME NEW w \in Worker, BeginCrawl(w) \/ Crawl(w)
  PROVE  UNCHANGED <<box, floor, notes, push, queue, pulled, acks, renew, terms, silent>>
BY DEF BeginCrawl, Crawl, ResetListing, List, ListBreaks, CrawlIndex, Index, Checkpoint, StoreFinal, Register, Watched,
   RegisterFails, Override, upstream, rows, worker, bounds

LEMMA NotifyAlone ==
  ASSUME NEW w \in Worker, Notify(w)
  PROVE  UNCHANGED <<box, floor, armed, push, watch, term, renew, crawls, terms, top>>
BY DEF Notify, Pull, PullUnmapped, PullDone, TakeTask, Process, Read, ReadUnknown, NoCursorTask, Pipe, Index, Delete,
   Store, Raise, upstream, rows, worker, bounds

\* The history, and what upstream keeps of it.
LEMMA BoxStep == ASSUME TypeOK, [Next]_vars PROVE BoxOK'
<1>. USE TypeParts DEF BoxOK
<1>1. ASSUME NEW m \in Msg, NEW g \in BOOLEAN, Happen(m, g) PROVE BoxOK'
  <2>1. Now < MaxEvents /\ floor' = floor /\ notes' \subseteq notes \cup {Now + 1}
    BY <1>1 DEF Happen
  <2>2. box' \in Seq(Event) /\ Now \in Nat /\ Now' = Now + 1 /\ Events' = Events \cup {Now + 1}
    BY <1>1, Grows
  <2>3. Now' <= MaxEvents
    BY <2>1, <2>2, BoundsAssumption
  <2>4. notes' \subseteq Events'
    BY <2>1, <2>2
  <2>5. floor' \in 0..Now'
    BY <2>1, <2>2
  <2>. QED
    BY <2>2, <2>3, <2>4, <2>5
<1>2. ASSUME UNCHANGED box, floor' \in {floor, Now}, notes' \subseteq notes PROVE BoxOK'
  BY <1>2 DEF Now, Events
<1>3. Elsewhere => floor' \in {floor, Now} /\ notes' \subseteq notes
  BY DEF Elsewhere, Forgotten, TermPasses, Renewal, RenewBegin, RenewStop, RenewRegister, RenewFails, Webhook, upstream
<1>4. ASSUME NEW w \in Worker, Notify(w) PROVE notes' \subseteq notes
  BY <1>4 DEF Notify, Pull, PullUnmapped, PullDone, TakeTask, Process, Read, ReadUnknown, NoCursorTask, Pipe, Index, Delete,
     Store, Raise, upstream
<1>5. CASE Elsewhere
  BY <1>2, <1>3, <1>5, ElsewhereAlone
<1>6. ASSUME NEW w \in Worker, BeginCrawl(w) \/ Crawl(w) PROVE BoxOK'
  BY <1>2, <1>6, CrawlAlone
<1>7. ASSUME NEW w \in Worker, Notify(w) PROVE BoxOK'
  BY <1>2, <1>4, <1>7, NotifyAlone
<1>8. CASE UNCHANGED vars
  BY <1>2, <1>8 DEF vars, upstream
<1>. QED
  BY <1>1, <1>5, <1>6, <1>7, <1>8, WhoseStep

\* The flags.
LEMMA FlagsStep == ASSUME TypeOK, [Next]_vars PROVE FlagsOK'
<1>. USE TypeParts DEF FlagsOK
<1>1. armed' \in {armed, TRUE, FALSE} /\ push' = push
  <2>1. ASSUME NEW m \in Msg, NEW g \in BOOLEAN, Happen(m, g) PROVE UNCHANGED <<armed, push>>
    BY <2>1 DEF Happen
  <2>2. Elsewhere => armed' \in {armed, TRUE, FALSE} /\ push' = push
    BY DEF Elsewhere, Forgotten, TermPasses, Renewal, RenewBegin, RenewStop, RenewRegister, RenewFails, Watched, Webhook,
       upstream
  <2>3. ASSUME NEW w \in Worker, BeginCrawl(w) \/ Crawl(w) PROVE armed' \in {armed, TRUE} /\ push' = push
    BY <2>3 DEF BeginCrawl, Crawl, ResetListing, List, ListBreaks, CrawlIndex, Index, Checkpoint, StoreFinal, Register,
       Watched, RegisterFails, Override, upstream
  <2>. QED
    BY <2>1, <2>2, <2>3, NotifyAlone, WhoseStep DEF vars, upstream
<1>2. overlap' = overlap \/ \E w \in Worker : overlap' = (overlap \/ \E v \in Worker \ {w} : pc[v] # "idle")
  <2>1. ASSUME NEW m \in Msg, NEW g \in BOOLEAN, Happen(m, g) PROVE overlap' = overlap
    BY <2>1 DEF Happen
  <2>2. ASSUME NEW w \in Worker, BeginCrawl(w) \/ Crawl(w) \/ Notify(w)
        PROVE  overlap' = overlap \/ overlap' = (overlap \/ \E v \in Worker \ {w} : pc[v] # "idle")
    BY <2>2 DEF BeginCrawl, Crawl, ResetListing, List, ListBreaks, CrawlIndex, Index, Checkpoint, StoreFinal, Register,
       RegisterFails, Override, Notify, Pull, PullUnmapped, PullDone, TakeTask, Process, Read, ReadUnknown,
       NoCursorTask, Pipe, Delete, Store, Raise
  <2>. QED
    BY <2>1, <2>2, ElsewhereAlone, WhoseStep DEF vars
<1>3. armed' \in BOOLEAN /\ push' \in BOOLEAN
  BY <1>1
<1>4. overlap' \in BOOLEAN
  BY <1>2, Zenon
<1>. QED
  BY <1>3, <1>4

\* What the rows, the queue and the index hold after a step.
LEMMA RowsStep == ASSUME TypeOK, BoxOK', [Next]_vars PROVE RowsOK'
<1>. USE TypeParts DEF RowsOK
<1>0. Now \in Nat /\ Now <= MaxEvents /\ (UNCHANGED box => Now' = Now)
  BY DEF BoxOK, Now
<1>1. ASSUME NEW m \in Msg, NEW g \in BOOLEAN, Happen(m, g) PROVE RowsOK'
  BY <1>0, <1>1, Grows DEF Happen, rows
<1>2. CASE Elsewhere
  <2>1. UNCHANGED <<cursor, index, box>>
    BY <1>2, ElsewhereAlone
  <2>2. queue' \in {queue, queue + 1}
    BY <1>2 DEF Elsewhere, Forgotten, TermPasses, Renewal, RenewBegin, RenewStop, RenewRegister, RenewFails, Webhook
  <2>3. \/ UNCHANGED <<watch, term>>
        \/ watch' = watch /\ term = "far" /\ term' = "due"
        \/ watch' = Now /\ term' = "far"
    BY <1>2 DEF Elsewhere, Forgotten, TermPasses, Renewal, RenewBegin, RenewStop, RenewRegister, RenewFails, Watched, Webhook,
       rows
  <2>. QED
    BY <1>0, <2>1, <2>2, <2>3
<1>3. ASSUME NEW w \in Worker, BeginCrawl(w) \/ Crawl(w) PROVE RowsOK'
  <2>1. UNCHANGED <<queue, box>>
    BY <1>3, CrawlAlone
  <2>2. UNCHANGED <<watch, term>> \/ (watch' = Now /\ term' = "far")
    BY <1>3 DEF BeginCrawl, Crawl, ResetListing, List, ListBreaks, CrawlIndex, Index, Checkpoint, StoreFinal, Register,
       Watched, RegisterFails, Override, rows
  <2>3. cursor' \in {cursor, NoCursor, next[w], from[w]} \/ (watch # -1 /\ cursor' = History(watch))
    BY <1>3 DEF BeginCrawl, Crawl, ResetListing, List, ListBreaks, CrawlIndex, Index, Checkpoint, StoreFinal, Register,
       Watched, RegisterFails, Override, rows
  <2>4. cursor' \in Cursor
    BY <1>0, <2>3, BoundsAssumption DEF WorkOK, Cursor, NoCursor, History
  <2>5. index' \in {index, index \cup ids[w]}
    BY <1>3 DEF BeginCrawl, Crawl, ResetListing, List, ListBreaks, CrawlIndex, Index, Checkpoint, StoreFinal, Register,
       RegisterFails, Override
  <2>6. index' \subseteq Msg
    BY <2>5 DEF WorkOK
  <2>. QED
    BY <1>0, <2>1, <2>2, <2>4, <2>6
<1>4. ASSUME NEW w \in Worker, Notify(w) PROVE RowsOK'
  <2>1. UNCHANGED <<watch, term, box>>
    BY <1>4, NotifyAlone
  <2>2. cursor' \in {cursor, next[w]}
    BY <1>4 DEF Notify, Pull, PullUnmapped, PullDone, TakeTask, Process, Read, ReadUnknown, NoCursorTask, Pipe, Index,
       Delete, Store, Raise, rows
  <2>3. cursor' \in Cursor
    BY <2>2 DEF WorkOK
  <2>4. index' \subseteq index \cup ids[w]
    BY <1>4 DEF Notify, Pull, PullUnmapped, PullDone, TakeTask, Process, Read, ReadUnknown, NoCursorTask, Pipe, Index,
       Delete, Store, Raise
  <2>5. index' \subseteq Msg
    BY <2>4 DEF WorkOK
  <2>6. queue' \in {queue, queue + 1} \/ (queue > 0 /\ queue' = queue - 1)
    BY <1>4 DEF Notify, Pull, PullUnmapped, PullDone, TakeTask, Process, Read, ReadUnknown, NoCursorTask, Pipe, Index,
       Delete, Store, Raise
  <2>. QED
    BY <1>0, <2>1, <2>3, <2>5, <2>6
<1>5. CASE UNCHANGED vars
  BY <1>0, <1>5 DEF vars, upstream, rows
<1>. QED
  BY <1>1, <1>2, <1>3, <1>4, <1>5, WhoseStep

\* The history only grows.
LEMMA NowGrows ==
  ASSUME TypeOK, BoxOK', [Next]_vars
  PROVE  /\ Now \in Nat /\ Now' \in Nat /\ Now <= Now' /\ Now <= MaxEvents /\ Events \subseteq Events'
         /\ \A e \in Events : box'[e] = box[e]
         /\ Events' = Events \/ Events' = Events \cup {Now + 1}
<1>1. Now \in Nat /\ Now' \in Nat /\ Now <= MaxEvents
  BY TypeParts DEF BoxOK, Now
<1>2. UNCHANGED box => Now' = Now
  BY DEF Now
<1>3. ASSUME NEW m \in Msg, NEW g \in BOOLEAN, Happen(m, g)
      PROVE  Now' = Now + 1 /\ Events' = Events \cup {Now + 1} /\ \A e \in Events : box'[e] = box[e]
  BY <1>3, Grows, TypeParts
<1>4. UNCHANGED box \/ \E m \in Msg, g \in BOOLEAN : Happen(m, g)
  BY ElsewhereAlone, CrawlAlone, NotifyAlone, WhoseStep DEF vars, upstream
<1>5. CASE UNCHANGED box
  BY <1>1, <1>2, <1>5 DEF Events
<1>6. CASE \E m \in Msg, g \in BOOLEAN : Happen(m, g)
  BY <1>1, <1>3, <1>6
<1>. QED
  BY <1>4, <1>5, <1>6

\* The records of one history.list end at the event upstream has, or sooner.
LEMMA ReadUpTo ==
  ASSUME TypeOK, NEW w \in Worker, from[w].kind = "history"
  PROVE  LET last == Min({Now, from[w].at + HistoryMax})
         IN last \in {Now, from[w].at + HistoryMax} /\ last \in 0..Now
<1>1. Now \in Nat /\ from[w].at \in Nat /\ HistoryMax \in Nat
  BY TypeParts, SizesAssumption DEF BoxOK, WorkOK, Cursor, Now
<1>2. ASSUME NEW a \in Nat, NEW b \in Nat PROVE Min({a, b}) \in {a, b} /\ Min({a, b}) <= a /\ Min({a, b}) <= b
  <2>1. \E x \in {a, b} : \A y \in {a, b} : x <= y
    BY <1>2
  <2>. QED
    BY <2>1 DEF Min
<1>. QED
  BY <1>1, <1>2

\* Typing of a step that writes only the row of w.
LEMMA WorkStep == ASSUME TypeOK, BoxOK', [Next]_vars PROVE WorkOK'
<1>. USE TypeParts DEF WorkOK
<1>0. Now \in Nat /\ Now' \in Nat /\ Now <= Now' /\ Now <= MaxEvents /\ Events \subseteq Events'
  BY NowGrows
<1>1. held \in [Worker -> 0..Now']
  BY <1>0
<1>2. ASSUME UNCHANGED <<pc, from, held, ids, next>> PROVE WorkOK'
  BY <1>1, <1>2
<1>3. NoCursor \in Cursor /\ cursor \in Cursor
  BY BoundsAssumption DEF RowsOK, Cursor, NoCursor
<1>4. ASSUME NEW w \in Worker,
             \/ pc' = pc
             \/ \E p \in Stages : pc' = [pc EXCEPT ![w] = p],
             \/ from' = from
             \/ \E c \in Cursor : from' = [from EXCEPT ![w] = c],
             \/ next' = next
             \/ \E c \in Cursor : next' = [next EXCEPT ![w] = c],
             \/ held' = held
             \/ \E n \in 0..Now : held' = [held EXCEPT ![w] = n],
             \/ ids' = ids
             \/ \E S \in SUBSET Msg : ids' = [ids EXCEPT ![w] = S]
      PROVE  WorkOK'
  <2>1. pc' \in [Worker -> Stages]
    BY <1>4
  <2>2. from' \in [Worker -> Cursor]
    BY <1>4
  <2>3. next' \in [Worker -> Cursor]
    BY <1>4
  <2>4. held' \in [Worker -> 0..Now']
    BY <1>0, <1>1, <1>4
  <2>5. ids' \in [Worker -> SUBSET Msg]
    BY <1>4
  <2>. QED
    BY <2>1, <2>2, <2>3, <2>4, <2>5
<1>5. ASSUME NEW w \in Worker, NEW found \in SUBSET Msg, NEW passed, Fetched(w, found, passed)
      PROVE  \E S \in SUBSET Msg : ids' = [ids EXCEPT ![w] = S]
  <2>1. CASE ids' = [ids EXCEPT ![w] = found]
    BY <2>1
  <2>2. ASSUME NEW m \in found, ids' = [ids EXCEPT ![w] = found \ {m}]
        PROVE  \E S \in SUBSET Msg : ids' = [ids EXCEPT ![w] = S]
    <3>. WITNESS found \ {m} \in SUBSET Msg
    <3>. QED
      BY <2>2
  <2>. QED
    BY <1>5, <2>1, <2>2 DEF Fetched
<1>6. ASSUME NEW w \in Worker, EndTask(w, TRUE) \/ EndTask(w, FALSE)
      PROVE  WorkOK'
  <2>1. pc' = [pc EXCEPT ![w] = "idle"] \/ pc' = [pc EXCEPT ![w] = "pull"]
    BY <1>6 DEF EndTask, Goto
  <2>2. Forget(w)
    BY <1>6 DEF EndTask
  <2>3. \E p \in Stages : pc' = [pc EXCEPT ![w] = p]
    BY <2>1 DEF Stages
  <2>4. /\ \E c \in Cursor : from' = [from EXCEPT ![w] = c]
        /\ \E c \in Cursor : next' = [next EXCEPT ![w] = c]
        /\ \E n \in 0..Now : held' = [held EXCEPT ![w] = n]
        /\ \E S \in SUBSET Msg : ids' = [ids EXCEPT ![w] = S]
    <3>1. 0 \in 0..Now /\ {} \in SUBSET Msg
      BY <1>0
    <3>. QED
      BY <1>3, <2>2, <3>1 DEF Forget
  <2>. QED
    BY <1>4, <2>3, <2>4
<1>7. ASSUME NEW w \in Worker, BeginCrawl(w) \/ Crawl(w) PROVE WorkOK'
  <2>1. /\ \/ pc' = pc
           \/ \E p \in Stages : pc' = [pc EXCEPT ![w] = p]
    BY <1>7 DEF BeginCrawl, Crawl, ResetListing, List, ListBreaks, CrawlIndex, Index, Checkpoint, StoreFinal, Register,
       RegisterFails, Override, Goto, Stages
  <2>2. \/ from' = from
        \/ \E c \in Cursor : from' = [from EXCEPT ![w] = c]
    <3>1. next[w] \in Cursor
      OBVIOUS
    <3>. QED
      BY <1>3, <1>7, <3>1 DEF BeginCrawl, Crawl, ResetListing, List, ListBreaks, CrawlIndex, Index, Checkpoint, StoreFinal,
         Register, RegisterFails, Override, Forget
  <2>3. \/ next' = next
        \/ \E c \in Cursor : next' = [next EXCEPT ![w] = c]
    <3>1. CASE List(w)
      <4>1. \/ next' = [next EXCEPT ![w] = NoCursor]
            \/ \E m \in Alive : next' = [next EXCEPT ![w] = Page(Arrived(m))]
        BY <3>1 DEF List, Rest
      <4>2. ASSUME NEW m \in Alive PROVE Page(Arrived(m)) \in Cursor
        <5>1. Arrived(m) \in 1..Now
          BY ArrivedThere DEF Events
        <5>2. Arrived(m) \in 0..MaxEvents
          BY <1>0, <5>1, BoundsAssumption
        <5>. QED
          BY <5>2 DEF Page, Cursor
      <4>. QED
        BY <1>3, <4>1, <4>2
    <3>2. CASE ~List(w)
      BY <1>3, <1>7, <3>2 DEF BeginCrawl, Crawl, ResetListing, ListBreaks, CrawlIndex, Index, Checkpoint, StoreFinal,
         Register, RegisterFails, Override, Forget
    <3>. QED
      BY <3>1, <3>2
  <2>4. \/ held' = held
        \/ \E n \in 0..Now : held' = [held EXCEPT ![w] = n]
    <3>1. 0 \in 0..Now
      BY <1>0
    <3>. QED
      BY <1>7, <3>1 DEF BeginCrawl, Crawl, ResetListing, List, ListBreaks, CrawlIndex, Index, Checkpoint, StoreFinal,
         Register, RegisterFails, Override, Forget
  <2>5. \/ ids' = ids
        \/ \E S \in SUBSET Msg : ids' = [ids EXCEPT ![w] = S]
    <3>1. CASE List(w)
      <4>1. PICK page \in SUBSET Rest(from[w]) :
               Fetched(w, page, {e \in Events : from[w] = NoCursor /\ box[e].gone /\ box[e].msg \in index})
        BY <3>1 DEF List
      <4>2. page \in SUBSET Msg
        BY DEF Rest, Alive
      <4>. QED
        BY <1>5, <4>1, <4>2
    <3>2. CASE ~List(w)
      <4>1. {} \in SUBSET Msg
        OBVIOUS
      <4>. QED
        BY <1>7, <3>2, <4>1 DEF BeginCrawl, Crawl, ResetListing, ListBreaks, CrawlIndex, Index, Checkpoint, StoreFinal,
           Register, RegisterFails, Override, Forget
    <3>. QED
      BY <3>1, <3>2
  <2>. QED
    BY <1>4, <2>1, <2>2, <2>3, <2>4, <2>5
<1>8. ASSUME NEW w \in Worker, Notify(w) PROVE WorkOK'
  <2>1. CASE NoCursorTask(w) \/ Store(w) \/ Raise(w)
    BY <1>6, <2>1 DEF NoCursorTask, Store, Raise
  <2>2. CASE Read(w)
    <3>. DEFINE last == Min({Now, from[w].at + HistoryMax})
                added == {box[e].msg : e \in (from[w].at + 1)..last} \cap Alive
    <3>1. last \in 0..Now
      BY <1>0, ReadUpTo, <2>2 DEF Read
    <3>2. added \in SUBSET Msg
      BY DEF Alive
    <3>3. /\ Fetched(w, added, (last + 1)..Now)
          /\ held' = [held EXCEPT ![w] = last]
          /\ next' = [next EXCEPT ![w] = History(Now)]
          /\ pc' = [pc EXCEPT ![w] = "pipe"] /\ from' = from
      BY <2>2 DEF Read, Goto
    <3>. HIDE DEF last, added
    <3>4. History(Now) \in Cursor
      BY <1>0 DEF History, Cursor
    <3>5. "pipe" \in Stages
      BY DEF Stages
    <3>6. \E S \in SUBSET Msg : ids' = [ids EXCEPT ![w] = S]
      BY <1>5, <3>2, <3>3
    <3>. QED
      BY <1>4, <3>1, <3>3, <3>4, <3>5, <3>6
  <2>3. CASE Pull(w) \/ PullUnmapped(w) \/ PullDone(w) \/ TakeTask(w) \/ Process(w) \/ ReadUnknown(w) \/ Pipe(w) \/ Delete(w)
    <3>1. \/ pc' = pc
          \/ \E p \in Stages : pc' = [pc EXCEPT ![w] = p]
      BY <2>3 DEF Pull, PullUnmapped, PullDone, TakeTask, Process, ReadUnknown, Pipe, Index, Delete, Goto, Stages
    <3>2. \/ from' = from
          \/ \E c \in Cursor : from' = [from EXCEPT ![w] = c]
      BY <1>3, <2>3 DEF Pull, PullUnmapped, PullDone, TakeTask, Process, ReadUnknown, Pipe, Index, Delete
    <3>3. \/ next' = next
          \/ \E c \in Cursor : next' = [next EXCEPT ![w] = c]
      <4>1. from[w] \in Cursor
        OBVIOUS
      <4>. QED
        BY <4>1, <2>3 DEF Pull, PullUnmapped, PullDone, TakeTask, Process, ReadUnknown, Pipe, Index, Delete
    <3>4. held' = held
      BY <2>3 DEF Pull, PullUnmapped, PullDone, TakeTask, Process, ReadUnknown, Pipe, Index, Delete
    <3>5. ids' = ids \/ ids' = [ids EXCEPT ![w] = {}]
      BY <2>3 DEF Pull, PullUnmapped, PullDone, TakeTask, Process, ReadUnknown, Pipe, Index, Delete
    <3>. QED
      BY <1>4, <3>1, <3>2, <3>3, <3>4, <3>5
  <2>. QED
    BY <1>8, <2>1, <2>2, <2>3 DEF Notify
<1>9. ASSUME NEW m \in Msg, NEW g \in BOOLEAN, Happen(m, g) PROVE WorkOK'
  BY <1>2, <1>9 DEF Happen, worker
<1>. QED
  BY <1>2, <1>7, <1>8, <1>9, ElsewhereAlone, WhoseStep DEF vars, worker

\* What a pull holds are events.
LEMMA PullStep == ASSUME TypeOK, BoxOK', [Next]_vars PROVE PullOK'
<1>. USE TypeParts DEF PullOK
<1>0. /\ Events \subseteq Events'
      /\ pulled \in [Worker -> SUBSET Events'] /\ acks \in [Worker -> SUBSET Events']
  BY NowGrows
<1>1. ASSUME UNCHANGED <<pulled, acks>> PROVE PullOK'
  BY <1>0, <1>1
<1>2. ASSUME NEW w \in Worker, Notify(w) PROVE PullOK'
  <2>1. pulled' = pulled \/ (\E S \in SUBSET Events : pulled' = [pulled EXCEPT ![w] = S])
    <3>1. CASE Pull(w)
      BY <3>1 DEF Pull, BoxOK
    <3>2. CASE EndTask(w, TRUE) \/ EndTask(w, FALSE) \/ PullUnmapped(w) \/ Process(w)
      <4>1. pulled' = pulled \/ \E e \in pulled[w] : pulled' = [pulled EXCEPT ![w] = pulled[w] \ {e}]
        BY <3>2 DEF EndTask, PullUnmapped, Process
      <4>. QED
        BY <4>1
    <3>3. CASE PullDone(w) \/ TakeTask(w) \/ Read(w) \/ ReadUnknown(w) \/ Pipe(w) \/ Delete(w)
      BY <3>3 DEF PullDone, TakeTask, Read, ReadUnknown, Pipe, Index, Delete
    <3>. QED
      BY <1>2, <3>1, <3>2, <3>3 DEF Notify, NoCursorTask, Store, Raise
  <2>2. acks' = acks \/ (\E S \in SUBSET Events : acks' = [acks EXCEPT ![w] = S])
    <3>2. CASE EndTask(w, TRUE) \/ EndTask(w, FALSE) \/ PullUnmapped(w)
      <4>1. acks' = acks \/ \E e \in pulled[w] : acks' = [acks EXCEPT ![w] = acks[w] \cup {e}]
        BY <3>2 DEF EndTask, PullUnmapped
      <4>2. acks[w] \subseteq Events /\ pulled[w] \subseteq Events
        OBVIOUS
      <4>. QED
        BY <4>1, <4>2
    <3>3. CASE Pull(w) \/ PullDone(w) \/ TakeTask(w) \/ Process(w) \/ Read(w) \/ ReadUnknown(w) \/ Pipe(w) \/ Delete(w)
      BY <3>3 DEF Pull, PullDone, TakeTask, Process, Read, ReadUnknown, Pipe, Index, Delete
    <3>. QED
      BY <1>2, <3>2, <3>3 DEF Notify, NoCursorTask, Store, Raise
  <2>3. pulled' \in [Worker -> SUBSET Events']
    BY <1>0, <2>1
  <2>4. acks' \in [Worker -> SUBSET Events']
    BY <1>0, <2>2
  <2>. QED
    BY <2>3, <2>4
<1>3. ASSUME NEW m \in Msg, NEW g \in BOOLEAN, Happen(m, g) PROVE UNCHANGED <<pulled, acks>>
  BY <1>3 DEF Happen, worker
<1>. QED
  BY <1>1, <1>2, <1>3, ElsewhereAlone, CrawlAlone, WhoseStep DEF vars, worker

\* The bounds and the history variables.
LEMMA PastStep == ASSUME TypeOK, BoxOK', [Next]_vars PROVE PastOK'
<1>. USE TypeParts DEF PastOK
<1>0. Now \in Nat /\ Now' \in Nat /\ Now <= Now' /\ Events \subseteq Events' /\ Events = 1..Now
  BY NowGrows DEF Events
<1>1. renew' \in {"idle", "stop", "register"}
  <2>1. ASSUME NEW m \in Msg, NEW g \in BOOLEAN, Happen(m, g) PROVE renew' = renew
    BY <2>1 DEF Happen
  <2>2. Elsewhere => renew' \in {renew, "idle", "stop", "register"}
    BY DEF Elsewhere, Forgotten, TermPasses, Renewal, RenewBegin, RenewStop, RenewRegister, RenewFails, Webhook
  <2>. QED
    BY <2>1, <2>2, CrawlAlone, NotifyAlone, WhoseStep DEF vars
<1>2. /\ crawls' = crawls \/ (crawls < MaxCrawls /\ crawls' = crawls + 1)
      /\ faults' = faults \/ Fault
      /\ terms' = terms \/ (terms < MaxTerms /\ terms' = terms + 1)
  <2>1. ASSUME NEW m \in Msg, NEW g \in BOOLEAN, Happen(m, g) PROVE UNCHANGED bounds
    BY <2>1 DEF Happen
  <2>2. Elsewhere => UNCHANGED bounds \/ (Fault /\ UNCHANGED <<crawls, terms>>)
                     \/ (UNCHANGED <<crawls, faults>> /\ terms < MaxTerms /\ terms' = terms + 1)
    BY DEF Elsewhere, Forgotten, TermPasses, Renewal, RenewBegin, RenewStop, RenewRegister, RenewFails, Webhook, bounds
  <2>3. ASSUME NEW w \in Worker, BeginCrawl(w) \/ Crawl(w)
        PROVE  /\ terms' = terms /\ (faults' = faults \/ Fault)
               /\ crawls' = crawls \/ (crawls < MaxCrawls /\ crawls' = crawls + 1)
    BY <2>3 DEF BeginCrawl, Crawl, ResetListing, List, Fetched, ListBreaks, CrawlIndex, Index, Checkpoint, StoreFinal, Register,
       RegisterFails, Override, bounds
  <2>4. ASSUME NEW w \in Worker, Notify(w)
        PROVE  UNCHANGED <<crawls, terms>> /\ (faults' = faults \/ Fault)
    BY <2>4 DEF Notify, Pull, PullUnmapped, PullDone, TakeTask, Process, Read, Fetched, ReadUnknown, NoCursorTask, Pipe, Index,
       Delete, Store, Raise, bounds
  <2>. QED
    BY <2>1, <2>2, <2>3, <2>4, WhoseStep DEF vars, bounds
<1>3. crawls' \in 0..MaxCrawls /\ faults' \in 0..MaxFaults /\ terms' \in 0..MaxTerms
  BY <1>2, BoundsAssumption DEF Fault
<1>4. top' \in {top, Now, 0}
  <2>1. ASSUME NEW m \in Msg, NEW g \in BOOLEAN, Happen(m, g) PROVE top' = top
    BY <2>1 DEF Happen
  <2>3. ASSUME NEW w \in Worker, BeginCrawl(w) \/ Crawl(w) PROVE top' \in {top, Now, 0}
    BY <2>3 DEF BeginCrawl, Crawl, ResetListing, List, ListBreaks, CrawlIndex, Index, Checkpoint, StoreFinal, Register,
       RegisterFails, Override
  <2>. QED
    BY <2>1, <2>3, ElsewhereAlone, NotifyAlone, WhoseStep DEF vars
<1>5. top' \in 0..Now'
  BY <1>0, <1>4
<1>6. silent' \subseteq Events'
  <2>1. ASSUME NEW m \in Msg, NEW g \in BOOLEAN, Happen(m, g) PROVE silent' \subseteq Events'
    <3>1. silent' \subseteq silent \cup {Now + 1}
      BY <2>1 DEF Happen
    <3>2. Events' = Events \cup {Now + 1}
      BY <2>1, Grows
    <3>. QED
      BY <3>1, <3>2
  <2>2. ASSUME NEW w \in Worker, Notify(w) PROVE silent' \subseteq Events
    <3>1. silent' \subseteq silent \cup Events
      <4>1. CASE PullUnmapped(w)
        BY <4>1 DEF PullUnmapped, PullOK
      <4>2. CASE ~PullUnmapped(w)
        BY <2>2, <4>2 DEF Notify, Pull, PullDone, TakeTask, Process, Read, ReadUnknown, NoCursorTask, Pipe, Index, Delete,
           Store, Raise
      <4>. QED
        BY <4>1, <4>2
    <3>. QED
      BY <3>1
  <2>. QED
    BY <1>0, <2>1, <2>2, ElsewhereAlone, CrawlAlone, WhoseStep DEF vars
<1>7. missed' \subseteq Events'
  <2>1. ASSUME NEW m \in Msg, NEW g \in BOOLEAN, Happen(m, g) PROVE missed' = missed
    BY <2>1 DEF Happen
  <2>2. ASSUME NEW w \in Worker, NEW found \in SUBSET Alive, NEW passed \in SUBSET Events, Fetched(w, found, passed)
        PROVE  missed' \subseteq Events
    BY <2>2, ArrivedThere DEF Fetched
  <2>3. ASSUME NEW w \in Worker, BeginCrawl(w) \/ Crawl(w) PROVE missed' \subseteq Events
    <3>1. CASE List(w)
      <4>1. PICK page \in SUBSET Rest(from[w]) :
               Fetched(w, page, {e \in Events : from[w] = NoCursor /\ box[e].gone /\ box[e].msg \in index})
        BY <3>1 DEF List
      <4>2. page \in SUBSET Alive
        BY DEF Rest
      <4>3. {e \in Events : from[w] = NoCursor /\ box[e].gone /\ box[e].msg \in index} \in SUBSET Events
        OBVIOUS
      <4>. QED
        BY <2>2, <4>1, <4>2, <4>3
    <3>2. CASE ListBreaks(w)
      BY <3>2, ArrivedThere DEF ListBreaks, Rest
    <3>3. CASE Override(w)
      <4>1. missed' \subseteq missed \cup (top + 1)..watch \/ missed' = missed
        BY <3>3 DEF Override
      <4>2. (top + 1)..watch \subseteq Events
        BY <1>0 DEF RowsOK
      <4>. QED
        BY <4>1, <4>2
    <3>4. CASE ~(List(w) \/ ListBreaks(w) \/ Override(w))
      BY <2>3, <3>4 DEF BeginCrawl, Crawl, ResetListing, CrawlIndex, Index, Checkpoint, StoreFinal, Register,
         RegisterFails
    <3>. QED
      BY <3>1, <3>2, <3>3, <3>4
  <2>4. ASSUME NEW w \in Worker, Notify(w) PROVE missed' \subseteq Events
    <3>1. CASE Read(w)
      <4>. DEFINE last == Min({Now, from[w].at + HistoryMax})
                  added == {box[e].msg : e \in (from[w].at + 1)..last} \cap Alive
      <4>1. last \in 0..Now
        BY ReadUpTo, <3>1 DEF Read
      <4>2. Fetched(w, added, (last + 1)..Now)
        BY <3>1 DEF Read
      <4>3. added \in SUBSET Alive
        OBVIOUS
      <4>. HIDE DEF last, added
      <4>4. (last + 1)..Now \in SUBSET Events
        BY <1>0, <4>1
      <4>. QED
        BY <2>2, <4>2, <4>3, <4>4
    <3>2. CASE ReadUnknown(w)
      <4>1. missed' \subseteq missed \cup (from[w].at + 1)..Now
        BY <3>2 DEF ReadUnknown
      <4>2. from[w].at \in Nat
        BY DEF WorkOK, Cursor
      <4>. QED
        BY <1>0, <4>1, <4>2
    <3>3. CASE ~(Read(w) \/ ReadUnknown(w))
      BY <2>4, <3>3 DEF Notify, Pull, PullUnmapped, PullDone, TakeTask, Process, NoCursorTask, Pipe, Index, Delete,
         Store, Raise
    <3>. QED
      BY <3>1, <3>2, <3>3
  <2>. QED
    BY <1>0, <2>1, <2>3, <2>4, ElsewhereAlone, WhoseStep DEF vars
<1>. QED
  BY <1>1, <1>3, <1>5, <1>6, <1>7

\* No step breaks a type.
LEMMA TypeStep == ASSUME TypeOK, [Next]_vars PROVE TypeOK'
<1>1. BoxOK'
  BY BoxStep
<1>2. FlagsOK' /\ RowsOK' /\ WorkOK' /\ PullOK' /\ PastOK'
  BY <1>1, FlagsStep, RowsStep, WorkStep, PullStep, PastStep
<1>. QED
  BY <1>1, <1>2 DEF TypeOK, BoxOK, FlagsOK, RowsOK, WorkOK, PullOK, PastOK

\* Type correctness: every variable keeps its type, for any history, workers and bounds.
THEOREM TypeCorrect == Spec => []TypeOK
BY TypeInit, TypeStep, PTL DEF Spec

-----------------------------------------------------------------------------
(* What the index holds of the events up to a history id. *)

\* An arrival that the index owes: not gone since, and not known to be missed.
Arrival(e) == ~box[e].gone /\ e \notin missed /\ box[e].msg \in Alive

\* The arrivals up to n are in the index, or in these messages.
Covered(n, S) == n <= Now /\ \A e \in 1..n : Arrival(e) => box[e].msg \in index \cup S

\* A message arrives once, and the history starts with those present.
OnceInv == /\ \A d, e \in Events : ~box[d].gone /\ ~box[e].gone /\ box[d].msg = box[e].msg => d = e
           /\ Len(Present) <= Now

\* The history ids that a row or a task holds are of this history, and none is
\* older than the messages that were present.
Known(c) == c.kind = "history" => c.at >= Len(Present) /\ c.at <= Now
KnownInv == /\ Known(cursor) /\ (watch = -1 \/ watch >= Len(Present))
            /\ \A w \in Worker : Known(from[w]) /\ Known(next[w])

\* What a worker of a notification has in hand reaches its history id.
ReadOf(w) ==
    /\ pc[w] = "read" /\ from[w].kind = "history" => Covered(from[w].at, {})
    /\ pc[w] = "pipe" => next[w].kind = "history" /\ Covered(next[w].at, ids[w])
    /\ pc[w] \in {"delete", "store"} /\ next[w].kind = "history" => Covered(next[w].at, {})

\* What a crawl has still to list is before its page.
CrawlOf(w) ==
    /\ pc[w] = "list" /\ from[w].kind # "page" => top = 0
    /\ pc[w] = "list" /\ from[w].kind = "page" =>
          \A e \in 1..top : Arrival(e) => box[e].msg \in index \/ e < from[w].at
    /\ pc[w] \in {"index", "checkpoint"} =>
          /\ next[w] = NoCursor \/ next[w].kind = "page"
          /\ \A e \in 1..top : Arrival(e) => \/ box[e].msg \in index
                                             \/ pc[w] = "index" /\ box[e].msg \in ids[w]
                                             \/ next[w].kind = "page" /\ e < next[w].at
    /\ pc[w] \in {"final", "register", "override"} => Covered(top, {})
    /\ Crawling(w) /\ pc[w] # "list" => from[w].kind # "history"

ReadInv  == (cursor.kind = "history" => Covered(cursor.at, {})) /\ \A w \in Worker : ReadOf(w)
CrawlInv == /\ \A v, w \in Worker : Crawling(v) /\ Crawling(w) => v = w
            /\ (\A w \in Worker : ~Crawling(w)) => top = 0
            /\ \A w \in Worker : CrawlOf(w)

ArriveInv == TypeOK /\ OnceInv /\ KnownInv /\ ReadInv /\ CrawlInv

-----------------------------------------------------------------------------
\* Nothing that was there is lost: the history keeps its events, what is missed
\* stays so, and only a message that is gone leaves the index.
LEMMA Stays ==
  ASSUME TypeOK, BoxOK', [Next]_vars
  PROVE  /\ missed \subseteq missed' /\ silent \subseteq silent'
         /\ \A e \in Events : /\ box'[e] = box[e] /\ e \in Events'
                              /\ Arrival(e)' => Arrival(e)
                              /\ Arrival(e)' /\ box[e].msg \in index => box[e].msg \in index'
<1>1. missed \subseteq missed' /\ silent \subseteq silent'
  <2>1. ASSUME NEW m \in Msg, NEW g \in BOOLEAN, Happen(m, g) PROVE missed' = missed /\ silent \subseteq silent'
    BY <2>1 DEF Happen
  <2>2. ASSUME NEW w \in Worker, BeginCrawl(w) \/ Crawl(w) PROVE missed \subseteq missed' /\ silent' = silent
    BY <2>2 DEF BeginCrawl, Crawl, ResetListing, List, Fetched, ListBreaks, CrawlIndex, Index, Checkpoint, StoreFinal,
       Register, RegisterFails, Override
  <2>3. ASSUME NEW w \in Worker, Notify(w) PROVE missed \subseteq missed' /\ silent \subseteq silent'
    <3>1. silent \subseteq Events
      BY TypeParts DEF PastOK
    <3>. QED
      BY <2>3, <3>1 DEF Notify, Pull, PullUnmapped, PullDone, TakeTask, Process, Read, Fetched, ReadUnknown, NoCursorTask, Pipe, Index,
       Delete, Store, Raise
  <2>. QED
    BY <2>1, <2>2, <2>3, ElsewhereAlone, WhoseStep DEF vars
<1>2. \A e \in Events : box'[e] = box[e] /\ e \in Events'
  BY NowGrows
<1>3. ASSUME NEW m, Deleted(m) PROVE Deleted(m)'
  BY <1>2, <1>3 DEF Deleted
<1>4. ASSUME NEW e \in Events, Arrival(e)' PROVE Arrival(e)
  <2>1. PICK m : m = box[e].msg
    OBVIOUS
  <2>2. ~box[e].gone /\ e \notin missed /\ m \in Alive'
    BY <1>1, <1>2, <1>4, <2>1 DEF Arrival
  <2>3. Added(m)
    BY <2>1, <2>2 DEF Added
  <2>4. m \in Msg /\ ~Deleted(m)'
    BY <2>2 DEF Alive
  <2>5. m \in Alive
    BY <1>3, <2>3, <2>4 DEF Alive
  <2>. QED
    BY <2>1, <2>2, <2>5 DEF Arrival
<1>5. index \subseteq index' \/ \E w \in Worker : Delete(w)
  <2>1. ASSUME NEW m \in Msg, NEW g \in BOOLEAN, Happen(m, g) PROVE index' = index
    BY <2>1 DEF Happen
  <2>2. ASSUME NEW w \in Worker, BeginCrawl(w) \/ Crawl(w) PROVE index \subseteq index'
    BY <2>2 DEF BeginCrawl, Crawl, ResetListing, List, ListBreaks, CrawlIndex, Index, Checkpoint, StoreFinal,
       Register, RegisterFails, Override
  <2>3. ASSUME NEW w \in Worker, Notify(w) PROVE index \subseteq index' \/ Delete(w)
    BY <2>3 DEF Notify, Pull, PullUnmapped, PullDone, TakeTask, Process, Read, ReadUnknown, NoCursorTask, Pipe, Index,
       Store, Raise
  <2>. QED
    BY <2>1, <2>2, <2>3, ElsewhereAlone, WhoseStep DEF vars
<1>6. ASSUME NEW e \in Events, Arrival(e)', box[e].msg \in index PROVE box[e].msg \in index'
  <2>1. box[e].msg \in Alive
    BY <1>4, <1>6 DEF Arrival
  <2>2. ASSUME NEW w \in Worker, Delete(w) PROVE box[e].msg \in index'
    <3>1. index' = index \ Deletions(from[w].at + 1, held[w])
      BY <2>2 DEF Delete
    <3>2. (from[w].at + 1)..held[w] \subseteq Events
      BY TypeParts DEF WorkOK, BoxOK, Cursor, Now, Events
    <3>3. box[e].msg \notin Deletions(from[w].at + 1, held[w])
      BY <2>1, <3>2 DEF Deletions, Alive, Deleted
    <3>. QED
      BY <1>6, <3>1, <3>3
  <2>. QED
    BY <1>5, <1>6, <2>2
<1>. QED
  BY <1>1, <1>2, <1>4, <1>6

\* A message that was added is not added again.
LEMMA OnceStep ==
  ASSUME TypeOK, BoxOK', OnceInv, [Next]_vars
  PROVE  OnceInv'
<1>1. ASSUME UNCHANGED box PROVE OnceInv'
  BY <1>1 DEF OnceInv, Events, Now
<1>2. ASSUME NEW m \in Msg, NEW g \in BOOLEAN, Happen(m, g), g \/ ~Added(m) PROVE OnceInv'
  <2>1. /\ Events' = Events \cup {Now + 1} /\ Now' = Now + 1 /\ Now \in Nat
        /\ \A e \in Events : box'[e] = box[e]
        /\ box'[Now + 1] = [msg |-> m, gone |-> g]
    BY <1>2, Grows, TypeParts
  <2>2. ASSUME NEW d \in Events', NEW e \in Events', ~box'[d].gone, ~box'[e].gone, box'[d].msg = box'[e].msg
        PROVE  d = e
    <3>1. ASSUME NEW x \in Events, ~box[x].gone, ~g PROVE box[x].msg # m
      BY <1>2, <3>1 DEF Added
    <3>2. CASE d \in Events /\ e \in Events
      BY <2>1, <2>2, <3>2 DEF OnceInv
    <3>3. CASE d = Now + 1 /\ e \in Events
      BY <2>1, <2>2, <3>1, <3>3
    <3>4. CASE d \in Events /\ e = Now + 1
      BY <2>1, <2>2, <3>1, <3>4
    <3>. QED
      BY <2>1, <3>2, <3>3, <3>4
  <2>. QED
    BY <2>1, <2>2, MessagesAssumption DEF OnceInv
<1>3. ASSUME NEW m \in Msg, Arrive(m) PROVE OnceInv'
  BY <1>2, <1>3 DEF Arrive
<1>4. ASSUME NEW m \in Msg, Remove(m) PROVE OnceInv'
  BY <1>2, <1>4 DEF Remove
<1>5. UNCHANGED box \/ \E m \in Msg : Arrive(m) \/ Remove(m)
  <2>1. Next => (\E m \in Msg : Arrive(m) \/ Remove(m)) \/ Elsewhere \/ \E w \in Worker : BeginCrawl(w) \/ Crawl(w) \/ Notify(w)
    BY DEF Next, Elsewhere, Worker
  <2>. QED
    BY <2>1, ElsewhereAlone, CrawlAlone, NotifyAlone DEF vars, upstream
<1>. QED
  BY <1>1, <1>3, <1>4, <1>5

\* The parts, after a step.
LEMMA TypePartsNext == ASSUME TypeOK' PROVE BoxOK' /\ FlagsOK' /\ RowsOK' /\ WorkOK' /\ PullOK' /\ PastOK'
BY DEF TypeOK, BoxOK, FlagsOK, RowsOK, WorkOK, PullOK, PastOK

\* Every history id handed on was the length of the history once.
LEMMA KnownStep ==
  ASSUME TypeOK, TypeOK', OnceInv, KnownInv, [Next]_vars
  PROVE  KnownInv'
<1>. USE TypeParts
<1>0. /\ Now \in Nat /\ Now' \in Nat /\ Now <= Now' /\ Len(Present) \in Nat /\ Len(Present) <= Now
      /\ from \in [Worker -> Cursor] /\ next \in [Worker -> Cursor] /\ cursor \in Cursor
      /\ from' \in [Worker -> Cursor] /\ next' \in [Worker -> Cursor]
  <2>1. BoxOK' /\ WorkOK'
    BY TypePartsNext
  <2>. QED
    BY <2>1, NowGrows, MessagesAssumption DEF OnceInv, WorkOK, RowsOK
<1>1. ASSUME NEW c \in Cursor, Known(c) PROVE c.kind = "history" => c.at >= Len(Present) /\ c.at <= Now'
  BY <1>0, <1>1 DEF Known, Cursor
<1>2. Known(NoCursor) /\ Known(History(Now)) /\ (watch # -1 => Known(History(watch)))
  BY <1>0 DEF Known, NoCursor, History, KnownInv, RowsOK
<1>3. \A w \in Worker : Known(from[w]) /\ Known(next[w])
  BY DEF KnownInv
<1>4. ASSUME NEW w \in Worker, NEW c \in Cursor, Known(c),
             from' = from \/ from' = [from EXCEPT ![w] = c]
      PROVE  \A v \in Worker : from'[v].kind = "history" => from'[v].at >= Len(Present) /\ from'[v].at <= Now'
  BY <1>0, <1>1, <1>3, <1>4
<1>5. ASSUME NEW w \in Worker, NEW c \in Cursor, Known(c),
             next' = next \/ next' = [next EXCEPT ![w] = c]
      PROVE  \A v \in Worker : next'[v].kind = "history" => next'[v].at >= Len(Present) /\ next'[v].at <= Now'
  BY <1>0, <1>1, <1>3, <1>5
<1>6. ASSUME NEW w \in Worker, BeginCrawl(w) \/ Crawl(w) \/ Notify(w)
      PROVE  /\ \/ from' = from
                \/ \E c \in {cursor, NoCursor, next[w]} : from' = [from EXCEPT ![w] = c]
             /\ \/ next' = next
                \/ \E c \in Cursor : Known(c) /\ next' = [next EXCEPT ![w] = c]
             /\ \/ cursor' \in {cursor, NoCursor, from[w], next[w]}
                \/ watch # -1 /\ cursor' = History(watch)
  <2>1. CASE BeginCrawl(w) \/ Crawl(w)
    <3>1. CASE List(w)
      <4>1. next' = [next EXCEPT ![w] = NoCursor] \/ \E m \in Alive : next' = [next EXCEPT ![w] = Page(Arrived(m))]
        BY <3>1 DEF List, Rest
      <4>2. ASSUME NEW c, next' = [next EXCEPT ![w] = c] PROVE c \in Cursor
        BY <1>0, <4>2
      <4>3. \A n : Known(Page(n))
        BY DEF Known, Page
      <4>4. UNCHANGED <<from, cursor>>
        BY <3>1 DEF List, rows
      <4>. QED
        BY <1>2, <4>1, <4>2, <4>3, <4>4
    <3>2. CASE ~List(w)
      <4>1. NoCursor \in Cursor
        BY BoundsAssumption DEF Cursor, NoCursor
      <4>. QED
        BY <1>2, <2>1, <3>2, <4>1 DEF BeginCrawl, Crawl, ResetListing, ListBreaks, CrawlIndex, Index, Checkpoint,
           StoreFinal, Register, RegisterFails, Override, Forget, rows
    <3>. QED
      BY <3>1, <3>2
  <2>2. CASE Notify(w)
    <3>1. NoCursor \in Cursor
      BY BoundsAssumption DEF Cursor, NoCursor
    <3>2. CASE NoCursorTask(w) \/ Store(w) \/ Raise(w)
      BY <1>2, <3>1, <3>2 DEF NoCursorTask, Store, Raise, EndTask, Forget, rows
    <3>3. CASE Read(w)
      <4>1. next' = [next EXCEPT ![w] = History(Now)] /\ UNCHANGED <<from, cursor>>
        BY <3>3 DEF Read, rows
      <4>2. History(Now) \in Cursor
        BY <1>0 DEF BoxOK, History, Cursor
      <4>. QED
        BY <1>2, <4>1, <4>2
    <3>4. CASE ReadUnknown(w)
      <4>1. next' = [next EXCEPT ![w] = from[w]] /\ UNCHANGED <<from, cursor>>
        BY <3>4 DEF ReadUnknown, rows
      <4>. QED
        BY <1>0, <1>3, <4>1
    <3>5. CASE Pull(w) \/ PullUnmapped(w) \/ PullDone(w) \/ TakeTask(w) \/ Process(w) \/ Pipe(w) \/ Delete(w)
      BY <3>5 DEF Pull, PullUnmapped, PullDone, TakeTask, Process, Pipe, Index, Delete, rows
    <3>. QED
      BY <2>2, <3>2, <3>3, <3>4, <3>5 DEF Notify
  <2>. QED
    BY <1>6, <2>1, <2>2
<1>7. Known(cursor)'
  <2>1. ASSUME NEW m \in Msg, NEW g \in BOOLEAN, Happen(m, g) PROVE cursor' = cursor
    BY <2>1 DEF Happen, rows
  <2>2. Known(cursor')
    BY <1>2, <1>3, <1>6, <2>1, ElsewhereAlone, WhoseStep DEF KnownInv, vars, rows
  <2>3. cursor' \in Cursor
    BY TypePartsNext DEF RowsOK
  <2>. QED
    BY <1>1, <2>2, <2>3 DEF Known
<1>8. watch' = -1 \/ watch' >= Len(Present)
  <2>1. watch' \in {watch, Now}
    <3>1. ASSUME NEW m \in Msg, NEW g \in BOOLEAN, Happen(m, g) PROVE watch' = watch
      BY <3>1 DEF Happen, rows
    <3>2. Elsewhere => watch' \in {watch, Now}
      BY DEF Elsewhere, Forgotten, TermPasses, Renewal, RenewBegin, RenewStop, RenewRegister, RenewFails, Watched, Webhook,
         rows
    <3>3. ASSUME NEW w \in Worker, BeginCrawl(w) \/ Crawl(w) PROVE watch' \in {watch, Now}
      BY <3>3 DEF BeginCrawl, Crawl, ResetListing, List, ListBreaks, CrawlIndex, Index, Checkpoint, StoreFinal, Register,
         Watched, RegisterFails, Override, rows
    <3>. QED
      BY <3>1, <3>2, <3>3, NotifyAlone, WhoseStep DEF vars, rows
  <2>. QED
    BY <1>0, <2>1 DEF KnownInv
<1>9. \A w \in Worker : Known(from[w])' /\ Known(next[w])'
  <2>1. ASSUME UNCHANGED <<from, next>> 
        PROVE  \A w \in Worker : Known(from[w])' /\ Known(next[w])'
    BY <1>0, <1>1, <1>3, <2>1 DEF Known
  <2>2. ASSUME NEW w \in Worker, BeginCrawl(w) \/ Crawl(w) \/ Notify(w) 
        PROVE  \A v \in Worker : Known(from[v])' /\ Known(next[v])'
    <3>1. \A c \in {cursor, NoCursor, next[w]} : c \in Cursor /\ Known(c)
      BY <1>0, <1>2, <1>3, BoundsAssumption DEF KnownInv, Cursor, NoCursor
    <3>2. \A v \in Worker : from'[v].kind = "history" => from'[v].at >= Len(Present) /\ from'[v].at <= Now'
      BY <1>4, <1>6, <2>2, <3>1, Zenon
    <3>3. NoCursor \in Cursor
      BY <3>1
    <3>4. \A v \in Worker : next'[v].kind = "history" => next'[v].at >= Len(Present) /\ next'[v].at <= Now'
      BY <1>2, <1>5, <1>6, <2>2, <3>3, Zenon
    <3>. QED
      BY <3>2, <3>4 DEF Known
  <2>3. ASSUME NEW m \in Msg, NEW g \in BOOLEAN, Happen(m, g) PROVE UNCHANGED <<from, next>>
    BY <2>3 DEF Happen, worker
  <2>. QED
    BY <2>1, <2>2, <2>3, ElsewhereAlone, WhoseStep DEF vars, worker
<1>. QED
  BY <1>7, <1>8, <1>9 DEF KnownInv

\* A step of w leaves what the others have in hand.
LEMMA OnlyOwn ==
  ASSUME TypeOK, NEW w \in Worker, BeginCrawl(w) \/ Crawl(w) \/ Notify(w), NEW v \in Worker, v # w
  PROVE  /\ pc'[v] = pc[v] /\ from'[v] = from[v] /\ held'[v] = held[v] /\ ids'[v] = ids[v] /\ next'[v] = next[v]
         /\ pulled'[v] = pulled[v] /\ acks'[v] = acks[v]
<1>. USE TypeParts DEF WorkOK, PullOK
<1>1. CASE NoCursorTask(w) \/ Store(w) \/ Raise(w)
  <2>1. CASE pulled[w] = {}
    BY <1>1, <2>1 DEF NoCursorTask, Store, Raise, EndTask, Goto, Forget
  <2>2. CASE pulled[w] # {}
    <3>1. PICK e \in pulled[w] : pulled' = [pulled EXCEPT ![w] = @ \ {e}]
                                 /\ (acks' = acks \/ acks' = [acks EXCEPT ![w] = @ \cup {e}])
      BY <1>1, <2>2 DEF NoCursorTask, Store, Raise, EndTask
    <3>. QED
      BY <1>1, <2>2, <3>1 DEF NoCursorTask, Store, Raise, EndTask, Goto, Forget
  <2>. QED
    BY <2>1, <2>2
<1>2. CASE BeginCrawl(w) \/ ResetListing(w) \/ ListBreaks(w) \/ CrawlIndex(w) \/ Checkpoint(w) \/ StoreFinal(w) \/ Register(w)
           \/ RegisterFails(w) \/ Override(w)
  BY <1>2 DEF BeginCrawl, ResetListing, ListBreaks, CrawlIndex, Index, Checkpoint, StoreFinal, Register,
     RegisterFails, Override, Goto, Forget
<1>3. ASSUME NEW S, NEW T, Fetched(w, S, T) PROVE ids'[v] = ids[v]
  BY <1>3 DEF Fetched
<1>4. CASE List(w)
  <2>1. ids'[v] = ids[v]
    BY <1>3, <1>4 DEF List
  <2>2. next'[v] = next[v]
    <3>1. next' = [next EXCEPT ![w] = NoCursor] \/ \E m \in Alive : next' = [next EXCEPT ![w] = Page(Arrived(m))]
      BY <1>4 DEF List, Rest
    <3>. QED
      BY <3>1
  <2>. QED
    BY <1>4, <2>1, <2>2 DEF List, Goto
<1>5. CASE Read(w)
  <2>1. ids'[v] = ids[v]
    BY <1>3, <1>5 DEF Read
  <2>. QED
    BY <1>5, <2>1 DEF Read, Goto
<1>6. CASE Pull(w)
  BY <1>6 DEF Pull, Goto
<1>7. CASE PullUnmapped(w) \/ Process(w)
  BY <1>7 DEF PullUnmapped, Process, Goto
<1>8. CASE PullDone(w) \/ TakeTask(w) \/ ReadUnknown(w) \/ Pipe(w) \/ Delete(w)
  BY <1>8 DEF PullDone, TakeTask, ReadUnknown, Pipe, Index, Delete, Goto
<1>. QED
  BY <1>1, <1>2, <1>4, <1>5, <1>6, <1>7, <1>8 DEF Crawl, Notify

\* What is covered stays covered.
LEMMA CoveredStays ==
  ASSUME TypeOK, BoxOK', [Next]_vars, NEW n \in Nat, NEW S, Covered(n, S)
  PROVE  n <= Now' /\ \A e \in 1..n : Arrival(e)' => box'[e].msg \in index' \cup S
<1>1. n <= Now /\ \A e \in 1..n : Arrival(e) => box[e].msg \in index \cup S
  BY DEF Covered
<1>2. Now \in Nat /\ Now' \in Nat /\ Now <= Now'
  BY NowGrows
<1>3. n <= Now'
  BY <1>1, <1>2
<1>4. ASSUME NEW e \in 1..n, Arrival(e)' PROVE box'[e].msg \in index' \cup S
  <2>1. e \in Events
    BY <1>1, <1>2 DEF Events
  <2>2. Arrival(e) /\ box'[e] = box[e] /\ (box[e].msg \in index => box[e].msg \in index')
    BY <1>4, <2>1, Stays
  <2>. QED
    BY <1>1, <2>2
<1>. QED
  BY <1>3, <1>4

\* A worker of a notification that does not move keeps its promise.
LEMMA ReadStays ==
  ASSUME TypeOK, BoxOK', [Next]_vars, NEW v \in Worker, ReadOf(v),
         pc'[v] = pc[v], from'[v] = from[v], ids'[v] = ids[v], next'[v] = next[v]
  PROVE  ReadOf(v)'
<1>1. from[v].at \in Nat /\ next[v].at \in Nat
  BY TypeParts DEF WorkOK, Cursor
<1>2. ASSUME pc'[v] = "read", from'[v].kind = "history" PROVE Covered(from[v].at, {})'
  <2>1. Covered(from[v].at, {})
    BY <1>2 DEF ReadOf
  <2>. QED
    BY <1>1, <2>1, CoveredStays DEF Covered
<1>3. ASSUME pc'[v] = "pipe" PROVE next'[v].kind = "history" /\ Covered(next[v].at, ids[v])'
  <2>1. next[v].kind = "history" /\ Covered(next[v].at, ids[v])
    BY <1>3 DEF ReadOf
  <2>. QED
    BY <1>1, <2>1, CoveredStays DEF Covered
<1>4. ASSUME pc'[v] \in {"delete", "store"}, next'[v].kind = "history" PROVE Covered(next[v].at, {})'
  <2>1. Covered(next[v].at, {})
    BY <1>4 DEF ReadOf
  <2>. QED
    BY <1>1, <2>1, CoveredStays DEF Covered
<1>. QED
  BY <1>2, <1>3, <1>4 DEF ReadOf

\* So does a crawl that does not move.
LEMMA CrawlStays ==
  ASSUME TypeOK, BoxOK', [Next]_vars, NEW v \in Worker, CrawlOf(v), top' = top,
         pc'[v] = pc[v], from'[v] = from[v], ids'[v] = ids[v], next'[v] = next[v]
  PROVE  CrawlOf(v)'
<1>0. top \in 0..Now /\ Now \in Nat /\ Events = 1..Now
  BY NowGrows, TypeParts DEF PastOK, Events
<1>1. \A e \in 1..top : /\ box'[e] = box[e] /\ (Arrival(e)' => Arrival(e))
                        /\ Arrival(e)' /\ box[e].msg \in index => box[e].msg \in index'
  BY <1>0, Stays
<1>2. Covered(top, {}) => Covered(top, {})'
  BY <1>0, CoveredStays DEF Covered
<1>3. ASSUME pc'[v] = "list" PROVE /\ from'[v].kind # "page" => top' = 0
                                   /\ from'[v].kind = "page" =>
                                        \A e \in 1..top' : Arrival(e)' => box'[e].msg \in index' \/ e < from'[v].at
  BY <1>1, <1>3 DEF CrawlOf
<1>4. ASSUME pc'[v] \in {"index", "checkpoint"}
      PROVE  /\ next'[v] = NoCursor \/ next'[v].kind = "page"
             /\ \A e \in 1..top' : Arrival(e)' => \/ box'[e].msg \in index'
                                                  \/ pc'[v] = "index" /\ box'[e].msg \in ids'[v]
                                                  \/ next'[v].kind = "page" /\ e < next'[v].at
  BY <1>1, <1>4 DEF CrawlOf
<1>5. pc'[v] \in {"final", "register", "override"} => Covered(top, {})'
  BY <1>2 DEF CrawlOf
<1>6. Crawling(v)' /\ pc'[v] # "list" => from'[v].kind # "history"
  BY DEF CrawlOf, Crawling
<1>. QED
  BY <1>3, <1>4, <1>5, <1>6 DEF CrawlOf

\* A history id is only handed on when what it passes is in the index or missed.
LEMMA ReadStep == ASSUME ArriveInv, TypeOK', [Next]_vars PROVE ReadInv'
<1>. USE DEF ArriveInv
<1>0. /\ TypeOK /\ BoxOK' /\ WorkOK /\ WorkOK' /\ cursor \in Cursor /\ watch \in -1..Now
      /\ Now \in Nat /\ Now' \in Nat /\ Now <= Now' /\ Events = 1..Now /\ top \in 0..Now
  BY TypePartsNext, TypeParts, NowGrows DEF RowsOK, PastOK, Events
<1>1. ASSUME cursor' = cursor \/ cursor'.kind # "history" PROVE cursor'.kind = "history" => Covered(cursor.at, {})'
  <2>1. ASSUME cursor' = cursor, cursor.kind = "history" PROVE Covered(cursor.at, {})'
    <3>1. cursor.at \in Nat /\ Covered(cursor.at, {})
      BY <1>0, <2>1 DEF ReadInv, Cursor
    <3>. QED
      BY <1>0, <2>1, <3>1, CoveredStays DEF Covered
  <2>. QED
    BY <1>1, <2>1
<1>2. ASSUME UNCHANGED <<cursor, pc, from, ids, next>> PROVE ReadInv'
  <2>1. ASSUME NEW v \in Worker PROVE ReadOf(v)'
    <3>1. ReadOf(v)
      BY DEF ReadInv
    <3>. QED
      BY <1>0, <1>2, <3>1, ReadStays
  <2>. QED
    BY <1>1, <1>2, <2>1 DEF ReadInv
<1>3. ASSUME NEW w \in Worker, BeginCrawl(w) \/ Crawl(w) \/ Notify(w), NEW v \in Worker, v # w PROVE ReadOf(v)'
  <2>1. ReadOf(v)
    BY DEF ReadInv
  <2>. QED
    BY <1>0, <1>3, <2>1, OnlyOwn, ReadStays
<1>4. ASSUME NEW w \in Worker, BeginCrawl(w) \/ Crawl(w) PROVE ReadInv'
  <2>1. pc'[w] \notin {"read", "pipe", "delete", "store"}
    BY <1>0, <1>4 DEF BeginCrawl, Crawl, ResetListing, List, ListBreaks, CrawlIndex, Index, Checkpoint, StoreFinal, Register,
       RegisterFails, Override, Goto, WorkOK
  <2>2. ReadOf(w)'
    BY <2>1 DEF ReadOf
  <2>3. cursor'.kind = "history" => Covered(cursor.at, {})'
    <3>1. CASE Override(w) /\ cursor' # cursor
      <4>1. pc[w] = "override" /\ watch # -1 /\ cursor' = History(watch) /\ missed' = missed \cup ((top + 1)..watch)
        BY <3>1 DEF Override
      <4>2. Covered(top, {})
        BY <4>1 DEF CrawlInv, CrawlOf
      <4>3. \A e \in 1..top : Arrival(e)' => box'[e].msg \in index' \cup {}
        BY <1>0, <4>2, CoveredStays
      <4>4. \A e \in (top + 1)..watch : ~Arrival(e)'
        BY <4>1 DEF Arrival
      <4>5. watch <= Now' /\ cursor'.at = watch /\ \A e \in 1..watch : e \in 1..top \/ e \in (top + 1)..watch
        BY <1>0, <4>1 DEF History
      <4>. QED
        BY <4>3, <4>4, <4>5 DEF Covered
    <3>2. CASE ~(Override(w) /\ cursor' # cursor)
      <4>1. CrawlOf(w)
        BY DEF CrawlInv
      <4>2. cursor' = cursor \/ cursor'.kind # "history"
        <5>1. CASE BeginCrawl(w) \/ List(w) \/ ListBreaks(w) \/ CrawlIndex(w) \/ Register(w) \/ RegisterFails(w) \/ Override(w)
          BY <3>2, <5>1 DEF BeginCrawl, List, ListBreaks, CrawlIndex, Index, Register, RegisterFails, rows
        <5>2. CASE ResetListing(w)
          BY <5>2 DEF ResetListing, NoCursor
        <5>3. CASE Checkpoint(w)
          BY <4>1, <5>3 DEF Checkpoint, CrawlOf, NoCursor
        <5>4. CASE StoreFinal(w)
          BY <4>1, <5>4 DEF StoreFinal, CrawlOf, Crawling
        <5>. QED
          BY <1>4, <5>1, <5>2, <5>3, <5>4 DEF Crawl
      <4>. QED
        BY <1>1, <4>2
    <3>. QED
      BY <3>1, <3>2
  <2>. QED
    BY <1>3, <1>4, <2>2, <2>3 DEF ReadInv
<1>5. ASSUME NEW w \in Worker, Notify(w) PROVE ReadInv'
  <2>. SUFFICES (cursor'.kind = "history" => Covered(cursor.at, {})') /\ ReadOf(w)'
    BY <1>3, <1>5 DEF ReadInv
  <2>0. ReadOf(w) /\ from[w].at \in Nat /\ next[w].at \in Nat
    BY <1>0 DEF ReadInv, WorkOK, Cursor
  <2>1. CASE TakeTask(w) \/ (Process(w) /\ cursor # NoCursor)
    <3>1. cursor' = cursor /\ pc'[w] = "read" /\ from'[w] = cursor
      BY <1>0, <2>1 DEF TakeTask, Process, Goto, rows, WorkOK
    <3>2. cursor'.kind = "history" => Covered(cursor.at, {})'
      BY <1>1, <3>1
    <3>3. from'[w].kind = "history" => Covered(from[w].at, {})'
      BY <3>1, <3>2 DEF Covered
    <3>. QED
      BY <3>1, <3>2, <3>3 DEF ReadOf
  <2>2. CASE Read(w)
    <3>. DEFINE last == Min({Now, from[w].at + HistoryMax})
                added == {box[e].msg : e \in (from[w].at + 1)..last} \cap Alive
    <3>1. /\ Fetched(w, added, (last + 1)..Now)
          /\ next'[w] = History(Now) /\ pc'[w] = "pipe"
          /\ cursor' = cursor /\ box' = box /\ index' = index
          /\ pc[w] = "read" /\ from[w].kind = "history"
      BY <1>0, <2>2 DEF Read, Goto, WorkOK, rows, upstream
    <3>2. last \in 0..Now
      BY <1>0, <3>1, ReadUpTo
    <3>3. ASSUME NEW e \in (from[w].at + 1)..last, box[e].msg \in Alive PROVE box[e].msg \in added
      BY <3>3
    <3>. HIDE DEF last, added
    <3>4. Covered(from[w].at, {})
      BY <2>0, <3>1 DEF ReadOf
    <3>5. ASSUME NEW e \in 1..Now, Arrival(e)' PROVE box[e].msg \in index \cup ids'[w]
      <4>1. Arrival(e) /\ e \in Events /\ ~box[e].gone /\ e \notin missed' /\ box[e].msg \in Alive
        BY <1>0, <3>5, Stays DEF Arrival
      <4>2. e \in 1..from[w].at \/ e \in (from[w].at + 1)..last \/ e \in (last + 1)..Now
        BY <1>0, <2>0, <3>2
      <4>3. CASE e \in 1..from[w].at
        BY <3>4, <4>1, <4>3 DEF Covered
      <4>4. CASE e \in (from[w].at + 1)..last
        <5>1. box[e].msg \in added
          BY <3>3, <4>1, <4>4
        <5>2. Arrived(box[e].msg) = e
          BY <4>1, ArrivedThere DEF OnceInv
        <5>. QED
          BY <1>0, <3>1, <4>1, <5>1, <5>2 DEF Fetched, WorkOK
      <4>5. e \notin (last + 1)..Now
        BY <3>1, <4>1 DEF Fetched
      <4>. QED
        BY <4>2, <4>3, <4>4, <4>5
    <3>6. Covered(next[w].at, ids[w])'
      <4>1. next'[w].at = Now /\ Now' = Now
        BY <3>1 DEF History, Now
      <4>. QED
        BY <1>0, <3>1, <3>5, <4>1 DEF Covered
    <3>. QED
      BY <1>1, <3>1, <3>6 DEF ReadOf, History
  <2>3. CASE ReadUnknown(w)
    <3>1. cursor' = cursor /\ pc'[w] = "store" /\ next'[w] = from[w] /\ pc[w] = "read"
      BY <1>0, <2>3 DEF ReadUnknown, Goto, rows, WorkOK
    <3>2. next'[w].kind = "history" => Covered(next[w].at, {})'
      BY <1>0, <2>0, <3>1, CoveredStays DEF ReadOf, Covered
    <3>. QED
      BY <1>1, <3>1, <3>2 DEF ReadOf
  <2>4. CASE Pipe(w)
    <3>1. cursor' = cursor /\ pc'[w] = "delete" /\ next' = next /\ pc[w] = "pipe" /\ index' = index \cup ids[w]
      BY <1>0, <2>4 DEF Pipe, Index, Goto, rows, WorkOK
    <3>2. Covered(next[w].at, ids[w])
      BY <2>0, <3>1 DEF ReadOf
    <3>3. Covered(next[w].at, {})'
      BY <1>0, <2>0, <3>1, <3>2, CoveredStays DEF Covered
    <3>. QED
      BY <1>1, <3>1, <3>3 DEF ReadOf
  <2>5. CASE Delete(w)
    <3>1. cursor' = cursor /\ pc'[w] = "store" /\ next' = next /\ pc[w] = "delete"
      BY <1>0, <2>5 DEF Delete, Goto, rows, WorkOK
    <3>2. next'[w].kind = "history" => Covered(next[w].at, {})'
      BY <1>0, <2>0, <3>1, CoveredStays DEF ReadOf, Covered
    <3>. QED
      BY <1>1, <3>1, <3>2 DEF ReadOf
  <2>6. ASSUME EndTask(w, TRUE) \/ EndTask(w, FALSE) PROVE pc'[w] \in {"idle", "pull"}
    BY <1>0, <2>6 DEF EndTask, Goto, WorkOK
  <2>7. CASE Store(w)
    <3>1. cursor' = next[w] /\ pc[w] = "store" /\ pc'[w] \in {"idle", "pull"}
      BY <2>6, <2>7 DEF Store
    <3>2. cursor'.kind = "history" => Covered(cursor.at, {})'
      BY <1>0, <2>0, <3>1, CoveredStays DEF ReadOf, Covered
    <3>. QED
      BY <3>1, <3>2 DEF ReadOf
  <2>8. CASE NoCursorTask(w) \/ Raise(w) \/ Pull(w) \/ PullUnmapped(w) \/ PullDone(w) \/ (Process(w) /\ cursor = NoCursor)
    <3>1. cursor' = cursor /\ pc'[w] \in {"idle", "pull"}
      BY <1>0, <2>6, <2>8 DEF NoCursorTask, Raise, Pull, PullUnmapped, PullDone, Process, Goto, rows, WorkOK
    <3>. QED
      BY <1>1, <3>1 DEF ReadOf
  <2>. QED
    BY <1>5, <2>1, <2>2, <2>3, <2>4, <2>5, <2>7, <2>8 DEF Notify
<1>6. ASSUME NEW m \in Msg, NEW g \in BOOLEAN, Happen(m, g) PROVE UNCHANGED <<cursor, pc, from, ids, next>>
  BY <1>6 DEF Happen, rows, worker
<1>. QED
  BY <1>2, <1>4, <1>5, <1>6, ElsewhereAlone, WhoseStep DEF vars, rows, worker

\* Who crawls after a step.
LEMMA WhoCrawls ==
  ASSUME TypeOK, [Next]_vars
  PROVE  /\ \/ \A v \in Worker : Crawling(v)' <=> Crawling(v)
            \/ \E w \in Worker : BeginCrawl(w) \/ Override(w)
         /\ top' = top \/ \E w \in Worker : List(w) \/ Override(w)
<1>0. WorkOK
  BY TypeParts
<1>1. ASSUME UNCHANGED <<pc, top>> PROVE top' = top /\ \A v \in Worker : Crawling(v)' <=> Crawling(v)
  BY <1>1 DEF Crawling
<1>2. ASSUME NEW m \in Msg, NEW g \in BOOLEAN, Happen(m, g) PROVE UNCHANGED <<pc, top>>
  BY <1>2 DEF Happen, worker
<1>3. ASSUME NEW w \in Worker, Crawl(w), ~Override(w) PROVE \A v \in Worker : Crawling(v)' <=> Crawling(v)
  <2>1. Crawling(w) /\ Crawling(w)'
    BY <1>0, <1>3 DEF Crawl, ResetListing, List, ListBreaks, CrawlIndex, Index, Checkpoint, StoreFinal, Register,
       RegisterFails, Goto, Crawling, WorkOK
  <2>. QED
    BY <1>3, <2>1, OnlyOwn DEF Crawling
<1>4. ASSUME NEW w \in Worker, Notify(w) PROVE \A v \in Worker : Crawling(v)' <=> Crawling(v)
  <2>1. ~Crawling(w)
    BY <1>4 DEF Notify, Pull, PullUnmapped, PullDone, TakeTask, Process, Read, ReadUnknown, NoCursorTask, Pipe, Delete,
       Store, Raise, Crawling
  <2>2. ~Crawling(w)'
    <3>1. pc'[w] \in {pc[w], "idle", "pull", "read", "pipe", "delete", "store"}
      BY <1>0, <1>4 DEF Notify, Pull, PullUnmapped, PullDone, TakeTask, Process, Read, ReadUnknown, NoCursorTask, Pipe, Index,
         Delete, Store, Raise, EndTask, Goto, WorkOK
    <3>. QED
      BY <2>1, <3>1 DEF Crawling
  <2>. QED
    BY <1>4, <2>1, <2>2, OnlyOwn DEF Crawling
<1>5. ASSUME NEW w \in Worker, BeginCrawl(w) \/ Crawl(w), ~List(w), ~Override(w) PROVE top' = top
  BY <1>5 DEF BeginCrawl, Crawl, ResetListing, ListBreaks, CrawlIndex, Index, Checkpoint, StoreFinal, Register,
     RegisterFails
<1>. QED
  BY <1>1, <1>2, <1>3, <1>4, <1>5, ElsewhereAlone, NotifyAlone, WhoseStep DEF vars, worker

\* What a crawl has listed is in the index or missed, the rest is before its page.
LEMMA CrawlStep == ASSUME ArriveInv, TypeOK', [Next]_vars PROVE CrawlInv'
<1>. USE DEF ArriveInv
<1>0. /\ TypeOK /\ BoxOK' /\ WorkOK
      /\ Now \in Nat /\ Now' \in Nat /\ Now <= Now' /\ Events = 1..Now /\ top \in 0..Now
  BY TypePartsNext, TypeParts, NowGrows DEF PastOK, Events
<1>1. \A v, w \in Worker : Crawling(v)' /\ Crawling(w)' => v = w
  <2>1. ASSUME NEW w \in Worker, BeginCrawl(w), NEW v \in Worker, v # w PROVE ~Crawling(v)'
    BY <1>0, <2>1, OnlyOwn DEF BeginCrawl, Crawling
  <2>2. ASSUME NEW w \in Worker, Override(w) PROVE ~Crawling(w)' /\ \A v \in Worker \ {w} : Crawling(v)' => Crawling(v)
    BY <1>0, <2>2, OnlyOwn DEF Crawl, Override, Goto, Crawling, WorkOK
  <2>. QED
    BY <1>0, <2>1, <2>2, WhoCrawls DEF CrawlInv
<1>2. (\A w \in Worker : ~Crawling(w)') => top' = 0
  <2>1. ASSUME NEW w \in Worker, List(w) PROVE Crawling(w)'
    BY <1>0, <2>1 DEF List, Goto, Crawling, WorkOK
  <2>2. ASSUME NEW w \in Worker, Override(w) PROVE top' = 0
    BY <2>2 DEF Override
  <2>3. ASSUME NEW w \in Worker, BeginCrawl(w) PROVE Crawling(w)'
    BY <1>0, <2>3 DEF BeginCrawl, Goto, Crawling, WorkOK
  <2>. QED
    BY <1>0, <2>1, <2>2, <2>3, WhoCrawls DEF CrawlInv
<1>3. ASSUME UNCHANGED <<top, pc, from, ids, next>> PROVE \A v \in Worker : CrawlOf(v)'
  <2>1. ASSUME NEW v \in Worker PROVE CrawlOf(v)'
    <3>1. CrawlOf(v)
      BY DEF CrawlInv
    <3>. QED
      BY <1>0, <1>3, <3>1, CrawlStays
  <2>. QED
    BY <2>1
<1>4. ASSUME NEW v \in Worker, ~Crawling(v)' PROVE CrawlOf(v)'
  BY <1>4 DEF CrawlOf, Crawling
<1>5. ASSUME NEW w \in Worker, BeginCrawl(w) \/ Crawl(w) \/ Notify(w), NEW v \in Worker, v # w PROVE CrawlOf(v)'
  <2>1. CASE top' = top
    <3>1. CrawlOf(v)
      BY DEF CrawlInv
    <3>. QED
      BY <1>0, <1>5, <2>1, <3>1, OnlyOwn, CrawlStays
  <2>2. CASE List(w) \/ Override(w)
    <3>1. Crawling(w)
      BY <2>2 DEF List, Override, Crawling
    <3>2. ~Crawling(v)'
      BY <1>0, <1>5, <3>1, OnlyOwn DEF CrawlInv, Crawling
    <3>. QED
      BY <1>4, <3>2
  <2>3. CASE ~(List(w) \/ Override(w))
    <3>1. top' = top
      BY <1>5, <2>3 DEF BeginCrawl, Crawl, ResetListing, ListBreaks, CrawlIndex, Index, Checkpoint, StoreFinal, Register,
         RegisterFails, Notify, Pull, PullUnmapped, PullDone, TakeTask, Process, Read, ReadUnknown, NoCursorTask, Pipe,
         Delete, Store, Raise
    <3>. QED
      BY <2>1, <3>1
  <2>. QED
    BY <2>2, <2>3
<1>6. ASSUME NEW w \in Worker, BeginCrawl(w) \/ Crawl(w) PROVE CrawlOf(w)'
  <2>0. CrawlOf(w)
    BY DEF CrawlInv
  <2>1. \A e \in 1..top : /\ box'[e] = box[e] /\ (Arrival(e)' => Arrival(e)) /\ e \in Events
                          /\ Arrival(e)' /\ box[e].msg \in index => box[e].msg \in index'
    BY <1>0, Stays
  <2>2. Covered(top, {}) /\ top' = top => Covered(top, {})'
    BY <1>0, CoveredStays DEF Covered
  <2>3. CASE BeginCrawl(w)
    <3>1. top' = 0 /\ pc'[w] = "list"
      BY <1>0, <2>3 DEF BeginCrawl, CrawlInv, Goto, WorkOK
    <3>. QED
      BY <3>1 DEF CrawlOf
  <2>4. CASE ResetListing(w)
    <3>1. top' = 0 /\ pc'[w] = "list"
      BY <1>0, <2>0, <2>4 DEF ResetListing, CrawlOf
    <3>. QED
      BY <3>1 DEF CrawlOf
  <2>5. ASSUME NEW e \in Events, Arrival(e)' PROVE box[e].msg \in Alive /\ Arrived(box[e].msg) = e /\ ~box[e].gone
    <3>1. Arrival(e)
      BY <1>0, <2>5, Stays
    <3>2. box[e].msg \in Alive /\ ~box[e].gone
      BY <3>1 DEF Arrival
    <3>. QED
      BY <3>2, ArrivedThere DEF OnceInv
  <2>6. CASE List(w)
    <3>1. PICK page \in SUBSET Rest(from[w]) :
             /\ page # Rest(from[w]) => Cardinality(page) = PageSize
             /\ \A m \in page, n \in Rest(from[w]) \ page : Arrived(n) < Arrived(m)
             /\ Fetched(w, page, {e \in Events : from[w] = NoCursor /\ box[e].gone /\ box[e].msg \in index})
             /\ IF page = Rest(from[w]) THEN next' = [next EXCEPT ![w] = NoCursor]
                ELSE \E last \in page :
                        /\ \A m \in page : Arrived(last) <= Arrived(m)
                        /\ next' = [next EXCEPT ![w] = Page(Arrived(last))]
      BY <2>6 DEF List
    <3>2. /\ pc[w] = "list" /\ pc'[w] = "index" /\ from' = from /\ from[w].kind # "history"
          /\ top' = (IF from[w] = NoCursor THEN Now ELSE top) /\ index' = index /\ box' = box
      BY <1>0, <2>6 DEF List, Goto, WorkOK, upstream
    <3>3. next'[w] = NoCursor \/ next'[w].kind = "page"
      BY <1>0, <3>1 DEF WorkOK, Page
    <3>4. ASSUME NEW m \in Rest(from[w]), Arrived(m) \notin missed'
          PROVE  m \in ids'[w] \/ (next'[w].kind = "page" /\ Arrived(m) < next'[w].at)
      <4>1. CASE m \in page
        BY <1>0, <3>1, <3>4, <4>1 DEF Fetched, WorkOK
      <4>2. CASE m \notin page
        <5>1. PICK last \in page : next' = [next EXCEPT ![w] = Page(Arrived(last))]
          BY <3>1, <4>2
        <5>2. Arrived(m) < Arrived(last)
          BY <3>1, <4>2
        <5>. QED
          BY <1>0, <5>1, <5>2 DEF Page, WorkOK
      <4>. QED
        BY <4>1, <4>2
    <3>5. ASSUME NEW e \in 1..top', Arrival(e)'
          PROVE  box[e].msg \in index \/ box[e].msg \in ids'[w] \/ (next'[w].kind = "page" /\ e < next'[w].at)
      <4>1. e \in Events
        BY <1>0, <3>2
      <4>2. box[e].msg \in Alive /\ Arrived(box[e].msg) = e /\ e \notin missed' /\ Arrival(e)
        BY <1>0, <2>5, <3>5, <4>1, Stays DEF Arrival
      <4>3. CASE from[w].kind = "page"
        <5>1. box[e].msg \in index \/ e < from[w].at
          BY <2>0, <3>2, <4>2, <4>3 DEF CrawlOf, NoCursor
        <5>2. e < from[w].at => box[e].msg \in Rest(from[w])
          BY <4>2 DEF Rest
        <5>. QED
          BY <3>4, <4>2, <5>1, <5>2
      <4>4. CASE from[w].kind # "page"
        <5>1. box[e].msg \in Rest(from[w])
          BY <4>2, <4>4 DEF Rest
        <5>. QED
          BY <3>4, <4>2, <5>1
      <4>. QED
        BY <4>3, <4>4
    <3>6. \A e \in 1..top' : box'[e].msg = box[e].msg
      BY <3>2
    <3>. QED
      BY <3>2, <3>3, <3>5, <3>6 DEF CrawlOf, Crawling
  <2>7. CASE ListBreaks(w)
    <3>1. /\ pc[w] = "list" /\ pc'[w] = "final" /\ from' = from /\ from[w].kind # "history" /\ top' = top
          /\ missed' = missed \cup {Arrived(m) : m \in Rest(from[w])}
      BY <1>0, <2>7 DEF ListBreaks, Goto, WorkOK
    <3>2. ASSUME NEW e \in 1..top, Arrival(e)' PROVE box'[e].msg \in index'
      <4>1. /\ box[e].msg \in Alive /\ Arrived(box[e].msg) = e /\ e \notin missed' /\ Arrival(e) /\ box'[e] = box[e]
            /\ box[e].msg \in index => box[e].msg \in index'
        BY <2>1, <2>5, <3>2 DEF Arrival
      <4>2. from[w].kind = "page"
        BY <1>0, <2>0, <3>1 DEF CrawlOf
      <4>3. box[e].msg \in index \/ e < from[w].at
        BY <2>0, <3>1, <4>1, <4>2 DEF CrawlOf
      <4>4. ~(e < from[w].at)
        BY <3>1, <4>1 DEF Rest
      <4>. QED
        BY <4>1, <4>3, <4>4
    <3>3. Covered(top, {})'
      BY <1>0, <3>1, <3>2 DEF Covered
    <3>. QED
      BY <3>1, <3>3 DEF CrawlOf
  <2>8. CASE CrawlIndex(w)
    <3>1. /\ pc[w] = "index" /\ pc'[w] = "checkpoint" /\ UNCHANGED <<from, next, top>> /\ index' = index \cup ids[w]
      BY <1>0, <2>8 DEF CrawlIndex, Index, Goto, WorkOK
    <3>. QED
      BY <2>0, <2>1, <3>1 DEF CrawlOf, Crawling
  <2>9. CASE Checkpoint(w) /\ next[w] = NoCursor
    <3>1. /\ pc[w] = "checkpoint" /\ pc'[w] = "final" /\ UNCHANGED <<from, next, top>>
      BY <1>0, <2>9 DEF Checkpoint, Goto, WorkOK
    <3>2. Covered(top, {})'
      BY <1>0, <2>0, <2>1, <2>9, <3>1 DEF Covered, CrawlOf, NoCursor
    <3>. QED
      BY <2>0, <3>1, <3>2 DEF CrawlOf, Crawling
  <2>10. CASE Checkpoint(w) /\ next[w] # NoCursor
    <3>1. /\ pc[w] = "checkpoint" /\ pc'[w] = "list" /\ from'[w] = next[w] /\ top' = top
      BY <1>0, <2>10 DEF Checkpoint, Goto, WorkOK
    <3>. QED
      BY <2>0, <2>1, <2>10, <3>1 DEF CrawlOf, Crawling
  <2>11. CASE StoreFinal(w) \/ Register(w) \/ RegisterFails(w)
    <3>1. /\ pc[w] \in {"final", "register"} /\ pc'[w] \in {"register", "override"} /\ UNCHANGED <<from, top>>
      BY <1>0, <2>11 DEF StoreFinal, Register, RegisterFails, Goto, WorkOK
    <3>. QED
      BY <2>0, <2>2, <3>1 DEF CrawlOf, Crawling
  <2>12. CASE Override(w)
    BY <1>0, <1>4, <2>12 DEF Override, Goto, Crawling, WorkOK
  <2>. QED
    BY <1>6, <2>3, <2>4, <2>6, <2>7, <2>8, <2>9, <2>10, <2>11, <2>12 DEF Crawl
<1>7. ASSUME NEW w \in Worker, Notify(w) PROVE CrawlOf(w)'
  <2>1. ~Crawling(w)'
    <3>1. pc'[w] \in {pc[w], "idle", "pull", "read", "pipe", "delete", "store"}
      BY <1>0, <1>7 DEF Notify, Pull, PullUnmapped, PullDone, TakeTask, Process, Read, ReadUnknown, NoCursorTask, Pipe, Index,
         Delete, Store, Raise, EndTask, Goto, WorkOK
    <3>2. ~Crawling(w)
      BY <1>7 DEF Notify, Pull, PullUnmapped, PullDone, TakeTask, Process, Read, ReadUnknown, NoCursorTask, Pipe, Delete,
         Store, Raise, Crawling
    <3>. QED
      BY <3>1, <3>2 DEF Crawling
  <2>. QED
    BY <1>4, <2>1
<1>8. ASSUME NEW m \in Msg, NEW g \in BOOLEAN, Happen(m, g) PROVE UNCHANGED <<top, pc, from, ids, next>>
  BY <1>8 DEF Happen, worker
<1>9. \A v \in Worker : CrawlOf(v)'
  BY <1>3, <1>5, <1>6, <1>7, <1>8, ElsewhereAlone, WhoseStep DEF vars, worker
<1>. QED
  BY <1>1, <1>2, <1>9 DEF CrawlInv

\* At the start nothing is covered, or everything.
LEMMA ArriveInit == Init => ArriveInv
<1>. SUFFICES ASSUME Init PROVE ArriveInv
  OBVIOUS
<1>1. TypeOK
  BY TypeInit
<1>2. /\ Len(Present) \in Nat /\ DOMAIN Present = 1..Len(Present)
      /\ box = [i \in 1..Len(Present) |-> [msg |-> Present[i], gone |-> FALSE]]
  BY MessagesAssumption DEF Init
<1>3. Now = Len(Present)
  BY <1>1, <1>2, TypeParts DEF Now, BoxOK
<1>4. \A w \in Worker : pc[w] = "idle" /\ from[w] = NoCursor /\ next[w] = NoCursor
  BY DEF Init
<1>5. OnceInv
  BY <1>2, <1>3, MessagesAssumption DEF OnceInv, Events
<1>6. KnownInv
  BY <1>2, <1>3, <1>4 DEF Init, KnownInv, Known, NoCursor, History
<1>7. CrawlInv
  BY <1>4 DEF Init, CrawlInv, CrawlOf, Crawling
<1>8. ReadInv
  <2>1. ASSUME cursor.kind = "history" PROVE cursor.at = Now /\ index = {Present[i] : i \in DOMAIN Present}
    BY <2>1 DEF Init, NoCursor, History
  <2>2. cursor.kind = "history" => Covered(cursor.at, {})
    BY <1>2, <1>3, <2>1 DEF Covered
  <2>. QED
    BY <1>4, <2>2 DEF ReadInv, ReadOf
<1>. QED
  BY <1>1, <1>5, <1>6, <1>7, <1>8 DEF ArriveInv

\* The invariant of the arrivals is inductive.
LEMMA ArriveStep == ASSUME ArriveInv, [Next]_vars PROVE ArriveInv'
<1>1. TypeOK /\ TypeOK'
  BY TypeStep DEF ArriveInv
<1>2. BoxOK'
  BY <1>1, TypePartsNext
<1>3. OnceInv' /\ KnownInv'
  BY <1>1, <1>2, OnceStep, KnownStep DEF ArriveInv
<1>4. ReadInv' /\ CrawlInv'
  BY <1>1, ReadStep, CrawlStep
<1>. QED
  BY <1>1, <1>3, <1>4 DEF ArriveInv

-----------------------------------------------------------------------------
(* Deletions, as long as no two tasks were at work at once. *)

\* A message whose deletion is among the first n events is not in S.
Clean(n, S) == \A e \in 1..n : box[e].gone /\ e \notin missed => box[e].msg \notin S

Telling(w) == pc[w] \in {"read", "pipe", "delete", "store"}

\* What the worker at work has in hand brings no deleted message back.
CleanOf(w) ==
    /\ Crawling(w) /\ cursor.kind = "history" => pc[w] = "list" /\ from[w].kind = "history"
    /\ Crawling(w) => Clean(top, index)
    /\ pc[w] = "index" => Clean(top, ids[w])
    /\ Telling(w) /\ cursor.kind = "history" => from[w] = cursor
    /\ Telling(w) /\ from[w].kind = "history" => Clean(from[w].at, index)
    /\ pc[w] = "pipe" => Clean(next[w].at, ids[w])
    /\ pc[w] \in {"pipe", "delete"} =>
          /\ from[w].kind = "history" /\ next[w].kind = "history" /\ from[w].at <= next[w].at
          /\ (held[w] + 1)..next[w].at \subseteq missed
    /\ pc[w] = "store" /\ next[w].kind = "history" => Clean(next[w].at, index)

CleanInv ==
    ~overlap =>
        /\ \A v, w \in Worker : v = w \/ pc[v] = "idle" \/ pc[w] = "idle"
        /\ cursor.kind = "history" => Clean(cursor.at, index)
        /\ \A w \in Worker : CleanOf(w)

\* Unless it indexes, a step leaves clean what is.
LEMMA CleanStays ==
  ASSUME TypeOK, BoxOK', [Next]_vars, NEW n \in 0..Now, NEW S, Clean(n, S), NEW T \in SUBSET S
  PROVE  \A e \in 1..n : box'[e].gone /\ e \notin missed' => box'[e].msg \notin T
<1>1. ASSUME NEW e \in 1..n PROVE e \in Events
  BY NowGrows DEF Events
<1>. QED
  BY <1>1, Stays DEF Clean

\* Two workers are never at work at once, unless it is noted.
LEMMA AloneStep ==
  ASSUME TypeOK, CleanInv, ~overlap', [Next]_vars
  PROVE  /\ ~overlap
         /\ \A v, w \in Worker : v = w \/ pc'[v] = "idle" \/ pc'[w] = "idle"
         /\ \A w \in Worker : BeginCrawl(w) \/ Crawl(w) \/ Notify(w) =>
                \A v \in Worker \ {w} : pc[v] = "idle" /\ pc'[v] = "idle"
<1>1. ASSUME NEW w \in Worker, BeginCrawl(w) \/ Pull(w) \/ TakeTask(w)
      PROVE  ~overlap /\ \A v \in Worker \ {w} : pc[v] = "idle"
  <2>1. overlap' = (overlap \/ \E v \in Worker \ {w} : pc[v] # "idle")
    BY <1>1 DEF BeginCrawl, Pull, TakeTask
  <2>. QED
    BY <2>1, Zenon
<1>2. ASSUME NEW w \in Worker, Crawl(w) \/ Notify(w), ~(Pull(w) \/ TakeTask(w))
      PROVE  overlap' = overlap /\ pc[w] # "idle"
  BY <1>2 DEF Crawl, ResetListing, List, ListBreaks, CrawlIndex, Index, Checkpoint, StoreFinal, Register,
     RegisterFails, Override, Notify, PullUnmapped, PullDone, Process, Read, ReadUnknown, NoCursorTask, Pipe, Delete,
     Store, Raise
<1>3. ASSUME NEW m \in Msg, NEW g \in BOOLEAN, Happen(m, g) PROVE UNCHANGED <<overlap, pc>>
  BY <1>3 DEF Happen, worker
<1>4. ~overlap
  BY <1>1, <1>2, <1>3, ElsewhereAlone, WhoseStep, Zenon DEF vars, Notify
<1>5. ASSUME NEW w \in Worker, BeginCrawl(w) \/ Crawl(w) \/ Notify(w), NEW v \in Worker \ {w} PROVE pc[v] = "idle" /\ pc'[v] = "idle"
  <2>1. pc[v] = "idle"
    BY <1>1, <1>2, <1>4, <1>5 DEF CleanInv
  <2>. QED
    BY <1>5, <2>1, OnlyOwn
<1>6. \A v, w \in Worker : v = w \/ pc'[v] = "idle" \/ pc'[w] = "idle"
  <2>1. CASE \E w \in Worker : BeginCrawl(w) \/ Crawl(w) \/ Notify(w)
    BY <1>5, <2>1
  <2>2. CASE UNCHANGED pc
    BY <1>4, <2>2 DEF CleanInv
  <2>. QED
    BY <1>3, <2>1, <2>2, ElsewhereAlone, WhoseStep DEF vars, worker
<1>. QED
  BY <1>4, <1>5, <1>6

\* A worker that does not move brings nothing back while the others rest.
LEMMA CleanOfStays ==
  ASSUME ArriveInv, TypeOK', [Next]_vars, NEW v \in Worker, CleanOf(v),
         UNCHANGED <<cursor, index, top, pc, from, held, ids, next>>
  PROVE  CleanOf(v)'
<1>0. /\ TypeOK /\ BoxOK' /\ top \in 0..Now /\ missed \subseteq missed'
  BY TypePartsNext, TypeParts, Stays DEF ArriveInv, PastOK
<1>1. /\ from[v].kind = "history" => from[v].at \in 0..Now
      /\ next[v].kind = "history" => next[v].at \in 0..Now
  BY <1>0, TypeParts, NowGrows DEF ArriveInv, KnownInv, Known, WorkOK, Cursor
<1>2. ASSUME NEW n \in 0..Now, NEW S, Clean(n, S)
      PROVE  \A e \in 1..n : box'[e].gone /\ e \notin missed' => box'[e].msg \notin S
  BY <1>0, <1>2, CleanStays
<1>3. Crawling(v)' = Crawling(v) /\ Telling(v)' = Telling(v)
  BY DEF Crawling, Telling
<1>4. Crawling(v)' => Clean(top, index)'
  BY <1>0, <1>2, <1>3 DEF CleanOf, Clean
<1>5. pc'[v] = "index" => Clean(top, ids[v])'
  BY <1>0, <1>2 DEF CleanOf, Clean
<1>6. Telling(v)' /\ from'[v].kind = "history" => Clean(from[v].at, index)'
  BY <1>1, <1>2, <1>3 DEF CleanOf, Clean
<1>7. pc'[v] = "pipe" => Clean(next[v].at, ids[v])'
  BY <1>1, <1>2 DEF CleanOf, Clean
<1>8. pc'[v] = "store" /\ next'[v].kind = "history" => Clean(next[v].at, index)'
  BY <1>1, <1>2 DEF CleanOf, Clean
<1>. QED
  BY <1>0, <1>3, <1>4, <1>5, <1>6, <1>7, <1>8 DEF CleanOf

\* While tasks do not overlap, nothing deleted comes back behind a history id.
LEMMA CleanStep == ASSUME ArriveInv, CleanInv, TypeOK', [Next]_vars PROVE CleanInv'
<1>. SUFFICES ASSUME ~overlap'
              PROVE  /\ \A v, w \in Worker : v = w \/ pc'[v] = "idle" \/ pc'[w] = "idle"
                     /\ cursor'.kind = "history" => Clean(cursor.at, index)'
                     /\ \A w \in Worker : CleanOf(w)'
  BY DEF CleanInv
<1>0. /\ TypeOK /\ BoxOK' /\ WorkOK /\ cursor \in Cursor /\ missed \subseteq missed'
      /\ Now \in Nat /\ Now' \in Nat /\ Now <= Now' /\ Events = 1..Now /\ top \in 0..Now /\ watch \in -1..Now
  BY TypePartsNext, TypeParts, NowGrows, Stays DEF ArriveInv, PastOK, RowsOK, Events
<1>1. /\ ~overlap /\ \A v, w \in Worker : v = w \/ pc'[v] = "idle" \/ pc'[w] = "idle"
      /\ \A w \in Worker : BeginCrawl(w) \/ Crawl(w) \/ Notify(w) => \A v \in Worker \ {w} : pc'[v] = "idle"
  BY <1>0, AloneStep
<1>2. /\ cursor.kind = "history" => cursor.at \in 0..Now /\ Clean(cursor.at, index)
      /\ \A w \in Worker : /\ CleanOf(w)
                           /\ from[w].at \in Nat /\ next[w].at \in Nat /\ held[w] \in 0..Now
                           /\ from[w].kind = "history" => from[w].at \in 0..Now
                           /\ next[w].kind = "history" => next[w].at \in 0..Now
  BY <1>0, <1>1 DEF CleanInv, ArriveInv, KnownInv, Known, WorkOK, Cursor
<1>3. ASSUME NEW n \in 0..Now, NEW S, Clean(n, S), NEW T \in SUBSET S
      PROVE  \A e \in 1..n : box'[e].gone /\ e \notin missed' => box'[e].msg \notin T
  BY <1>0, <1>3, CleanStays
<1>4. ASSUME NEW v \in Worker, pc'[v] \in {"idle", "pull"} PROVE CleanOf(v)'
  BY <1>4 DEF CleanOf, Crawling, Telling
<1>5. ASSUME cursor' = cursor, index' \subseteq index PROVE cursor'.kind = "history" => Clean(cursor.at, index)'
  BY <1>2, <1>3, <1>5 DEF Clean
<1>6. ASSUME UNCHANGED <<cursor, index, top, pc, from, held, ids, next>>
      PROVE  (cursor'.kind = "history" => Clean(cursor.at, index)') /\ \A v \in Worker : CleanOf(v)'
  BY <1>2, <1>5, <1>6, CleanOfStays
<1>7. ASSUME NEW w \in Worker, BeginCrawl(w) \/ Crawl(w)
      PROVE  (cursor'.kind = "history" => Clean(cursor.at, index)') /\ CleanOf(w)'
  <2>0. CleanOf(w) /\ CrawlOf(w)
    BY <1>2 DEF ArriveInv, CrawlInv
  <2>1. CASE BeginCrawl(w)
    <3>1. /\ pc[w] = "idle" /\ \A v \in Worker : ~Crawling(v)
          /\ pc'[w] = "list" /\ from'[w] = cursor /\ UNCHANGED <<cursor, index, top>>
      BY <1>0, <2>1 DEF BeginCrawl, Goto, rows, WorkOK
    <3>2. top = 0
      BY <3>1 DEF ArriveInv, CrawlInv
    <3>3. Clean(top, index)'
      BY <3>1, <3>2 DEF Clean
    <3>. QED
      BY <1>5, <3>1, <3>3 DEF CleanOf, Crawling, Telling
  <2>2. CASE ResetListing(w)
    <3>1. pc'[w] = "list" /\ pc[w] = "list" /\ cursor'.kind = "none" /\ UNCHANGED <<index, top>>
      BY <2>2 DEF ResetListing, NoCursor
    <3>2. Clean(top, index)'
      BY <1>0, <1>3, <2>0, <3>1 DEF CleanOf, Crawling, Clean
    <3>. QED
      BY <3>1, <3>2 DEF CleanOf, Crawling, Telling
  <2>3. CASE List(w)
    <3>1. /\ pc[w] = "list" /\ pc'[w] = "index" /\ from[w].kind # "history" /\ UNCHANGED <<cursor, index, box>>
          /\ top' = (IF from[w] = NoCursor THEN Now ELSE top)
      BY <1>0, <2>3 DEF List, Goto, WorkOK, rows, upstream
    <3>2. PICK page \in SUBSET Rest(from[w]) :
             Fetched(w, page, {e \in Events : from[w] = NoCursor /\ box[e].gone /\ box[e].msg \in index})
      BY <2>3 DEF List
    <3>3. ids'[w] \subseteq Alive /\ {e \in Events : from[w] = NoCursor /\ box[e].gone /\ box[e].msg \in index} \subseteq missed'
      BY <1>0, <3>2 DEF Fetched, WorkOK, Rest
    <3>4. cursor'.kind # "history"
      BY <2>0, <3>1 DEF CleanOf, Crawling
    <3>5. Clean(top, ids[w])'
      <4>1. ASSUME NEW e \in 1..top', box[e].gone PROVE box[e].msg \notin Alive
        BY <1>0, <3>1, <4>1 DEF Alive, Deleted
      <4>. QED
        BY <3>1, <3>3, <4>1 DEF Clean
    <3>6. Clean(top, index)'
      <4>1. CASE from[w] = NoCursor
        BY <1>0, <3>1, <3>3, <4>1 DEF Clean
      <4>2. CASE from[w] # NoCursor
        BY <1>0, <1>3, <2>0, <3>1, <4>2 DEF CleanOf, Crawling, Clean
      <4>. QED
        BY <4>1, <4>2
    <3>. QED
      BY <3>1, <3>4, <3>5, <3>6 DEF CleanOf, Crawling, Telling
  <2>4. CASE ListBreaks(w) \/ Register(w) \/ RegisterFails(w)
    <3>1. /\ pc'[w] \in {"final", "override"} /\ UNCHANGED <<cursor, index, top>>
          /\ Crawling(w) /\ (pc[w] # "list" \/ from[w].kind # "history")
      BY <1>0, <2>4 DEF ListBreaks, Register, RegisterFails, Goto, rows, WorkOK, Crawling
    <3>2. Clean(top, index)'
      BY <1>0, <1>3, <2>0, <3>1 DEF CleanOf, Clean
    <3>. QED
      BY <2>0, <3>1, <3>2 DEF CleanOf, Crawling, Telling
  <2>5. CASE CrawlIndex(w)
    <3>1. /\ pc[w] = "index" /\ pc'[w] = "checkpoint" /\ UNCHANGED <<cursor, top>> /\ index' = index \cup ids[w]
      BY <1>0, <2>5 DEF CrawlIndex, Index, Goto, rows, WorkOK
    <3>2. Clean(top, index) /\ Clean(top, ids[w]) /\ cursor.kind # "history"
      BY <2>0, <3>1 DEF CleanOf, Crawling
    <3>3. Clean(top, index)'
      BY <1>0, <1>3, <3>1, <3>2 DEF Clean
    <3>. QED
      BY <3>1, <3>2, <3>3 DEF CleanOf, Crawling, Telling
  <2>6. CASE Checkpoint(w) \/ StoreFinal(w)
    <3>1. /\ pc[w] \in {"checkpoint", "final"} /\ pc'[w] \in {"final", "list", "register", "override"} /\ UNCHANGED <<index, top>>
          /\ IF pc[w] = "checkpoint" THEN cursor' \in {cursor, next[w]} ELSE cursor' \in {cursor, from[w]}
      BY <1>0, <2>6 DEF Checkpoint, StoreFinal, Goto, WorkOK
    <3>2. cursor.kind # "history" /\ from[w].kind # "history"
      BY <2>0, <3>1 DEF CleanOf, CrawlOf, Crawling
    <3>3. pc[w] = "checkpoint" => next[w].kind # "history"
      BY <2>0, <3>1 DEF CrawlOf, NoCursor
    <3>4. cursor'.kind # "history"
      BY <3>1, <3>2, <3>3
    <3>5. Clean(top, index)'
      BY <1>0, <1>3, <2>0, <3>1 DEF CleanOf, Crawling, Clean
    <3>. QED
      BY <3>1, <3>4, <3>5 DEF CleanOf, Crawling, Telling
  <2>7. CASE Override(w)
    <3>1. /\ pc[w] = "override" /\ pc'[w] = "idle" /\ index' = index
          /\ \/ cursor' = cursor
             \/ cursor' = History(watch) /\ watch # -1 /\ missed' = missed \cup ((top + 1)..watch)
      BY <1>0, <2>7 DEF Override, Goto, WorkOK
    <3>2. cursor.kind # "history" /\ Clean(top, index)
      BY <2>0, <3>1 DEF CleanOf, Crawling
    <3>3. cursor'.kind = "history" => Clean(cursor.at, index)'
      <4>1. CASE cursor' = cursor
        BY <3>2, <4>1
      <4>2. CASE cursor' # cursor
        <5>1. cursor'.at = watch /\ watch \in Nat /\ \A e \in 1..watch : e \in 1..top \/ e \in missed'
          BY <1>0, <3>1, <4>2 DEF History
        <5>2. \A e \in 1..top : box'[e].gone /\ e \notin missed' => box'[e].msg \notin index
          BY <1>0, <1>3, <3>2
        <5>. QED
          BY <3>1, <5>1, <5>2 DEF Clean
      <4>. QED
        BY <4>1, <4>2
    <3>. QED
      BY <1>4, <3>1, <3>3
  <2>. QED
    BY <1>7, <2>1, <2>2, <2>3, <2>4, <2>5, <2>6, <2>7 DEF Crawl
<1>8. ASSUME NEW w \in Worker, Notify(w)
      PROVE  (cursor'.kind = "history" => Clean(cursor.at, index)') /\ CleanOf(w)'
  <2>0. CleanOf(w)
    BY <1>2
  <2>1. CASE TakeTask(w) \/ (Process(w) /\ cursor # NoCursor)
    <3>1. UNCHANGED <<cursor, index>> /\ pc'[w] = "read" /\ from'[w] = cursor
      BY <1>0, <2>1 DEF TakeTask, Process, Goto, rows, WorkOK
    <3>2. from'[w].kind = "history" => Clean(from[w].at, index)'
      BY <1>5, <3>1 DEF Clean
    <3>. QED
      BY <1>5, <3>1, <3>2 DEF CleanOf, Crawling, Telling
  <2>2. CASE Read(w)
    <3>. DEFINE last == Min({Now, from[w].at + HistoryMax})
                added == {box[e].msg : e \in (from[w].at + 1)..last} \cap Alive
    <3>1. /\ Fetched(w, added, (last + 1)..Now)
          /\ held'[w] = last /\ next'[w] = History(Now) /\ from' = from /\ pc'[w] = "pipe"
          /\ UNCHANGED <<cursor, index, box>>
          /\ pc[w] = "read" /\ from[w].kind = "history"
      BY <1>0, <2>2 DEF Read, Goto, WorkOK, rows, upstream
    <3>2. added \subseteq Alive
      OBVIOUS
    <3>. HIDE DEF last, added
    <3>3. ids'[w] \subseteq Alive /\ (held'[w] + 1)..Now \subseteq missed'
      BY <1>0, <3>1, <3>2 DEF Fetched, WorkOK
    <3>4. Clean(next[w].at, ids[w])'
      <4>1. ASSUME NEW e \in 1..Now, box[e].gone PROVE box[e].msg \notin Alive
        BY <1>0, <4>1 DEF Alive, Deleted
      <4>. QED
        BY <3>1, <3>3, <4>1 DEF Clean, History
    <3>5. Clean(from[w].at, index)'
      BY <1>2, <1>3, <3>1 DEF CleanOf, Clean, Telling
    <3>6. cursor'.kind = "history" => from'[w] = cursor'
      BY <2>0, <3>1 DEF CleanOf, Telling
    <3>. QED
      BY <1>2, <1>5, <3>1, <3>3, <3>4, <3>5, <3>6 DEF CleanOf, Crawling, Telling, History
  <2>3. CASE ReadUnknown(w)
    <3>1. /\ UNCHANGED <<cursor, index, from>> /\ pc'[w] = "store" /\ next'[w] = from[w] /\ pc[w] = "read"
      BY <1>0, <2>3 DEF ReadUnknown, Goto, rows, WorkOK
    <3>2. from[w].kind = "history" => Clean(from[w].at, index)'
      BY <1>2, <1>3, <3>1 DEF CleanOf, Clean, Telling
    <3>3. next'[w].kind = "history" => Clean(next[w].at, index)'
      BY <3>1, <3>2 DEF Clean
    <3>4. cursor'.kind = "history" => from'[w] = cursor'
      BY <2>0, <3>1 DEF CleanOf, Telling
    <3>. QED
      BY <1>5, <3>1, <3>2, <3>3, <3>4 DEF CleanOf, Crawling, Telling
  <2>4. CASE Pipe(w)
    <3>1. /\ UNCHANGED <<cursor, from, next, held>> /\ pc'[w] = "delete" /\ pc[w] = "pipe" /\ index' = index \cup ids[w]
      BY <1>0, <2>4 DEF Pipe, Index, Goto, rows, WorkOK
    <3>2. /\ from[w].kind = "history" /\ next[w].kind = "history" /\ from[w].at <= next[w].at
          /\ (held[w] + 1)..next[w].at \subseteq missed
          /\ Clean(from[w].at, index) /\ Clean(next[w].at, ids[w]) /\ (cursor.kind = "history" => from[w] = cursor)
      BY <2>0, <3>1 DEF CleanOf, Telling
    <3>3. Clean(from[w].at, ids[w])
      BY <1>2, <3>2 DEF Clean
    <3>4. Clean(from[w].at, index)'
      BY <1>2, <1>3, <3>1, <3>2, <3>3 DEF Clean
    <3>5. cursor'.kind = "history" => Clean(cursor.at, index)'
      BY <3>1, <3>2, <3>4 DEF Clean
    <3>. QED
      BY <1>0, <3>1, <3>2, <3>4, <3>5 DEF CleanOf, Crawling, Telling
  <2>5. CASE Delete(w)
    <3>1. /\ UNCHANGED <<cursor, from, next, held, box, missed>> /\ pc'[w] = "store" /\ pc[w] = "delete"
          /\ index' = index \ Deletions(from[w].at + 1, held[w])
      BY <1>0, <2>5 DEF Delete, Goto, rows, WorkOK, upstream
    <3>2. /\ from[w].kind = "history" /\ next[w].kind = "history" /\ from[w].at <= next[w].at
          /\ (held[w] + 1)..next[w].at \subseteq missed
          /\ Clean(from[w].at, index) /\ (cursor.kind = "history" => from[w] = cursor)
      BY <2>0, <3>1 DEF CleanOf, Telling
    <3>3. Clean(from[w].at, index)'
      BY <1>2, <1>3, <3>1, <3>2 DEF Clean
    <3>4. ASSUME NEW e \in 1..next[w].at, box[e].gone, e \notin missed PROVE box[e].msg \notin index'
      <4>1. e \in 1..from[w].at \/ e \in (from[w].at + 1)..held[w] \/ e \in (held[w] + 1)..next[w].at
        BY <1>2
      <4>2. CASE e \in 1..from[w].at
        BY <3>1, <3>2, <3>4, <4>2 DEF Clean
      <4>3. CASE e \in (from[w].at + 1)..held[w]
        BY <3>1, <3>4, <4>3 DEF Deletions
      <4>4. e \notin (held[w] + 1)..next[w].at
        BY <3>2, <3>4
      <4>. QED
        BY <4>1, <4>2, <4>3, <4>4
    <3>5. Clean(next[w].at, index)'
      BY <3>1, <3>4 DEF Clean
    <3>6. index' \subseteq index
      BY <3>1
    <3>. QED
      BY <1>5, <3>1, <3>2, <3>3, <3>5, <3>6 DEF CleanOf, Crawling, Telling
  <2>6. ASSUME EndTask(w, TRUE) \/ EndTask(w, FALSE) PROVE pc'[w] \in {"idle", "pull"}
    BY <1>0, <2>6 DEF EndTask, Goto, WorkOK
  <2>7. CASE Store(w)
    <3>1. cursor' = next[w] /\ pc[w] = "store" /\ pc'[w] \in {"idle", "pull"} /\ index' = index
      BY <2>6, <2>7 DEF Store
    <3>2. cursor'.kind = "history" => Clean(cursor.at, index)'
      BY <1>2, <1>3, <3>1 DEF CleanOf, Clean
    <3>. QED
      BY <1>4, <3>1, <3>2
  <2>8. CASE NoCursorTask(w) \/ Raise(w) \/ Pull(w) \/ PullUnmapped(w) \/ PullDone(w) \/ (Process(w) /\ cursor = NoCursor)
    <3>1. UNCHANGED <<cursor, index>> /\ pc'[w] \in {"idle", "pull"}
      BY <1>0, <2>6, <2>8 DEF NoCursorTask, Raise, Pull, PullUnmapped, PullDone, Process, Goto, rows, WorkOK
    <3>. QED
      BY <1>4, <1>5, <3>1
  <2>. QED
    BY <1>8, <2>1, <2>2, <2>3, <2>4, <2>5, <2>7, <2>8 DEF Notify
<1>9. ASSUME NEW w \in Worker, BeginCrawl(w) \/ Crawl(w) \/ Notify(w), NEW v \in Worker, v # w PROVE CleanOf(v)'
  BY <1>1, <1>4, <1>9
<1>10. ASSUME NEW m \in Msg, NEW g \in BOOLEAN, Happen(m, g) PROVE UNCHANGED <<cursor, index, top, pc, from, held, ids, next>>
  BY <1>10 DEF Happen, rows, worker
<1>11. (cursor'.kind = "history" => Clean(cursor.at, index)') /\ \A v \in Worker : CleanOf(v)'
  <2>1. CASE \E w \in Worker : BeginCrawl(w) \/ Crawl(w) \/ Notify(w)
    BY <1>7, <1>8, <1>9, <2>1
  <2>2. CASE UNCHANGED <<cursor, index, top, pc, from, held, ids, next>>
    BY <1>6, <2>2
  <2>. QED
    BY <1>10, <2>1, <2>2, ElsewhereAlone, WhoseStep DEF vars, rows, worker
<1>. QED
  BY <1>1, <1>11

\* At the start nothing is deleted.
LEMMA CleanInit == Init => CleanInv
<1>. SUFFICES ASSUME Init PROVE CleanInv
  OBVIOUS
<1>1. ArriveInv
  BY ArriveInit
<1>2. \A w \in Worker : pc[w] = "idle"
  BY DEF Init
<1>3. \A e \in 1..Now : ~box[e].gone
  BY <1>1, MessagesAssumption DEF Init, ArriveInv, TypeOK, Now
<1>4. cursor.kind = "history" => Clean(cursor.at, index)
  <2>1. cursor.kind = "history" => cursor.at = Now
    BY DEF Init, NoCursor, History
  <2>. QED
    BY <1>3, <2>1 DEF Clean
<1>. QED
  BY <1>2, <1>4 DEF CleanInv, CleanOf, Crawling, Telling

\* What a stored history id passes was done: the arrivals are in the index, and
\* when no two tasks overlapped the deletions are out of it.
THEOREM NothingPassed == Spec => []CursorCovered
<1>. DEFINE Inv == ArriveInv /\ CleanInv
<1>1. Init => Inv
  BY ArriveInit, CleanInit
<1>2. Inv /\ [Next]_vars => Inv'
  <2>. SUFFICES ASSUME ArriveInv, CleanInv, [Next]_vars PROVE ArriveInv' /\ CleanInv'
    OBVIOUS
  <2>1. ArriveInv'
    BY ArriveStep
  <2>2. TypeOK'
    BY <2>1 DEF ArriveInv
  <2>. QED
    BY <2>1, <2>2, CleanStep
<1>3. Inv => CursorCovered
  <2>. SUFFICES ASSUME ArriveInv, CleanInv PROVE CursorCovered
    OBVIOUS
  <2>1. ArrivalsCovered
    BY DEF ArriveInv, ReadInv, Covered, Arrival, ArrivalsCovered
  <2>2. DeletionsCovered
    BY DEF CleanInv, Clean, DeletionsCovered
  <2>. QED
    BY <2>1, <2>2 DEF CursorCovered
<1>. QED
  BY <1>1, <1>2, <1>3, PTL DEF Spec

-----------------------------------------------------------------------------
(* Notifications: what was acknowledged. *)

\* The arrival of e is in the index, unless there is none to be.
Done(e) == Arrival(e) /\ e \notin silent => box[e].msg \in index

\* Pushed: the notification is there, in the queue, or with a task that reads on.
OnItsWay(e) ==
    \/ e \in notes \/ queue > 0
    \/ \E w \in Worker : pc[w] = "read" \/ (pc[w] = "pipe" /\ box[e].msg \in ids[w])

\* Pulled: what is acknowledged is done.
PullOf(w) ==
    /\ Telling(w) => pulled[w] # {}
    /\ \A e \in acks[w] : Done(e)
    /\ pc[w] = "pipe" => \A e \in pulled[w] : Done(e) \/ box[e].msg \in ids[w]
    /\ pc[w] \in {"delete", "store"} => \A e \in pulled[w] : Done(e)

Later == Len(Present) + 1 .. Now

PushInv == push => /\ \A w \in Worker : pulled[w] = {} /\ acks[w] = {} /\ pc[w] # "pull"
                   /\ \A e \in Later : Done(e) \/ OnItsWay(e)

PulledInv == ~push => /\ queue = 0
                      /\ \A w \in Worker : PullOf(w)
                      /\ \A e \in Later : Done(e) \/ e \in notes

\* What is done stays done; a new event has its notification, or is silent.
LEMMA DoneStays ==
  ASSUME TypeOK, BoxOK', [Next]_vars
  PROVE  /\ \A e \in Events : Done(e) => Done(e)'
         /\ Later \subseteq Events
         /\ \A e \in Later' : e \in Later \/ Done(e)' \/ e \in notes'
<1>0. Now \in Nat /\ Now' \in Nat /\ Len(Present) \in Nat
  BY NowGrows, MessagesAssumption
<1>1. \A e \in Events : Done(e) => Done(e)'
  BY Stays DEF Done
<1>2. UNCHANGED box => Later' = Later
  BY DEF Later, Now
<1>3. ASSUME NEW m \in Msg, NEW g \in BOOLEAN, Happen(m, g), NEW e \in Later', e \notin Later
      PROVE  Done(e)' \/ e \in notes'
  <2>1. Now' = Now + 1
    BY <1>3, Grows, TypeParts
  <2>2. e = Now + 1
    BY <1>0, <1>3, <2>1 DEF Later
  <2>3. e \in notes' \/ e \in silent'
    BY <1>3, <2>2 DEF Happen
  <2>. QED
    BY <2>3 DEF Done
<1>4. Later \subseteq Events
  BY <1>0 DEF Later, Events
<1>5. UNCHANGED box \/ \E m \in Msg, g \in BOOLEAN : Happen(m, g)
  BY ElsewhereAlone, CrawlAlone, NotifyAlone, WhoseStep DEF vars, upstream
<1>. QED
  BY <1>1, <1>2, <1>3, <1>4, <1>5

\* Once a history.list or a 404 answered, every event is done or in hand.
LEMMA ReadTells ==
  ASSUME ArriveInv, TypeOK', ReadInv', [Next]_vars, NEW w \in Worker
  PROVE  /\ Read(w) => pc'[w] = "pipe" /\ \A e \in Events : Done(e)' \/ box'[e].msg \in ids'[w]
         /\ ReadUnknown(w) => pc'[w] = "store" /\ \A e \in Events : Done(e)'
         /\ Pipe(w) => pc[w] = "pipe" /\ pc'[w] = "delete" /\ \A e \in Events : box[e].msg \in ids[w] => Done(e)'
         /\ NoCursorTask(w) => \A e \in Events : Done(e)'
<1>0. TypeOK /\ BoxOK' /\ WorkOK /\ Now \in Nat /\ Events = 1..Now /\ \A e \in Events : box'[e] = box[e]
  BY TypePartsNext, TypeParts, NowGrows DEF ArriveInv, Events
<1>1. ASSUME Read(w) PROVE pc'[w] = "pipe" /\ \A e \in Events : Done(e)' \/ box'[e].msg \in ids'[w]
  <2>1. pc'[w] = "pipe" /\ next'[w] = History(Now)
    BY <1>0, <1>1 DEF Read, Goto, WorkOK
  <2>2. Covered(next[w].at, ids[w])'
    BY <2>1 DEF ReadInv, ReadOf
  <2>. QED
    BY <1>0, <2>1, <2>2 DEF Covered, Done, History
<1>2. ASSUME ReadUnknown(w) PROVE pc'[w] = "store" /\ \A e \in Events : Done(e)'
  <2>1. pc'[w] = "store" /\ next'[w] = from[w]
    BY <1>0, <1>2 DEF ReadUnknown, Goto, WorkOK
  <2>2. CASE from[w].kind = "history"
    <3>1. Covered(next[w].at, {})'
      BY <2>1, <2>2 DEF ReadInv, ReadOf
    <3>2. missed' = missed \cup (from[w].at + 1)..Now
      BY <1>2, <2>2 DEF ReadUnknown
    <3>3. from[w].at \in Nat
      BY <1>0 DEF WorkOK, Cursor
    <3>4. ASSUME NEW e \in Events, Arrival(e)' PROVE box'[e].msg \in index'
      <4>1. e \notin (from[w].at + 1)..Now
        BY <3>2, <3>4 DEF Arrival
      <4>2. e \in 1..next'[w].at
        BY <1>0, <2>1, <3>3, <4>1
      <4>. QED
        BY <3>1, <3>4, <4>2 DEF Covered
    <3>. QED
      BY <2>1, <3>4 DEF Done
  <2>3. CASE from[w].kind # "history"
    <3>1. silent' = Events
      BY <1>2, <2>3 DEF ReadUnknown
    <3>. QED
      BY <2>1, <3>1 DEF Done
  <2>. QED
    BY <2>2, <2>3
<1>3. ASSUME Pipe(w) PROVE pc[w] = "pipe" /\ pc'[w] = "delete" /\ \A e \in Events : box[e].msg \in ids[w] => Done(e)'
  BY <1>0, <1>3 DEF Pipe, Index, Goto, WorkOK, Done
<1>4. ASSUME NoCursorTask(w) PROVE \A e \in Events : Done(e)'
  BY <1>4 DEF NoCursorTask, Done
<1>. QED
  BY <1>1, <1>2, <1>3, <1>4

\* Pushed: no notification is lost but with a task that failed.
LEMMA PushStep ==
  ASSUME ArriveInv, PushInv, TypeOK', ReadInv', [Next]_vars
  PROVE  PushInv'
<1>0. /\ TypeOK /\ BoxOK' /\ WorkOK /\ PullOK /\ queue \in Nat /\ Later \subseteq Events
      /\ \A e \in Events : box'[e] = box[e] /\ (Done(e) => Done(e)')
      /\ \A e \in Later' : e \in Later \/ Done(e)' \/ e \in notes'
  BY TypePartsNext, TypeParts, NowGrows, DoneStays DEF ArriveInv, RowsOK
<1>1. ASSUME push' PROVE push
  BY <1>1, ElsewhereAlone, CrawlAlone, NotifyAlone, WhoseStep DEF vars, Happen
<1>. SUFFICES ASSUME push, push'
              PROVE  /\ \A w \in Worker : pulled'[w] = {} /\ acks'[w] = {} /\ pc'[w] # "pull"
                     /\ \A e \in Later' : Done(e)' \/ OnItsWay(e)'
  BY <1>1 DEF PushInv
<1>2. /\ \A w \in Worker : pulled[w] = {} /\ acks[w] = {} /\ pc[w] # "pull"
      /\ \A e \in Later : Done(e) \/ OnItsWay(e)
  BY DEF PushInv
<1>3. ASSUME \A e \in Later : Done(e) \/ OnItsWay(e) => Done(e)' \/ OnItsWay(e)'
      PROVE  \A e \in Later' : Done(e)' \/ OnItsWay(e)'
  BY <1>0, <1>2, <1>3 DEF OnItsWay
<1>4. ASSUME notes \subseteq notes', queue' = queue, NEW w \in Worker, pc[w] \notin {"read", "pipe"},
             \A v \in Worker \ {w} : pc'[v] = pc[v] /\ ids'[v] = ids[v], NEW e \in Later, OnItsWay(e)
      PROVE  OnItsWay(e)'
  BY <1>0, <1>4 DEF OnItsWay
<1>5. ASSUME UNCHANGED <<pc, pulled, acks, ids>>, queue' > 0 \/ (notes \subseteq notes' /\ queue' = queue)
      PROVE  /\ \A w \in Worker : pulled'[w] = {} /\ acks'[w] = {} /\ pc'[w] # "pull"
             /\ \A e \in Later' : Done(e)' \/ OnItsWay(e)'
  <2>1. ASSUME NEW e \in Later, OnItsWay(e) PROVE OnItsWay(e)'
    BY <1>0, <1>5, <2>1 DEF OnItsWay
  <2>2. \A e \in Later : Done(e) \/ OnItsWay(e) => Done(e)' \/ OnItsWay(e)'
    BY <1>0, <2>1
  <2>. QED
    BY <1>2, <1>3, <1>5, <2>2
<1>6. ASSUME NEW w \in Worker, BeginCrawl(w) \/ Crawl(w)
      PROVE  /\ \A v \in Worker : pulled'[v] = {} /\ acks'[v] = {} /\ pc'[v] # "pull"
             /\ \A e \in Later' : Done(e)' \/ OnItsWay(e)'
  <2>1. pc[w] \notin {"read", "pipe"} /\ pc'[w] # "pull"
    BY <1>0, <1>6 DEF BeginCrawl, Crawl, ResetListing, List, ListBreaks, CrawlIndex, Index, Checkpoint, StoreFinal, Register,
       RegisterFails, Override, Goto, WorkOK
  <2>2. /\ notes' = notes /\ queue' = queue /\ pulled' = pulled /\ acks' = acks
        /\ \A v \in Worker \ {w} : pc'[v] = pc[v] /\ ids'[v] = ids[v]
    BY <1>0, <1>6, OnlyOwn, CrawlAlone
  <2>3. \A e \in Later : Done(e) \/ OnItsWay(e) => Done(e)' \/ OnItsWay(e)'
    BY <1>0, <1>4, <2>1, <2>2
  <2>. QED
    BY <1>2, <1>3, <2>1, <2>2, <2>3
<1>7. ASSUME NEW w \in Worker, Notify(w)
      PROVE  /\ \A v \in Worker : pulled'[v] = {} /\ acks'[v] = {} /\ pc'[v] # "pull"
             /\ \A e \in Later' : Done(e)' \/ OnItsWay(e)'
  <2>0. \A v \in Worker \ {w} : pc'[v] = pc[v] /\ ids'[v] = ids[v] /\ pulled'[v] = pulled[v] /\ acks'[v] = acks[v]
    BY <1>0, <1>7, OnlyOwn
  <2>1. ~Pull(w) /\ ~PullUnmapped(w) /\ ~PullDone(w) /\ ~Process(w)
    BY <1>2 DEF Pull, PullUnmapped, PullDone, Process
  <2>2. ASSUME EndTask(w, TRUE) \/ EndTask(w, FALSE) PROVE pulled' = pulled /\ acks' = acks /\ pc'[w] = "idle"
    BY <1>0, <1>2, <2>2 DEF EndTask, Goto, WorkOK
  <2>3. pulled' = pulled /\ acks' = acks /\ pc'[w] # "pull"
    <3>1. CASE TakeTask(w) \/ Read(w) \/ ReadUnknown(w) \/ Pipe(w) \/ Delete(w)
      BY <1>0, <3>1 DEF TakeTask, Read, ReadUnknown, Pipe, Index, Delete, Goto, WorkOK
    <3>. QED
      BY <1>7, <2>1, <2>2, <3>1 DEF Notify, NoCursorTask, Store, Raise
  <2>4. \A e \in Later : Done(e) \/ OnItsWay(e) => Done(e)' \/ OnItsWay(e)'
    <3>1. CASE TakeTask(w)
      BY <1>0, <3>1 DEF TakeTask, Goto, WorkOK, OnItsWay
    <3>2. CASE Read(w)
      BY <1>0, <3>2, ReadTells DEF OnItsWay
    <3>3. CASE ReadUnknown(w) \/ NoCursorTask(w)
      BY <1>0, <3>3, ReadTells
    <3>4. CASE Pipe(w)
      <4>1. /\ pc[w] = "pipe" /\ notes' = notes /\ queue' = queue
            /\ \A e \in Later : box[e].msg \in ids[w] => Done(e)'
        BY <1>0, <3>4, ReadTells DEF Pipe, Index, upstream
      <4>2. ASSUME NEW e \in Later, OnItsWay(e) PROVE Done(e)' \/ OnItsWay(e)'
        BY <1>0, <2>0, <4>1, <4>2 DEF OnItsWay
      <4>. QED
        BY <1>0, <4>2
    <3>5. CASE Delete(w) \/ Store(w)
      <4>1. pc[w] \notin {"read", "pipe"} /\ notes' = notes /\ queue' = queue
        BY <3>5 DEF Delete, Store, upstream
      <4>. QED
        BY <1>0, <1>4, <2>0, <4>1
    <3>6. CASE Raise(w)
      <4>1. silent' = Events \/ queue' = queue + 1
        BY <1>2, <3>6 DEF Raise
      <4>2. silent' = Events => \A e \in Later : Done(e)'
        BY <1>0 DEF Done
      <4>3. queue' = queue + 1 => \A e \in Later : OnItsWay(e)'
        BY <1>0 DEF OnItsWay
      <4>. QED
        BY <4>1, <4>2, <4>3
    <3>. QED
      BY <1>7, <2>1, <3>1, <3>2, <3>3, <3>4, <3>5, <3>6 DEF Notify
  <2>. QED
    BY <1>2, <1>3, <2>0, <2>3, <2>4
<1>8. ASSUME NEW m \in Msg, NEW g \in BOOLEAN, Happen(m, g)
      PROVE  UNCHANGED <<pc, pulled, acks, ids>> /\ notes \subseteq notes' /\ queue' = queue
  BY <1>8 DEF Happen, worker
<1>9. Elsewhere => UNCHANGED <<pc, pulled, acks, ids>> /\ (queue' > 0 \/ (notes \subseteq notes' /\ queue' = queue))
  <2>1. Elsewhere => queue' = queue + 1 \/ (notes' = notes /\ queue' = queue)
    BY DEF Elsewhere, Forgotten, TermPasses, Renewal, RenewBegin, RenewStop, RenewRegister, RenewFails, Webhook, upstream
  <2>. QED
    BY <1>0, <2>1, ElsewhereAlone
<1>10. UNCHANGED vars => UNCHANGED <<pc, pulled, acks, ids>> /\ notes \subseteq notes' /\ queue' = queue
  BY DEF vars, worker, upstream
<1>. QED
  BY <1>5, <1>6, <1>7, <1>8, <1>9, <1>10, WhoseStep

\* Pulled: only what is in the index is acknowledged.
LEMMA PulledStep ==
  ASSUME ArriveInv, PulledInv, TypeOK', ReadInv', [Next]_vars
  PROVE  PulledInv'
<1>0. /\ TypeOK /\ BoxOK' /\ WorkOK /\ PullOK /\ queue \in Nat /\ Later \subseteq Events
      /\ \A e \in Events : box'[e] = box[e] /\ (Done(e) => Done(e)')
      /\ \A e \in Later' : e \in Later \/ Done(e)' \/ e \in notes'
  BY TypePartsNext, TypeParts, NowGrows, DoneStays DEF ArriveInv, RowsOK
<1>1. push' = push
  BY ElsewhereAlone, CrawlAlone, NotifyAlone, WhoseStep DEF vars, Happen
<1>. SUFFICES ASSUME ~push, ~push'
              PROVE  /\ queue' = 0
                     /\ \A w \in Worker : PullOf(w)'
                     /\ \A e \in Later' : Done(e)' \/ e \in notes'
  BY <1>1 DEF PulledInv
<1>2. /\ queue = 0 /\ \A w \in Worker : PullOf(w)
      /\ \A e \in Later : Done(e) \/ e \in notes
  BY DEF PulledInv
<1>3. ASSUME notes \subseteq notes' PROVE \A e \in Later' : Done(e)' \/ e \in notes'
  BY <1>0, <1>2, <1>3
<1>4. ASSUME NEW v \in Worker, pc'[v] = pc[v], ids'[v] = ids[v], pulled'[v] = pulled[v], acks'[v] = acks[v] PROVE PullOf(v)'
  <2>1. PullOf(v) /\ pulled[v] \subseteq Events /\ acks[v] \subseteq Events
    BY <1>0, <1>2 DEF PullOK
  <2>2. /\ \A e \in acks[v] : Done(e)'
        /\ pc[v] = "pipe" => \A e \in pulled[v] : Done(e)' \/ box'[e].msg \in ids[v]
        /\ pc[v] \in {"delete", "store"} => \A e \in pulled[v] : Done(e)'
        /\ Telling(v) => pulled[v] # {}
    BY <1>0, <2>1 DEF PullOf
  <2>3. Telling(v)' = Telling(v)
    BY <1>4 DEF Telling
  <2>. QED
    BY <1>4, <2>2, <2>3 DEF PullOf
<1>5. ASSUME UNCHANGED <<pc, pulled, acks, ids>>, queue' = queue, notes \subseteq notes'
      PROVE  queue' = 0 /\ (\A w \in Worker : PullOf(w)') /\ \A e \in Later' : Done(e)' \/ e \in notes'
  BY <1>2, <1>3, <1>4, <1>5
<1>6. ASSUME NEW w \in Worker, BeginCrawl(w) \/ Crawl(w) \/ Notify(w), NEW v \in Worker, v # w PROVE PullOf(v)'
  BY <1>0, <1>4, <1>6, OnlyOwn
<1>7. ASSUME NEW w \in Worker, BeginCrawl(w) \/ Crawl(w)
      PROVE  queue' = 0 /\ (\A v \in Worker : PullOf(v)') /\ \A e \in Later' : Done(e)' \/ e \in notes'
  <2>1. pc'[w] \notin {"read", "pipe", "delete", "store"}
    BY <1>0, <1>7 DEF BeginCrawl, Crawl, ResetListing, List, ListBreaks, CrawlIndex, Index, Checkpoint, StoreFinal, Register,
       RegisterFails, Override, Goto, WorkOK
  <2>2. UNCHANGED <<notes, queue, acks>>
    BY <1>7, CrawlAlone
  <2>3. \A e \in acks[w] : Done(e)'
    BY <1>0, <1>2 DEF PullOf, PullOK
  <2>4. PullOf(w)'
    BY <2>1, <2>2, <2>3 DEF PullOf, Telling
  <2>. QED
    BY <1>2, <1>3, <1>6, <1>7, <2>2, <2>4
<1>8. ASSUME NEW w \in Worker, Notify(w)
      PROVE  queue' = 0 /\ PullOf(w)' /\ \A e \in Later' : Done(e)' \/ e \in notes'
  <2>0. /\ pulled[w] \subseteq Events /\ acks[w] \subseteq Events
        /\ \A e \in acks[w] : Done(e)' /\ Done(e)
    BY <1>0, <1>2 DEF PullOf, PullOK
  <2>1. ~TakeTask(w)
    BY <1>2 DEF TakeTask
  <2>2. ASSUME pc[w] \in {"read", "pipe", "delete", "store"}, EndTask(w, FALSE) \/ (EndTask(w, TRUE) /\ pc[w] = "store")
        PROVE  PullOf(w)'
    <3>1. pulled[w] # {}
      BY <1>2, <2>2 DEF PullOf, Telling
    <3>2. pc'[w] = "pull"
      BY <1>0, <2>2, <3>1 DEF EndTask, Goto, WorkOK
    <3>3. PICK e \in pulled[w] : acks' = acks \/ (pc[w] = "store" /\ acks' = [acks EXCEPT ![w] = @ \cup {e}])
      BY <2>2, <3>1 DEF EndTask
    <3>4. pc[w] = "store" => Done(e)'
      BY <1>0, <1>2, <2>0 DEF PullOf
    <3>5. \A d \in acks'[w] : Done(d)'
      BY <1>0, <2>0, <3>3, <3>4 DEF PullOK
    <3>. QED
      BY <3>2, <3>5 DEF PullOf, Telling
  <2>3. CASE Pull(w) \/ Process(w)
    <3>1. /\ pc'[w] = "pull" \/ (pc'[w] = "read" /\ pulled'[w] # {})
          /\ acks' = acks /\ queue' = queue /\ notes' = notes
      BY <1>0, <2>3 DEF Pull, Process, Goto, WorkOK, upstream
    <3>2. PullOf(w)'
      BY <2>0, <3>1 DEF PullOf, Telling
    <3>. QED
      BY <1>2, <1>3, <3>1, <3>2
  <2>4. CASE PullUnmapped(w)
    <3>1. PICK e \in pulled[w] : acks' = [acks EXCEPT ![w] = @ \cup {e}] /\ silent' = silent \cup {e}
      BY <2>4 DEF PullUnmapped
    <3>2. /\ pc'[w] = "pull" /\ queue' = queue /\ notes' = notes
      BY <2>4 DEF PullUnmapped, upstream
    <3>3. Done(e)'
      BY <3>1 DEF Done
    <3>4. \A d \in acks'[w] : Done(d)'
      BY <1>0, <2>0, <3>1, <3>3 DEF PullOK
    <3>5. PullOf(w)'
      BY <3>2, <3>4 DEF PullOf, Telling
    <3>. QED
      BY <1>2, <1>3, <3>2, <3>5
  <2>5. CASE PullDone(w)
    <3>1. notes' = notes \ acks[w] /\ acks'[w] = {} /\ pc'[w] = "idle" /\ queue' = queue
      BY <1>0, <2>5 DEF PullDone, Goto, WorkOK, PullOK
    <3>2. PullOf(w)'
      BY <3>1 DEF PullOf, Telling
    <3>3. \A e \in Later' : Done(e)' \/ e \in notes'
      BY <1>0, <1>2, <2>0, <3>1
    <3>. QED
      BY <1>2, <3>1, <3>2, <3>3
  <2>6. CASE Read(w) \/ ReadUnknown(w)
    <3>1. /\ UNCHANGED <<pulled, acks, queue, notes>> /\ pulled[w] # {}
      BY <1>2, <2>6 DEF Read, ReadUnknown, PullOf, Telling, upstream
    <3>2. \/ pc'[w] = "pipe" /\ \A e \in Events : Done(e)' \/ box'[e].msg \in ids'[w]
          \/ pc'[w] = "store" /\ \A e \in Events : Done(e)'
      BY <2>6, ReadTells
    <3>3. PullOf(w)'
      BY <2>0, <3>1, <3>2 DEF PullOf
    <3>. QED
      BY <1>2, <1>3, <3>1, <3>3
  <2>7. CASE Pipe(w)
    <3>1. /\ pc[w] = "pipe" /\ pc'[w] = "delete" /\ UNCHANGED <<pulled, acks, queue, notes>>
      BY <2>7, ReadTells DEF Pipe, Index, upstream
    <3>2. \A e \in pulled[w] : Done(e)'
      BY <1>0, <1>2, <2>0, <2>7, <3>1, ReadTells DEF PullOf
    <3>3. pulled[w] # {}
      BY <1>2, <3>1 DEF PullOf, Telling
    <3>4. PullOf(w)'
      BY <2>0, <3>1, <3>2, <3>3 DEF PullOf
    <3>. QED
      BY <1>2, <1>3, <3>1, <3>4
  <2>8. CASE Delete(w)
    <3>1. /\ pc[w] = "delete" /\ pc'[w] = "store" /\ UNCHANGED <<pulled, acks, queue, notes>>
      BY <1>0, <2>8 DEF Delete, Goto, WorkOK, upstream
    <3>2. pulled[w] # {} /\ \A e \in pulled[w] : Done(e)'
      BY <1>0, <1>2, <2>0, <3>1 DEF PullOf, Telling
    <3>3. PullOf(w)'
      BY <2>0, <3>1, <3>2 DEF PullOf
    <3>. QED
      BY <1>2, <1>3, <3>1, <3>3
  <2>9. CASE NoCursorTask(w) \/ Store(w) \/ Raise(w)
    <3>1. PullOf(w)'
      BY <2>2, <2>9 DEF NoCursorTask, Store, Raise
    <3>2. pulled[w] # {}
      BY <1>2, <2>9 DEF NoCursorTask, Store, Raise, PullOf, Telling
    <3>3. queue' = queue /\ notes' = notes
      BY <2>9, <3>2 DEF NoCursorTask, Store, Raise, upstream
    <3>. QED
      BY <1>2, <1>3, <3>1, <3>3
  <2>. QED
    BY <1>8, <2>1, <2>3, <2>4, <2>5, <2>6, <2>7, <2>8, <2>9 DEF Notify
<1>9. ASSUME NEW m \in Msg, NEW g \in BOOLEAN, Happen(m, g)
      PROVE  UNCHANGED <<pc, pulled, acks, ids>> /\ notes \subseteq notes' /\ queue' = queue
  BY <1>9 DEF Happen, worker
<1>10. Elsewhere => UNCHANGED <<pc, pulled, acks, ids>> /\ notes \subseteq notes' /\ queue' = queue
  BY ElsewhereAlone DEF Elsewhere, Forgotten, TermPasses, Renewal, RenewBegin, RenewStop, RenewRegister, RenewFails,
     Webhook, upstream
<1>11. UNCHANGED vars => UNCHANGED <<pc, pulled, acks, ids>> /\ notes \subseteq notes' /\ queue' = queue
  BY DEF vars, worker, upstream
<1>. QED
  BY <1>5, <1>6, <1>7, <1>8, <1>9, <1>10, <1>11, WhoseStep

\* When nothing is in progress, an arrival whose notification was acknowledged is
\* in the index: a failed run never takes a notification with it.
THEOREM NothingForgotten == Spec => []AcknowledgedIsIndexed
<1>. DEFINE Inv == ArriveInv /\ PushInv /\ PulledInv
<1>1. Init => Inv
  <2>. SUFFICES ASSUME Init PROVE ArriveInv /\ PushInv /\ PulledInv
    OBVIOUS
  <2>1. ArriveInv
    BY ArriveInit
  <2>2. Now = Len(Present) /\ Len(Present) \in Nat
    BY MessagesAssumption DEF Init, Now
  <2>3. Later = {}
    BY <2>2 DEF Later
  <2>4. queue = 0 /\ \A w \in Worker : pc[w] = "idle" /\ pulled[w] = {} /\ acks[w] = {}
    BY DEF Init
  <2>. QED
    BY <2>1, <2>3, <2>4 DEF PushInv, PulledInv, PullOf, Telling
<1>2. Inv /\ [Next]_vars => Inv'
  <2>. SUFFICES ASSUME ArriveInv, PushInv, PulledInv, [Next]_vars PROVE ArriveInv' /\ PushInv' /\ PulledInv'
    OBVIOUS
  <2>1. ArriveInv'
    BY ArriveStep
  <2>2. TypeOK' /\ ReadInv'
    BY <2>1 DEF ArriveInv
  <2>. QED
    BY <2>1, <2>2, PushStep, PulledStep
<1>3. Inv => AcknowledgedIsIndexed
  <2>. SUFFICES ASSUME ArriveInv, PushInv, PulledInv, cursor.kind = "history", queue = 0, \A w \in Worker : pc[w] = "idle",
                       NEW e \in Events \ (notes \cup silent \cup missed), ~box[e].gone, box[e].msg \in Alive
                PROVE  box[e].msg \in index
    BY DEF AcknowledgedIsIndexed
  <2>1. Now \in Nat /\ Len(Present) \in Nat /\ cursor.at >= Len(Present) /\ cursor.at \in Nat /\ push \in BOOLEAN
    BY TypeParts, MessagesAssumption DEF ArriveInv, KnownInv, Known, BoxOK, FlagsOK, RowsOK, Cursor, Now
  <2>2. Arrival(e)
    BY DEF Arrival
  <2>3. CASE e \in Later
    <3>1. Done(e)
      BY <2>1, <2>3 DEF PushInv, PulledInv, OnItsWay
    <3>. QED
      BY <2>2, <3>1 DEF Done
  <2>4. CASE e \notin Later
    <3>1. e \in 1..cursor.at
      BY <2>1, <2>4 DEF Later, Events
    <3>2. Covered(cursor.at, {})
      BY DEF ArriveInv, ReadInv
    <3>. QED
      BY <2>2, <3>1, <3>2 DEF Covered
  <2>. QED
    BY <2>3, <2>4
<1>. QED
  BY <1>1, <1>2, <1>3, PTL DEF Spec
==============================================================================
