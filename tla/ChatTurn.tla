------------------------------ MODULE ChatTurn ------------------------------
(***************************************************************************)
(* The assistant: a question, the graph that answers it (route, search,    *)
(* rank, generate) and the session it is stored in.                        *)
(*                                                                         *)
(* A session is one row in Postgres, and every API process also keeps the  *)
(* session objects it saw in a dictionary that it falls back on when       *)
(* Postgres does not answer or has no row.  A turn reads the session when  *)
(* it starts and writes all of it back when it ends, seconds later.  The   *)
(* object a turn starts from is the one in the dictionary, so the question *)
(* is appended there as well; the graph and the save work on a copy.       *)
(*                                                                         *)
(* Two answers decide what a turn can show.  The reader asks the access    *)
(* rows in Postgres; the search asks the indexes, whose terms an indexing  *)
(* run writes some time after it replaced the rows, or never, and which    *)
(* may let the user find what the reader refuses.                          *)
(*                                                                         *)
(* Scores and wording are left out: which hits are strong, which snippets  *)
(* are usable and what the model answers is any outcome.  Tenants and      *)
(* users do not occur: a session belongs to one user.                      *)
(***************************************************************************)
EXTENDS Naturals, Sequences, FiniteSets

CONSTANTS Turn, Proc, Session, Source,
          Null,        \* no session stored
          MaxRounds,   \* settings.llm_max_tool_call_rounds
          MaxOutages, MaxErrors, MaxCrashes, MaxRuns   \* bounds

ASSUME ChatAssumption ==
  /\ MaxRounds \in Nat \ {0}
  /\ {MaxOutages, MaxErrors, MaxCrashes, MaxRuns} \subseteq Nat
  /\ Null \notin Seq([role : {"user", "assistant"}, turn : Turn])

VARIABLES
  row,      \* Session -> history_json of the row in Postgres, or Null
  held,     \* Proc -> Session -> history in _fallback_sessions, or Null
  dbUp,     \* Postgres answers
  turn,     \* Turn -> its state, see Idle
  allowed,  \* documents that the rows let the user read
  findable, \* documents whose index terms let the user find them
  jobs,     \* indexing runs that replaced the rows and have the terms to write
  budget,   \* what is left of the bounds
  could,    \* history: Turn -> documents readable at some time of the turn
  adrift,   \* history: Turn -> documents that were not settled when it searched
  crossed,  \* history: documents whose last runs overlapped, stopped or added terms
  blind,    \* history: turns that started while Postgres was down
  excused   \* history: turns whose row another turn may overwrite

store == <<row, held>>
access == <<allowed, findable, jobs, crossed>>
history == <<could, adrift, blind, excused>>
chatVars == <<row, held, dbUp, turn, access, budget, history>>

Roles == {"user", "assistant"}
Said(who, t) == [role |-> who, turn |-> t]
Intents == {"greeting", "read", "search"}
Answers == {"none", "greeting", "text", "refuse", "extractive", "apology", "fallback"}

Idle == [pc |-> "idle", at |-> Null, in |-> Null, copy |-> <<>>, intent |-> "search",
         rounds |-> 0, hits |-> {}, answer |-> "none", cites |-> {}]

\* What is left of a turn that ended; its session and its answer.
Ended(t, pc) == [Idle EXCEPT !.pc = pc, !.in = turn[t].in,
                             !.answer = turn[t].answer, !.cites = turn[t].cites]

ChatInit ==
  /\ row = [s \in Session |-> Null]
  /\ held = [p \in Proc |-> [s \in Session |-> Null]]
  /\ dbUp = TRUE
  /\ turn = [t \in Turn |-> Idle]
  /\ allowed \in SUBSET Source /\ findable = allowed /\ jobs = {}
  /\ budget = [outages |-> MaxOutages, faults |-> MaxErrors,
               crashes |-> MaxCrashes, runs |-> MaxRuns]
  /\ could = [t \in Turn |-> {}] /\ adrift = [t \in Turn |-> {}]
  /\ crossed = {} /\ blind = {} /\ excused = {}

InFlight(t) == turn[t].pc \notin {"idle", "done", "lost"}
Move(t, r) == turn' = [turn EXCEPT ![t] = r]

\* BOUND: so many events of a kind.
Spend(kind) == budget[kind] > 0 /\ budget' = [budget EXCEPT ![kind] = @ - 1]

(***************************************************************************)
(* The session store of process p.                                         *)
(***************************************************************************)

\* load_session: the row, or without one or without Postgres the object of
\* this process.
Loaded(p, s) == IF dbUp /\ row[s] # Null THEN row[s] ELSE held[p][s]

\* A session that was read is the object the dictionary holds from now on.
Remembered(p, s, h) == IF h = Null THEN held ELSE [held EXCEPT ![p][s] = h]

\* save_session: the dictionary, and the row unless Postgres is down.
Save(p, s, h) ==
  /\ held' = [held EXCEPT ![p][s] = h]
  /\ row' = IF dbUp THEN [row EXCEPT ![s] = h] ELSE row

(***************************************************************************)
(* A turn.                                                                 *)
(***************************************************************************)

\* The history a turn starts with: an unknown session is a new, empty one
\* that nobody stores yet.
Opened(p, s) == IF Loaded(p, s) = Null THEN <<>> ELSE Loaded(p, s)

\* orchestrator_chat and the start of arun: load, append the question to the
\* object the dictionary holds, and copy.  No await in between.
Ask(t, p, s, intent) ==
  LET h == Append(Opened(p, s), Said("user", t)) IN
  /\ turn[t].pc = "idle"
  /\ Move(t, [Idle EXCEPT !.pc = "search", !.at = p, !.in = s, !.copy = h, !.intent = intent])
  /\ held' = IF Loaded(p, s) = Null THEN held ELSE Remembered(p, s, h)
  /\ could' = [could EXCEPT ![t] = allowed]
  /\ blind' = IF dbUp THEN blind ELSE blind \cup {t}
  /\ UNCHANGED <<row, dbUp, access, budget, adrift, excused>>

\* parallel_searcher for a greeting: no tool is called.
SkipSearch(t) ==
  /\ turn[t].pc = "search" /\ turn[t].intent = "greeting"
  /\ Move(t, [turn[t] EXCEPT !.pc = "generate"])
  /\ UNCHANGED <<store, dbUp, access, budget, history>>

\* Mutant: the search is not given the terms of the user.
FederatedUnfiltered == SUBSET Source

\* _federated_search: over HTTP or in the process, always with the user's
\* terms, which the engines compare with the terms they hold; a search that
\* fails is one without hits.
FederatedHits == SUBSET findable

\* Documents whose index terms need not be those of the rows in force.
Adrift == crossed \cup {j.doc : j \in jobs}

\* read_document: the reader checks the user's access itself, and may fail.
ReaderAnswers(d, ok) == ok => d \in allowed

\* parallel_searcher: one federated search.
FederatedSearch(t, found) ==
  /\ turn[t].pc = "search" /\ turn[t].intent = "search"
  /\ found \in FederatedHits
  /\ Move(t, [turn[t] EXCEPT !.pc = "rank", !.hits = found, !.rounds = @ + 1])
  /\ adrift' = [adrift EXCEPT ![t] = @ \cup Adrift]
  /\ UNCHANGED <<store, dbUp, access, budget, could, blind, excused>>

\* parallel_searcher for an attachment: without an answer of the reader there
\* is nothing to go on with.
ReadAttachment(t, d, ok) ==
  /\ turn[t].pc = "search" /\ turn[t].intent = "read"
  /\ ReaderAnswers(d, ok)
  /\ Move(t, [turn[t] EXCEPT !.pc = "generate", !.hits = IF ok THEN {d} ELSE {},
                             !.rounds = @ + 1])
  /\ UNCHANGED <<store, dbUp, access, budget, history>>

\* Mutant: without hits there is nothing to rank, and nobody goes on.
RankHits(t) ==
  /\ turn[t].pc = "rank" /\ turn[t].hits # {}
  /\ Move(t, [turn[t] EXCEPT !.pc = "generate"])
  /\ UNCHANGED <<store, dbUp, access, budget, history>>

\* personalized_ranker: the hits are good enough, or no round is left.
Rank(t) ==
  /\ turn[t].pc = "rank"
  /\ Move(t, [turn[t] EXCEPT !.pc = "generate"])
  /\ UNCHANGED <<store, dbUp, access, budget, history>>

\* Mutant: the read counts as two rounds, one for the refused attempt.
ReadTopTwice(t) ==
  /\ turn[t].pc = "rank" /\ turn[t].hits # {} /\ turn[t].rounds < MaxRounds
  /\ Move(t, [turn[t] EXCEPT !.pc = "generate", !.rounds = @ + 2])
  /\ UNCHANGED <<store, dbUp, access, budget, history>>

\* personalized_ranker with weak hits and no usable snippet: the top document
\* is read.  Whatever the reader answers, the hits stay.
ReadTop(t) ==
  /\ turn[t].pc = "rank" /\ turn[t].hits # {} /\ turn[t].rounds < MaxRounds
  /\ Move(t, [turn[t] EXCEPT !.pc = "generate", !.rounds = @ + 1])
  /\ UNCHANGED <<store, dbUp, access, budget, history>>

\* filter_relevant_hits: some of the hits, at least one.
KeptHits(hits) == IF hits = {} THEN {{}} ELSE SUBSET hits \ {{}}

\* What the candidate models, tried one after the other, come back with.
Generated == {"text", "refuse", "nothing"}

\* The answer to that: without a text the snippets of the hits, if any is
\* usable, or an apology.
Answered(generated, hits) ==
  IF generated # "nothing" THEN {generated}
  ELSE {"apology"} \cup (IF hits = {} THEN {} ELSE {"extractive"})

\* A greeting is not sent to the model.
Possible(t, hits) ==
  IF turn[t].intent = "greeting" THEN {"greeting"}
  ELSE UNION {Answered(g, hits) : g \in Generated}

\* Only an answer from the sources shows them.
Cited(answer, hits) == IF answer \in {"text", "extractive"} THEN hits ELSE {}

\* response_generator.
Generate(t, hits, answer) ==
  /\ turn[t].pc = "generate"
  /\ hits \in KeptHits(turn[t].hits)
  /\ answer \in Possible(t, hits)
  /\ Move(t, [turn[t] EXCEPT !.pc = "save", !.hits = {}, !.rounds = 0,
                             !.intent = "search", !.answer = answer, !.cites = Cited(answer, hits)])
  /\ UNCHANGED <<store, dbUp, access, budget, history>>

\* Turns of s that are saved, and others than t that are on their way.
Saved(s) == {u \in Turn : turn[u].in = s /\ turn[u].pc = "done" /\ turn[u].answer # "fallback"}
Others(t) == {u \in Turn \ {t} : InFlight(u) /\ turn[u].in = turn[t].in}

\* The turns whose place in the row is not safe once t saves: t itself when
\* the save fails or another turn that read before it will save after it, and
\* what was answered before when t did not start from the row.
Endangered(t) ==
  (IF dbUp /\ Others(t) = {} THEN {} ELSE {t})
    \cup (IF t \in blind THEN Saved(turn[t].in) ELSE {})

\* Mutant: the answer is appended to the object the dictionary holds.
FinishShared(t) ==
  LET p == turn[t].at   s == turn[t].in
      h == IF held[p][s] = Null THEN turn[t].copy ELSE held[p][s] IN
  /\ turn[t].pc = "save"
  /\ Save(p, s, Append(h, Said("assistant", t)))
  /\ Move(t, Ended(t, "done"))
  /\ excused' = excused \cup Endangered(t)
  /\ UNCHANGED <<dbUp, access, budget, could, adrift, blind>>

\* The end of arun: the answer is appended to the copy, and the copy saved.
Finish(t) ==
  LET p == turn[t].at   s == turn[t].in IN
  /\ turn[t].pc = "save"
  /\ Save(p, s, Append(turn[t].copy, Said("assistant", t)))
  /\ Move(t, Ended(t, "done"))
  /\ excused' = excused \cup Endangered(t)
  /\ UNCHANGED <<dbUp, access, budget, could, adrift, blind>>

\* An exception in the graph: orchestrator_chat answers all the same, and
\* nothing of the turn is saved.
Raise(t) ==
  /\ InFlight(t) /\ Spend("faults")
  /\ Move(t, [Ended(t, "done") EXCEPT !.answer = "fallback", !.cites = {}])
  /\ UNCHANGED <<store, dbUp, access, history>>

(***************************************************************************)
(* Around the turns.                                                       *)
(***************************************************************************)

\* get_session: reading a session replaces the object in the dictionary.
View(p, s) ==
  /\ held' = Remembered(p, s, Loaded(p, s))
  /\ UNCHANGED <<row, dbUp, turn, access, budget, history>>

\* Postgres, or its pooler, stops answering, or comes back.
Outage ==
  /\ IF dbUp THEN Spend("outages") ELSE UNCHANGED budget
  /\ dbUp' = ~dbUp
  /\ UNCHANGED <<store, turn, access, history>>

\* An API process dies: its dictionary and its requests are gone.
Crash(p) ==
  /\ Spend("crashes")
  /\ held' = [held EXCEPT ![p] = [s \in Session |-> Null]]
  /\ turn' = [t \in Turn |-> IF InFlight(t) /\ turn[t].at = p
                             THEN [Ended(t, "lost") EXCEPT !.answer = "none", !.cites = {}] ELSE turn[t]]
  /\ UNCHANGED <<row, dbUp, access, history>>

\* S with d or without it.
Marked(S, d, in) == IF in THEN S \cup {d} ELSE S \ {d}

\* replace_acl_entries: a run replaces the rows of d, which let the user read it
\* from now on or no more, and makes the terms that it will index.  More terms
\* than those of such rows may lead the user to d: of the user who connected
\* the source, of a group, and of a row that denies.
ReplaceRows(d, lets, more) ==
  LET after == Marked(allowed, d, lets) IN
  /\ Spend("runs")
  /\ allowed' = after
  /\ jobs' = jobs \cup {[doc |-> d, find |-> lets \/ more, no |-> budget.runs]}
  /\ crossed' = Marked(crossed, d, (more /\ ~lets) \/ \E j \in jobs : j.doc = d)
  /\ could' = [t \in Turn |-> IF InFlight(t) THEN could[t] \cup after ELSE could[t]]
  /\ UNCHANGED <<store, dbUp, turn, findable, adrift, blind, excused>>

\* bulk_index: the run writes the terms.
WriteTerms(j) ==
  /\ findable' = Marked(findable, j.doc, j.find)
  /\ jobs' = jobs \ {j}
  /\ UNCHANGED <<store, dbUp, turn, allowed, crossed, budget, history>>

\* A run that fails or whose worker dies writes nothing.
StopRun(j) ==
  /\ jobs' = jobs \ {j}
  /\ crossed' = crossed \cup {j.doc}
  /\ UNCHANGED <<store, dbUp, turn, allowed, findable, budget, history>>

Step(t) ==
  \/ SkipSearch(t) \/ Rank(t) \/ ReadTop(t) \/ Finish(t)
  \/ \E found \in SUBSET Source : FederatedSearch(t, found)
  \/ \E d \in Source, ok \in BOOLEAN : ReadAttachment(t, d, ok)
  \/ \E hits \in SUBSET Source, answer \in Answers : Generate(t, hits, answer)

ChatNext ==
  \/ \E t \in Turn : Step(t) \/ Raise(t)
  \/ \E t \in Turn, p \in Proc, s \in Session, i \in Intents : Ask(t, p, s, i)
  \/ \E p \in Proc, s \in Session : View(p, s)
  \/ Outage
  \/ \E p \in Proc : Crash(p)
  \/ \E d \in Source, lets \in BOOLEAN, more \in BOOLEAN : ReplaceRows(d, lets, more)
  \/ \E j \in jobs : WriteTerms(j) \/ StopRun(j)

\* A process that runs goes on with its requests: every call has a timeout.
Fairness == \A t \in Turn : WF_chatVars(Step(t))

ChatSpec == ChatInit /\ [][ChatNext]_chatVars /\ Fairness

(***************************************************************************)
(* Properties.                                                             *)
(***************************************************************************)

Histories == Seq([role : Roles, turn : Turn]) \cup {Null}

\* Every variable keeps to its values.
ChatTypeOK ==
  /\ \A s \in Session : row[s] \in Histories /\ \A p \in Proc : held[p][s] \in Histories
  /\ dbUp \in BOOLEAN /\ allowed \cup findable \cup Adrift \subseteq Source
  /\ \A t \in Turn :
       /\ turn[t].pc \in {"idle", "search", "rank", "generate", "save", "done", "lost"}
       /\ turn[t].copy \in Histories
       /\ turn[t].rounds \in 0..MaxRounds /\ turn[t].intent \in Intents
       /\ turn[t].hits \subseteq Source /\ turn[t].cites \subseteq Source
  /\ blind \subseteq Turn /\ excused \subseteq Turn

Stored == ({row[s] : s \in Session} \cup {held[p][s] : p \in Proc, s \in Session}) \ {Null}

\* Wherever a session is stored, each answer stands right after its own
\* question, also when turns of one session overlap in a process and append
\* to one object.
AnswerFollowsQuestion ==
  \A h \in Stored : \A i \in DOMAIN h :
    h[i].role = "assistant" => i > 1 /\ h[i - 1] = Said("user", h[i].turn)

\* An answer is still in the row after every later turn, unless its save
\* failed, a turn that overlapped it or one that began in an outage wrote the
\* row after it.
TurnKept ==
  \A s \in Session : \A t \in Saved(s) \ excused :
    row[s] # Null /\ \E i \in DOMAIN row[s] : row[s][i] = Said("assistant", t)

\* A session is what was said in it, in order.
ConversationKept == AnswerFollowsQuestion /\ TurnKept

\* A turn cites only what the rows let the user read at some time of it.  The
\* search goes by the indexes, so this takes that rows and terms of a document
\* agree again once a run that no other overlapped, that did not stop and that
\* added no terms has written them: but for the other documents, named at the
\* search.
CitesReachable == \A t \in Turn : turn[t].cites \subseteq could[t] \cup adrift[t]

\* Every question gets an answer, of whatever kind, unless its process dies.
EveryTurnEnds == \A t \in Turn : InFlight(t) ~> turn[t].pc \in {"done", "lost"}
=============================================================================
