---------------------------- MODULE PrincipalMatch ----------------------------
(***************************************************************************)
(* How a person named by a source becomes a principal of the tenant, for   *)
(* the sources that may create one: by the e-mail address, by a name the   *)
(* same source knows, or by a new row.  Calls of several workers overlap;  *)
(* the table's unique address decides between two that create.             *)
(*                                                                         *)
(* A principal found is written back whole when the source is new to it,   *)
(* so one of two writers that read the same row loses what it added.       *)
(***************************************************************************)
EXTENDS Integers, FiniteSets

CONSTANTS
    None,
    Worker,
    Address,
    Source,
    Name,         \* what a source calls a person: an external id, or a username
    MaxCalls,     \* bound
    MaxFaults     \* bound: writes that fail

VARIABLES
    principals, \* address -> its row: an id, and source -> name; or None
    matching,   \* worker -> the call it is in, or None
    matched,    \* history: address, source and id of the calls answered by address
    overtaken,  \* history: the addresses whose row was written back after it changed
    calls,      \* bound, and the ids: a call's row would have its number
    faults      \* bound

vars == <<principals, matching, matched, overtaken, calls, faults>>

Init ==
    /\ principals = [a \in Address |-> None]
    /\ matching = [w \in Worker |-> None]
    /\ matched = {} /\ overtaken = {}
    /\ calls = 0 /\ faults = 0

At(w, step) == matching[w] # None /\ matching[w].step = step

Steps(w, step) == matching' = [matching EXCEPT ![w].step = step]

\* _normalize_email: an address that is none counts as missing.
Normalized == Address \cup {None}

\* A hint: an address or None, the source and its id, a username or None.
Resolve(w, address, source, name, username) ==
    /\ matching[w] = None
    /\ calls < MaxCalls /\ calls' = calls + 1
    /\ matching' = [matching EXCEPT ![w] =
         [step |-> IF address = None THEN "username" ELSE "address", id |-> calls',
          address |-> address, source |-> source, name |-> name, username |-> username,
          read |-> None]]
    /\ UNCHANGED <<principals, matched, overtaken, faults>>

\* The call returns the principal of its address.
Answers(w, id) ==
    /\ matching' = [matching EXCEPT ![w] = None]
    /\ matched' = matched \cup {[address |-> matching[w].address,
                                 source |-> matching[w].source, id |-> id]}

\* It ends without, with the principal of another address or an error.
Leaves(w) == matching' = [matching EXCEPT ![w] = None] /\ UNCHANGED matched

\* _update_source_identity: the first name of a source stays.
Found(w, row) ==
    IF row.names[matching[w].source] # None THEN Answers(w, row.id)
    ELSE /\ matching' = [matching EXCEPT ![w].step = "update", ![w].read = row]
         /\ UNCHANGED matched

MatchByEmail(w) ==
    /\ At(w, "address")
    /\ LET row == principals[matching[w].address] IN
       IF row # None THEN Found(w, row)
       ELSE Steps(w, "username") /\ UNCHANGED matched
    /\ UNCHANGED <<principals, overtaken, calls, faults>>

\* The rows in which the source has the username for its id.
Named(c) ==
    {a \in Address : principals[a] # None /\ c.username # None
                     /\ principals[a].names[c.source] = c.username}

\* One row answers the call, whatever its address; of two, the query raises;
\* with none, an address gets a row of its own and its absence is an error.
MatchByUsername(w) ==
    LET c == matching[w] IN
    /\ At(w, "username")
    /\ IF Named(c) = {} /\ c.address # None THEN Steps(w, "create") /\ UNCHANGED matched
       ELSE Leaves(w)
    /\ UNCHANGED <<principals, overtaken, calls, faults>>

Row(id, source, name) ==
    [id |-> id, names |-> [s \in Source |-> IF s = source THEN name ELSE None]]

CreatePrincipal(w) ==
    LET c == matching[w] IN
    /\ At(w, "create") /\ principals[c.address] = None
    /\ principals' = [principals EXCEPT ![c.address] = Row(c.id, c.source, c.name)]
    /\ Answers(w, c.id)
    /\ UNCHANGED <<overtaken, calls, faults>>

\* Mutant: the loser of the race returns the principal it did not create.
LoseRaceOwn(w) == Answers(w, matching[w].id)

\* The unique address refuses the row: whoever has it is asked for.
LoseRace(w) == Found(w, principals[matching[w].address])

CreateRefused(w) ==
    /\ At(w, "create") /\ principals[matching[w].address] # None
    /\ LoseRace(w)
    /\ UNCHANGED <<principals, overtaken, calls, faults>>

\* update_principal: all names of the row are replaced by the copy's.
UpdatePrincipal(w) ==
    LET c == matching[w] IN
    /\ At(w, "update")
    /\ principals' = [principals EXCEPT ![c.address] =
                        [c.read EXCEPT !.names[c.source] = c.name]]
    /\ overtaken' = IF principals[c.address] = c.read THEN overtaken
                    ELSE overtaken \cup {c.address}
    /\ Answers(w, c.read.id)
    /\ UNCHANGED <<calls, faults>>

\* A write that fails for another reason ends the call without an answer.
WriteFails(w) ==
    /\ At(w, "create") \/ At(w, "update")
    /\ faults < MaxFaults /\ faults' = faults + 1
    /\ Leaves(w)
    /\ UNCHANGED <<principals, overtaken, calls>>

Next ==
    \E w \in Worker :
        \/ \E a \in Normalized, s \in Source, n \in Name, u \in Name \cup {None} :
             Resolve(w, a, s, n, u)
        \/ MatchByEmail(w) \/ MatchByUsername(w)
        \/ CreatePrincipal(w) \/ CreateRefused(w) \/ UpdatePrincipal(w) \/ WriteFails(w)

Spec == Init /\ [][Next]_vars

-----------------------------------------------------------------------------
\* Every call answered by an address was given the principal the address has,
\* and the principal is known to the call's source, unless its row was written
\* back over a change (identity/resolver.py 51-135 and 262-335,
\* canonical_repo.py 328-402, models/canonical.py 46-56).
SameIdentity ==
    \A m \in matched : LET row == principals[m.address] IN
        /\ row # None /\ row.id = m.id
        /\ m.address \in overtaken \/ row.names[m.source] # None
=============================================================================
