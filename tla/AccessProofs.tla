---------------------------- MODULE AccessProofs ----------------------------
(* Theorems about who may read what: AclCompile compiles the access lists,   *)
(* Retrieval filters by them, ChatTurn answers from what it found.  They     *)
(* hold for every set of folders, documents, turns and so on.                *)
EXTENDS AclCompile, Retrieval, ChatTurn,
        FiniteSetTheorems, SequenceTheorems, WellFoundedInduction, TLAPS

-----------------------------------------------------------------------------
(* What the climbs and the cache hold. *)

Stages == {"idle", "parent", "climb", "read"}

Shape ==
    /\ edge \in [Container -> Container \cup {None}]
    /\ cache \in [Container -> [chain : Seq(Container), age : 0..TTL]]
    /\ pc \in [Process -> Stages]
    /\ todo \in [Process -> Seq(Container)]
    /\ chain \in [Process -> Seq(Container)]
    /\ quiet \in 0..TTL
    /\ \A p \in Process : pc[p] \in {"climb", "read"} => todo[p] # <<>>

LEMMA ShapeInit == Init => Shape
BY NumbersAssumption DEF Init, Shape, Empty, Stages

\* The path of a climb, by its places.
LEMMA PathPlaces ==
  ASSUME NEW c \in Container, NEW ch \in Seq(Container)
  PROVE  /\ <<c>> \o ch \in Seq(Container) /\ Len(<<c>> \o ch) = Len(ch) + 1
         /\ (<<c>> \o ch)[1] = c /\ \A n \in 1..Len(ch) : (<<c>> \o ch)[n + 1] = ch[n]
         /\ Last(<<c>> \o ch) = (<<c>> \o ch)[Len(ch) + 1]
         /\ Last(<<c>> \o ch) \in Container
BY DEF Last

\* Going one folder up leaves the path below as it was.
LEMMA PathGrows ==
  ASSUME NEW c \in Container, NEW ch \in Seq(Container), NEW x \in Container
  PROVE  /\ Append(ch, x) \in Seq(Container) /\ Len(Append(ch, x)) = Len(ch) + 1
         /\ \A n \in 1..(Len(ch) + 1) : (<<c>> \o Append(ch, x))[n] = (<<c>> \o ch)[n]
         /\ (<<c>> \o Append(ch, x))[Len(ch) + 2] = x
OBVIOUS

LEMMA ShapeStep == ASSUME Shape, [Next]_vars PROVE Shape'
<1>. USE DEF Shape, Stages
<1>1. ASSUME NEW e \in Edges, UpsertEdge(e[1], e[2]) PROVE Shape'
  <2>1. e[1] \in Container /\ e[2] \in Container
    BY EditsAssumption
  <2>. QED
    BY <1>1, <2>1, NumbersAssumption DEF UpsertEdge, Invalidate, Empty, Edit, work
<1>2. ASSUME NEW a \in Grants, UpsertAcl(a[1], a[2], a[3]) PROVE Shape'
  BY <1>2, NumbersAssumption DEF UpsertAcl, Edit, work
<1>3. ASSUME NEW c \in Container, DeleteContainer(c) PROVE Shape'
  BY <1>3, NumbersAssumption DEF DeleteContainer, Edit, work
<1>4. ASSUME NEW m \in Memberships, CreateGroup(m[1], m[2], m[3]) PROVE Shape'
  BY <1>4, NumbersAssumption DEF CreateGroup, Edit, work
<1>5. ASSUME NEW p \in Process, NEW h \in Hints, Begin(p, h) PROVE Shape'
  BY <1>5, ParentsAssumption DEF Begin
<1>6. ASSUME NEW p \in Process, NextParent(p) PROVE Shape'
  <2>1. Head(todo[p]) \in Container /\ todo[p] # <<>>
    BY <1>6 DEF NextParent
  <2>2. /\ chain' \in {[chain EXCEPT ![p] = cache[Head(todo[p])].chain], [chain EXCEPT ![p] = <<>>]}
        /\ pc' \in {[pc EXCEPT ![p] = "read"], [pc EXCEPT ![p] = "climb"]}
    BY <1>6 DEF NextParent
  <2>3. UNCHANGED <<edge, cache, todo, quiet>>
    BY <1>6 DEF NextParent, folders
  <2>4. chain' \in [Process -> Seq(Container)]
    <3>1. cache[Head(todo[p])].chain \in Seq(Container)
      BY <2>1
    <3>2. <<>> \in Seq(Container)
      OBVIOUS
    <3>3. \A q \in Process : chain[q] \in Seq(Container)
      OBVIOUS
    <3>4. \E ch \in Seq(Container) : chain' = [chain EXCEPT ![p] = ch]
      BY <2>2, <3>1, <3>2
    <3>. QED
      BY <3>3, <3>4
  <2>5. pc' \in [Process -> Stages] /\ \A q \in Process : q = p \/ pc'[q] = pc[q]
    BY <2>2
  <2>. QED
    BY <2>1, <2>3, <2>4, <2>5
<1>7. ASSUME NEW p \in Process, Climb(p) PROVE Shape'
  <2>1. Head(todo[p]) \in Container
    BY <1>7 DEF Climb
  <2>2. Current(p) \in Container /\ edge[Current(p)] \in Container
    BY <1>7, <2>1, PathPlaces DEF Climb, Stops, Current, Path
  <2>. QED
    BY <1>7, <2>2 DEF Climb, folders
<1>8. ASSUME NEW p \in Process, Fill(p) PROVE Shape'
  BY <1>8, NumbersAssumption DEF Fill, folders
<1>9. ASSUME NEW p \in Process, ReadFolder(p) PROVE Shape'
  <2>1. UNCHANGED <<edge, cache, chain, quiet>> /\ todo[p] # <<>>
    BY <1>9 DEF ReadFolder, folders
  <2>2. \/ UNCHANGED <<pc, todo>>
        \/ todo' = [todo EXCEPT ![p] = Tail(@)] /\ pc' = [pc EXCEPT ![p] = "parent"]
    BY <1>9 DEF ReadFolder
  <2>3. Tail(todo[p]) \in Seq(Container)
    BY <2>1
  <2>4. CASE UNCHANGED <<pc, todo>>
    BY <2>1, <2>4
  <2>5. CASE todo' = [todo EXCEPT ![p] = Tail(@)] /\ pc' = [pc EXCEPT ![p] = "parent"]
    <3>1. todo' \in [Process -> Seq(Container)] /\ pc' \in [Process -> Stages]
      BY <2>3, <2>5
    <3>2. \A q \in Process : pc'[q] \in {"climb", "read"} => q # p /\ pc'[q] = pc[q] /\ todo'[q] = todo[q]
      BY <2>5
    <3>. QED
      BY <2>1, <3>1, <3>2
  <2>. QED
    BY <2>2, <2>4, <2>5
<1>10. ASSUME NEW p \in Process, Persist(p) PROVE Shape'
  BY <1>10 DEF Persist, folders
<1>11. CASE Tick
  <2>1. \A c \in Container : cache'[c] \in [chain : Seq(Container), age : 0..TTL]
    <3>1. ASSUME NEW c \in Container PROVE cache'[c] \in [chain : Seq(Container), age : 0..TTL]
      <4>1. cache[c] \in [chain : Seq(Container), age : 0..TTL]
        OBVIOUS
      <4>2. cache'[c] = Empty \/ (cache[c].age + 1 < TTL /\ cache'[c] = [cache[c] EXCEPT !.age = @ + 1])
        <5>1. cache'[c] = IF cache[c].age + 1 >= TTL THEN Empty ELSE [cache[c] EXCEPT !.age = @ + 1]
          BY <1>11 DEF Tick
        <5>. QED
          BY <4>1, <5>1, NumbersAssumption
      <4>3. CASE cache'[c] = Empty
        BY <4>3, NumbersAssumption DEF Empty
      <4>4. CASE cache[c].age + 1 < TTL /\ cache'[c] = [cache[c] EXCEPT !.age = @ + 1]
        <5>1. cache[c].age + 1 \in 0..TTL /\ cache[c].chain \in Seq(Container)
          BY <4>1, <4>4, NumbersAssumption
        <5>. QED
          BY <4>1, <4>4, <5>1
      <4>. QED
        BY <4>2, <4>3, <4>4
    <3>. QED
      BY <3>1
  <2>2. cache' \in [Container -> [chain : Seq(Container), age : 0..TTL]]
    BY <1>11, <2>1 DEF Tick
  <2>3. quiet' \in 0..TTL
    BY <1>11, NumbersAssumption DEF Tick
  <2>4. UNCHANGED <<edge, pc, todo, chain>>
    BY <1>11 DEF Tick, folders, work
  <2>. QED
    BY <2>2, <2>3, <2>4
<1>12. CASE UNCHANGED vars
  BY <1>12 DEF vars, folders, work
<1>. QED
  BY <1>1, <1>2, <1>3, <1>4, <1>5, <1>6, <1>7, <1>8, <1>9, <1>10, <1>11, <1>12 DEF Next, Compile

-----------------------------------------------------------------------------
(* A climb takes less than a tick, so one that is under way when a tick has  *)
(* passed since the last edit has seen no edit, and an entry that is younger *)
(* than the last edit was filled by such a climb.                            *)

\* The folders climbed so far are those the edges e give; all of them.
Follows(e, c, ch) == \A n \in 1..Len(ch) : (<<c>> \o ch)[n + 1] = e[(<<c>> \o ch)[n]]
Whole(e, c, ch) ==
    /\ Follows(e, c, ch)
    /\ \/ Len(ch) = MaxDepth \/ e[Last(<<c>> \o ch)] = None
       \/ Last(<<c>> \o ch) \in {(<<c>> \o ch)[n] : n \in 1..Len(ch)}

StaleInv ==
    /\ quiet > 0 => \A p \in Process : pc[p] = "climb" => Follows(edge, Head(todo[p]), chain[p])
    /\ \A c \in Container : cache[c].age < TTL /\ cache[c].age < quiet => Whole(edge, c, cache[c].chain)

\* One folder further up.
LEMMA FollowsOn ==
  ASSUME NEW e, NEW c \in Container, NEW ch \in Seq(Container), Follows(e, c, ch),
         e[Last(<<c>> \o ch)] \in Container
  PROVE  Follows(e, c, Append(ch, e[Last(<<c>> \o ch)]))
<1>. DEFINE x == e[Last(<<c>> \o ch)]
<1>. SUFFICES ASSUME NEW n \in 1..(Len(ch) + 1)
              PROVE  (<<c>> \o Append(ch, x))[n + 1] = e[(<<c>> \o Append(ch, x))[n]]
  BY PathGrows DEF Follows
<1>1. CASE n \in 1..Len(ch)
  BY <1>1, PathGrows DEF Follows
<1>2. CASE n = Len(ch) + 1
  <2>1. (<<c>> \o Append(ch, x))[Len(ch) + 1] = (<<c>> \o ch)[Len(ch) + 1]
    BY PathGrows
  <2>2. (<<c>> \o ch)[Len(ch) + 1] = Last(<<c>> \o ch)
    BY PathPlaces
  <2>3. n + 1 = Len(ch) + 2 /\ (<<c>> \o Append(ch, x))[Len(ch) + 2] = x
    BY <1>2, PathGrows
  <2>4. (<<c>> \o Append(ch, x))[n] = Last(<<c>> \o ch)
    BY <1>2, <2>1, <2>2, Zenon
  <2>5. (<<c>> \o Append(ch, x))[n + 1] = x
    BY <2>3, Zenon
  <2>. QED
    BY <2>4, <2>5, Zenon DEF x
<1>3. n \in 1..Len(ch) \/ n = Len(ch) + 1
  <2>1. \A l \in Nat : \A k \in 1..(l + 1) : k \in 1..l \/ k = l + 1
    OBVIOUS
  <2>2. Len(ch) \in Nat
    OBVIOUS
  <2>. QED
    BY <2>1, <2>2, Zenon
<1>. QED
  BY <1>1, <1>2, <1>3, Zenon

LEMMA StaleStep == ASSUME Shape, StaleInv, [Next]_vars PROVE StaleInv'
<1>. USE DEF Shape
<1>1. CASE edits' = edits + 1 /\ quiet' = 0
  BY <1>1, ShapeStep DEF StaleInv
<1>3. ASSUME UNCHANGED <<edge, cache, quiet>>,
             \A p \in Process : pc'[p] = "climb" =>
                  \/ Follows(edge, Head(todo'[p]), chain'[p])
                  \/ pc[p] = "climb" /\ todo'[p] = todo[p] /\ chain'[p] = chain[p]
      PROVE  StaleInv'
  BY <1>3 DEF StaleInv
<1>4. ASSUME NEW p \in Process, NEW h \in Hints, Begin(p, h) PROVE StaleInv'
  BY <1>3, <1>4 DEF Begin
<1>5. ASSUME NEW p \in Process, NextParent(p) PROVE StaleInv'
  <2>1. Follows(edge, Head(todo[p]), <<>>)
    BY DEF Follows
  <2>. QED
    BY <1>3, <1>5, <2>1 DEF NextParent, folders
<1>6. ASSUME NEW p \in Process, Climb(p) PROVE StaleInv'
  <2>1. Head(todo[p]) \in Container
    BY <1>6 DEF Climb
  <2>2. Current(p) = Last(<<Head(todo[p])>> \o chain[p]) /\ Current(p) \in Container
    BY <2>1, PathPlaces DEF Current, Path
  <2>3. edge[Current(p)] \in Container
    BY <1>6, <2>2 DEF Climb, Stops
  <2>4. Follows(edge, Head(todo[p]), chain[p]) => Follows(edge, Head(todo[p]), Append(chain[p], edge[Current(p)]))
    BY <2>1, <2>2, <2>3, FollowsOn
  <2>5. /\ UNCHANGED <<edge, cache, quiet, todo, pc>> /\ pc[p] = "climb"
        /\ chain' = [chain EXCEPT ![p] = Append(@, edge[Current(p)])]
    BY <1>6 DEF Climb, folders
  <2>. QED
    BY <2>4, <2>5 DEF StaleInv
<1>7. ASSUME NEW p \in Process, Fill(p) PROVE StaleInv'
  <2>1. Head(todo[p]) \in Container
    BY <1>7 DEF Fill
  <2>2. quiet > 0 => Whole(edge, Head(todo[p]), chain[p])
    BY <1>7 DEF Fill, StaleInv, Whole, Stops, Current, Visited, Path
  <2>3. /\ UNCHANGED <<edge, quiet, todo, chain>> /\ pc' = [pc EXCEPT ![p] = "read"]
        /\ cache' = [cache EXCEPT ![Head(todo[p])] = [chain |-> chain[p], age |-> 0]]
    BY <1>7 DEF Fill, folders
  <2>. QED
    BY <2>1, <2>2, <2>3, NumbersAssumption DEF StaleInv
<1>8. ASSUME NEW p \in Process, ReadFolder(p) PROVE StaleInv'
  <2>1. UNCHANGED <<edge, cache, chain, quiet>>
    BY <1>8 DEF ReadFolder, folders
  <2>2. /\ pc'[p] # "climb"
        /\ \A q \in Process \ {p} : pc'[q] = pc[q] /\ todo'[q] = todo[q]
    BY <1>8 DEF ReadFolder
  <2>. QED
    BY <1>3, <2>1, <2>2
<1>9. ASSUME NEW p \in Process, Persist(p) PROVE StaleInv'
  BY <1>3, <1>9 DEF Persist, folders
<1>10. CASE Tick
  <2>1. UNCHANGED <<edge, pc>> /\ \A p \in Process : pc[p] # "climb"
    BY <1>10 DEF Tick, folders, work
  <2>2. ASSUME NEW c \in Container, cache'[c].age < TTL, cache'[c].age < quiet'
        PROVE  Whole(edge, c, cache'[c].chain)
    <3>1. cache[c].age \in 0..TTL /\ quiet \in 0..TTL
      OBVIOUS
    <3>2. cache'[c].age = cache[c].age + 1 /\ cache'[c].chain = cache[c].chain /\ cache[c].age + 1 < TTL
      <4>1. cache'[c] = IF cache[c].age + 1 >= TTL THEN Empty ELSE [cache[c] EXCEPT !.age = @ + 1]
        BY <1>10 DEF Tick
      <4>2. CASE cache[c].age + 1 >= TTL
        BY <2>2, <4>1, <4>2, NumbersAssumption DEF Empty
      <4>3. CASE ~(cache[c].age + 1 >= TTL)
        BY <3>1, <4>1, <4>3, NumbersAssumption
      <4>. QED
        BY <4>2, <4>3
    <3>3. quiet' = quiet + 1 \/ (quiet = TTL /\ quiet' = TTL)
      BY <1>10, <3>1, NumbersAssumption DEF Tick
    <3>4. cache[c].age < TTL /\ cache[c].age < quiet
      BY <2>2, <3>1, <3>2, <3>3, NumbersAssumption
    <3>5. Whole(edge, c, cache[c].chain)
      BY <3>4 DEF StaleInv
    <3>. QED
      BY <3>2, <3>5
  <2>. QED
    BY <2>1, <2>2 DEF StaleInv
<1>11. CASE UNCHANGED vars
  BY <1>3, <1>11 DEF vars, folders, work
<1>. QED
  BY <1>1, <1>4, <1>5, <1>6, <1>7, <1>8, <1>9, <1>10, <1>11
     DEF Next, Compile, UpsertEdge, UpsertAcl, DeleteContainer, CreateGroup, Edit

\* Once no folder has changed for TTL, every chain the cache serves is the
\* true one, for any folders, any number of compilations under way, every
\* depth and every TTL.
THEOREM CacheSettles == Spec => []StaleOnlyWithinTTL
<1>1. Init => Shape /\ StaleInv
  <2>1. Init => StaleInv
    BY NumbersAssumption DEF Init, StaleInv, Empty
  <2>. QED
    BY <2>1, ShapeInit
<1>2. Shape /\ StaleInv /\ [Next]_vars => (Shape /\ StaleInv)'
  BY ShapeStep, StaleStep
<1>3. Shape /\ StaleInv => StaleOnlyWithinTTL
  <2>1. \A c \in Container : Whole(edge, c, cache[c].chain) => TrueChain(c, cache[c].chain)
    BY DEF Whole, Follows, TrueChain
  <2>. QED
    BY <2>1 DEF StaleInv, StaleOnlyWithinTTL
<1>. QED
  BY <1>1, <1>2, <1>3, PTL DEF Spec

-----------------------------------------------------------------------------
(* Finite sets and their orders.  Induction on a number is that a set of     *)
(* numbers that is not empty has a least member.                             *)

LEMMA LeastMember ==
  ASSUME NEW S, S \subseteq Nat, S # {}
  PROVE  \E n \in S : \A m \in S : n <= m
<1>. DEFINE L == {x \in Nat \X Nat : x[1] < x[2]}
<1>1. IsWellFoundedOn(L, Nat)
  <2>1. OpToRel(<, Nat) = L
    BY DEF OpToRel
  <2>2. IsWellFoundedOn(OpToRel(<, Nat), Nat)
    BY NatLessThanWellFounded
  <2>. QED
    BY <2>1, <2>2
<1>2. \A y, x \in Nat : <<y, x>> \in L <=> y < x
  OBVIOUS
<1>. HIDE DEF L
<1>3. \E x \in S : \A y \in S : ~ (<<y, x>> \in L)
  BY <1>1, WFMin
<1>4. PICK x \in S : \A y \in S : ~ (<<y, x>> \in L)
  BY <1>3
<1>5. \A y \in S : ~ (y < x)
  BY <1>2, <1>4
<1>6. \A y \in S : x <= y
  BY <1>5
<1>. QED
  BY <1>6

\* R orders S, strictly and totally.
Ranks(R, S) ==
    /\ \A x \in S : <<x, x>> \notin R
    /\ \A x, y, z \in S : <<x, y>> \in R /\ <<y, z>> \in R => <<x, z>> \in R
    /\ \A x, y \in S : x = y \/ <<x, y>> \in R \/ <<y, x>> \in R

Ascends(s, R) == \A j \in DOMAIN s : \A i \in 1..(j - 1) : <<s[i], s[j]>> \in R

LEMMA RanksPart ==
  ASSUME NEW R, NEW S, Ranks(R, S), NEW T, T \subseteq S
  PROVE  Ranks(R, T)
BY DEF Ranks

\* A finite set with one element less.
LEMMA OneLess ==
  ASSUME NEW S, IsFiniteSet(S), NEW x \in S, NEW n \in Nat, Cardinality(S) = n
  PROVE  IsFiniteSet(S \ {x}) /\ n - 1 \in Nat /\ Cardinality(S \ {x}) = n - 1
<1>1. IsFiniteSet(S \ {x}) /\ Cardinality(S \ {x}) = Cardinality(S) - 1
  BY FS_RemoveElement
<1>2. Cardinality(S \ {x}) \in Nat
  BY <1>1, FS_CardinalityType
<1>. QED
  BY <1>1, <1>2

Crowned(T, R) == \E m \in T : \A x \in T \ {m} : <<x, m>> \in R

\* A finite ordered set that is not empty has a greatest member.
LEMMA GreatestMember ==
  ASSUME NEW S, IsFiniteSet(S), NEW R, Ranks(R, S), S # {}
  PROVE  Crowned(S, R)
<1>. DEFINE Bad == {n \in Nat : \E T \in SUBSET S : T # {} /\ Cardinality(T) = n /\ ~Crowned(T, R)}
<1>1. SUFFICES ASSUME Bad # {} PROVE FALSE
  <2>1. Cardinality(S) \in Nat
    BY FS_CardinalityType
  <2>. QED
    BY <2>1
<1>2. PICK n \in Bad : \A m \in Bad : n <= m
  <2>1. Bad \subseteq Nat
    OBVIOUS
  <2>. HIDE DEF Bad
  <2>. QED
    BY <1>1, <2>1, LeastMember
<1>3. PICK T \in SUBSET S : T # {} /\ Cardinality(T) = n /\ ~Crowned(T, R)
  BY <1>2
<1>4. PICK x \in T : TRUE
  BY <1>3
<1>5. IsFiniteSet(T)
  BY <1>3, FS_Subset
<1>6. n - 1 \in Nat /\ Cardinality(T \ {x}) = n - 1
  BY <1>2, <1>3, <1>4, <1>5, OneLess
<1>7. n - 1 \notin Bad
  BY <1>2, <1>6
<1>8. T \ {x} # {} => Crowned(T \ {x}, R)
  BY <1>3, <1>6, <1>7
<1>9. CASE T \ {x} = {}
  BY <1>3, <1>4, <1>9 DEF Crowned
<1>10. CASE T \ {x} # {}
  <2>1. PICK m \in T \ {x} : \A y \in (T \ {x}) \ {m} : <<y, m>> \in R
    BY <1>8, <1>10 DEF Crowned
  <2>2. x \in S /\ m \in S /\ x # m /\ \A y \in T : y \in S
    BY <1>3, <1>4, <2>1
  <2>3. CASE <<x, m>> \in R
    BY <1>3, <2>1, <2>3 DEF Crowned
  <2>4. CASE <<m, x>> \in R
    <3>1. \A y \in T \ {x} : <<y, x>> \in R
      BY <2>1, <2>2, <2>4 DEF Ranks
    <3>. QED
      BY <1>3, <1>4, <3>1 DEF Crowned
  <2>. QED
    BY <2>2, <2>3, <2>4 DEF Ranks
<1>. QED
  BY <1>9, <1>10

\* A finite ordered set can be written down in its order.
Sorted(T, R) == \E s \in Orders(T) : Ascends(s, R)

LEMMA NothingSorted ==
  ASSUME NEW R
  PROVE  Sorted({}, R)
<1>. DEFINE s == [i \in 1..0 |-> i]
<1>1. Cardinality({}) = 0
  BY FS_EmptySet
<1>2. 1..0 = {}
  OBVIOUS
<1>3. s \in [1..Cardinality({}) -> {}] /\ DOMAIN s = {}
  BY <1>1, <1>2
<1>. HIDE DEF s
<1>4. s \in Orders({}) /\ Ascends(s, R)
  BY <1>3 DEF Orders, Ascends
<1>. QED
  BY <1>4 DEF Sorted

LEMMA GreatestLast ==
  ASSUME NEW T, IsFiniteSet(T), NEW R, NEW n \in Nat, Cardinality(T) = n,
         NEW m \in T, \A x \in T \ {m} : <<x, m>> \in R, Sorted(T \ {m}, R)
  PROVE  Sorted(T, R)
<1>1. n - 1 \in Nat /\ Cardinality(T \ {m}) = n - 1
  BY OneLess
<1>2. PICK s \in Orders(T \ {m}) : Ascends(s, R)
  BY DEF Sorted
<1>3. s \in [1..(n - 1) -> T \ {m}] /\ \A x \in T \ {m} : \E i \in 1..(n - 1) : s[i] = x
  BY <1>1 DEF Orders
<1>. DEFINE t == [i \in 1..n |-> IF i = n THEN m ELSE s[i]]
<1>4. \A i \in 1..(n - 1) : i \in 1..n /\ i # n
  BY <1>1
<1>5. n \in 1..n /\ \A i \in 1..n : i # n => i \in 1..(n - 1)
  BY <1>1
<1>6. DOMAIN t = 1..n /\ t[n] = m /\ \A i \in 1..(n - 1) : t[i] = s[i]
  BY <1>4, <1>5
<1>7. t \in [1..n -> T]
  BY <1>3, <1>5
<1>. HIDE DEF t
<1>8. \A x \in T : \E i \in 1..n : t[i] = x
  BY <1>3, <1>4, <1>5, <1>6
<1>9. t \in Orders(T)
  BY <1>6, <1>7, <1>8 DEF Orders
<1>10. ASSUME NEW j \in 1..n, NEW i \in 1..(j - 1) PROVE <<t[i], t[j]>> \in R
  <2>1. i \in 1..(n - 1)
    OBVIOUS
  <2>2. CASE j = n
    <3>1. s[i] \in T \ {m}
      BY <1>3, <2>1
    <3>. QED
      BY <1>6, <2>1, <2>2, <3>1
  <2>3. CASE j # n
    <3>1. j \in 1..(n - 1) /\ DOMAIN s = 1..(n - 1)
      BY <1>3, <1>5, <2>3
    <3>2. <<s[i], s[j]>> \in R
      BY <1>2, <3>1 DEF Ascends
    <3>. QED
      BY <1>6, <2>1, <3>1, <3>2
  <2>. QED
    BY <2>2, <2>3
<1>11. Ascends(t, R)
  BY <1>6, <1>10 DEF Ascends
<1>. QED
  BY <1>9, <1>11 DEF Sorted

LEMMA OrderedIsSorted ==
  ASSUME NEW S, IsFiniteSet(S), NEW R, Ranks(R, S)
  PROVE  Sorted(S, R)
<1>. DEFINE Bad == {n \in Nat : \E T \in SUBSET S : Cardinality(T) = n /\ ~Sorted(T, R)}
<1>1. SUFFICES ASSUME Bad # {} PROVE FALSE
  <2>1. Cardinality(S) \in Nat
    BY FS_CardinalityType
  <2>. QED
    BY <2>1
<1>2. PICK n \in Bad : \A m \in Bad : n <= m
  <2>1. Bad \subseteq Nat
    OBVIOUS
  <2>. HIDE DEF Bad
  <2>. QED
    BY <1>1, <2>1, LeastMember
<1>3. PICK T \in SUBSET S : Cardinality(T) = n /\ ~Sorted(T, R)
  BY <1>2
<1>4. IsFiniteSet(T) /\ Ranks(R, T)
  BY FS_Subset, RanksPart
<1>5. T # {}
  BY <1>3, NothingSorted
<1>6. PICK m \in T : \A x \in T \ {m} : <<x, m>> \in R
  BY <1>4, <1>5, GreatestMember DEF Crowned
<1>7. n \in Nat /\ n - 1 \in Nat /\ Cardinality(T \ {m}) = n - 1
  BY <1>2, <1>3, <1>4, OneLess
<1>8. n - 1 \notin Bad
  BY <1>2, <1>7
<1>9. Sorted(T \ {m}, R)
  BY <1>3, <1>7, <1>8
<1>. HIDE DEF Bad
<1>. QED
  BY <1>3, <1>4, <1>6, <1>7, <1>9, GreatestLast

LEMMA InOrderIsOrder ==
  ASSUME NEW S, IsFiniteSet(S), NEW R, Ranks(R, S)
  PROVE  InOrder(S, R) \in Orders(S)
<1>1. \E s \in Orders(S) : \A j \in DOMAIN s : \A i \in 1..(j - 1) : <<s[i], s[j]>> \in R
  BY OrderedIsSorted DEF Sorted, Ascends
<1>. QED
  BY <1>1 DEF InOrder

\* What an order of S is: a sequence of S, each member once.
Once(s) == \A i, j \in DOMAIN s : s[i] = s[j] => i = j

LEMMA OrderIsSequence ==
  ASSUME NEW S, IsFiniteSet(S), NEW s \in Orders(S)
  PROVE  s \in Seq(S) /\ Len(s) = Cardinality(S) /\ ToSet(s) = S /\ Once(s)
<1>. DEFINE n == Cardinality(S)
<1>1. n \in Nat
  BY FS_CardinalityType
<1>2. s \in [1..n -> S] /\ \A x \in S : \E i \in DOMAIN s : s[i] = x
  BY DEF Orders
<1>3. IsFiniteSet(1..n) /\ Cardinality(1..n) = n
  <2>. HIDE DEF n
  <2>1. 1 \in Int /\ n \in Int
    BY <1>1
  <2>2. IsFiniteSet(1..n) /\ Cardinality(1..n) = IF 1 > n THEN 0 ELSE n - 1 + 1
    BY <2>1, FS_Interval
  <2>. QED
    BY <1>1, <2>2
<1>4. s \in Surjection(1..n, S)
  <2>. HIDE DEF n
  <2>1. \A x \in S : \E i \in 1..n : s[i] = x
    BY <1>2
  <2>. QED
    BY <1>2, <2>1 DEF Surjection
<1>5. s \in Injection(1..n, S)
  BY <1>3, <1>4, FS_SurjSameCardinalityImpliesInj
<1>. HIDE DEF n
<1>6. Once(s)
  BY <1>2, <1>5 DEF Injection, IsInjective, Once
<1>7. s \in Seq(S) /\ Len(s) = n
  BY <1>1, <1>2
<1>8. ToSet(s) = S
  BY <1>2 DEF ToSet
<1>. QED
  BY <1>6, <1>7, <1>8 DEF n

LEMMA SequenceMembers ==
  ASSUME NEW S, NEW s \in Seq(S)
  PROVE  /\ Len(s) \in Nat /\ DOMAIN s = 1..Len(s)
         /\ \A i \in DOMAIN s : s[i] \in S
         /\ ToSet(s) \subseteq S
         /\ \A x \in ToSet(s) : \E i \in DOMAIN s : s[i] = x
         /\ \A i \in DOMAIN s : s[i] \in ToSet(s)
<1>1. Len(s) \in Nat /\ DOMAIN s = 1..Len(s) /\ \A i \in DOMAIN s : s[i] \in S
  OBVIOUS
<1>2. ToSet(s) = {s[i] : i \in DOMAIN s}
  BY DEF ToSet
<1>. QED
  BY <1>1, <1>2

\* The first place of a member is a number, and members differ in it.
LEMMA PlaceIsThere ==
  ASSUME NEW S, NEW s \in Seq(S), NEW x \in ToSet(s)
  PROVE  Place(s, x) \in Nat /\ s[Place(s, x)] = x
<1>. DEFINE At == {i \in DOMAIN s : s[i] = x}
<1>1. DOMAIN s = 1..Len(s) /\ Len(s) \in Nat
  BY SequenceMembers
<1>2. At \subseteq Nat /\ At # {}
  BY <1>1, SequenceMembers
<1>3. PICK n \in At : \A m \in At : n <= m
  <2>. HIDE DEF At
  <2>. QED
    BY <1>2, LeastMember
<1>4. \A j \in 1..(n - 1) : j \in DOMAIN s /\ ~ (n <= j)
  BY <1>1, <1>3
<1>5. \A j \in 1..(n - 1) : s[j] # x
  BY <1>3, <1>4
<1>6. \E i \in DOMAIN s : s[i] = x /\ \A j \in 1..(i - 1) : s[j] # x
  BY <1>3, <1>5
<1>7. Place(s, x) \in DOMAIN s /\ s[Place(s, x)] = x
  BY <1>6 DEF Place
<1>. QED
  BY <1>1, <1>7

\* `Only' keeps the members that are in S, each once.
LEMMA OnlyIsOrder ==
  ASSUME NEW D, IsFiniteSet(D), NEW s \in Seq(D), NEW S
  PROVE  Only(s, S) \in Orders(ToSet(s) \cap S) /\ IsFiniteSet(ToSet(s) \cap S)
<1>. DEFINE kept == ToSet(s) \cap S
            R == {x \in kept \X kept : Place(s, x[1]) < Place(s, x[2])}
<1>1. ToSet(s) \subseteq D
  BY SequenceMembers
<1>2. kept \in SUBSET D
  BY <1>1
<1>3. IsFiniteSet(kept)
  <2>. HIDE DEF kept
  <2>. QED
    BY <1>2, FS_Subset
<1>4. \A x \in kept : Place(s, x) \in Nat /\ s[Place(s, x)] = x
  BY PlaceIsThere
<1>5. \A x \in kept : \A y \in kept : <<x, y>> \in R <=> Place(s, x) < Place(s, y)
  OBVIOUS
<1>6. Only(s, S) = InOrder(kept, R)
  BY DEF Only
<1>. HIDE DEF kept, R
<1>7. Ranks(R, kept)
  <2>1. \A x \in kept : <<x, x>> \notin R
    BY <1>4, <1>5
  <2>2. \A x, y, z \in kept : <<x, y>> \in R /\ <<y, z>> \in R => <<x, z>> \in R
    BY <1>4, <1>5
  <2>3. ASSUME NEW x \in kept, NEW y \in kept
        PROVE  x = y \/ <<x, y>> \in R \/ <<y, x>> \in R
    <3>1. Place(s, x) \in Nat /\ Place(s, y) \in Nat /\ s[Place(s, x)] = x /\ s[Place(s, y)] = y
      BY <1>4
    <3>2. CASE Place(s, x) = Place(s, y)
      BY <3>1, <3>2
    <3>3. CASE Place(s, x) # Place(s, y)
      <4>1. Place(s, x) < Place(s, y) \/ Place(s, y) < Place(s, x)
        BY <3>1, <3>3
      <4>. QED
        BY <4>1, <1>5
    <3>. QED
      BY <3>2, <3>3
  <2>. QED
    BY <2>1, <2>2, <2>3 DEF Ranks
<1>8. InOrder(kept, R) \in Orders(kept)
  BY <1>3, <1>7, InOrderIsOrder
<1>. QED
  BY <1>3, <1>6, <1>8 DEF kept

LEMMA FirstOfSequence ==
  ASSUME NEW S, NEW s \in Seq(S), NEW n \in Nat
  PROVE  /\ First(n, s) \in Seq(S)
         /\ Len(First(n, s)) = IF Len(s) < n THEN Len(s) ELSE n
         /\ ToSet(First(n, s)) \subseteq ToSet(s)
         /\ Once(s) => Once(First(n, s))
         /\ Len(s) < n => ToSet(s) \subseteq ToSet(First(n, s))
<1>. DEFINE k == IF Len(s) < n THEN Len(s) ELSE n
            f == First(n, s)
<1>1. Len(s) \in Nat /\ DOMAIN s = 1..Len(s) /\ \A i \in DOMAIN s : s[i] \in S
  BY SequenceMembers
<1>2. k \in Nat /\ k <= Len(s) /\ (Len(s) < n => k = Len(s))
  <2>1. \A l \in Nat : LET m == IF l < n THEN l ELSE n
                       IN  m \in Nat /\ m <= l /\ (l < n => m = l)
    OBVIOUS
  <2>2. Len(s) \in Nat
    BY <1>1
  <2>. QED
    BY <2>1, <2>2, Zenon
<1>3. f = SubSeq(s, 1, k)
  BY DEF First
<1>. HIDE DEF k, f
<1>a. \A i \in 1..k : i \in DOMAIN s
  <2>1. \A l, m \in Nat : m <= l => \A i \in 1..m : i \in 1..l
    OBVIOUS
  <2>2. Len(s) \in Nat /\ k \in Nat /\ k <= Len(s)
    BY <1>1, <1>2, Zenon
  <2>3. \A i \in 1..k : i \in 1..Len(s)
    BY <2>1, <2>2, Zenon
  <2>. QED
    BY <2>3, <1>1, Zenon
<1>4. f \in Seq(S) /\ Len(f) = k /\ \A i \in 1..k : f[i] = s[i]
  <2>a. 1 \in Int /\ k \in Int
    <3>1. k \in Nat
      BY <1>2, Zenon
    <3>. QED
      BY <3>1
  <2>1. \A i \in 1..k : s[i] \in S
    BY <1>1, <1>a, Zenon
  <2>2. /\ SubSeq(s, 1, k) \in Seq(S)
        /\ Len(SubSeq(s, 1, k)) = IF 1 <= k THEN k - 1 + 1 ELSE 0
        /\ \A i \in 1..(k - 1 + 1) : SubSeq(s, 1, k)[i] = s[1 + i - 1]
    BY <2>a, <2>1, SubSeqProperties
  <2>3. (IF 1 <= k THEN k - 1 + 1 ELSE 0) = k /\ k - 1 + 1 = k /\ \A i \in 1..k : 1 + i - 1 = i
    BY <1>2
  <2>. QED
    BY <1>3, <2>2, <2>3
<1>5. DOMAIN f = 1..k /\ \A i \in 1..k : i \in DOMAIN s
  <2>1. DOMAIN f = 1..Len(f)
    BY <1>4, SequenceMembers
  <2>. QED
    BY <2>1, <1>4, <1>a
<1>6. \A x \in ToSet(f) : x \in ToSet(s)
  <2>1. \A x \in ToSet(f) : \E i \in 1..k : s[i] = x
    BY <1>4, <1>5, SequenceMembers
  <2>. QED
    BY <2>1, <1>5, SequenceMembers
<1>7. Once(s) => Once(f)
  BY <1>4, <1>5 DEF Once
<1>8. Len(s) < n => \A x \in ToSet(s) : x \in ToSet(f)
  <2>1. Len(s) < n => \A x \in ToSet(s) : \E i \in 1..k : f[i] = x
    BY <1>1, <1>2, <1>4, SequenceMembers
  <2>2. \A i \in 1..k : f[i] \in ToSet(f)
    BY <1>4, <1>5, SequenceMembers
  <2>. QED
    BY <2>1, <2>2
<1>. QED
  BY <1>4, <1>6, <1>7, <1>8 DEF k, f

\* The best 2 * n of what s has of S: n of them, or all.
LEMMA BestAreEnough ==
  ASSUME NEW D, IsFiniteSet(D), NEW s \in Seq(D), NEW S, NEW n \in Nat
  PROVE  LET f == First(2 * n, Only(s, S)) IN
         /\ f \in Seq(D) /\ Once(f)
         /\ ToSet(f) \subseteq ToSet(s) \cap S
         /\ Len(f) >= n \/ ToSet(s) \cap S \subseteq ToSet(f)
<1>. DEFINE o == Only(s, S)
            f == First(2 * n, o)
            K == ToSet(s) \cap S
<1>1. o \in Orders(K) /\ IsFiniteSet(K)
  BY OnlyIsOrder
<1>2. ToSet(s) \subseteq D
  BY SequenceMembers
<1>3. K \subseteq D
  BY <1>2
<1>. HIDE DEF o, K
<1>4. o \in Seq(K) /\ ToSet(o) = K /\ Once(o)
  BY <1>1, OrderIsSequence
<1>5. 2 * n \in Nat /\ Len(o) \in Nat
  BY <1>4
<1>6. /\ f \in Seq(K) /\ Len(f) = IF Len(o) < 2 * n THEN Len(o) ELSE 2 * n
      /\ ToSet(f) \subseteq ToSet(o) /\ Once(f)
      /\ Len(o) < 2 * n => ToSet(o) \subseteq ToSet(f)
  BY <1>4, <1>5, FirstOfSequence
<1>. HIDE DEF f
<1>7. f \in Seq(D)
  BY <1>3, <1>6
<1>8. Len(f) >= n \/ Len(o) < 2 * n
  BY <1>5, <1>6
<1>9. Len(f) >= n \/ K \subseteq ToSet(f)
  BY <1>4, <1>6, <1>8
<1>. QED
  BY <1>4, <1>6, <1>7, <1>9 DEF f, o, K

-----------------------------------------------------------------------------
(* The fusion orders what the backends found, and cuts it at a page.         *)

HitsAreSequences == \A b \in Backend : find.hits[b] \in Seq(Doc)

LEMMA JoinedMembers ==
  ASSUME NEW S, NEW s \in Seq(S), NEW t \in Seq(S)
  PROVE  s \o t \in Seq(S) /\ ToSet(s \o t) = ToSet(s) \cup ToSet(t)
<1>. DEFINE j == s \o t
<1>1. /\ j \in Seq(S) /\ Len(j) = Len(s) + Len(t)
      /\ \A i \in 1..(Len(s) + Len(t)) : j[i] = IF i <= Len(s) THEN s[i] ELSE t[i - Len(s)]
  BY ConcatProperties
<1>. HIDE DEF j
<1>2. /\ Len(s) \in Nat /\ DOMAIN s = 1..Len(s)
      /\ Len(t) \in Nat /\ DOMAIN t = 1..Len(t)
      /\ DOMAIN j = 1..Len(j)
  BY <1>1, SequenceMembers
<1>3. \A m, n \in Nat : /\ \A i \in 1..m : i \in 1..(m + n) /\ i <= m
                        /\ \A i \in 1..n : i + m \in 1..(m + n) /\ ~ (i + m <= m) /\ i + m - m = i
                        /\ \A i \in 1..(m + n) : i <= m => i \in 1..m
                        /\ \A i \in 1..(m + n) : ~ (i <= m) => i - m \in 1..n
  OBVIOUS
<1>. DEFINE l == Len(s)
<1>a. l \in Nat /\ DOMAIN s = 1..l /\ DOMAIN j = 1..(l + Len(t))
      /\ \A i \in 1..(l + Len(t)) : j[i] = IF i <= l THEN s[i] ELSE t[i - l]
  BY <1>1, <1>2
<1>. HIDE DEF l
<1>b. ASSUME NEW i \in DOMAIN s PROVE i \in DOMAIN j /\ j[i] = s[i]
  <2>1. i \in 1..(l + Len(t)) /\ i <= l
    BY <1>2, <1>3, <1>a
  <2>. QED
    BY <2>1, <1>a, Zenon
<1>c. ASSUME NEW i \in DOMAIN t PROVE i + l \in DOMAIN j /\ j[i + l] = t[i]
  <2>. DEFINE k == i + l
  <2>1. k \in 1..(l + Len(t)) /\ ~ (k <= l) /\ k - l = i
    BY <1>2, <1>3, <1>a
  <2>. HIDE DEF k
  <2>2. j[k] = IF k <= l THEN s[k] ELSE t[k - l]
    BY <2>1, <1>a, Zenon
  <2>3. k \in DOMAIN j /\ j[k] = t[i]
    BY <2>1, <2>2, <1>a, Zenon
  <2>. QED
    BY <2>3 DEF k
<1>d. ASSUME NEW i \in DOMAIN j
      PROVE  (i \in DOMAIN s /\ j[i] = s[i]) \/ (i - l \in DOMAIN t /\ j[i] = t[i - l])
  <2>1. (i <= l => i \in 1..l) /\ (~ (i <= l) => i - l \in 1..Len(t))
    BY <1>2, <1>3, <1>a
  <2>2. j[i] = IF i <= l THEN s[i] ELSE t[i - l]
    BY <1>a, Zenon
  <2>. QED
    BY <2>1, <2>2, <1>2, <1>a, Zenon
<1>4. /\ \A i \in DOMAIN s : i \in DOMAIN j /\ j[i] = s[i]
      /\ \A i \in DOMAIN t : i + l \in DOMAIN j /\ j[i + l] = t[i]
      /\ \A i \in DOMAIN j : \/ i \in DOMAIN s /\ j[i] = s[i]
                             \/ i - l \in DOMAIN t /\ j[i] = t[i - l]
  BY <1>b, <1>c, <1>d, Zenon
<1>5. \A x \in ToSet(s) : x \in ToSet(j)
  BY <1>1, <1>4, SequenceMembers
<1>6. \A x \in ToSet(t) : x \in ToSet(j)
  BY <1>1, <1>4, SequenceMembers
<1>7. ASSUME NEW x \in ToSet(j) PROVE x \in ToSet(s) \/ x \in ToSet(t)
  <2>1. PICK i \in DOMAIN j : j[i] = x
    BY <1>1, SequenceMembers
  <2>2. \/ i \in DOMAIN s /\ x = s[i]
        \/ i - l \in DOMAIN t /\ x = t[i - l]
    BY <1>4, <2>1
  <2>3. (\A k \in DOMAIN s : s[k] \in ToSet(s)) /\ (\A k \in DOMAIN t : t[k] \in ToSet(t))
    BY SequenceMembers
  <2>. QED
    BY <2>2, <2>3, Zenon
<1>. QED
  BY <1>1, <1>5, <1>6, <1>7 DEF j

LEMMA MetIsWhatWasHit ==
  ASSUME HitsAreSequences
  PROVE  /\ Met \in Seq(Doc)
         /\ ToSet(Met) = ToSet(find.hits["indexed"]) \cup ToSet(find.hits["lexical"])
                           \cup ToSet(find.hits["vector"])
<1>1. /\ find.hits["indexed"] \in Seq(Doc) /\ find.hits["lexical"] \in Seq(Doc)
      /\ find.hits["vector"] \in Seq(Doc)
  BY DEF HitsAreSequences, Backend
<1>. DEFINE two == find.hits["indexed"] \o find.hits["lexical"]
<1>2. two \in Seq(Doc) /\ ToSet(two) = ToSet(find.hits["indexed"]) \cup ToSet(find.hits["lexical"])
  BY <1>1, JoinedMembers
<1>. HIDE DEF two
<1>3. two \o find.hits["vector"] \in Seq(Doc)
      /\ ToSet(two \o find.hits["vector"]) = ToSet(two) \cup ToSet(find.hits["vector"])
  BY <1>1, <1>2, JoinedMembers
<1>4. Met = two \o find.hits["vector"]
  BY DEF Met, two
<1>. QED
  BY <1>2, <1>3, <1>4

LEMMA GainIsNumber ==
  ASSUME NEW b, find.hits[b] \in Seq(Doc), NEW ahead \in Nat, NEW d
  PROVE  Gain(ahead, b, d) \in Int
<1>. DEFINE p == Place(find.hits[b], d)
<1>1. CASE d \in ToSet(find.hits[b])
  <2>1. p \in Nat
    BY <1>1, PlaceIsThere
  <2>. HIDE DEF p
  <2>2. Unit \in Int
    BY DEF Unit
  <2>3. 60 + ahead + p \in Nat \ {0}
    BY <2>1
  <2>4. \A u \in Int : \A q \in Nat \ {0} : u \div q \in Int
    OBVIOUS
  <2>5. Unit \div (60 + ahead + p) \in Int
    BY <2>2, <2>3, <2>4, Zenon
  <2>6. Gain(ahead, b, d) = Unit \div (60 + ahead + p)
    BY <1>1 DEF Gain, p
  <2>. QED
    BY <2>5, <2>6
<1>2. CASE d \notin ToSet(find.hits[b])
  <2>1. Gain(ahead, b, d) = 0
    BY <1>2 DEF Gain
  <2>. QED
    BY <2>1
<1>. QED
  BY <1>1, <1>2

LEMMA ScoreIsNumber ==
  ASSUME HitsAreSequences, NEW d
  PROVE  Score(d) \in Int
<1>1. \A b \in Backend : find.hits[b] \in Seq(Doc)
  BY DEF HitsAreSequences
<1>2. Len(find.hits["indexed"]) \in Nat
  BY <1>1 DEF Backend
<1>3. /\ Gain(0, "indexed", d) \in Int /\ Gain(0, "vector", d) \in Int
      /\ Gain(Len(find.hits["indexed"]), "lexical", d) \in Int
  <2>1. "indexed" \in Backend /\ "lexical" \in Backend /\ "vector" \in Backend
    BY DEF Backend
  <2>2. 0 \in Nat
    OBVIOUS
  <2>. QED
    BY <1>1, <1>2, <2>1, <2>2, GainIsNumber
<1>. QED
  BY <1>3 DEF Score

\* A score first, the place as a tie-breaker: a strict total order.
LEMMA AheadRanks ==
  ASSUME HitsAreSequences
  PROVE  Ranks({x \in ToSet(Met) \X ToSet(Met) : Ahead(x[1], x[2])}, ToSet(Met))
<1>. DEFINE T == ToSet(Met)
            R == {x \in T \X T : Ahead(x[1], x[2])}
            P(d) == Place(Met, d)
<1>1. \A d \in T : P(d) \in Nat /\ Met[P(d)] = d
  BY MetIsWhatWasHit, PlaceIsThere
<1>2. \A d \in T : Score(d) \in Int
  BY ScoreIsNumber
<1>3. \A d \in T : \A e \in T : <<d, e>> \in R <=> Ahead(d, e)
  OBVIOUS
<1>4. \A d, e \in T : Ahead(d, e) <=> Score(d) > Score(e) \/ (Score(d) = Score(e) /\ P(d) < P(e))
  BY DEF Ahead
<1>. HIDE DEF T, R, P
<1>5. \A d, e \in T : <<d, e>> \in R <=> Score(d) > Score(e) \/ (Score(d) = Score(e) /\ P(d) < P(e))
  BY <1>3, <1>4
<1>6. \A x \in T : <<x, x>> \notin R
  BY <1>1, <1>2, <1>5
<1>7. ASSUME NEW x \in T, NEW y \in T, NEW z \in T, <<x, y>> \in R, <<y, z>> \in R
      PROVE  <<x, z>> \in R
  <2>1. /\ Score(x) \in Int /\ Score(y) \in Int /\ Score(z) \in Int
        /\ P(x) \in Nat /\ P(y) \in Nat /\ P(z) \in Nat
    BY <1>1, <1>2
  <2>2. /\ Score(x) > Score(y) \/ (Score(x) = Score(y) /\ P(x) < P(y))
        /\ Score(y) > Score(z) \/ (Score(y) = Score(z) /\ P(y) < P(z))
    BY <1>5, <1>7
  <2>3. Score(x) > Score(z) \/ (Score(x) = Score(z) /\ P(x) < P(z))
    BY <2>1, <2>2
  <2>. QED
    BY <2>3, <1>5
<1>8. ASSUME NEW x \in T, NEW y \in T
      PROVE  x = y \/ <<x, y>> \in R \/ <<y, x>> \in R
  <2>1. Score(x) \in Int /\ Score(y) \in Int /\ P(x) \in Nat /\ P(y) \in Nat
    BY <1>1, <1>2
  <2>2. P(x) = P(y) => x = y
    BY <1>1
  <2>3. \/ Score(x) > Score(y) \/ Score(y) > Score(x) \/ P(x) = P(y)
        \/ Score(x) = Score(y) /\ P(x) < P(y)
        \/ Score(y) = Score(x) /\ P(y) < P(x)
    BY <2>1
  <2>. QED
    BY <2>2, <2>3, <1>5
<1>9. Ranks(R, T)
  BY <1>6, <1>7, <1>8 DEF Ranks
<1>. QED
  BY <1>9 DEF T, R

LEMMA MergedIsFull ==
  ASSUME HitsAreSequences
  PROVE  /\ Merged \in Seq(Doc) /\ ToSet(Merged) \subseteq ToSet(Met)
         /\ IsFiniteSet(ToSet(Met))
         /\ Len(Merged) = IF Cardinality(ToSet(Met)) < Size THEN Cardinality(ToSet(Met)) ELSE Size
<1>. DEFINE T == ToSet(Met)
            R == {x \in T \X T : Ahead(x[1], x[2])}
<1>1. T \in SUBSET Doc
  BY MetIsWhatWasHit, SequenceMembers
<1>2. Ranks(R, T)
  BY AheadRanks
<1>3. Merged = First(Size, InOrder(T, R))
  BY DEF Merged
<1>. HIDE DEF T, R
<1>4. IsFiniteSet(T)
  BY <1>1, DocAssumption, FS_Subset
<1>5. InOrder(T, R) \in Orders(T)
  BY <1>2, <1>4, InOrderIsOrder
<1>6. InOrder(T, R) \in Seq(T) /\ Len(InOrder(T, R)) = Cardinality(T) /\ ToSet(InOrder(T, R)) = T
  BY <1>4, <1>5, OrderIsSequence
<1>7. Size \in Nat
  BY BoundsAssumption
<1>8. /\ Merged \in Seq(T) /\ ToSet(Merged) \subseteq T
      /\ Len(Merged) = IF Cardinality(T) < Size THEN Cardinality(T) ELSE Size
  BY <1>3, <1>6, <1>7, FirstOfSequence
<1>9. Merged \in Seq(Doc)
  BY <1>1, <1>8
<1>. QED
  BY <1>4, <1>8, <1>9 DEF T

-----------------------------------------------------------------------------
(* The inductive invariant of the search and of the reader.                  *)

Rows  == [Doc -> Access \cup {Gone}]
TermSets == SUBSET Term
Value == TermSets \cup {Gone}
Terms == [Doc -> Value]

Codes == {0, 200, 503}

FindRecord ==
    [pc : {"idle", "search", "done"}, acl : Caller, wait : SUBSET Backend,
     hits : [Backend -> Seq(Doc)], ok : SUBSET Backend, mute : BOOLEAN,
     stale : SUBSET Doc, page : Seq(Doc), from : 0..Size, code : Codes]

OpenRecord == [pc : {"idle", "decide", "body", "forbidden", "missing"},
               doc : Doc \cup {Gone}, stale : BOOLEAN]

RetrievalShape ==
    /\ inForce \in Rows /\ owned \subseteq Doc /\ copy \in [Index -> Terms]
    /\ nearest \in Seq(Doc) /\ matching \in Seq(Doc)
    /\ find \in FindRecord /\ open \in OpenRecord

\* The search q, the terms that are due f, the copies c, the matches m of the
\* query.  Documents whose terms have not changed since q began ...
Shown(q, f, d) == f[d] # Gone /\ Visible(q.acl, f[d])
Clean(q, f, s) == \A d \in ToSet(s) : d \notin q.stale => Shown(q, f, d)
Mine(q, f, m)  == {d \in ToSet(m) \ q.stale : Shown(q, f, d)}

\* ... are as the indexes have them while q runs,
Noted(q, f, c) == \A d \in Doc : d \notin q.stale => \A i \in Index : c[i][d] = f[d]

\* and OpenSearch, once it has answered, gave a page of them or all.
Enough(q, f, m, h) == Once(h) /\ (Len(h) >= Size \/ Mine(q, f, m) \subseteq ToSet(h))
Ample(q, f, m) == "lexical" \in q.ok /\ ~q.mute => Enough(q, f, m, q.hits["lexical"])

PageIsFull(q, f, m) ==
    "lexical" \in q.ok /\ ~q.mute /\ q.from = 0 =>
        (Cardinality(Mine(q, f, m)) >= Size => Len(q.page) = Size)

Running(q, f, c, m) ==
    Noted(q, f, c) /\ (\A b \in Backend : Clean(q, f, q.hits[b])) /\ Ample(q, f, m)

FindIs(q, f, c, m) ==
    /\ q.pc # "search" => q.wait = {}
    /\ q.pc = "search" => Running(q, f, c, m)
    /\ q.pc # "done" => q.page = <<>>
    /\ q.pc = "done" => Clean(q, f, q.page) /\ PageIsFull(q, f, m)

OpenIs(o, f) ==
    /\ o.pc \in {"decide", "body"} => o.doc \in Doc
    /\ o.pc = "body" => f[o.doc] # Gone /\ "me" \in f[o.doc] /\ "deny:me" \notin f[o.doc]

RetrievalInv == FindIs(find, Due, copy, matching) /\ OpenIs(open, inForce)

-----------------------------------------------------------------------------
(* One lemma for each way a search is written.                               *)

\* The clause of OpenSearch says of a document's terms what the check says.
LEMMA ClauseIsVisible ==
  ASSUME NEW acl \in Caller, NEW a \in SUBSET Term
  PROVE  AclClause(acl, a) <=> Visible(acl, a)
<1>1. /\ DenyTerms({}) = {} /\ DenyTerms({"me"}) = {"deny:me"}
      /\ DenyTerms({"me", "team"}) = {"deny:me", "deny:team"}
  BY DEF DenyTerms, Denial
<1>2. acl = {} \/ acl = {"me"} \/ acl = {"me", "team"}
  BY DEF Caller
<1>3. a = {} \/ a = {"me"} \/ a = {"team"} \/ a = {"me", "team"}
  BY DEF Term
<1>. QED
  BY <1>1, <1>2, <1>3 DEF AclClause, Visible

LEMMA MineSame ==
  ASSUME NEW q, NEW r, NEW f, NEW m, r.acl = q.acl, r.stale = q.stale
  PROVE  Mine(r, f, m) = Mine(q, f, m) /\ \A s : Clean(r, f, s) <=> Clean(q, f, s)
BY DEF Mine, Clean, Shown

\* What the steps write into the record of a search is of its kind.
LEMMA FindWrites ==
  ASSUME NEW q \in FindRecord
  PROVE  /\ \A T \in SUBSET Doc : [q EXCEPT !.stale = T] \in FindRecord
         /\ \A n \in Codes : [q EXCEPT !.pc = "done", !.code = n] \in FindRecord
         /\ \A a \in Caller : \A w \in SUBSET Backend : \A n \in 0..Size : \A T \in SUBSET Doc :
                [q EXCEPT !.pc = "search", !.acl = a, !.wait = w, !.from = n, !.stale = T] \in FindRecord
         /\ \A n \in Codes : \A p \in Seq(Doc) :
                [q EXCEPT !.pc = "done", !.code = n, !.page = p] \in FindRecord
<1>. DEFINE Phase == {"idle", "search", "done"}
            Some == SUBSET Backend
            Found == [Backend -> Seq(Doc)]
            Docs == SUBSET Doc
            Page == Seq(Doc)
            Starts == 0..Size
            F == [pc : Phase, acl : Caller, wait : Some, hits : Found, ok : Some, mute : BOOLEAN,
                  stale : Docs, page : Page, from : Starts, code : Codes]
<1>1. FindRecord = F
  BY DEF FindRecord
<1>2. "search" \in Phase /\ "done" \in Phase
  OBVIOUS
<1>. HIDE DEF Phase, Some, Found, Docs, Page, Starts
<1>3. \A p \in F : \A T \in Docs : [p EXCEPT !.stale = T] \in F
  OBVIOUS
<1>4. \A p \in F : \A x \in Phase : \A n \in Codes : [p EXCEPT !.pc = x, !.code = n] \in F
  OBVIOUS
<1>5. \A p \in F : \A x \in Phase : \A a \in Caller : \A w \in Some : \A n \in Starts : \A T \in Docs :
        [p EXCEPT !.pc = x, !.acl = a, !.wait = w, !.from = n, !.stale = T] \in F
  OBVIOUS
<1>6. \A p \in F : \A x \in Phase : \A n \in Codes : \A s \in Page :
        [p EXCEPT !.pc = x, !.code = n, !.page = s] \in F
  OBVIOUS
<1>. HIDE DEF F
<1>7. q \in F
  BY <1>1
<1>8. \A T \in SUBSET Doc : [q EXCEPT !.stale = T] \in FindRecord
  BY <1>1, <1>3, <1>7, Zenon DEF Docs
<1>9. \A n \in Codes : [q EXCEPT !.pc = "done", !.code = n] \in FindRecord
  BY <1>1, <1>2, <1>4, <1>7, Zenon
<1>10. \A a \in Caller : \A w \in SUBSET Backend : \A n \in 0..Size : \A T \in SUBSET Doc :
         [q EXCEPT !.pc = "search", !.acl = a, !.wait = w, !.from = n, !.stale = T] \in FindRecord
  BY <1>1, <1>2, <1>5, <1>7, Zenon DEF Docs, Some, Starts
<1>11. \A n \in Codes : \A p \in Seq(Doc) :
         [q EXCEPT !.pc = "done", !.code = n, !.page = p] \in FindRecord
  BY <1>1, <1>2, <1>6, <1>7, Zenon DEF Page
<1>. QED
  BY <1>8, <1>9, <1>10, <1>11, Zenon

\* A change adds its document to those whose terms are not settled.
Unsettled(q, d) == IF q.pc # "idle" THEN [q EXCEPT !.stale = @ \cup {d}] ELSE q

LEMMA ChangeKeeps ==
  ASSUME NEW q \in FindRecord, q.pc # "done", NEW f, NEW g, NEW c, NEW k, NEW m, NEW d \in Doc,
         FindIs(q, f, c, m), m \in Seq(Doc),
         \A e \in Doc \ {d} : g[e] = f[e] /\ \A i \in Index : k[i][e] = c[i][e],
         NEW r, r = Unsettled(q, d)
  PROVE  r \in FindRecord /\ FindIs(r, g, k, m)
<1>1. CASE q.pc = "idle"
  <2>1. r = q
    BY <1>1 DEF Unsettled
  <2>2. q.wait = {} /\ q.page = <<>>
    BY <1>1 DEF FindIs
  <2>. QED
    BY <1>1, <2>1, <2>2 DEF FindIs
<1>2. CASE q.pc # "idle"
  <2>1. r = [q EXCEPT !.stale = @ \cup {d}] /\ q.pc = "search"
    BY <1>2 DEF FindRecord, Unsettled
  <2>2. r \in FindRecord
    <3>1. q.stale \cup {d} \in SUBSET Doc
      BY DEF FindRecord
    <3>. QED
      <4>1. [q EXCEPT !.stale = q.stale \cup {d}] \in FindRecord
        BY <3>1, FindWrites, Zenon
      <4>. QED
        BY <2>1, <4>1, Zenon
  <2>3. /\ r.pc = "search" /\ r.acl = q.acl /\ r.hits = q.hits /\ r.ok = q.ok /\ r.mute = q.mute
        /\ r.page = q.page /\ r.stale = q.stale \cup {d}
    BY <2>1 DEF FindRecord
  <2>4. Running(q, f, c, m) /\ q.page = <<>>
    BY <2>1 DEF FindIs
  <2>5. Noted(r, g, k)
    BY <2>3, <2>4 DEF Running, Noted
  <2>6. \A e \in Doc : e \notin r.stale => (Shown(r, g, e) <=> Shown(q, f, e)) /\ e \notin q.stale
    BY <2>3 DEF Shown
  <2>7. ASSUME NEW b \in Backend PROVE Clean(r, g, r.hits[b])
    <3>1. q.hits[b] \in Seq(Doc) /\ r.hits[b] = q.hits[b]
      BY <2>3 DEF FindRecord
    <3>2. \A e \in ToSet(q.hits[b]) : e \in Doc
      BY <3>1, SequenceMembers
    <3>3. Clean(q, f, q.hits[b])
      BY <2>4 DEF Running
    <3>. QED
      BY <3>1, <3>2, <3>3, <2>6 DEF Clean
  <2>8. Mine(r, g, m) \subseteq Mine(q, f, m)
    <3>1. \A e \in ToSet(m) : e \in Doc
      BY SequenceMembers
    <3>. QED
      BY <3>1, <2>6 DEF Mine
  <2>9. Ample(r, g, m)
    BY <2>3, <2>4, <2>8 DEF Running, Ample, Enough
  <2>10. Running(r, g, k, m)
    BY <2>5, <2>7, <2>9 DEF Running
  <2>. QED
    BY <2>2, <2>3, <2>4, <2>10 DEF FindIs
<1>. QED
  BY <1>1, <1>2

\* An index catches up with the terms in force.
LEMMA CatchUpKeeps ==
  ASSUME NEW q, NEW f, NEW c, NEW k, NEW m, FindIs(q, f, c, m),
         \A i \in Index : \A e \in Doc : k[i][e] = c[i][e] \/ k[i][e] = f[e]
  PROVE  FindIs(q, f, k, m)
<1>1. Noted(q, f, c) => Noted(q, f, k)
  BY DEF Noted
<1>. QED
  BY <1>1 DEF FindIs, Running

AnswerTo(q, b, h, good) ==
    [q EXCEPT !.wait = @ \ {b}, !.hits[b] = h, !.ok = IF good THEN @ \cup {b} ELSE @]

LEMMA AnswerTyped ==
  ASSUME NEW q \in FindRecord, NEW b \in Backend, NEW h \in Seq(Doc), NEW good \in BOOLEAN,
         NEW r, r = [q EXCEPT !.wait = @ \ {b}, !.hits[b] = h, !.ok = IF good THEN @ \cup {b} ELSE @]
  PROVE  r \in FindRecord
<1>1. q.hits \in [Backend -> Seq(Doc)] /\ q.wait \in SUBSET Backend /\ q.ok \in SUBSET Backend
  BY DEF FindRecord
<1>2. [q.hits EXCEPT ![b] = h] \in [Backend -> Seq(Doc)]
  BY <1>1
<1>3. q.wait \ {b} \in SUBSET Backend /\ (IF good THEN q.ok \cup {b} ELSE q.ok) \in SUBSET Backend
  BY <1>1
<1>. QED
  BY <1>2, <1>3 DEF FindRecord

LEMMA AnswerKeeps ==
  ASSUME NEW q \in FindRecord, NEW f, NEW c, NEW m, FindIs(q, f, c, m), NEW b \in q.wait,
         NEW h \in Seq(Doc), Clean(q, f, h), b = "lexical" => Enough(q, f, m, h), NEW good \in BOOLEAN,
         NEW r, r = AnswerTo(q, b, h, good)
  PROVE  r \in FindRecord /\ FindIs(r, f, c, m)
<1>1. b \in Backend /\ q.pc = "search"
  BY DEF FindRecord, FindIs
<1>2. r \in FindRecord
  BY <1>1, AnswerTyped DEF AnswerTo
<1>3. /\ r.pc = "search" /\ r.acl = q.acl /\ r.stale = q.stale /\ r.mute = q.mute /\ r.page = q.page
      /\ r.ok = (IF good THEN q.ok \cup {b} ELSE q.ok) /\ r.hits = [q.hits EXCEPT ![b] = h]
  BY <1>1 DEF FindRecord, AnswerTo
<1>4. \A n \in Backend : r.hits[n] = IF n = b THEN h ELSE q.hits[n]
  BY <1>1, <1>3 DEF FindRecord
<1>5. Running(q, f, c, m) /\ q.page = <<>>
  BY <1>1 DEF FindIs
<1>6. Mine(r, f, m) = Mine(q, f, m) /\ \A s : Clean(r, f, s) <=> Clean(q, f, s)
  <2>1. r.acl = q.acl /\ r.stale = q.stale
    BY <1>3
  <2>2. Mine(r, f, m) = Mine(q, f, m)
    BY <2>1 DEF Mine, Shown
  <2>3. \A s : Clean(r, f, s) <=> Clean(q, f, s)
    BY <2>1 DEF Clean, Shown
  <2>. QED
    BY <2>2, <2>3
<1>7. Noted(r, f, c)
  BY <1>3, <1>5 DEF Running, Noted
<1>8. \A n \in Backend : Clean(r, f, r.hits[n])
  BY <1>4, <1>5, <1>6 DEF Running
<1>9. \A s : Enough(r, f, m, s) <=> Enough(q, f, m, s)
  BY <1>6 DEF Enough
<1>10. Ample(r, f, m)
  <2>1. "lexical" \in Backend
    BY DEF Backend
  <2>2. CASE b = "lexical"
    <3>1. r.hits["lexical"] = h
      BY <1>4, <2>1, <2>2
    <3>. QED
      BY <1>9, <2>2, <3>1 DEF Ample
  <2>3. CASE b # "lexical"
    <3>1. r.hits["lexical"] = q.hits["lexical"] /\ ("lexical" \in r.ok => "lexical" \in q.ok)
      BY <1>3, <1>4, <2>1, <2>3
    <3>. QED
      BY <1>3, <1>5, <1>9, <3>1 DEF Running, Ample
  <2>. QED
    BY <2>2, <2>3
<1>. QED
  BY <1>2, <1>3, <1>5, <1>7, <1>8, <1>10 DEF Running, FindIs

\* The engine raised: nothing is owed to the caller any more.
LEMMA MuteKeeps ==
  ASSUME NEW q \in FindRecord, NEW f, NEW c, NEW m, FindIs(q, f, c, m), "lexical" \in q.wait,
         NEW r, r = [q EXCEPT !.wait = @ \ {"lexical"}, !.ok = @ \cup {"lexical"}, !.mute = TRUE]
  PROVE  r \in FindRecord /\ FindIs(r, f, c, m)
<1>1. "lexical" \in Backend /\ q.pc = "search"
  BY DEF FindRecord, FindIs, Backend
<1>2. r \in FindRecord
  <2>1. q.wait \ {"lexical"} \in SUBSET Backend /\ q.ok \cup {"lexical"} \in SUBSET Backend
    BY <1>1 DEF FindRecord
  <2>. QED
    BY <2>1 DEF FindRecord
<1>3. /\ r.pc = "search" /\ r.acl = q.acl /\ r.stale = q.stale /\ r.mute = TRUE
      /\ r.page = q.page /\ r.hits = q.hits
  BY <1>1 DEF FindRecord
<1>4. Running(q, f, c, m) /\ q.page = <<>>
  BY <1>1 DEF FindIs
<1>5. \A s : Clean(r, f, s) <=> Clean(q, f, s)
  BY <1>3, MineSame
<1>6. Noted(r, f, c) /\ Ample(r, f, m) /\ \A b \in Backend : Clean(r, f, r.hits[b])
  BY <1>3, <1>4, <1>5 DEF Running, Noted, Ample
<1>. QED
  BY <1>2, <1>3, <1>4, <1>6 DEF Running, FindIs

\* A member once each place: a set that holds them has as many.
LEMMA OnceIsMany ==
  ASSUME NEW S, IsFiniteSet(S), NEW s \in Seq(S), Once(s)
  PROVE  Len(s) <= Cardinality(S)
<1>. DEFINE n == Len(s)
<1>1. n \in Nat /\ DOMAIN s = 1..n
  BY SequenceMembers
<1>2. s \in [1..n -> S]
  OBVIOUS
<1>. HIDE DEF n
<1>3. s \in Injection(1..n, S)
  BY <1>1, <1>2 DEF Injection, IsInjective, Once
<1>4. Cardinality(1..n) <= Cardinality(S)
  BY <1>3, FS_Injection
<1>5. Cardinality(1..n) = n
  <2>1. 1 \in Int /\ n \in Int
    BY <1>1
  <2>2. Cardinality(1..n) = IF 1 > n THEN 0 ELSE n - 1 + 1
    BY <2>1, FS_Interval
  <2>. QED
    BY <1>1, <2>2
<1>. QED
  BY <1>4, <1>5 DEF n

LEMMA RestOfSequence ==
  ASSUME NEW S, NEW s \in Seq(S), NEW a \in Nat
  PROVE  LET t == SubSeq(s, a + 1, Len(s)) IN
         /\ t \in Seq(S) /\ ToSet(t) \subseteq ToSet(s)
         /\ a = 0 => Len(t) = Len(s)
<1>. DEFINE n == Len(s)
            t == SubSeq(s, a + 1, n)
<1>1. n \in Nat /\ DOMAIN s = 1..n /\ \A i \in DOMAIN s : s[i] \in S
  BY SequenceMembers
<1>. HIDE DEF n
<1>2. a + 1 \in Int /\ n \in Int /\ \A i \in (a + 1)..n : i \in 1..n
  BY <1>1
<1>3. \A i \in (a + 1)..n : s[i] \in S
  BY <1>1, <1>2, Zenon
<1>4. /\ t \in Seq(S)
      /\ Len(t) = IF a + 1 <= n THEN n - (a + 1) + 1 ELSE 0
      /\ \A i \in 1..(n - (a + 1) + 1) : t[i] = s[a + 1 + i - 1]
  BY <1>2, <1>3, SubSeqProperties
<1>. HIDE DEF t
<1>5. a = 0 => Len(t) = n
  BY <1>1, <1>4
<1>6. DOMAIN t = 1..Len(t)
  BY <1>4, SequenceMembers
<1>7. ASSUME NEW i \in DOMAIN t PROVE \E k \in DOMAIN s : t[i] = s[k]
  <2>. DEFINE k == a + 1 + i - 1
  <2>1. i \in 1..(n - (a + 1) + 1) /\ k \in 1..n
    BY <1>1, <1>4, <1>6
  <2>2. t[i] = s[k]
    BY <1>4, <2>1, Zenon
  <2>. HIDE DEF k
  <2>. QED
    BY <1>1, <2>1, <2>2
<1>8. \A x \in ToSet(t) : x \in ToSet(s)
  BY <1>4, <1>7, SequenceMembers
<1>. QED
  BY <1>4, <1>5, <1>8 DEF t, n

LEMMA FusedIsFull ==
  ASSUME RetrievalShape, HitsAreSequences,
         Enough(find, Due, matching, find.hits["lexical"]),
         Cardinality(Mine(find, Due, matching)) >= Size
  PROVE  Len(Merged) = Size
<1>. DEFINE h == find.hits["lexical"]
            T == ToSet(Met)
            M == Mine(find, Due, matching)
<1>1. h \in Seq(Doc) /\ ToSet(h) \subseteq T
  <2>1. h \in Seq(Doc)
    BY DEF HitsAreSequences, Backend
  <2>. QED
    BY <2>1, MetIsWhatWasHit
<1>2. IsFiniteSet(T) /\ Cardinality(T) \in Nat
  BY MergedIsFull, FS_CardinalityType
<1>3. Size \in Nat
  BY BoundsAssumption
<1>. HIDE DEF T
<1>4. Once(h) /\ (Len(h) >= Size \/ M \subseteq ToSet(h))
  BY DEF Enough
<1>5. CASE Len(h) >= Size
  <2>1. h \in Seq(T)
    <3>1. DOMAIN h = 1..Len(h) /\ \A i \in DOMAIN h : h[i] \in ToSet(h)
      BY <1>1, SequenceMembers
    <3>2. \A i \in DOMAIN h : h[i] \in T
      BY <1>1, <3>1
    <3>3. Len(h) \in Nat /\ h \in [1..Len(h) -> Doc]
      BY <1>1
    <3>. HIDE DEF h
    <3>4. h \in [1..Len(h) -> T]
      BY <3>1, <3>2, <3>3
    <3>5. \E k \in Nat : h \in [1..k -> T]
      BY <3>3, <3>4
    <3>. QED
      BY <3>5, SeqDef
  <2>2. Len(h) <= Cardinality(T)
    BY <1>2, <1>4, <2>1, OnceIsMany
  <2>3. Len(h) \in Nat
    BY <1>1, SequenceMembers
  <2>. HIDE DEF h
  <2>4. Cardinality(T) >= Size
    BY <1>2, <1>3, <1>5, <2>2, <2>3
  <2>5. Len(Merged) = IF Cardinality(T) < Size THEN Cardinality(T) ELSE Size
    BY MergedIsFull DEF T
  <2>. QED
    BY <1>2, <1>3, <2>4, <2>5
<1>6. CASE M \subseteq ToSet(h)
  <2>1. M \in SUBSET T
    BY <1>1, <1>6
  <2>. HIDE DEF M, h
  <2>2. Cardinality(M) <= Cardinality(T) /\ Cardinality(M) \in Nat
    BY <1>2, <2>1, FS_Subset, FS_CardinalityType
  <2>3. Cardinality(M) >= Size
    BY DEF M
  <2>4. Cardinality(T) >= Size
    BY <1>2, <1>3, <2>2, <2>3
  <2>5. Len(Merged) = IF Cardinality(T) < Size THEN Cardinality(T) ELSE Size
    BY MergedIsFull DEF T
  <2>. QED
    BY <1>2, <1>3, <2>4, <2>5
<1>. QED
  BY <1>4, <1>5, <1>6

-----------------------------------------------------------------------------
(* The steps.                                                                *)

\* The terms that are due are terms; they change with the rows alone.
LEMMA ValueIs == Gone \in Value /\ \A t \in SUBSET Term : t \in Value /\ \A v \in Value : v = Gone \/ v \in SUBSET Term
<1>1. \A v : v \in Value <=> v \in TermSets \/ v = Gone
  BY DEF Value
<1>. QED
  BY <1>1, Zenon DEF TermSets

LEMMA DueTyped == ASSUME inForce \in Rows PROVE Due \in Terms
<1>1. ASSUME NEW given \in Access, NEW own \in BOOLEAN PROVE TermsOf(given, own) \in SUBSET Term
  <2>1. Access \subseteq SUBSET {"me", "team", "deny:me"}
    BY DEF Access
  <2>2. \A r \in {"me", "team", "deny:me"} : Named[r] \in Term
    BY DEF Named, Term
  <2>3. \A r \in given : Named[r] \in Term
    BY <2>1, <2>2
  <2>. QED
    BY <2>3 DEF TermsOf, Term
<1>3. ASSUME NEW d \in Doc PROVE (IF inForce[d] = Gone THEN Gone ELSE TermsOf(inForce[d], d \in owned)) \in Value
  <2>1. (d \in owned) \in BOOLEAN
    OBVIOUS
  <2>2. inForce[d] = Gone \/ inForce[d] \in Access
    BY DEF Rows
  <2>3. CASE inForce[d] = Gone
    BY <2>3, ValueIs
  <2>4. CASE inForce[d] # Gone
    <3>1. TermsOf(inForce[d], d \in owned) \in SUBSET Term
      BY <1>1, <2>1, <2>2, <2>4, Zenon
    <3>. QED
      BY <2>4, <3>1, ValueIs
  <2>. QED
    BY <2>3, <2>4
<1>. QED
  BY <1>3 DEF Due, Terms

LEMMA DueStays == ASSUME inForce' = inForce, owned' = owned PROVE Due' = Due
BY DEF Due

LEMMA DueOthers ==
  ASSUME NEW d \in Doc, \A e \in Doc \ {d} : inForce'[e] = inForce[e] /\ (e \in owned' <=> e \in owned)
  PROVE  \A e \in Doc \ {d} : Due'[e] = Due[e]
<1>1. ASSUME NEW e \in Doc \ {d} PROVE Due'[e] = Due[e]
  <2>1. inForce'[e] = inForce[e] /\ (e \in owned') = (e \in owned)
    OBVIOUS
  <2>. QED
    BY <2>1 DEF Due
<1>. QED
  BY <1>1

FindGoal == find' \in FindRecord /\ FindIs(find', Due', copy', matching')
OpenGoal == open' \in OpenRecord /\ OpenIs(open', inForce')

LEMMA EmptyHits ==
  /\ <<>> \in Seq(Doc) /\ ToSet(<<>>) = {}
  /\ \A q, f : Clean(q, f, <<>>)
<1>1. <<>> \in Seq(Doc) /\ Len(<<>>) = 0
  BY EmptySeq
<1>2. DOMAIN <<>> = 1..0
  BY <1>1, SequenceMembers
<1>3. \A i \in DOMAIN <<>> : FALSE
  BY <1>2
<1>4. ToSet(<<>>) = {}
  BY <1>3 DEF ToSet
<1>. QED
  BY <1>1, <1>4 DEF Clean

LEMMA NoFindTyped == NoFind \in FindRecord
<1>1. <<>> \in Seq(Doc)
  BY EmptyHits
<1>2. [b \in Backend |-> <<>>] \in [Backend -> Seq(Doc)]
  BY <1>1
<1>3. 0 \in 0..Size /\ {} \in Caller /\ 0 \in Codes
  BY BoundsAssumption DEF Caller, Codes
<1>. HIDE DEF Caller, Backend
<1>. QED
  BY <1>1, <1>2, <1>3 DEF NoFind, FindRecord

LEMMA NoFindIs ==
  ASSUME NEW f, NEW c, NEW m
  PROVE  FindIs(NoFind, f, c, m)
BY DEF FindIs, NoFind

LEMMA SearchKeeps ==
  ASSUME RetrievalShape, NEW acl \in Caller, NEW from \in 0..Size, NEW back \in SUBSET Backend,
         Search(acl, from, back)
  PROVE  FindGoal
<1>1. NoFind \in FindRecord
  BY NoFindTyped
<1>2. Due' = Due /\ copy' = copy /\ matching' = matching
  BY DueStays DEF Search
<1>3. CASE acl = {}
  <2>1. find' = [NoFind EXCEPT !.pc = "done", !.code = 200]
    BY <1>3 DEF Search
  <2>2. find' \in FindRecord
    <3>1. 200 \in Codes
      BY DEF Codes
    <3>2. [NoFind EXCEPT !.pc = "done", !.code = 200] \in FindRecord
      BY <1>1, <3>1, FindWrites
    <3>. QED
      BY <2>1, <3>2
  <2>3. find'.pc = "done" /\ find'.wait = {} /\ find'.ok = {} /\ find'.page = <<>>
    BY <2>1 DEF NoFind
  <2>4. Clean(find', Due', find'.page) /\ PageIsFull(find', Due', matching')
    BY <2>3, EmptyHits DEF PageIsFull
  <2>. QED
    BY <2>2, <2>3, <2>4 DEF FindGoal, FindIs
<1>4. CASE acl # {}
  <2>. DEFINE B == {d \in Doc : Behind(d)}
  <2>1. find' = [NoFind EXCEPT !.pc = "search", !.acl = acl, !.wait = back, !.from = from, !.stale = B]
    BY <1>4 DEF Search
  <2>2. find' \in FindRecord
    <3>1. B \in SUBSET Doc
      OBVIOUS
    <3>. HIDE DEF B
    <3>. QED
      BY <1>1, <2>1, <3>1, FindWrites, Zenon
  <2>3. /\ find'.pc = "search" /\ find'.ok = {} /\ find'.page = <<>> /\ find'.stale = B
        /\ find'.hits = [b \in Backend |-> <<>>]
    BY <2>1 DEF NoFind
  <2>4. Noted(find', Due', copy')
    BY <1>2, <2>3 DEF Noted, Behind
  <2>5. \A b \in Backend : Clean(find', Due', find'.hits[b])
    BY <2>3, EmptyHits
  <2>6. Ample(find', Due', matching')
    BY <2>3 DEF Ample
  <2>. QED
    BY <2>2, <2>3, <2>4, <2>5, <2>6 DEF FindGoal, FindIs, Running
<1>. QED
  BY <1>3, <1>4

\* What an engine returns is clean when its copies of the settled documents are.
LEMMA IndexedClean ==
  ASSUME RetrievalShape, RetrievalInv, find.pc = "search",
         NEW h \in Seq(Doc),
         ToSet(h) \subseteq {d \in Doc : copy["points"][d] # Gone /\ Visible(find.acl, copy["points"][d])}
  PROVE  Clean(find, Due, h)
<1>1. Noted(find, Due, copy)
  BY DEF RetrievalInv, FindIs, Running
<1>2. \A d \in Doc : d \notin find.stale => copy["points"][d] = Due[d]
  BY <1>1 DEF Noted, Index
<1>. QED
  BY <1>2 DEF Clean, Shown

LEMMA NearestTyped ==
  ASSUME RetrievalShape
  PROVE  Nearest \in Seq(Doc)
<1>1. nearest \in Seq(Doc) /\ Size \in Nat
  BY BoundsAssumption DEF RetrievalShape
<1>2. IsFiniteSet(Doc)
  BY DocAssumption
<1>. QED
  BY <1>1, <1>2, BestAreEnough DEF Nearest

LEMMA SearchIndexedKeeps ==
  ASSUME RetrievalShape, RetrievalInv, SearchIndexed
  PROVE  FindGoal
<1>1. find \in FindRecord /\ FindIs(find, Due, copy, matching)
  BY DEF RetrievalShape, RetrievalInv
<1>2. "indexed" \in find.wait /\ find.pc = "search"
  BY <1>1 DEF SearchIndexed, FindIs, FindRecord
<1>3. Due' = Due /\ copy' = copy /\ matching' = matching
  BY DueStays DEF SearchIndexed
<1>. DEFINE V == {d \in Doc : copy["points"][d] # Gone /\ Visible(find.acl, copy["points"][d])}
            h == Only(Nearest, V)
<1>4. h \in Seq(Doc) /\ ToSet(h) \subseteq V
  <2>1. Nearest \in Seq(Doc)
    BY NearestTyped
  <2>. DEFINE K == ToSet(Nearest) \cap V
  <2>2. h \in Orders(K) /\ IsFiniteSet(K)
    <3>. HIDE DEF V
    <3>. QED
      BY <2>1, DocAssumption, OnlyIsOrder
  <2>3. K \subseteq Doc /\ K \subseteq V
    OBVIOUS
  <2>. HIDE DEF h, K, V
  <2>4. h \in Seq(K) /\ ToSet(h) = K
    BY <2>2, OrderIsSequence
  <2>. QED
    BY <2>3, <2>4
<1>5. CASE Answer("indexed", h, TRUE)
  <2>1. Clean(find, Due, h)
    <3>. HIDE DEF h
    <3>. QED
      BY <1>2, <1>4, IndexedClean
  <2>2. find' = AnswerTo(find, "indexed", h, TRUE)
    BY <1>5 DEF Answer, AnswerTo
  <2>. HIDE DEF h
  <2>3. find' \in FindRecord /\ FindIs(find', Due, copy, matching)
    <3>1. "indexed" = "lexical" => Enough(find, Due, matching, h)
      OBVIOUS
    <3>2. h \in Seq(Doc) /\ TRUE \in BOOLEAN
      BY <1>4
    <3>. QED
      BY <1>1, <1>2, <2>1, <2>2, <3>1, <3>2, AnswerKeeps, Zenon
  <2>. QED
    BY <1>3, <2>3 DEF FindGoal
<1>6. CASE Answer("indexed", <<>>, FALSE)
  <2>1. find' = AnswerTo(find, "indexed", <<>>, FALSE)
    BY <1>6 DEF Answer, AnswerTo
  <2>2. find' \in FindRecord /\ FindIs(find', Due, copy, matching)
    <3>1. "indexed" = "lexical" => Enough(find, Due, matching, <<>>)
      OBVIOUS
    <3>2. <<>> \in Seq(Doc) /\ Clean(find, Due, <<>>) /\ FALSE \in BOOLEAN
      BY EmptyHits
    <3>. QED
      BY <1>1, <1>2, <2>1, <3>1, <3>2, AnswerKeeps, Zenon
  <2>. QED
    BY <1>3, <2>2 DEF FindGoal
<1>. QED
  BY <1>5, <1>6 DEF SearchIndexed

LEMMA LexicalIsEnough ==
  ASSUME RetrievalShape, RetrievalInv, find.pc = "search"
  PROVE  LET h == LexicalHits(find.acl) IN
         h \in Seq(Doc) /\ Clean(find, Due, h) /\ Enough(find, Due, matching, h)
<1>. DEFINE acl == find.acl
            V == {d \in Doc : copy["lexical"][d] # Gone /\ AclClause(acl, copy["lexical"][d])}
            h == LexicalHits(acl)
<1>1. h = First(2 * Size, Only(matching, V))
  BY DEF LexicalHits
<1>2. Size \in Nat /\ matching \in Seq(Doc) /\ acl \in Caller
  BY BoundsAssumption DEF RetrievalShape, FindRecord
<1>3. \A d \in Doc : d \notin find.stale => (d \in V <=> Shown(find, Due, d))
  <2>1. Noted(find, Due, copy)
    BY DEF RetrievalInv, FindIs, Running
  <2>2. SUFFICES ASSUME NEW d \in Doc, d \notin find.stale
                 PROVE  d \in V <=> Shown(find, Due, d)
    OBVIOUS
  <2>3. copy["lexical"][d] = Due[d] /\ Due[d] \in Value
    BY <2>1, <2>2, DueTyped DEF Noted, Index, RetrievalShape, Terms
  <2>4. CASE Due[d] = Gone
    BY <2>3, <2>4 DEF Shown
  <2>5. CASE Due[d] # Gone
    <3>1. Due[d] \in SUBSET Term
      BY <2>3, <2>5, ValueIs
    <3>2. AclClause(acl, Due[d]) <=> Visible(acl, Due[d])
      BY <1>2, <3>1, ClauseIsVisible
    <3>. QED
      BY <2>3, <2>5, <3>2 DEF Shown
  <2>. QED
    BY <2>4, <2>5
<1>. HIDE DEF V
<1>4. /\ h \in Seq(Doc) /\ Once(h)
      /\ ToSet(h) \subseteq ToSet(matching) \cap V
      /\ Len(h) >= Size \/ ToSet(matching) \cap V \subseteq ToSet(h)
  <2>1. IsFiniteSet(Doc)
    BY DocAssumption
  <2>2. LET f == First(2 * Size, Only(matching, V)) IN
        /\ f \in Seq(Doc) /\ Once(f)
        /\ ToSet(f) \subseteq ToSet(matching) \cap V
        /\ Len(f) >= Size \/ ToSet(matching) \cap V \subseteq ToSet(f)
    BY <1>2, <2>1, BestAreEnough, Zenon
  <2>. QED
    BY <1>1, <2>2, Zenon
<1>. HIDE DEF h
<1>5. \A d \in ToSet(h) : d \in Doc /\ d \in V
  BY <1>4, SequenceMembers
<1>6. Clean(find, Due, h)
  BY <1>3, <1>5 DEF Clean
<1>7. \A d \in ToSet(matching) : d \in Doc
  BY <1>2, SequenceMembers
<1>8. Mine(find, Due, matching) \subseteq ToSet(matching) \cap V
  BY <1>3, <1>7 DEF Mine
<1>9. Enough(find, Due, matching, h)
  BY <1>4, <1>8 DEF Enough
<1>. QED
  BY <1>4, <1>6, <1>9 DEF h

LEMMA SearchLexicalKeeps ==
  ASSUME RetrievalShape, RetrievalInv, SearchLexical
  PROVE  FindGoal
<1>1. find \in FindRecord /\ FindIs(find, Due, copy, matching)
  BY DEF RetrievalShape, RetrievalInv
<1>2. "lexical" \in find.wait /\ find.pc = "search"
  BY <1>1 DEF SearchLexical, FindIs, FindRecord
<1>3. Due' = Due /\ copy' = copy /\ matching' = matching
  BY DueStays DEF SearchLexical
<1>. DEFINE h == LexicalHits(find.acl)
<1>4. h \in Seq(Doc) /\ Clean(find, Due, h) /\ Enough(find, Due, matching, h)
  BY <1>2, LexicalIsEnough
<1>. HIDE DEF h
<1>5. CASE Answer("lexical", h, TRUE)
  <2>1. find' = AnswerTo(find, "lexical", h, TRUE)
    BY <1>5 DEF Answer, AnswerTo
  <2>2. find' \in FindRecord /\ FindIs(find', Due, copy, matching)
    BY <1>1, <1>2, <1>4, <2>1, AnswerKeeps
  <2>. QED
    BY <1>3, <2>2 DEF FindGoal
<1>6. CASE find' = [find EXCEPT !.wait = @ \ {"lexical"}, !.ok = @ \cup {"lexical"}, !.mute = TRUE]
  <2>1. find' \in FindRecord /\ FindIs(find', Due, copy, matching)
    BY <1>1, <1>2, <1>6, MuteKeeps
  <2>. QED
    BY <1>3, <2>1 DEF FindGoal
<1>. QED
  BY <1>5, <1>6 DEF SearchLexical, h

LEMMA SearchVectorKeeps ==
  ASSUME RetrievalShape, RetrievalInv, SearchVector
  PROVE  FindGoal
<1>1. find \in FindRecord /\ FindIs(find, Due, copy, matching)
  BY DEF RetrievalShape, RetrievalInv
<1>2. "vector" \in find.wait
  BY DEF SearchVector
<1>3. Due' = Due /\ copy' = copy /\ matching' = matching
  BY DueStays DEF SearchVector
<1>4. \E good \in BOOLEAN : Answer("vector", <<>>, good)
  BY DEF SearchVector
<1>5. PICK good \in BOOLEAN : find' = AnswerTo(find, "vector", <<>>, good)
  BY <1>4 DEF Answer, AnswerTo
<1>6. find' \in FindRecord /\ FindIs(find', Due, copy, matching)
  <2>1. "vector" = "lexical" => Enough(find, Due, matching, <<>>)
    OBVIOUS
  <2>2. <<>> \in Seq(Doc) /\ Clean(find, Due, <<>>)
    BY EmptyHits
  <2>. QED
    BY <1>1, <1>2, <1>5, <2>1, <2>2, AnswerKeeps, Zenon
<1>. QED
  BY <1>3, <1>6 DEF FindGoal

\* The page is taken from the fused list.
LEMMA RespondKeeps ==
  ASSUME RetrievalShape, RetrievalInv, Respond
  PROVE  FindGoal
<1>1. find \in FindRecord /\ FindIs(find, Due, copy, matching) /\ find.pc = "search" /\ find.wait = {}
  BY DEF RetrievalShape, RetrievalInv, Respond
<1>2. Due' = Due /\ copy' = copy /\ matching' = matching
  BY DueStays DEF Respond
<1>3. HitsAreSequences /\ find.from \in Nat
  <2>1. find.from \in 0..Size /\ Size \in Nat
    BY <1>1, BoundsAssumption DEF FindRecord
  <2>2. \A b \in Backend : find.hits[b] \in Seq(Doc)
    BY <1>1 DEF FindRecord
  <2>. QED
    BY <2>1, <2>2 DEF HitsAreSequences
<1>4. \A b \in Backend : Clean(find, Due, find.hits[b])
  BY <1>1 DEF FindIs, Running
<1>. DEFINE rest == SubSeq(Merged, find.from + 1, Len(Merged))
            p == IF find.ok = {} THEN <<>> ELSE rest
            code == IF find.ok = {} THEN 503 ELSE 200
            r == [find EXCEPT !.pc = "done", !.code = code, !.page = p]
<1>5. find' = r
  BY DEF Respond
<1>6. Merged \in Seq(Doc) /\ ToSet(Merged) \subseteq ToSet(Met)
  BY <1>3, MergedIsFull
<1>7. /\ rest \in Seq(Doc) /\ ToSet(rest) \subseteq ToSet(Merged)
      /\ find.from = 0 => Len(rest) = Len(Merged)
  BY <1>3, <1>6, RestOfSequence
<1>. HIDE DEF rest
<1>8. Clean(find, Due, rest)
  <2>1. ASSUME NEW d \in ToSet(rest), d \notin find.stale PROVE Shown(find, Due, d)
    <3>1. \E b \in Backend : d \in ToSet(find.hits[b])
      BY <1>3, <1>6, <1>7, MetIsWhatWasHit DEF Backend
    <3>. QED
      BY <1>4, <2>1, <3>1 DEF Clean
  <2>. QED
    BY <2>1 DEF Clean
<1>9. p \in Seq(Doc) /\ Clean(find, Due, p)
  BY <1>7, <1>8, EmptyHits
<1>10. find.ok # {} => p = rest
  OBVIOUS
<1>. HIDE DEF p
<1>11. r \in FindRecord
  <2>1. code \in Codes
    BY DEF Codes
  <2>. HIDE DEF code
  <2>. QED
    BY <1>1, <1>9, <2>1, FindWrites, Zenon
<1>12. /\ r.pc = "done" /\ r.wait = {} /\ r.acl = find.acl /\ r.stale = find.stale
       /\ r.ok = find.ok /\ r.mute = find.mute /\ r.from = find.from /\ r.page = p
  BY <1>1 DEF FindRecord
<1>. HIDE DEF r
<1>13. Mine(r, Due, matching) = Mine(find, Due, matching)
  <2>1. r.acl = find.acl /\ r.stale = find.stale
    BY <1>12
  <2>. QED
    BY <2>1 DEF Mine, Shown
<1>14. Clean(r, Due, r.page)
  <2>1. r.acl = find.acl /\ r.stale = find.stale /\ r.page = p
    BY <1>12
  <2>. QED
    BY <1>9, <2>1 DEF Clean, Shown
<1>15. PageIsFull(r, Due, matching)
  <2>1. SUFFICES ASSUME "lexical" \in find.ok, ~find.mute, find.from = 0,
                        Cardinality(Mine(find, Due, matching)) >= Size
                 PROVE  Len(p) = Size
    BY <1>12, <1>13 DEF PageIsFull
  <2>2. Enough(find, Due, matching, find.hits["lexical"])
    BY <1>1, <2>1 DEF FindIs, Running, Ample
  <2>3. Len(Merged) = Size
    BY <1>3, <2>1, <2>2, FusedIsFull
  <2>. QED
    BY <1>7, <1>10, <2>1, <2>3
<1>16. FindIs(r, Due, copy, matching)
  BY <1>12, <1>14, <1>15 DEF FindIs
<1>. QED
  BY <1>2, <1>5, <1>11, <1>16 DEF FindGoal

LEMMA ChangeStep ==
  ASSUME RetrievalShape, RetrievalInv, NEW d \in Doc, Change(d), matching' = matching,
         \A e \in Doc \ {d} : Due'[e] = Due[e] /\ \A i \in Index : copy'[i][e] = copy[i][e]
  PROVE  FindGoal /\ OpenGoal
<1>1. find \in FindRecord /\ FindIs(find, Due, copy, matching) /\ matching \in Seq(Doc)
  BY DEF RetrievalShape, RetrievalInv
<1>2. find.pc # "done" /\ open.pc # "body"
  BY DEF Change, Unread
<1>3. find' = Unsettled(find, d)
  BY DEF Change, Unsettled
<1>4. find' \in FindRecord /\ FindIs(find', Due', copy', matching)
  BY <1>1, <1>2, <1>3, ChangeKeeps, Zenon
<1>5. FindGoal
  BY <1>4 DEF FindGoal
<1>6. open' = (IF open.doc = d THEN [open EXCEPT !.stale = TRUE] ELSE open) /\ open \in OpenRecord
  BY DEF Change, RetrievalShape
<1>7. open' \in OpenRecord /\ open'.pc = open.pc /\ open'.doc = open.doc
  BY <1>6 DEF OpenRecord
<1>8. OpenIs(open, inForce)
  BY DEF RetrievalInv
<1>9. OpenGoal
  BY <1>2, <1>7, <1>8 DEF OpenGoal, OpenIs
<1>. QED
  BY <1>5, <1>9

TermsGoal == inForce' \in Rows /\ owned' \subseteq Doc /\ copy' \in [Index -> Terms]

LEMMA PersistTermsKeeps ==
  ASSUME RetrievalShape, RetrievalInv, NEW d \in Doc, PersistTerms(d)
  PROVE  TermsGoal /\ FindGoal /\ OpenGoal
<1>1. PICK a \in Access, mine \in {{}, {d}} :
          inForce' = [inForce EXCEPT ![d] = a] /\ owned' = (owned \ {d}) \cup mine
  BY DEF PersistTerms
<1>2. copy' = copy /\ matching' = matching /\ Change(d)
  BY DEF PersistTerms
<1>3. inForce \in Rows /\ owned \subseteq Doc /\ copy \in [Index -> Terms]
  BY DEF RetrievalShape
<1>4. TermsGoal
  <2>1. inForce' \in Rows
    BY <1>1, <1>3 DEF Rows
  <2>2. owned' \subseteq Doc
    BY <1>1, <1>3
  <2>. QED
    BY <1>2, <1>3, <2>1, <2>2 DEF TermsGoal
<1>5. \A e \in Doc \ {d} : inForce'[e] = inForce[e] /\ (e \in owned' <=> e \in owned)
  BY <1>1, <1>3 DEF Rows
<1>6. \A e \in Doc \ {d} : Due'[e] = Due[e] /\ \A i \in Index : copy'[i][e] = copy[i][e]
  BY <1>2, <1>5, DueOthers
<1>. QED
  BY <1>2, <1>4, <1>6, ChangeStep

LEMMA DropKeeps ==
  ASSUME RetrievalShape, RetrievalInv, NEW d \in Doc, Drop(d)
  PROVE  TermsGoal /\ FindGoal /\ OpenGoal
<1>1. inForce' = [inForce EXCEPT ![d] = Gone] /\ copy' = [copy EXCEPT !["points"][d] = Gone]
  BY DEF Drop
<1>2. matching' = matching /\ owned' = owned /\ Change(d)
  BY DEF Drop
<1>3. inForce \in Rows /\ owned \subseteq Doc /\ copy \in [Index -> Terms] /\ "points" \in Index
  BY DEF RetrievalShape, Index
<1>4. /\ [copy["points"] EXCEPT ![d] = Gone] \in Terms
      /\ copy["points"] \in Terms
  <2>1. copy["points"] \in Terms
    BY <1>3
  <2>2. ASSUME NEW V, Gone \in V, NEW c \in [Doc -> V] PROVE [c EXCEPT ![d] = Gone] \in [Doc -> V]
    BY <2>2
  <2>3. Gone \in Value
    BY ValueIs
  <2>4. copy["points"] \in [Doc -> Value]
    BY <2>1 DEF Terms
  <2>5. [copy["points"] EXCEPT ![d] = Gone] \in [Doc -> Value]
    BY <2>2, <2>3, <2>4, Zenon
  <2>. QED
    BY <2>1, <2>5 DEF Terms
<1>5. copy' = [copy EXCEPT !["points"] = [copy["points"] EXCEPT ![d] = Gone]]
  BY <1>1
<1>6. copy' \in [Index -> Terms]
  BY <1>3, <1>4, <1>5
<1>7. TermsGoal
  <2>1. inForce' \in Rows
    BY <1>1, <1>3 DEF Rows
  <2>. QED
    BY <1>2, <1>3, <1>6, <2>1 DEF TermsGoal
<1>8. \A i \in Index : copy'[i] = IF i = "points" THEN [copy["points"] EXCEPT ![d] = Gone] ELSE copy[i]
  BY <1>3, <1>5
<1>9. \A e \in Doc \ {d} : [copy["points"] EXCEPT ![d] = Gone][e] = copy["points"][e]
  BY <1>4 DEF Terms
<1>10. \A e \in Doc \ {d} : inForce'[e] = inForce[e] /\ (e \in owned' <=> e \in owned)
  BY <1>1, <1>2, <1>3 DEF Rows
<1>11. \A e \in Doc \ {d} : Due'[e] = Due[e] /\ \A i \in Index : copy'[i][e] = copy[i][e]
  BY <1>8, <1>9, <1>10, DueOthers
<1>. QED
  BY <1>2, <1>7, <1>11, ChangeStep

LEMMA FallbackKeeps ==
  ASSUME RetrievalShape, RetrievalInv, NEW n \in Index, NEW d \in Doc, Fallback(n, d)
  PROVE  TermsGoal /\ FindGoal /\ OpenGoal
<1>1. PICK t \in SUBSET Term : copy' = [copy EXCEPT ![n][d] = t]
  BY DEF Fallback
<1>2. /\ Due' = Due /\ matching' = matching /\ inForce' = inForce /\ owned' = owned
      /\ Change(d)
  BY DueStays DEF Fallback
<1>3. copy \in [Index -> Terms] /\ inForce \in Rows /\ owned \subseteq Doc
  BY DEF RetrievalShape
<1>4. t \in Value
  BY ValueIs
<1>5. copy[n] \in Terms /\ [copy[n] EXCEPT ![d] = t] \in Terms
  BY <1>3, <1>4 DEF Terms
<1>6. copy' = [copy EXCEPT ![n] = [copy[n] EXCEPT ![d] = t]]
  BY <1>1
<1>7. copy' \in [Index -> Terms]
  BY <1>3, <1>5, <1>6
<1>8. \A i \in Index : copy'[i] = IF i = n THEN [copy[n] EXCEPT ![d] = t] ELSE copy[i]
  BY <1>3, <1>6
<1>9. \A e \in Doc \ {d} : [copy[n] EXCEPT ![d] = t][e] = copy[n][e]
  BY <1>5 DEF Terms
<1>10. \A e \in Doc \ {d} : Due'[e] = Due[e] /\ \A i \in Index : copy'[i][e] = copy[i][e]
  BY <1>2, <1>8, <1>9
<1>11. TermsGoal
  BY <1>2, <1>3, <1>7 DEF TermsGoal
<1>. QED
  BY <1>2, <1>10, <1>11, ChangeStep

LEMMA UpsertKeeps ==
  ASSUME RetrievalShape, RetrievalInv, NEW n \in Index, NEW d \in Doc, Upsert(n, d)
  PROVE  TermsGoal /\ FindGoal /\ OpenGoal
<1>1. copy' = [copy EXCEPT ![n][d] = Due[d]]
  BY DEF Upsert
<1>2. Due' = Due /\ matching' = matching /\ find' = find /\ open' = open /\ inForce' = inForce /\ owned' = owned
  BY DueStays DEF Upsert
<1>3. /\ Due \in Terms /\ copy \in [Index -> Terms] /\ find \in FindRecord /\ open \in OpenRecord
      /\ inForce \in Rows /\ owned \subseteq Doc
  BY DueTyped DEF RetrievalShape
<1>4. copy[n] \in Terms /\ [copy[n] EXCEPT ![d] = Due[d]] \in Terms
  BY <1>3 DEF Terms
<1>5. copy' = [copy EXCEPT ![n] = [copy[n] EXCEPT ![d] = Due[d]]]
  BY <1>1
<1>6. copy' \in [Index -> Terms]
  BY <1>3, <1>4, <1>5
<1>7. \A i \in Index : copy'[i] = IF i = n THEN [copy[n] EXCEPT ![d] = Due[d]] ELSE copy[i]
  BY <1>3, <1>5
<1>8. \A e \in Doc : [copy[n] EXCEPT ![d] = Due[d]][e] = IF e = d THEN Due[d] ELSE copy[n][e]
  BY <1>4 DEF Terms
<1>9. \A i \in Index : \A e \in Doc : copy'[i][e] = copy[i][e] \/ copy'[i][e] = Due[e]
  BY <1>7, <1>8
<1>10. FindIs(find, Due, copy', matching)
  BY <1>9, CatchUpKeeps DEF RetrievalInv
<1>. QED
  BY <1>2, <1>3, <1>6, <1>10 DEF TermsGoal, FindGoal, OpenGoal, RetrievalInv

LEMMA ReadKeeps ==
  ASSUME RetrievalShape, Read
  PROVE  FindGoal
<1>1. find' = NoFind
  BY DEF Read
<1>2. NoFind \in FindRecord /\ FindIs(NoFind, Due', copy', matching')
  BY NoFindTyped, NoFindIs
<1>. QED
  BY <1>1, <1>2 DEF FindGoal

LEMMA NoOpenIs == NoOpen \in OpenRecord /\ \A f : OpenIs(NoOpen, f)
BY DEF NoOpen, OpenRecord, OpenIs

LEMMA OpenDocKeeps ==
  ASSUME RetrievalShape, NEW d \in Doc, OpenDoc(d)
  PROVE  OpenGoal
<1>1. CASE copy["points"][d] # Gone
  <2>1. open' = [pc |-> "decide", doc |-> d, stale |-> Behind(d)]
    BY <1>1 DEF OpenDoc
  <2>2. Behind(d) \in BOOLEAN
    BY DEF Behind
  <2>3. open' \in OpenRecord
    BY <2>1, <2>2 DEF OpenRecord
  <2>4. open'.pc = "decide" /\ open'.doc = d
    BY <2>1
  <2>. QED
    BY <2>3, <2>4 DEF OpenGoal, OpenIs
<1>2. CASE copy["points"][d] = Gone
  <2>1. open' = [NoOpen EXCEPT !.pc = "missing"]
    BY <1>2 DEF OpenDoc
  <2>. QED
    BY <2>1 DEF OpenGoal, OpenIs, OpenRecord, NoOpen
<1>. QED
  BY <1>1, <1>2

LEMMA DecideKeeps ==
  ASSUME RetrievalShape, RetrievalInv, Decide
  PROVE  OpenGoal
<1>1. /\ open.pc = "decide" /\ inForce' = inForce
      /\ open' = [open EXCEPT !.pc = IF CanRead(open.doc) THEN "body" ELSE "forbidden"]
  BY DEF Decide
<1>2. open \in OpenRecord /\ OpenIs(open, inForce)
  BY DEF RetrievalShape, RetrievalInv
<1>3. /\ open' \in OpenRecord /\ open'.doc = open.doc
      /\ open'.pc = IF CanRead(open.doc) THEN "body" ELSE "forbidden"
  BY <1>1, <1>2 DEF OpenRecord
<1>. QED
  BY <1>1, <1>2, <1>3 DEF OpenGoal, OpenIs, CanRead

LEMMA CloseKeeps ==
  ASSUME Close
  PROVE  OpenGoal
<1>1. open' = NoOpen
  BY DEF Close
<1>. QED
  BY <1>1, NoOpenIs DEF OpenGoal

LEMMA RetrievalStart ==
  ASSUME RetrievalInit
  PROVE  RetrievalShape /\ RetrievalInv
<1>1. inForce \in Rows /\ owned \subseteq Doc
  BY DEF RetrievalInit, Rows
<1>2. copy \in [Index -> Terms]
  BY <1>1, DueTyped DEF RetrievalInit
<1>3. nearest \in Seq(Doc) /\ matching \in Seq(Doc)
  <2>1. IsFiniteSet(Doc)
    BY DocAssumption
  <2>2. nearest \in Seq(Doc)
    BY <2>1, OrderIsSequence DEF RetrievalInit
  <2>3. PICK S \in SUBSET Doc : matching \in Orders(S)
    BY DEF RetrievalInit
  <2>4. IsFiniteSet(S)
    BY <2>1, FS_Subset
  <2>5. matching \in Seq(S)
    BY <2>3, <2>4, OrderIsSequence
  <2>6. matching \in Seq(Doc)
    BY <2>5
  <2>. QED
    BY <2>2, <2>6
<1>4. find = NoFind /\ open = NoOpen
  BY DEF RetrievalInit
<1>. QED
  BY <1>1, <1>2, <1>3, <1>4, NoFindTyped, NoFindIs, NoOpenIs DEF RetrievalShape, RetrievalInv

LEMMA RetrievalStep ==
  ASSUME RetrievalShape, RetrievalInv, [RetrievalNext]_retrievalVars
  PROVE  RetrievalShape' /\ RetrievalInv'
<1>. DEFINE Goal == TermsGoal /\ FindGoal /\ OpenGoal
            SameTerms == inForce' = inForce /\ owned' = owned /\ copy' = copy /\ matching' = matching
<1>1. SameTerms => TermsGoal
  BY DEF TermsGoal, RetrievalShape
<1>2. SameTerms /\ find' = find => FindGoal
  BY DueStays DEF FindGoal, RetrievalShape, RetrievalInv
<1>3. SameTerms /\ open' = open => OpenGoal
  BY DEF OpenGoal, RetrievalShape, RetrievalInv
<1>4. ASSUME NEW d \in Doc, PersistTerms(d) \/ Drop(d) PROVE Goal /\ nearest' = nearest /\ matching' = matching
  <2>1. nearest' = nearest /\ matching' = matching
    BY <1>4 DEF PersistTerms, Drop
  <2>. QED
    BY <1>4, <2>1, PersistTermsKeeps, DropKeeps
<1>5. ASSUME NEW d \in Doc, NEW i \in Index, Upsert(i, d) PROVE Goal /\ nearest' = nearest /\ matching' = matching
  <2>1. nearest' = nearest /\ matching' = matching
    BY <1>5 DEF Upsert
  <2>. QED
    BY <1>5, <2>1, UpsertKeeps
<1>5a. ASSUME NEW d \in Doc, NEW i \in Index, Fallback(i, d) PROVE Goal /\ nearest' = nearest /\ matching' = matching
  <2>1. nearest' = nearest /\ matching' = matching
    BY <1>5a DEF Fallback
  <2>. QED
    BY <1>5a, <2>1, FallbackKeeps
<1>6. ASSUME NEW d \in Doc, OpenDoc(d) PROVE Goal /\ nearest' = nearest /\ matching' = matching
  <2>1. SameTerms /\ find' = find /\ nearest' = nearest
    BY <1>6 DEF OpenDoc
  <2>. QED
    BY <1>1, <1>2, <1>6, <2>1, OpenDocKeeps
<1>7. ASSUME NEW acl \in Caller, NEW from \in 0..Size, NEW off \in SUBSET {"lexical", "vector"},
             Search(acl, from, Backend \ off)
      PROVE  Goal /\ nearest' = nearest /\ matching' = matching
  <2>1. SameTerms /\ open' = open /\ nearest' = nearest
    BY <1>7 DEF Search
  <2>2. Backend \ off \in SUBSET Backend
    OBVIOUS
  <2>3. FindGoal
    BY <1>7, <2>2, SearchKeeps
  <2>. QED
    BY <1>1, <1>3, <2>1, <2>3
<1>8. ASSUME SearchIndexed \/ SearchLexical \/ SearchVector \/ Respond \/ Read
      PROVE  Goal /\ nearest' = nearest /\ matching' = matching
  <2>1. SameTerms /\ open' = open /\ nearest' = nearest
    BY <1>8 DEF SearchIndexed, SearchLexical, SearchVector, Respond, Read
  <2>2. FindGoal
    BY <1>8, SearchIndexedKeeps, SearchLexicalKeeps, SearchVectorKeeps, RespondKeeps, ReadKeeps
  <2>. QED
    BY <1>1, <1>3, <2>1, <2>2
<1>9. ASSUME Decide \/ Close PROVE Goal /\ nearest' = nearest /\ matching' = matching
  <2>1. SameTerms /\ find' = find /\ nearest' = nearest
    BY <1>9 DEF Decide, Close
  <2>2. OpenGoal
    BY <1>9, DecideKeeps, CloseKeeps
  <2>. QED
    BY <1>1, <1>2, <2>1, <2>2
<1>10. ASSUME UNCHANGED retrievalVars PROVE Goal /\ nearest' = nearest /\ matching' = matching
  BY <1>1, <1>2, <1>3, <1>10 DEF retrievalVars
<1>. HIDE DEF Goal
<1>11. Goal /\ nearest' = nearest /\ matching' = matching
  BY <1>4, <1>5, <1>5a, <1>6, <1>7, <1>8, <1>9, <1>10 DEF RetrievalNext
<1>12. TermsGoal /\ FindGoal /\ OpenGoal
  BY <1>11 DEF Goal
<1>. QED
  BY <1>11, <1>12 DEF TermsGoal, FindGoal, OpenGoal, RetrievalShape, RetrievalInv

LEMMA RetrievalHolds == RetrievalSpec => [](RetrievalShape /\ RetrievalInv)
<1>1. RetrievalInit => RetrievalShape /\ RetrievalInv
  BY RetrievalStart
<1>2. RetrievalShape /\ RetrievalInv /\ [RetrievalNext]_retrievalVars => (RetrievalShape /\ RetrievalInv)'
  BY RetrievalStep
<1>. QED
  BY <1>1, <1>2, PTL DEF RetrievalSpec

\* Who has an index term that is due, has a row that allows or denies, or is
\* lent the term.
LEMMA DueIsGranted ==
  ASSUME RetrievalShape, NEW d \in Doc, NEW acl \in Caller
  PROVE  /\ RowsLet(acl, d) => Due[d] # Gone /\ Visible(acl, Due[d])
         /\ Due[d] # Gone /\ Visible(acl, Due[d]) => RowsLet(acl, d) \/ DenialLost(acl, d) \/ Lent(acl, d)
<1>1. /\ DenyTerms({}) = {} /\ DenyTerms({"me"}) = {"deny:me"}
      /\ DenyTerms({"me", "team"}) = {"deny:me", "deny:team"}
  BY DEF DenyTerms, Denial
<1>2. acl = {} \/ acl = {"me"} \/ acl = {"me", "team"}
  BY DEF Caller
<1>3. CASE inForce[d] = Gone
  BY <1>3 DEF Due, RowsLet
<1>4. CASE inForce[d] # Gone
  <2>1. inForce[d] = {"me"} \/ inForce[d] = {"team"} \/ inForce[d] = {"team", "deny:me"}
    BY <1>4 DEF RetrievalShape, Rows, Access
  <2>. DEFINE a == inForce[d]
              t == TermsOf(a, d \in owned)
  <2>2. Due[d] = t
    BY <1>4 DEF Due
  <2>3. /\ a = {"me"} => t = {"me"}
        /\ a = {"team"} => t = IF d \in owned THEN {"me", "team"} ELSE {"team"}
        /\ a = {"team", "deny:me"} => t = {"me", "team"}
    <3>. HIDE DEF a
    <3>1. Named["me"] = "me" /\ Named["team"] = "team" /\ Named["deny:me"] = "me"
      BY DEF Named
    <3>. QED
      BY <3>1 DEF TermsOf
  <2>. HIDE DEF t
  <2>7. t # Gone
    <3>1. t \in SUBSET Term /\ {"me"} \in Access
      BY <2>1, <2>3 DEF Term, Access
    <3>2. \A x \in Access, y \in SUBSET Term : Gone \notin {x, y}
      BY DocAssumption
    <3>. QED
      BY <3>1, <3>2, Zenon
  <2>4. CASE a = {"me"}
    BY <1>1, <1>2, <1>4, <2>2, <2>3, <2>4 DEF RowsLet, Visible
  <2>5. CASE a = {"team"}
    <3>1. CASE d \in owned
      <4>1. t = {"me", "team"} /\ inForce[d] = {"team"}
        BY <2>3, <2>5, <3>1
      <4>2. "me" \in acl => Lent(acl, d)
        BY <3>1 DEF Lent
      <4>3. CASE acl = {}
        BY <1>1, <2>2, <4>3 DEF RowsLet, Visible
      <4>4. CASE acl = {"me"}
        BY <1>1, <2>2, <4>1, <4>2, <4>4 DEF RowsLet, Visible
      <4>5. CASE acl = {"me", "team"}
        <5>1. Visible({"me", "team"}, {"team"})
          BY <1>1 DEF Visible
        <5>2. Visible(acl, inForce[d])
          BY <4>1, <4>5, <5>1
        <5>3. RowsLet(acl, d)
          BY <1>4, <5>2 DEF RowsLet
        <5>4. Due[d] # Gone
          BY <2>2, <2>7
        <5>5. Visible({"me", "team"}, {"me", "team"})
          BY <1>1 DEF Visible
        <5>6. Visible(acl, Due[d])
          BY <2>2, <4>1, <4>5, <5>5
        <5>. QED
          BY <5>3, <5>4, <5>6
      <4>. QED
        BY <1>2, <4>3, <4>4, <4>5
    <3>2. CASE d \notin owned
      BY <1>1, <1>2, <1>4, <2>2, <2>3, <2>5, <3>2 DEF RowsLet, Visible
    <3>. QED
      BY <3>1, <3>2
  <2>6. CASE a = {"team", "deny:me"}
    BY <1>1, <1>2, <1>4, <2>2, <2>3, <2>6 DEF RowsLet, DenialLost, Visible
  <2>. QED
    BY <2>1, <2>2, <2>4, <2>5, <2>6, <2>7
<1>. QED
  BY <1>3, <1>4

\* A page holds what the access rows in force let the caller see, and is
\* filled with it as long as OpenSearch answers, but for documents an index was
\* behind on, denials that the indexes do not know and the terms of the user
\* whose crawl it was (_safe_call_indexed, OpenSearchLexicalStore.search,
\* _merge_and_rank, _build_unified_document, bulk_index).
THEOREM PageShowsWhatItMay == RetrievalSpec => []PageIsExact
<1>1. RetrievalShape /\ RetrievalInv => PageIsExact
  <2>. SUFFICES ASSUME RetrievalShape, RetrievalInv PROVE PageIsExact
    OBVIOUS
  <2>1. FindIs(find, Due, copy, matching) /\ find \in FindRecord /\ matching \in Seq(Doc)
    BY DEF RetrievalInv, RetrievalShape
  <2>2. find.page \in Seq(Doc) /\ find.acl \in Caller
    BY <2>1 DEF FindRecord
  <2>3. Clean(find, Due, find.page)
    BY <2>1, EmptyHits DEF FindIs
  <2>4. SettledIsExact
    <3>1. \A i \in DOMAIN find.page : find.page[i] \in ToSet(find.page) /\ find.page[i] \in Doc
      BY <2>2, SequenceMembers
    <3>. QED
      BY <2>2, <2>3, <3>1, DueIsGranted DEF SettledIsExact, Clean, Shown
  <2>5. LexicalMakesUp
    <3>. DEFINE M == {d \in ToSet(matching) \ find.stale : RowsLet(find.acl, d)}
                W == Mine(find, Due, matching)
    <3>1. \A d \in ToSet(matching) : d \in Doc
      BY <2>1, SequenceMembers
    <3>2. M \subseteq W
      BY <2>2, <3>1, DueIsGranted DEF Mine, Shown
    <3>3. W \in SUBSET Doc
      BY <3>1 DEF Mine
    <3>. HIDE DEF M, W
    <3>4. Cardinality(M) \in Nat /\ Cardinality(W) \in Nat /\ Cardinality(M) <= Cardinality(W)
      BY <3>2, <3>3, DocAssumption, FS_Subset, FS_CardinalityType
    <3>5. Size \in Nat
      BY BoundsAssumption
    <3>6. Cardinality(M) >= Size => Cardinality(W) >= Size
      BY <3>4, <3>5
    <3>. QED
      BY <2>1, <3>6 DEF M, W, LexicalMakesUp, FindIs, PageIsFull
  <2>. QED
    BY <2>4, <2>5 DEF PageIsExact
<1>. QED
  BY <1>1, RetrievalHolds, PTL

\* What the reader opens by the rows that name the caller, a search with the
\* caller's name shows (principal_can_read_document, document_is_visible).
THEOREM OpenedCouldBeFound == RetrievalSpec => []OpenedIsVisible
<1>1. RetrievalShape /\ RetrievalInv => OpenedIsVisible
  <2>. SUFFICES ASSUME RetrievalShape, RetrievalInv, open.pc = "body",
                       copy["points"][open.doc] = Due[open.doc]
                PROVE  Visible({"me"}, copy["points"][open.doc])
    BY DEF OpenedIsVisible
  <2>1. open.doc \in Doc /\ inForce[open.doc] # Gone /\ "me" \in inForce[open.doc] /\ "deny:me" \notin inForce[open.doc]
    BY DEF RetrievalInv, OpenIs
  <2>2. DenyTerms({"me"}) = {"deny:me"} /\ {"me"} \in Caller
    BY DEF DenyTerms, Denial, Caller
  <2>3. inForce[open.doc] = {"me"}
    BY <2>1 DEF RetrievalShape, Rows, Access
  <2>4. DenyTerms({"me", "team"}) = {"deny:me", "deny:team"}
    BY DEF DenyTerms, Denial
  <2>5. RowsLet({"me"}, open.doc)
    BY <2>1, <2>2, <2>3, <2>4 DEF RowsLet, Visible
  <2>. QED
    BY <2>1, <2>2, <2>5, DueIsGranted
<1>. QED
  BY <1>1, RetrievalHolds, PTL

-----------------------------------------------------------------------------
(* ChatTurn. *)

Utterance == [role : Roles, turn : Turn]
History == Seq(Utterance)

\* What a turn can be.
TurnState ==
    [pc : {"idle", "search", "rank", "generate", "save", "done", "lost"},
     at : Proc \cup {Null}, in : Session \cup {Null}, copy : History, intent : Intents,
     rounds : Nat, hits : SUBSET Source, answer : Answers, cites : SUBSET Source]

ChatShape ==
    /\ row \in [Session -> History \cup {Null}]
    /\ held \in [Proc -> [Session -> History \cup {Null}]]
    /\ dbUp \in BOOLEAN
    /\ turn \in [Turn -> TurnState]
    /\ allowed \subseteq Source
    /\ could \in [Turn -> SUBSET Source] /\ adrift \in [Turn -> SUBSET Source]
    /\ blind \subseteq Turn /\ excused \subseteq Turn
    /\ \A t \in Turn : InFlight(t) => turn[t].at \in Proc /\ turn[t].in \in Session

LEMMA NullIsNoHistory == Null \notin History
BY ChatAssumption DEF History, Utterance, Roles

\* A history and one utterance more.
LEMMA OneMore ==
  ASSUME NEW h \in History, NEW u \in Utterance
  PROVE  /\ Append(h, u) \in History /\ DOMAIN Append(h, u) = 1..(Len(h) + 1)
         /\ Append(h, u)[Len(h) + 1] = u /\ Len(h) \in Nat /\ DOMAIN h = 1..Len(h)
         /\ \A i \in 1..Len(h) : Append(h, u)[i] = h[i]
BY DEF History

LEMMA SaidIsUtterance ==
  ASSUME NEW t \in Turn
  PROVE  Said("user", t) \in Utterance /\ Said("assistant", t) \in Utterance
BY DEF Said, Utterance, Roles

\* What a turn starts from is a history.
LEMMA OpenedIsHistory ==
  ASSUME ChatShape, NEW p \in Proc, NEW s \in Session
  PROVE  Loaded(p, s) \in History \cup {Null} /\ Opened(p, s) \in History
<1>1. Loaded(p, s) \in History \cup {Null}
  BY DEF ChatShape, Loaded
<1>2. <<>> \in History
  BY DEF History
<1>. QED
  BY <1>1, <1>2 DEF Opened

LEMMA ChatShapeInit == ChatInit => ChatShape
<1>1. Idle \in TurnState
  BY DEF Idle, TurnState, History, Intents, Answers
<1>2. Idle.pc = "idle"
  BY DEF Idle
<1>. QED
  BY <1>1, <1>2 DEF ChatInit, ChatShape, InFlight

\* The shape of the turns, when one of them changes.
LEMMA MoveKeeps ==
  ASSUME ChatShape, NEW t \in Turn, NEW r \in TurnState, Move(t, r),
         r.pc \notin {"idle", "done", "lost"} => r.at \in Proc /\ r.in \in Session
  PROVE  /\ turn' \in [Turn -> TurnState]
         /\ \A u \in Turn : InFlight(u)' => turn'[u].at \in Proc /\ turn'[u].in \in Session
         /\ turn'[t] = r /\ \A u \in Turn \ {t} : turn'[u] = turn[u]
BY DEF ChatShape, Move, InFlight

\* What is left of a turn that ended.
Rest(to, s, a, cs) == [Idle EXCEPT !.pc = to, !.in = s, !.answer = a, !.cites = cs]

RestIs(to, s, a, cs) ==
    /\ Rest(to, s, a, cs) \in TurnState /\ Rest(to, s, a, cs).pc = to
    /\ Rest(to, s, a, cs).in = s /\ Rest(to, s, a, cs).answer = a /\ Rest(to, s, a, cs).cites = cs
    /\ [Rest(to, s, a, cs) EXCEPT !.answer = "none", !.cites = {}] = Rest(to, s, "none", {})
    /\ [Rest(to, s, a, cs) EXCEPT !.answer = "fallback", !.cites = {}] = Rest(to, s, "fallback", {})

LEMMA RestFields ==
  ASSUME NEW to \in {"done", "lost"}, NEW s \in Session \cup {Null}, NEW a \in Answers, NEW cs \in SUBSET Source
  PROVE  RestIs(to, s, a, cs)
<1>1. Idle \in TurnState
  BY DEF Idle, TurnState, History, Intents, Answers
<1>2. /\ Rest(to, s, a, cs).pc = to /\ Rest(to, s, a, cs).in = s
      /\ Rest(to, s, a, cs).answer = a /\ Rest(to, s, a, cs).cites = cs
  BY <1>1 DEF Rest, TurnState
<1>3. Rest(to, s, a, cs) \in TurnState
  BY <1>1 DEF Rest, TurnState
<1>4. /\ [Rest(to, s, a, cs) EXCEPT !.answer = "none", !.cites = {}] = Rest(to, s, "none", {})
      /\ [Rest(to, s, a, cs) EXCEPT !.answer = "fallback", !.cites = {}] = Rest(to, s, "fallback", {})
  BY <1>1 DEF Rest, TurnState
<1>. QED
  BY <1>2, <1>3, <1>4 DEF RestIs

LEMMA TurnFields ==
  ASSUME ChatShape, NEW t \in Turn
  PROVE  /\ turn[t] \in TurnState /\ turn[t].in \in Session \cup {Null} /\ turn[t].answer \in Answers
         /\ turn[t].hits \in SUBSET Source /\ turn[t].cites \in SUBSET Source /\ turn[t].copy \in History
         /\ InFlight(t) => turn[t].at \in Proc /\ turn[t].in \in Session
<1>1. turn[t] \in TurnState
  BY DEF ChatShape
<1>. QED
  BY <1>1 DEF TurnState, ChatShape

LEMMA EndedIsRest ==
  ASSUME ChatShape, NEW t \in Turn
  PROVE  /\ Ended(t, "done") = Rest("done", turn[t].in, turn[t].answer, turn[t].cites)
         /\ [Ended(t, "done") EXCEPT !.answer = "fallback", !.cites = {}] = Rest("done", turn[t].in, "fallback", {})
         /\ [Ended(t, "lost") EXCEPT !.answer = "none", !.cites = {}] = Rest("lost", turn[t].in, "none", {})
<1>1. \A to : Ended(t, to) = Rest(to, turn[t].in, turn[t].answer, turn[t].cites)
  BY DEF Ended, Rest
<1>2. turn[t].in \in Session \cup {Null} /\ turn[t].answer \in Answers /\ turn[t].cites \in SUBSET Source
  BY TurnFields
<1>3. /\ RestIs("done", turn[t].in, turn[t].answer, turn[t].cites)
      /\ RestIs("lost", turn[t].in, turn[t].answer, turn[t].cites)
  <2>1. "done" \in {"done", "lost"} /\ "lost" \in {"done", "lost"}
    OBVIOUS
  <2>. QED
    BY <1>2, <2>1, RestFields
<1>. QED
  BY <1>1, <1>3, Zenon DEF RestIs

LEMMA RestOfTurn ==
  ASSUME ChatShape, NEW t \in Turn, NEW to \in {"done", "lost"}, NEW a \in {"none", "fallback"}
  PROVE  /\ Rest(to, turn[t].in, a, {}) \in TurnState /\ Rest(to, turn[t].in, a, {}).pc = to
         /\ Rest(to, turn[t].in, a, {}).in = turn[t].in /\ Rest(to, turn[t].in, a, {}).answer = a
         /\ Rest(to, turn[t].in, a, {}).cites = {}
<1>1. turn[t].in \in Session \cup {Null} /\ a \in Answers /\ {} \in SUBSET Source
  BY TurnFields DEF Answers
<1>2. RestIs(to, turn[t].in, a, {})
  BY <1>1, RestFields
<1>. QED
  BY <1>2 DEF RestIs

-----------------------------------------------------------------------------
(* The rows and the indexes.  Where no indexing run is left and none went    *)
(* astray, the indexes follow the rows; a run that no other overlaps has the *)
(* terms of the rows in force.                                               *)

Job == [doc : Source, find : BOOLEAN, no : Nat]
Kinds == {"outages", "faults", "crashes", "runs"}

AccessShape ==
    /\ allowed \subseteq Source /\ findable \subseteq Source /\ crossed \subseteq Source
    /\ jobs \subseteq Job /\ budget \in [Kinds -> Nat]

Agreed(d) ==
    /\ \A j, k \in jobs : j.doc = d /\ k.doc = d => j = k
    /\ \A j \in jobs : j.doc = d => (j.find <=> d \in allowed)
    /\ (\A j \in jobs : j.doc # d) => (d \in findable <=> d \in allowed)

AccessInv == AccessShape /\ \A d \in Source \ crossed : Agreed(d)

LEMMA FoundIsLet ==
  ASSUME AccessInv
  PROVE  findable \subseteq allowed \cup Adrift /\ Adrift \subseteq Source
<1>1. ASSUME NEW d \in findable PROVE d \in allowed \cup Adrift
  <2>1. d \in Source
    BY <1>1 DEF AccessInv, AccessShape
  <2>2. CASE d \in crossed \/ \E j \in jobs : j.doc = d
    BY <2>2 DEF Adrift
  <2>3. CASE d \notin crossed /\ \A j \in jobs : j.doc # d
    BY <1>1, <2>1, <2>3 DEF AccessInv, Agreed
  <2>. QED
    BY <2>2, <2>3
<1>2. Adrift \subseteq Source
  BY DEF AccessInv, AccessShape, Adrift, Job
<1>. QED
  BY <1>1, <1>2

LEMMA SpendKeeps ==
  ASSUME AccessShape, NEW kind \in Kinds, Spend(kind)
  PROVE  budget' \in [Kinds -> Nat]
BY DEF AccessShape, Spend, Kinds

LEMMA MarkedIs ==
  ASSUME NEW S, NEW d, NEW in \in BOOLEAN
  PROVE  /\ d \in Marked(S, d, in) <=> in
         /\ \A e : e # d => (e \in Marked(S, d, in) <=> e \in S)
BY DEF Marked

\* Rows that change are followed by a job, or the document is named.
LEMMA ReplaceRowsAgrees ==
  ASSUME AccessInv, NEW d \in Source, NEW lets \in BOOLEAN, NEW more \in BOOLEAN, ReplaceRows(d, lets, more)
  PROVE  AccessInv'
<1>. DEFINE k == [doc |-> d, find |-> lets \/ more, no |-> budget.runs]
            bad == (more /\ ~lets) \/ \E j \in jobs : j.doc = d
<1>1. AccessShape /\ bad \in BOOLEAN
  BY DEF AccessInv
<1>2. /\ allowed' = Marked(allowed, d, lets) /\ crossed' = Marked(crossed, d, bad)
      /\ jobs' = jobs \cup {k} /\ findable' = findable /\ Spend("runs")
  BY DEF ReplaceRows
<1>3. k \in Job /\ k.doc = d /\ k.find = (lets \/ more)
  BY <1>1 DEF Job, AccessShape, Kinds
<1>4. ~bad => (\A j \in jobs : j.doc # d) /\ ((lets \/ more) <=> lets)
  OBVIOUS
<1>. HIDE DEF k, bad
<1>5. /\ d \in allowed' <=> lets
      /\ \A e : e # d => (e \in allowed' <=> e \in allowed)
  BY <1>2, MarkedIs
<1>6. /\ d \in crossed' <=> bad
      /\ \A e : e # d => (e \in crossed' <=> e \in crossed)
  BY <1>1, <1>2, MarkedIs
<1>7. AccessShape'
  <2>1. "runs" \in Kinds
    BY DEF Kinds
  <2>2. budget' \in [Kinds -> Nat]
    BY <1>1, <1>2, <2>1, SpendKeeps
  <2>3. jobs' \subseteq Job /\ findable' \subseteq Source
    BY <1>1, <1>2, <1>3 DEF AccessShape
  <2>4. allowed' \subseteq Source /\ crossed' \subseteq Source
    BY <1>1, <1>5, <1>6 DEF AccessShape
  <2>. QED
    BY <2>2, <2>3, <2>4 DEF AccessShape
<1>8. ASSUME d \notin crossed' PROVE Agreed(d)'
  <2>1. \A j \in jobs' : j.doc = d => j = k
    BY <1>2, <1>4, <1>6, <1>8
  <2>2. k \in jobs'
    BY <1>2
  <2>3. k.find <=> d \in allowed'
    BY <1>3, <1>4, <1>5, <1>6, <1>8
  <2>. QED
    BY <1>3, <2>1, <2>2, <2>3 DEF Agreed
<1>9. ASSUME NEW e \in Source, e # d, e \notin crossed' PROVE Agreed(e)'
  <2>1. Agreed(e)
    BY <1>6, <1>9 DEF AccessInv
  <2>2. \A j : j.doc = e => (j \in jobs' <=> j \in jobs)
    BY <1>2, <1>3, <1>9
  <2>3. (e \in allowed' <=> e \in allowed) /\ findable' = findable
    BY <1>2, <1>5, <1>9
  <2>. QED
    BY <2>1, <2>2, <2>3 DEF Agreed
<1>. QED
  BY <1>7, <1>8, <1>9 DEF AccessInv

\* The last job of a document leaves the indexes with the terms of the rows.
LEMMA WriteAgrees ==
  ASSUME AccessInv, NEW j \in jobs, WriteTerms(j)
  PROVE  AccessInv'
<1>1. /\ findable' = Marked(findable, j.doc, j.find) /\ jobs' = jobs \ {j}
      /\ allowed' = allowed /\ crossed' = crossed /\ budget' = budget
  BY DEF WriteTerms
<1>2. AccessShape /\ j.doc \in Source /\ j.find \in BOOLEAN
  BY DEF AccessInv, AccessShape, Job
<1>3. /\ j.doc \in findable' <=> j.find
      /\ \A e : e # j.doc => (e \in findable' <=> e \in findable)
  BY <1>1, <1>2, MarkedIs
<1>4. AccessShape'
  <2>1. findable' \subseteq Source
    BY <1>2, <1>3 DEF AccessShape
  <2>. QED
    BY <1>1, <1>2, <2>1 DEF AccessShape
<1>5. ASSUME NEW e \in Source \ crossed' PROVE Agreed(e)'
  <2>1. Agreed(e)
    BY <1>1, <1>5 DEF AccessInv
  <2>2. CASE e = j.doc
    <3>1. \A i \in jobs' : i.doc # e
      BY <1>1, <2>1, <2>2 DEF Agreed
    <3>2. e \in findable' <=> e \in allowed'
      BY <1>1, <1>3, <2>1, <2>2 DEF Agreed
    <3>. QED
      BY <3>1, <3>2 DEF Agreed
  <2>3. CASE e # j.doc
    <3>1. \A i : i.doc = e => (i \in jobs' <=> i \in jobs)
      BY <1>1, <2>3
    <3>2. (e \in findable' <=> e \in findable) /\ allowed' = allowed
      BY <1>1, <1>3, <2>3
    <3>. QED
      BY <2>1, <3>1, <3>2 DEF Agreed
  <2>. QED
    BY <2>2, <2>3
<1>. QED
  BY <1>4, <1>5 DEF AccessInv

LEMMA StopAgrees ==
  ASSUME AccessInv, NEW j \in jobs, StopRun(j)
  PROVE  AccessInv'
<1>1. /\ findable' = findable /\ jobs' = jobs \ {j} /\ allowed' = allowed
      /\ crossed' = crossed \cup {j.doc} /\ budget' = budget
  BY DEF StopRun
<1>2. AccessShape /\ j.doc \in Source
  BY DEF AccessInv, AccessShape, Job
<1>3. AccessShape'
  BY <1>1, <1>2 DEF AccessShape
<1>4. ASSUME NEW e \in Source \ crossed' PROVE Agreed(e)'
  <2>1. Agreed(e) /\ e # j.doc
    BY <1>1, <1>4 DEF AccessInv
  <2>2. \A i : i.doc = e => (i \in jobs' <=> i \in jobs)
    BY <1>1, <2>1
  <2>. QED
    BY <1>1, <2>1, <2>2 DEF Agreed
<1>. QED
  BY <1>3, <1>4 DEF AccessInv

\* No other step touches the rows or the indexes.
LEMMA AccessStep ==
  ASSUME AccessInv, [ChatNext]_chatVars
  PROVE  AccessInv'
<1>1. ASSUME UNCHANGED access, UNCHANGED budget \/ \E kind \in Kinds : Spend(kind) PROVE AccessInv'
  <2>1. allowed' = allowed /\ findable' = findable /\ jobs' = jobs /\ crossed' = crossed
    BY <1>1 DEF access
  <2>2. budget' \in [Kinds -> Nat]
    BY <1>1, SpendKeeps DEF AccessInv, AccessShape
  <2>3. AccessShape'
    BY <2>1, <2>2 DEF AccessInv, AccessShape
  <2>4. ASSUME NEW d \in Source \ crossed' PROVE Agreed(d)'
    <3>1. Agreed(d)
      BY <2>1, <2>4 DEF AccessInv
    <3>. QED
      BY <2>1, <3>1 DEF Agreed
  <2>. QED
    BY <2>3, <2>4 DEF AccessInv
<1>2. ASSUME NEW t \in Turn, Step(t) \/ Raise(t) PROVE AccessInv'
  <2>1. UNCHANGED access
    BY <1>2 DEF Step, SkipSearch, Rank, ReadTop, Finish, FederatedSearch, ReadAttachment, Generate, Raise
  <2>2. UNCHANGED budget \/ Spend("faults")
    BY <1>2 DEF Step, SkipSearch, Rank, ReadTop, Finish, FederatedSearch, ReadAttachment, Generate, Raise
  <2>. QED
    BY <1>1, <2>1, <2>2 DEF Kinds
<1>3. ASSUME NEW t \in Turn, NEW p \in Proc, NEW s \in Session, NEW i \in Intents, Ask(t, p, s, i)
      PROVE  AccessInv'
  BY <1>1, <1>3 DEF Ask
<1>4. ASSUME NEW p \in Proc, Crash(p) PROVE AccessInv'
  BY <1>1, <1>4 DEF Crash, Kinds
<1>5. ASSUME Outage PROVE AccessInv'
  BY <1>1, <1>5 DEF Outage, Kinds
<1>6. ASSUME (\E p \in Proc, s \in Session : View(p, s)) \/ UNCHANGED chatVars PROVE AccessInv'
  BY <1>1, <1>6 DEF View, chatVars
<1>. QED
  BY <1>2, <1>3, <1>4, <1>5, <1>6, ReplaceRowsAgrees, WriteAgrees, StopAgrees DEF ChatNext

-----------------------------------------------------------------------------
(* The steps of a turn that do not end it change neither the stored sessions *)
(* nor what the turn started from.                                           *)

Pending == {"search", "rank", "generate", "save"}

\* Turn t goes on to r.
GoesOn(t, r) ==
    /\ Move(t, r) /\ InFlight(t) /\ r \in TurnState /\ r.pc \in Pending
    /\ r.at = turn[t].at /\ r.in = turn[t].in /\ r.copy = turn[t].copy
    /\ adrift' \in [Turn -> SUBSET Source] /\ \A u \in Turn : adrift[u] \subseteq adrift'[u]
    /\ r.hits \subseteq turn[t].hits \cup allowed \cup adrift'[t]
    /\ r.cites \subseteq turn[t].cites \cup turn[t].hits
    /\ UNCHANGED <<row, held, dbUp, allowed, could, blind, excused>>

\* Two ways to change the record of a turn.
Onward(q, to, hs, n) == [q EXCEPT !.pc = to, !.hits = hs, !.rounds = n]
Written(q, a, cs) ==
    [q EXCEPT !.pc = "save", !.hits = {}, !.rounds = 0, !.intent = "search", !.answer = a, !.cites = cs]

LEMMA OnwardFields ==
  ASSUME NEW q \in TurnState, NEW hs \in SUBSET Source, NEW n \in Nat, NEW to \in Pending
  PROVE  /\ Onward(q, to, hs, n) \in TurnState /\ Onward(q, to, hs, n).pc = to
         /\ Onward(q, to, hs, n).hits = hs /\ Onward(q, to, hs, n).at = q.at
         /\ Onward(q, to, hs, n).in = q.in /\ Onward(q, to, hs, n).copy = q.copy
         /\ Onward(q, to, hs, n).cites = q.cites
<1>1. /\ Onward(q, to, hs, n).pc = to /\ Onward(q, to, hs, n).hits = hs
      /\ Onward(q, to, hs, n).at = q.at /\ Onward(q, to, hs, n).in = q.in
  BY DEF TurnState, Onward
<1>2. Onward(q, to, hs, n).copy = q.copy /\ Onward(q, to, hs, n).cites = q.cites
  BY DEF TurnState, Onward
<1>3. Onward(q, to, hs, n) \in TurnState
  BY DEF TurnState, Pending, Onward
<1>. QED
  BY <1>1, <1>2, <1>3

LEMMA WrittenFields ==
  ASSUME NEW q \in TurnState, NEW a \in Answers, NEW cs \in SUBSET Source
  PROVE  /\ Written(q, a, cs) \in TurnState /\ Written(q, a, cs).pc = "save"
         /\ Written(q, a, cs).hits = {} /\ Written(q, a, cs).at = q.at
         /\ Written(q, a, cs).in = q.in /\ Written(q, a, cs).copy = q.copy
         /\ Written(q, a, cs).cites = cs
<1>1. /\ Written(q, a, cs).pc = "save" /\ Written(q, a, cs).hits = {}
      /\ Written(q, a, cs).at = q.at /\ Written(q, a, cs).in = q.in
  BY DEF TurnState, Written
<1>2. Written(q, a, cs).copy = q.copy /\ Written(q, a, cs).cites = cs
  BY DEF TurnState, Written
<1>3. Written(q, a, cs) \in TurnState
  BY DEF TurnState, Written, Intents
<1>. QED
  BY <1>1, <1>2, <1>3

LEMMA GoesOnward ==
  ASSUME ChatShape, NEW t \in Turn, InFlight(t), NEW hs \in SUBSET Source, NEW n \in Nat, NEW to \in Pending,
         adrift' \in [Turn -> SUBSET Source], \A u \in Turn : adrift[u] \subseteq adrift'[u],
         hs \subseteq turn[t].hits \cup allowed \cup adrift'[t], Move(t, Onward(turn[t], to, hs, n)),
         UNCHANGED <<row, held, dbUp, allowed, could, blind, excused>>
  PROVE  \E r \in TurnState : GoesOn(t, r)
<1>1. turn[t] \in TurnState
  BY TurnFields
<1>2. GoesOn(t, Onward(turn[t], to, hs, n))
  BY <1>1, OnwardFields DEF GoesOn
<1>. QED
  BY <1>1, <1>2, OnwardFields, Zenon

LEMMA StepGoesOn ==
  ASSUME ChatShape, AccessInv, NEW t \in Turn, Step(t)
  PROVE  Finish(t) \/ \E r \in TurnState : GoesOn(t, r)
<1>. DEFINE q == turn[t]
<1>0. /\ q \in TurnState /\ q.hits \in SUBSET Source /\ q.rounds \in Nat /\ q.rounds + 1 \in Nat
      /\ allowed \subseteq Source /\ adrift \in [Turn -> SUBSET Source]
      /\ findable \subseteq allowed \cup Adrift /\ Adrift \subseteq Source
  BY TurnFields, FoundIsLet DEF TurnState, ChatShape
<1>. DEFINE Same == UNCHANGED <<row, held, dbUp, allowed, could, adrift, blind, excused>>
<1>1. CASE SkipSearch(t) \/ Rank(t)
  <2>1. Move(t, [q EXCEPT !.pc = "generate"]) /\ InFlight(t) /\ Same
    BY <1>1 DEF SkipSearch, Rank, store, history, access, InFlight
  <2>2. [q EXCEPT !.pc = "generate"] = Onward(q, "generate", q.hits, q.rounds)
    BY <1>0 DEF TurnState, Onward
  <2>3. adrift' \in [Turn -> SUBSET Source] /\ \A u \in Turn : adrift[u] \subseteq adrift'[u]
    BY <1>0, <2>1
  <2>4. q.hits \subseteq q.hits \cup allowed \cup adrift'[t] /\ "generate" \in Pending
    BY DEF Pending
  <2>. QED
    <3>1. Move(t, Onward(q, "generate", q.hits, q.rounds)) /\ InFlight(t)
      BY <2>1, <2>2
    <3>2. UNCHANGED <<row, held, dbUp, allowed, could, blind, excused>>
      BY <2>1
    <3>. HIDE DEF Same
    <3>. QED
      BY <1>0, <2>3, <2>4, <3>1, <3>2, GoesOnward
<1>2. CASE ReadTop(t)
  <2>1. Move(t, [q EXCEPT !.pc = "generate", !.rounds = @ + 1]) /\ InFlight(t) /\ Same
    BY <1>2 DEF ReadTop, store, history, access, InFlight
  <2>2. [q EXCEPT !.pc = "generate", !.rounds = @ + 1] = Onward(q, "generate", q.hits, q.rounds + 1)
    BY <1>0 DEF TurnState, Onward
  <2>. QED
    BY <1>0, <2>1, <2>2, GoesOnward DEF Pending
<1>3. ASSUME NEW found \in SUBSET Source, FederatedSearch(t, found) PROVE \E r \in TurnState : GoesOn(t, r)
  <2>1. /\ Move(t, Onward(q, "rank", found, q.rounds + 1)) /\ InFlight(t) /\ found \subseteq findable
        /\ UNCHANGED <<row, held, dbUp, allowed, could, blind, excused>>
        /\ adrift' = [adrift EXCEPT ![t] = adrift[t] \cup Adrift]
    BY <1>3 DEF FederatedSearch, FederatedHits, store, history, access, InFlight, Onward
  <2>2. /\ adrift' \in [Turn -> SUBSET Source] /\ \A u \in Turn : adrift[u] \subseteq adrift'[u]
        /\ adrift'[t] = adrift[t] \cup Adrift
    <3>. HIDE DEF q
    <3>. QED
      BY <1>0, <2>1
  <2>3. found \subseteq q.hits \cup allowed \cup adrift'[t]
    BY <1>0, <2>1, <2>2
  <2>. QED
    BY <1>0, <2>1, <2>2, <2>3, GoesOnward DEF Pending
<1>4. ASSUME NEW d \in Source, NEW ok \in BOOLEAN, ReadAttachment(t, d, ok) PROVE \E r \in TurnState : GoesOn(t, r)
  <2>. DEFINE hs == IF ok THEN {d} ELSE {}
  <2>1. hs \subseteq allowed
    BY <1>4 DEF ReadAttachment, ReaderAnswers
  <2>2. Move(t, Onward(q, "generate", hs, q.rounds + 1)) /\ InFlight(t) /\ Same
    BY <1>4 DEF ReadAttachment, store, history, access, InFlight, Onward
  <2>. HIDE DEF hs
  <2>. QED
    BY <1>0, <2>1, <2>2, GoesOnward DEF Pending
<1>5. ASSUME NEW hits \in SUBSET Source, NEW answer \in Answers, Generate(t, hits, answer)
      PROVE  \E r \in TurnState : GoesOn(t, r)
  <2>. DEFINE cs == Cited(answer, hits)
  <2>1. Move(t, Written(q, answer, cs)) /\ InFlight(t) /\ Same
    BY <1>5 DEF Generate, store, history, access, InFlight, Written
  <2>2. cs \subseteq q.hits /\ cs \in SUBSET Source
    BY <1>5 DEF Generate, KeptHits, Cited
  <2>3. GoesOn(t, Written(q, answer, cs))
    <3>. HIDE DEF cs
    <3>. QED
      BY <1>0, <2>1, <2>2, WrittenFields DEF GoesOn, Pending
  <2>. QED
    BY <1>0, <2>2, <2>3, WrittenFields, Zenon
<1>. QED
  BY <1>1, <1>2, <1>3, <1>4, <1>5 DEF Step

-----------------------------------------------------------------------------
(* The invariant.  A turn that did not start in an outage has read all that  *)
(* is safely in the row, because a turn that saves while it is on its way is *)
(* excused, and so what it writes back keeps it.                             *)

InOrderSaid(h) == \A i \in DOMAIN h : h[i].role = "assistant" => i > 1 /\ h[i - 1] = Said("user", h[i].turn)
IsSaved(q, s) == q.in = s /\ q.pc = "done" /\ q.answer # "fallback"
Holds(h, t) == \E i \in DOMAIN h : h[i] = Said("assistant", t)
Asks(h, t) == Len(h) > 0 /\ h[Len(h)] = Said("user", t)

Reaches ==
    \A t \in Turn :
        /\ turn[t].cites \subseteq could[t] \cup adrift[t]
        /\ InFlight(t) => turn[t].hits \subseteq could[t] \cup adrift[t] /\ allowed \subseteq could[t]
Follow ==
    /\ \A s \in Session : row[s] # Null => InOrderSaid(row[s])
    /\ \A p \in Proc, s \in Session : held[p][s] # Null => InOrderSaid(held[p][s])
    /\ \A t \in Turn : InFlight(t) => InOrderSaid(turn[t].copy) /\ Asks(turn[t].copy, t)
Keeps ==
    \A s \in Session, t \in Turn \ excused : IsSaved(turn[t], s) => row[s] # Null /\ Holds(row[s], t)
Knows ==
    \A t \in Turn \ blind, u \in Turn \ excused :
        InFlight(t) /\ IsSaved(turn[u], turn[t].in) => Holds(turn[t].copy, u)

ChatInv == Reaches /\ Follow /\ Keeps /\ Knows

\* One utterance more: a question may follow anything, an answer its question.
LEMMA QuestionFits ==
  ASSUME NEW h \in History, NEW t \in Turn, InOrderSaid(h)
  PROVE  InOrderSaid(Append(h, Said("user", t))) /\ Asks(Append(h, Said("user", t)), t)
<1>. DEFINE g == Append(h, Said("user", t))
<1>1. /\ DOMAIN g = 1..(Len(h) + 1) /\ g[Len(h) + 1] = Said("user", t) /\ Len(h) \in Nat
      /\ DOMAIN h = 1..Len(h) /\ (\A i \in 1..Len(h) : g[i] = h[i]) /\ Len(g) = Len(h) + 1
  BY OneMore, SaidIsUtterance DEF History
<1>. HIDE DEF g
<1>2. Asks(g, t)
  BY <1>1 DEF Asks
<1>3. ASSUME NEW i \in DOMAIN g, g[i].role = "assistant" PROVE i > 1 /\ g[i - 1] = Said("user", g[i].turn)
  <2>1. Said("user", t).role = "user"
    BY DEF Said
  <2>2. i \in 1..Len(h)
    BY <1>1, <1>3, <2>1
  <2>3. h[i].role = "assistant"
    BY <1>1, <1>3, <2>2
  <2>4. i > 1 /\ h[i - 1] = Said("user", h[i].turn)
    BY <1>1, <2>2, <2>3 DEF InOrderSaid
  <2>. QED
    BY <1>1, <2>2, <2>4
<1>. QED
  BY <1>2, <1>3 DEF InOrderSaid, g

LEMMA AnswerFits ==
  ASSUME NEW h \in History, NEW t \in Turn, InOrderSaid(h), Asks(h, t)
  PROVE  InOrderSaid(Append(h, Said("assistant", t))) /\ Holds(Append(h, Said("assistant", t)), t)
<1>. DEFINE g == Append(h, Said("assistant", t))
<1>1. /\ DOMAIN g = 1..(Len(h) + 1) /\ g[Len(h) + 1] = Said("assistant", t) /\ Len(h) \in Nat
      /\ DOMAIN h = 1..Len(h) /\ (\A i \in 1..Len(h) : g[i] = h[i])
  BY OneMore, SaidIsUtterance
<1>. HIDE DEF g
<1>2. Holds(g, t)
  BY <1>1 DEF Holds
<1>3. ASSUME NEW i \in DOMAIN g, g[i].role = "assistant" PROVE i > 1 /\ g[i - 1] = Said("user", g[i].turn)
  <2>1. CASE i \in 1..Len(h)
    <3>1. i > 1 /\ h[i - 1] = Said("user", h[i].turn)
      BY <1>1, <1>3, <2>1 DEF InOrderSaid
    <3>. QED
      BY <1>1, <2>1, <3>1
  <2>2. CASE i = Len(h) + 1
    <3>1. g[i].turn = t
      BY <1>1, <2>2 DEF Said
    <3>. QED
      BY <1>1, <2>2, <3>1 DEF Asks
  <2>. QED
    BY <1>1, <2>1, <2>2
<1>. QED
  BY <1>2, <1>3 DEF InOrderSaid, g

\* What was in a history still is when it grows.
LEMMA HoldsOn ==
  ASSUME NEW h \in History, NEW x \in Utterance, NEW u, Holds(h, u)
  PROVE  Holds(Append(h, x), u)
BY OneMore DEF Holds

LEMMA NothingSaid == InOrderSaid(<<>>)
BY DEF InOrderSaid

-----------------------------------------------------------------------------
(* The steps. *)

LEMMA GoingOnKeeps ==
  ASSUME ChatShape, ChatInv, NEW t \in Turn, NEW r \in TurnState, GoesOn(t, r)
  PROVE  ChatShape' /\ ChatInv'
<1>0. UNCHANGED row /\ UNCHANGED held /\ UNCHANGED dbUp /\ UNCHANGED allowed /\ UNCHANGED could
      /\ UNCHANGED blind /\ UNCHANGED excused
  BY DEF GoesOn
<1>1. /\ turn' \in [Turn -> TurnState] /\ turn'[t] = r /\ \A u \in Turn \ {t} : turn'[u] = turn[u]
      /\ \A u \in Turn : InFlight(u)' => turn'[u].at \in Proc /\ turn'[u].in \in Session
  <2>1. r.at \in Proc /\ r.in \in Session
    BY TurnFields DEF GoesOn
  <2>. QED
    BY <2>1, MoveKeeps DEF GoesOn
<1>2. \A u \in Turn : /\ InFlight(u)' <=> InFlight(u)
                      /\ turn'[u].in = turn[u].in /\ turn'[u].copy = turn[u].copy
                      /\ turn'[u].pc = "done" <=> turn[u].pc = "done"
                      /\ turn[u].pc = "done" => turn'[u] = turn[u]
  BY <1>1 DEF GoesOn, InFlight, Pending
<1>3. \A u \in Turn : \A s : IsSaved(turn'[u], s) => IsSaved(turn[u], s)
  BY <1>2 DEF IsSaved
<1>4. ChatShape'
  <2>1. adrift' \in [Turn -> SUBSET Source]
    BY DEF GoesOn
  <2>. QED
    BY <1>0, <1>1, <2>1 DEF ChatShape
<1>5. Reaches'
  BY <1>0, <1>1, <1>2 DEF ChatInv, Reaches, GoesOn
<1>6. Follow'
  BY <1>0, <1>2 DEF ChatInv, Follow
<1>7. Keeps' /\ Knows'
  BY <1>0, <1>2, <1>3 DEF ChatInv, Keeps, Knows
<1>. QED
  BY <1>4, <1>5, <1>6, <1>7 DEF ChatInv

\* A turn that raises is over, and not saved.
LEMMA RaisingKeeps ==
  ASSUME ChatShape, ChatInv, NEW t \in Turn, Raise(t)
  PROVE  ChatShape' /\ ChatInv'
<1>0. UNCHANGED row /\ UNCHANGED held /\ UNCHANGED dbUp /\ UNCHANGED allowed /\ UNCHANGED could /\ UNCHANGED adrift
      /\ UNCHANGED blind /\ UNCHANGED excused
  BY DEF Raise, store, history, access
<1>. DEFINE r == Rest("done", turn[t].in, "fallback", {})
<1>1. Move(t, r)
  BY EndedIsRest DEF Raise
<1>2. /\ r \in TurnState /\ r.pc = "done" /\ r.in = turn[t].in /\ r.answer = "fallback" /\ r.cites = {}
  BY RestOfTurn
<1>. HIDE DEF r
<1>3. /\ turn' \in [Turn -> TurnState] /\ turn'[t] = r /\ \A u \in Turn \ {t} : turn'[u] = turn[u]
      /\ \A u \in Turn : InFlight(u)' => turn'[u].at \in Proc /\ turn'[u].in \in Session
  BY <1>1, <1>2, MoveKeeps
<1>4. \A u \in Turn : /\ InFlight(u)' => u # t /\ InFlight(u) /\ turn'[u] = turn[u]
                      /\ turn'[u].cites \subseteq turn[u].cites
  BY <1>2, <1>3 DEF InFlight
<1>5. \A u \in Turn : \A s : IsSaved(turn'[u], s) => IsSaved(turn[u], s)
  BY <1>2, <1>3 DEF IsSaved
<1>6. ChatShape'
  BY <1>0, <1>3 DEF ChatShape
<1>7. Reaches'
  BY <1>0, <1>4 DEF ChatInv, Reaches
<1>8. Follow'
  BY <1>0, <1>4 DEF ChatInv, Follow
<1>9. Keeps' /\ Knows'
  BY <1>0, <1>4, <1>5 DEF ChatInv, Keeps, Knows
<1>. QED
  BY <1>6, <1>7, <1>8, <1>9 DEF ChatInv

\* Without a turn that moves: what is stored, and what may be read.
Surroundings ==
    \/ \E p \in Proc, s \in Session : View(p, s)
    \/ Outage \/ UNCHANGED chatVars
    \/ \E j \in jobs : WriteTerms(j) \/ StopRun(j)

LEMMA SurroundingsKeep ==
  ASSUME ChatShape, ChatInv, UNCHANGED turn, Surroundings
  PROVE  ChatShape' /\ ChatInv'
<1>1. /\ UNCHANGED row /\ UNCHANGED could /\ UNCHANGED adrift /\ UNCHANGED blind /\ UNCHANGED excused
      /\ dbUp' \in BOOLEAN /\ UNCHANGED allowed
  BY DEF Surroundings, View, Outage, WriteTerms, StopRun, store, history, access, chatVars, ChatShape
<1>2. /\ held' \in [Proc -> [Session -> History \cup {Null}]]
      /\ \A q \in Proc, z \in Session : held'[q][z] \in {held[q][z], row[z]}
  <2>1. CASE UNCHANGED held
    BY <2>1 DEF ChatShape
  <2>2. ASSUME NEW p \in Proc, NEW s \in Session, View(p, s), held' # held
        PROVE  held' = [held EXCEPT ![p][s] = Loaded(p, s)]
    BY <2>2 DEF View, Remembered
  <2>3. ASSUME NEW p \in Proc, NEW s \in Session, held' = [held EXCEPT ![p][s] = Loaded(p, s)]
        PROVE  /\ held' \in [Proc -> [Session -> History \cup {Null}]]
               /\ \A q \in Proc, z \in Session : held'[q][z] \in {held[q][z], row[z]}
    <3>1. Loaded(p, s) \in {held[p][s], row[s]} /\ Loaded(p, s) \in History \cup {Null}
      BY OpenedIsHistory DEF Loaded
    <3>. QED
      BY <2>3, <3>1 DEF ChatShape
  <2>. QED
    BY <2>1, <2>2, <2>3 DEF Surroundings, Outage, WriteTerms, StopRun, store, chatVars
<1>3. \A u \in Turn : InFlight(u)' <=> InFlight(u)
  BY DEF InFlight
<1>5. ChatShape'
  BY <1>1, <1>2, <1>3 DEF ChatShape
<1>6. Reaches'
  BY <1>1, <1>3 DEF ChatInv, Reaches
<1>7. Follow'
  BY <1>1, <1>2, <1>3 DEF ChatInv, Follow
<1>8. Keeps' /\ Knows'
  BY <1>1, <1>3 DEF ChatInv, Keeps, Knows
<1>. QED
  BY <1>5, <1>6, <1>7, <1>8 DEF ChatInv

\* What the rows let the user read while a turn is on its way is noted.
LEMMA ReplaceRowsKeeps ==
  ASSUME ChatShape, ChatInv, NEW d \in Source, NEW lets \in BOOLEAN, NEW more \in BOOLEAN,
         ReplaceRows(d, lets, more)
  PROVE  ChatShape' /\ ChatInv'
<1>1. /\ UNCHANGED row /\ UNCHANGED held /\ UNCHANGED dbUp /\ UNCHANGED turn /\ UNCHANGED adrift
      /\ UNCHANGED blind /\ UNCHANGED excused
  BY DEF ReplaceRows, store
<1>2. allowed' \subseteq Source
  BY DEF ReplaceRows, Marked, ChatShape
<1>3. could' = [t \in Turn |-> IF InFlight(t) THEN could[t] \cup allowed' ELSE could[t]]
  BY DEF ReplaceRows
<1>4. /\ could' \in [Turn -> SUBSET Source]
      /\ \A t \in Turn : could[t] \subseteq could'[t] /\ (InFlight(t) => allowed' \subseteq could'[t])
  BY <1>2, <1>3 DEF ChatShape
<1>5. \A u \in Turn : InFlight(u)' <=> InFlight(u)
  BY <1>1 DEF InFlight
<1>6. ChatShape'
  BY <1>1, <1>2, <1>4, <1>5 DEF ChatShape
<1>7. Reaches'
  <2>1. ASSUME NEW t \in Turn PROVE turn'[t].cites \subseteq could'[t] \cup adrift'[t]
    BY <1>1, <1>4 DEF ChatInv, Reaches
  <2>2. ASSUME NEW t \in Turn, InFlight(t)'
        PROVE  turn'[t].hits \subseteq could'[t] \cup adrift'[t] /\ allowed' \subseteq could'[t]
    BY <1>1, <1>4, <1>5, <2>2 DEF ChatInv, Reaches
  <2>. QED
    BY <2>1, <2>2 DEF Reaches
<1>8. Follow'
  BY <1>1, <1>5 DEF ChatInv, Follow
<1>9. Keeps' /\ Knows'
  BY <1>1, <1>5 DEF ChatInv, Keeps, Knows
<1>. QED
  BY <1>6, <1>7, <1>8, <1>9 DEF ChatInv

\* A process that dies takes its turns and its objects with it.
LEMMA CrashKeeps ==
  ASSUME ChatShape, ChatInv, NEW p \in Proc, Crash(p)
  PROVE  ChatShape' /\ ChatInv'
<1>0. UNCHANGED row /\ UNCHANGED dbUp /\ UNCHANGED allowed /\ UNCHANGED could /\ UNCHANGED adrift
      /\ UNCHANGED blind /\ UNCHANGED excused
  BY DEF Crash, history, access
<1>. DEFINE Dead(u) == InFlight(u) /\ turn[u].at = p
<1>1. \A u \in Turn : turn'[u] = IF Dead(u) THEN Rest("lost", turn[u].in, "none", {}) ELSE turn[u]
  <2>1. \A u \in Turn : [Ended(u, "lost") EXCEPT !.answer = "none", !.cites = {}]
                          = Rest("lost", turn[u].in, "none", {})
    BY EndedIsRest
  <2>2. turn' = [u \in Turn |-> IF InFlight(u) /\ turn[u].at = p
                    THEN [Ended(u, "lost") EXCEPT !.answer = "none", !.cites = {}] ELSE turn[u]]
    BY DEF Crash
  <2>. QED
    BY <2>1, <2>2
<1>2. \A u \in Turn : /\ Rest("lost", turn[u].in, "none", {}) \in TurnState
                      /\ Rest("lost", turn[u].in, "none", {}).pc = "lost"
                      /\ Rest("lost", turn[u].in, "none", {}).cites = {}
  BY RestOfTurn
<1>3. \A u \in Turn : /\ turn'[u] \in TurnState
                      /\ InFlight(u)' => InFlight(u) /\ turn'[u] = turn[u]
                      /\ turn'[u].cites \subseteq turn[u].cites
                      /\ turn'[u].pc = "done" => turn'[u] = turn[u]
  BY <1>1, <1>2, TurnFields DEF InFlight
<1>4. turn' \in [Turn -> TurnState]
  BY <1>3 DEF Crash
<1>5. \A u \in Turn : \A s : IsSaved(turn'[u], s) => IsSaved(turn[u], s)
  BY <1>3 DEF IsSaved
<1>6. held' \in [Proc -> [Session -> History \cup {Null}]]
      /\ \A q \in Proc, z \in Session : held'[q][z] \in {held[q][z], Null}
  <2>1. held' = [held EXCEPT ![p] = [s \in Session |-> Null]]
    BY DEF Crash
  <2>. QED
    BY <2>1 DEF ChatShape
<1>7. ChatShape'
  BY <1>0, <1>3, <1>4, <1>6 DEF ChatShape
<1>8. Reaches'
  BY <1>0, <1>3 DEF ChatInv, Reaches
<1>9. Follow'
  BY <1>0, <1>3, <1>6 DEF ChatInv, Follow
<1>10. Keeps' /\ Knows'
  BY <1>0, <1>3, <1>5 DEF ChatInv, Keeps, Knows
<1>. QED
  BY <1>7, <1>8, <1>9, <1>10 DEF ChatInv

\* The record of a turn that was just asked.
Asked(p, s, h, i) == [Idle EXCEPT !.pc = "search", !.at = p, !.in = s, !.copy = h, !.intent = i]

LEMMA AskedFields ==
  ASSUME NEW p \in Proc, NEW s \in Session, NEW h \in History, NEW i \in Intents
  PROVE  /\ Asked(p, s, h, i) \in TurnState /\ Asked(p, s, h, i).pc = "search"
         /\ Asked(p, s, h, i).at = p /\ Asked(p, s, h, i).in = s /\ Asked(p, s, h, i).copy = h
         /\ Asked(p, s, h, i).hits = {} /\ Asked(p, s, h, i).cites = {}
<1>1. Idle \in TurnState /\ Idle.hits = {} /\ Idle.cites = {}
  BY DEF Idle, TurnState, History, Intents, Answers
<1>2. Asked(p, s, h, i) \in TurnState
  BY <1>1 DEF Asked, TurnState
<1>3. /\ Asked(p, s, h, i).pc = "search" /\ Asked(p, s, h, i).at = p /\ Asked(p, s, h, i).in = s
      /\ Asked(p, s, h, i).copy = h
  BY <1>1 DEF Asked, TurnState
<1>4. Asked(p, s, h, i).hits = {} /\ Asked(p, s, h, i).cites = {}
  BY <1>1 DEF Asked, TurnState
<1>. QED
  BY <1>2, <1>3, <1>4

\* A question starts from the row when there is one and Postgres answers, and
\* then from all that is safely in it.
LEMMA AskingKeeps ==
  ASSUME ChatShape, ChatInv, NEW t \in Turn, NEW p \in Proc, NEW s \in Session, NEW i \in Intents,
         Ask(t, p, s, i)
  PROVE  ChatShape' /\ ChatInv'
<1>. DEFINE o == Opened(p, s)   h == Append(o, Said("user", t))   r == Asked(p, s, h, i)
<1>0. /\ UNCHANGED row /\ UNCHANGED dbUp /\ UNCHANGED allowed /\ UNCHANGED adrift /\ UNCHANGED excused
      /\ allowed \in SUBSET Source
  BY DEF Ask, access, ChatShape
<1>1. o \in History /\ Loaded(p, s) \in History \cup {Null}
  BY OpenedIsHistory
<1>2. InOrderSaid(o)
  <2>1. Loaded(p, s) # Null => InOrderSaid(Loaded(p, s))
    BY DEF Loaded, ChatInv, Follow
  <2>. QED
    BY <2>1, NothingSaid DEF Opened
<1>3. h \in History /\ InOrderSaid(h) /\ Asks(h, t)
  BY <1>1, <1>2, QuestionFits, OneMore, SaidIsUtterance
<1>4. t \notin blind' => \A u \in Turn \ excused : IsSaved(turn[u], s) => Holds(h, u)
  <2>1. SUFFICES ASSUME t \notin blind', NEW u \in Turn \ excused, IsSaved(turn[u], s) PROVE Holds(h, u)
    OBVIOUS
  <2>2. dbUp
    BY <2>1 DEF Ask
  <2>3. row[s] # Null /\ Holds(row[s], u)
    BY <2>1 DEF ChatInv, Keeps
  <2>4. o = row[s]
    BY <2>2, <2>3 DEF Opened, Loaded
  <2>. QED
    BY <1>1, <2>3, <2>4, HoldsOn, SaidIsUtterance
<1>5. Move(t, r) /\ turn[t].pc = "idle" /\ could' = [could EXCEPT ![t] = allowed]
      /\ blind' \in {blind, blind \cup {t}}
  BY DEF Ask, Asked
<1>6. held' \in {held, [held EXCEPT ![p][s] = h]}
  BY DEF Ask, Remembered
<1>. HIDE DEF h, o
<1>7. /\ r \in TurnState /\ r.pc = "search" /\ r.at = p /\ r.in = s /\ r.copy = h
      /\ r.hits = {} /\ r.cites = {}
  BY <1>3, AskedFields
<1>. HIDE DEF r
<1>8. /\ turn' \in [Turn -> TurnState] /\ turn'[t] = r /\ \A u \in Turn \ {t} : turn'[u] = turn[u]
      /\ \A u \in Turn : InFlight(u)' => turn'[u].at \in Proc /\ turn'[u].in \in Session
  BY <1>5, <1>7, MoveKeeps
<1>9. \A u \in Turn \ {t} : InFlight(u)' => InFlight(u) /\ turn'[u] = turn[u]
  BY <1>8 DEF InFlight
<1>10. \A u \in Turn : \A z : IsSaved(turn'[u], z) => IsSaved(turn[u], z)
  BY <1>5, <1>7, <1>8 DEF IsSaved
<1>11. /\ held' \in [Proc -> [Session -> History \cup {Null}]]
       /\ \A q \in Proc, z \in Session : held'[q][z] \in {held[q][z], h}
  <2>1. CASE UNCHANGED held
    BY <2>1 DEF ChatShape
  <2>2. CASE held' = [held EXCEPT ![p][s] = h]
    BY <1>3, <2>2 DEF ChatShape
  <2>. QED
    BY <1>6, <2>1, <2>2
<1>12. /\ could' \in [Turn -> SUBSET Source] /\ could'[t] = allowed
       /\ \A u \in Turn \ {t} : could'[u] = could[u]
  BY <1>0, <1>5 DEF ChatShape
<1>13. blind' \subseteq Turn
  BY <1>5 DEF ChatShape
<1>14. ChatShape'
  BY <1>0, <1>8, <1>11, <1>12, <1>13 DEF ChatShape
<1>15. Reaches'
  BY <1>0, <1>7, <1>8, <1>9, <1>12 DEF ChatInv, Reaches
<1>16. Follow'
  BY <1>0, <1>3, <1>7, <1>8, <1>9, <1>11 DEF ChatInv, Follow
<1>17. Keeps'
  BY <1>0, <1>10 DEF ChatInv, Keeps
<1>18. Knows'
  <2>1. SUFFICES ASSUME NEW v \in Turn \ blind', NEW u \in Turn \ excused', InFlight(v)',
                        IsSaved(turn'[u], turn'[v].in)
                 PROVE  Holds(turn'[v].copy, u)
    BY DEF Knows
  <2>2. IsSaved(turn[u], turn'[v].in) /\ u \notin excused /\ v \notin blind
    BY <1>0, <1>5, <1>10, <2>1
  <2>3. CASE v = t
    BY <1>4, <1>7, <1>8, <2>1, <2>2, <2>3
  <2>4. CASE v # t
    BY <1>9, <2>1, <2>2, <2>4 DEF ChatInv, Knows
  <2>. QED
    BY <2>3, <2>4
<1>. QED
  BY <1>14, <1>15, <1>16, <1>17, <1>18 DEF ChatInv

\* A turn that saves writes back what it started from, its question and its
\* answer.
LEMMA FinishingKeeps ==
  ASSUME ChatShape, ChatInv, NEW t \in Turn, Finish(t)
  PROVE  ChatShape' /\ ChatInv'
<1>. DEFINE p == turn[t].at   s == turn[t].in   c == turn[t].copy
            h == Append(c, Said("assistant", t))
            r == Rest("done", turn[t].in, turn[t].answer, turn[t].cites)
<1>0. UNCHANGED dbUp /\ UNCHANGED allowed /\ UNCHANGED could /\ UNCHANGED adrift /\ UNCHANGED blind
      /\ excused' = excused \cup Endangered(t) /\ turn[t].pc = "save"
  BY DEF Finish, access
<1>1. Move(t, r)
  BY EndedIsRest DEF Finish
<1>2. held' = [held EXCEPT ![p][s] = h] /\ row' = IF dbUp THEN [row EXCEPT ![s] = h] ELSE row
  BY DEF Finish, Save
<1>3. InFlight(t) /\ p \in Proc /\ s \in Session /\ c \in History
  BY <1>0, TurnFields DEF InFlight
<1>4. h \in History /\ InOrderSaid(h) /\ Holds(h, t) /\ h # Null
  <2>1. InOrderSaid(c) /\ Asks(c, t)
    BY <1>3 DEF ChatInv, Follow
  <2>. QED
    BY <1>3, <2>1, AnswerFits, OneMore, SaidIsUtterance, NullIsNoHistory
<1>5. t \notin blind => \A u \in Turn \ excused : IsSaved(turn[u], s) => Holds(h, u)
  BY <1>3, HoldsOn, SaidIsUtterance DEF ChatInv, Knows
<1>7. /\ r \in TurnState /\ r.pc = "done" /\ r.in = s /\ r.cites = turn[t].cites
  <2>1. turn[t].in \in Session \cup {Null} /\ turn[t].answer \in Answers /\ turn[t].cites \in SUBSET Source
    BY TurnFields
  <2>2. RestIs("done", turn[t].in, turn[t].answer, turn[t].cites)
    BY <2>1, RestFields
  <2>. QED
    BY <2>2 DEF RestIs
<1>. HIDE DEF r, h, c
<1>8. /\ turn' \in [Turn -> TurnState] /\ turn'[t] = r /\ \A u \in Turn \ {t} : turn'[u] = turn[u]
      /\ \A u \in Turn : InFlight(u)' => turn'[u].at \in Proc /\ turn'[u].in \in Session
  BY <1>1, <1>7, MoveKeeps
<1>9. \A u \in Turn : InFlight(u)' => u # t /\ InFlight(u) /\ turn'[u] = turn[u]
  BY <1>7, <1>8 DEF InFlight
<1>10. \A u \in Turn : \A z : IsSaved(turn'[u], z) => IsSaved(turn[u], z) \/ (u = t /\ z = s)
  BY <1>0, <1>7, <1>8 DEF IsSaved
<1>. HIDE DEF p, s
<1>11. /\ held' \in [Proc -> [Session -> History \cup {Null}]]
       /\ \A q \in Proc, z \in Session : held'[q][z] \in {held[q][z], h}
  BY <1>2, <1>3, <1>4 DEF ChatShape
<1>12. /\ row' \in [Session -> History \cup {Null}]
       /\ \A z \in Session : z # s => row'[z] = row[z]
       /\ dbUp => row'[s] = h
       /\ ~dbUp => row' = row
  BY <1>2, <1>3, <1>4 DEF ChatShape
<1>13. Endangered(t) \subseteq Turn /\ excused' \subseteq Turn /\ excused \subseteq excused'
  BY <1>0 DEF ChatShape, Endangered, Saved
<1>14. /\ t \notin excused' => dbUp /\ Others(t) = {}
       /\ t \in blind => \A u \in Turn \ excused' : ~IsSaved(turn[u], s)
  BY <1>0 DEF Endangered, s, Saved, IsSaved
<1>15. ChatShape'
  BY <1>0, <1>8, <1>11, <1>12, <1>13 DEF ChatShape
<1>16. Reaches'
  BY <1>0, <1>7, <1>8, <1>9 DEF ChatInv, Reaches
<1>17. Follow'
  BY <1>4, <1>9, <1>11, <1>12 DEF ChatInv, Follow
<1>18. Keeps'
  <2>1. SUFFICES ASSUME NEW z \in Session, NEW u \in Turn \ excused', IsSaved(turn'[u], z)
                 PROVE  row'[z] # Null /\ Holds(row'[z], u)
    BY DEF Keeps
  <2>2. u \notin excused
    BY <1>13, <2>1
  <2>3. CASE z # s \/ ~dbUp
    <3>1. IsSaved(turn[u], z)
      BY <1>10, <1>14, <2>1, <2>3
    <3>. QED
      BY <1>12, <2>1, <2>2, <2>3, <3>1 DEF ChatInv, Keeps
  <2>4. CASE z = s /\ dbUp
    <3>1. CASE u = t
      BY <1>4, <1>12, <2>4, <3>1
    <3>2. CASE u # t
      <4>1. IsSaved(turn[u], s)
        BY <1>10, <2>1, <2>4, <3>2
      <4>2. t \notin blind
        BY <1>14, <2>1, <4>1
      <4>. QED
        BY <1>4, <1>5, <1>12, <2>2, <2>4, <4>1, <4>2
    <3>. QED
      BY <3>1, <3>2
  <2>. QED
    BY <2>3, <2>4
<1>19. Knows'
  <2>1. SUFFICES ASSUME NEW v \in Turn \ blind', NEW u \in Turn \ excused', InFlight(v)',
                        IsSaved(turn'[u], turn'[v].in)
                 PROVE  Holds(turn'[v].copy, u)
    BY DEF Knows
  <2>2. v \notin blind /\ InFlight(v) /\ v # t /\ turn'[v] = turn[v] /\ u \notin excused
    BY <1>0, <1>9, <1>13, <2>1
  <2>3. u # t \/ turn[v].in # s
    BY <1>14, <2>1, <2>2 DEF Others, s
  <2>4. IsSaved(turn[u], turn[v].in)
    BY <1>10, <2>1, <2>2, <2>3
  <2>. QED
    BY <2>2, <2>4 DEF ChatInv, Knows
<1>. QED
  BY <1>15, <1>16, <1>17, <1>18, <1>19 DEF ChatInv

LEMMA ChatStep ==
  ASSUME ChatShape, ChatInv, AccessInv, [ChatNext]_chatVars
  PROVE  ChatShape' /\ ChatInv' /\ AccessInv'
<1>0. AccessInv'
  BY AccessStep
<1>1. ASSUME NEW t \in Turn, Step(t) PROVE ChatShape' /\ ChatInv'
  BY <1>1, StepGoesOn, GoingOnKeeps, FinishingKeeps
<1>2. ASSUME NEW t \in Turn, Raise(t) PROVE ChatShape' /\ ChatInv'
  BY <1>2, RaisingKeeps
<1>3. ASSUME NEW t \in Turn, NEW p \in Proc, NEW s \in Session, NEW i \in Intents, Ask(t, p, s, i)
      PROVE  ChatShape' /\ ChatInv'
  BY <1>3, AskingKeeps
<1>4. ASSUME NEW p \in Proc, Crash(p) PROVE ChatShape' /\ ChatInv'
  BY <1>4, CrashKeeps
<1>5. CASE Surroundings
  <2>1. UNCHANGED turn
    BY <1>5 DEF Surroundings, View, Outage, WriteTerms, StopRun, chatVars
  <2>. QED
    BY <1>0, <1>5, <2>1, SurroundingsKeep
<1>6. ASSUME NEW d \in Source, NEW lets \in BOOLEAN, NEW more \in BOOLEAN, ReplaceRows(d, lets, more)
      PROVE  ChatShape' /\ ChatInv'
  BY <1>6, ReplaceRowsKeeps
<1>. QED
  BY <1>0, <1>1, <1>2, <1>3, <1>4, <1>5, <1>6 DEF ChatNext, Surroundings

LEMMA ChatInvInit == ChatInit => ChatShape /\ ChatInv /\ AccessInv
<1>1. SUFFICES ASSUME ChatInit PROVE ChatShape /\ ChatInv /\ AccessInv
  OBVIOUS
<1>0. AccessInv
  BY <1>1, ChatAssumption DEF ChatInit, AccessInv, AccessShape, Agreed, Kinds
<1>2. \A t \in Turn : turn[t] = Idle /\ ~InFlight(t) /\ turn[t].cites = {} /\ turn[t].pc = "idle"
  BY <1>1 DEF ChatInit, InFlight, Idle
<1>3. Follow /\ Reaches
  BY <1>1, <1>2 DEF ChatInit, Follow, Reaches
<1>4. \A u \in Turn : \A s : ~IsSaved(turn[u], s)
  BY <1>2 DEF IsSaved
<1>. QED
  BY <1>0, <1>1, <1>3, <1>4, ChatShapeInit DEF ChatInv, Keeps, Knows

\* A turn cites only what the rows let the user read at some time of it, but
\* for documents whose indexing was under way at the search or whose last runs
\* overlapped, stopped or added terms, for any number of turns, processes and
\* changes (replace_acl_entries, bulk_index, parallel_searcher).
THEOREM CitedWasReadable == ChatSpec => []CitesReachable
<1>1. ChatShape /\ ChatInv => CitesReachable
  BY DEF ChatInv, Reaches, CitesReachable
<1>. QED
  BY <1>1, ChatInvInit, ChatStep, PTL DEF ChatSpec

\* Wherever a session is stored each answer follows its question, and an
\* answer that was saved stays in the row but for the losses named, for any
\* number of overlapping turns, processes, outages and crashes.
THEOREM ConversationIsKept == ChatSpec => []ConversationKept
<1>1. ASSUME ChatShape, ChatInv PROVE AnswerFollowsQuestion
  <2>1. \A h \in Stored : InOrderSaid(h)
    BY <1>1 DEF Stored, ChatInv, Follow
  <2>. QED
    BY <2>1 DEF AnswerFollowsQuestion, InOrderSaid
<1>2. ASSUME ChatShape, ChatInv PROVE TurnKept
  <2>1. \A s : \A t \in Saved(s) : t \in Turn /\ IsSaved(turn[t], s)
    BY DEF Saved, IsSaved
  <2>. QED
    BY <1>2, <2>1 DEF TurnKept, ChatInv, Keeps, Holds
<1>3. ChatShape /\ ChatInv => ConversationKept
  BY <1>1, <1>2 DEF ConversationKept
<1>. QED
  BY <1>3, ChatInvInit, ChatStep, PTL DEF ChatSpec

-----------------------------------------------------------------------------
(* What a compilation has found, as long as nothing changes. *)

Up(e, x) == IF x = None THEN None ELSE e[x]

\* The folders above each folder, by the edges e.
Climbs(e) ==
    CHOOSE f : f = [x \in Container \X (0..MaxDepth) |->
                       IF x[2] = 0 THEN x[1]
                       ELSE LET c == f[<<x[1], x[2] - 1>>] IN IF c = None THEN None ELSE e[c]]

LEMMA AboveIsClimbs == Above = Climbs(edge)
BY DEF Above, Climbs

Rungs(f, e, N) ==
    [x \in Container \X (0..N) |-> IF x[2] = 0 THEN x[1] ELSE Up(e, f[<<x[1], x[2] - 1>>])]

\* A ladder of one rung more.
Raised(f, e, N) ==
    [x \in Container \X (0..(N + 1)) |-> IF x[2] = N + 1 THEN Up(e, f[<<x[1], N>>]) ELSE f[x]]

LEMMA RungsMore ==
  ASSUME NEW e, NEW N \in Nat, NEW f, f = Rungs(f, e, N)
  PROVE  Raised(f, e, N) = Rungs(Raised(f, e, N), e, N + 1)
<1>. DEFINE g == Raised(f, e, N)
<1>1. ASSUME NEW c \in Container, NEW n \in 0..(N + 1)
      PROVE  g[<<c, n>>] = IF n = 0 THEN c ELSE Up(e, g[<<c, n - 1>>])
  <2>1. \A b \in Container : \A k \in 0..N :
           f[<<b, k>>] = IF k = 0 THEN b ELSE Up(e, f[<<b, k - 1>>])
    BY DEF Rungs
  <2>2. \A b \in Container : \A k \in 0..(N + 1) :
           g[<<b, k>>] = IF k = N + 1 THEN Up(e, f[<<b, N>>]) ELSE f[<<b, k>>]
    BY DEF Raised
  <2>. HIDE DEF g
  <2>3. CASE n = N + 1
    <3>1. N \in 0..(N + 1) /\ N # N + 1 /\ n - 1 = N /\ n # 0
      BY <2>3
    <3>. QED
      BY <2>2, <2>3, <3>1
  <2>4. CASE n # N + 1
    <3>1. n \in 0..N /\ (n # 0 => n - 1 \in 0..(N + 1) /\ n - 1 # N + 1)
      BY <2>4
    <3>. QED
      BY <2>1, <2>2, <2>4, <3>1
  <2>. QED
    BY <2>3, <2>4
<1>. DEFINE X == Container \X (0..(N + 1))
<1>2. \A x \in X : g[x] = IF x[2] = 0 THEN x[1] ELSE Up(e, g[<<x[1], x[2] - 1>>])
  <2>1. \A x \in X : x[1] \in Container /\ x[2] \in 0..(N + 1) /\ x = <<x[1], x[2]>>
    OBVIOUS
  <2>. HIDE DEF g, X
  <2>. SUFFICES ASSUME NEW x \in X
                PROVE  g[x] = IF x[2] = 0 THEN x[1] ELSE Up(e, g[<<x[1], x[2] - 1>>])
    OBVIOUS
  <2>2. g[<<x[1], x[2]>>] = IF x[2] = 0 THEN x[1] ELSE Up(e, g[<<x[1], x[2] - 1>>])
    BY <1>1, <2>1, Zenon
  <2>. QED
    BY <2>1, <2>2, Zenon
<1>3. g = [x \in X |-> g[x]]
  BY DEF Raised
<1>. HIDE DEF g
<1>4. [x \in X |-> g[x]] = [x \in X |-> IF x[2] = 0 THEN x[1] ELSE Up(e, g[<<x[1], x[2] - 1>>])]
  BY <1>2
<1>. QED
  BY <1>3, <1>4 DEF Rungs, g

LEMMA LadderStands ==
  ASSUME NEW e, NEW N \in Nat
  PROVE  \E f : f = Rungs(f, e, N)
<1>. DEFINE Bad == {n \in Nat : \A f : f # Rungs(f, e, n)}
<1>1. SUFFICES ASSUME Bad # {} PROVE FALSE
  OBVIOUS
<1>2. PICK n \in Bad : \A k \in Bad : n <= k
  BY <1>1, LeastMember
<1>3. n # 0
  <2>. DEFINE f == [x \in Container \X (0..0) |-> x[1]]
  <2>1. \A x \in Container \X (0..0) : x[2] = 0
    OBVIOUS
  <2>2. f = Rungs(f, e, 0)
    BY <2>1 DEF Rungs
  <2>. QED
    BY <2>2
<1>4. n - 1 \in Nat /\ n - 1 \notin Bad /\ (n - 1) + 1 = n
  BY <1>2, <1>3
<1>5. PICK f : f = Rungs(f, e, n - 1)
  BY <1>4
<1>6. Raised(f, e, n - 1) = Rungs(Raised(f, e, n - 1), e, n)
  BY <1>4, <1>5, RungsMore
<1>. QED
  BY <1>2, <1>6

LEMMA ClimbsUp ==
  ASSUME NEW e, NEW c \in Container
  PROVE  /\ Climbs(e)[<<c, 0>>] = c
         /\ \A n \in 1..MaxDepth : Climbs(e)[<<c, n>>] = Up(e, Climbs(e)[<<c, n - 1>>])
<1>1. \E f : f = Rungs(f, e, MaxDepth)
  BY LadderStands, NumbersAssumption
<1>. DEFINE g == Climbs(e)
<1>2. g = Rungs(g, e, MaxDepth)
  <2>1. g = CHOOSE f : f = Rungs(f, e, MaxDepth)
    BY DEF Climbs, Rungs, Up
  <2>. HIDE DEF g
  <2>. QED
    BY <1>1, <2>1
<1>. HIDE DEF g
<1>3. ASSUME NEW k \in 0..MaxDepth
      PROVE  g[<<c, k>>] = IF k = 0 THEN c ELSE Up(e, g[<<c, k - 1>>])
  BY <1>2 DEF Rungs
<1>4. g[<<c, 0>>] = c /\ \A n \in 1..MaxDepth : g[<<c, n>>] = Up(e, g[<<c, n - 1>>])
  <2>1. 0 \in 0..MaxDepth /\ \A n \in 1..MaxDepth : n \in 0..MaxDepth /\ n # 0
    BY NumbersAssumption
  <2>. QED
    BY <1>3, <2>1, Zenon
<1>. QED
  BY <1>4 DEF g

GoesUp(e, l, N, t, h) ==
    /\ h[0] = t[1] /\ \A n \in 1..N : h[n] = Up(e, h[n - 1])
    /\ \A n \in 1..l : t[n + 1] = e[t[n]]
    /\ \A n \in 1..(l + 1) : t[n] # None

Matches(l, t, h) == \A n \in 0..l : h[n] = t[n + 1]

\* Up a path: as far as it goes the folders are those of the path, ...
LEMMA UpThePath ==
  ASSUME NEW e, NEW l \in Nat, NEW N \in Nat, l <= N, NEW t, NEW h,
         GoesUp(e, l, N, t, h)
  PROVE  Matches(l, t, h)
<1>. USE DEF GoesUp, Matches
<1>. DEFINE Bad == {n \in 0..l : h[n] # t[n + 1]}
<1>1. SUFFICES ASSUME Bad # {} PROVE FALSE
  OBVIOUS
<1>2. PICK n \in Bad : \A k \in Bad : n <= k
  <2>1. Bad \subseteq Nat
    OBVIOUS
  <2>. QED
    BY <1>1, <2>1, LeastMember
<1>3. n \in 1..l /\ n - 1 \in 0..l /\ (n - 1) + 1 = n
  BY <1>2
<1>4. h[n - 1] = t[n]
  BY <1>2, <1>3
<1>5. h[n] = Up(e, h[n - 1]) /\ t[n + 1] = e[t[n]] /\ t[n] # None
  BY <1>3
<1>. QED
  BY <1>2, <1>4, <1>5 DEF Up

Again(h, l, n) == h[n] = None \/ \E k \in 0..l : h[n] = h[k]

\* ... and beyond, when it ends for a reason, there is none that is new.
LEMMA BeyondThePath ==
  ASSUME NEW e, NEW l \in Nat, NEW N \in Nat, l <= N, NEW t, NEW h,
         GoesUp(e, l, N, t, h),
         l = N \/ e[t[l + 1]] = None \/ \E j \in 1..l : t[l + 1] = t[j]
  PROVE  \A n \in (l + 1)..N : Again(h, l, n)
<1>0. Matches(l, t, h)
  BY UpThePath, Zenon
<1>. USE DEF GoesUp, Matches
<1>. DEFINE Bad == {n \in (l + 1)..N : ~Again(h, l, n)}
<1>1. SUFFICES ASSUME Bad # {} PROVE FALSE
  OBVIOUS
<1>2. PICK n \in Bad : \A k \in Bad : n <= k
  <2>1. Bad \subseteq Nat
    OBVIOUS
  <2>. QED
    BY <1>1, <2>1, LeastMember
<1>3. n \in (l + 1)..N /\ n \in 1..N /\ n - 1 \in l..N /\ ~Again(h, l, n)
  BY <1>2
<1>4. h[n] = Up(e, h[n - 1])
  BY <1>3
<1>5. Again(h, l, n - 1)
  <2>1. CASE n - 1 = l
    BY <2>1 DEF Again
  <2>2. CASE n - 1 # l
    BY <1>2, <1>3, <2>2
  <2>. QED
    BY <2>1, <2>2
<1>6. CASE h[n - 1] = None
  BY <1>3, <1>4, <1>6 DEF Again, Up
<1>7. ASSUME NEW k \in 0..l, k # l, h[n - 1] = h[k] PROVE FALSE
  <2>1. k + 1 \in 1..N /\ k + 1 \in 0..l /\ (k + 1) - 1 = k
    BY <1>7
  <2>2. h[k + 1] = Up(e, h[k])
    BY <2>1
  <2>. QED
    BY <1>3, <1>4, <1>7, <2>1, <2>2 DEF Again
<1>8. CASE h[n - 1] = h[l]
  <2>1. h[l] = t[l + 1]
    <3>1. l \in 0..l
      OBVIOUS
    <3>. QED
      BY <1>0, <3>1, Zenon
  <2>2. CASE e[t[l + 1]] = None
    BY <1>3, <1>4, <1>8, <2>1, <2>2 DEF Again, Up
  <2>3. ASSUME NEW j \in 1..l, t[l + 1] = t[j] PROVE FALSE
    <3>1. j - 1 \in 0..l /\ (j - 1) + 1 = j /\ j - 1 # l
      OBVIOUS
    <3>2. h[j - 1] = t[(j - 1) + 1]
      BY <1>0, <3>1, Zenon
    <3>. QED
      BY <1>7, <1>8, <2>1, <2>3, <3>1, <3>2
  <2>. QED
    BY <1>3, <2>2, <2>3
<1>. QED
  BY <1>5, <1>6, <1>7, <1>8 DEF Again

NoneNewAbove(e, c, l) ==
    \A n \in (l + 1)..MaxDepth :
        Climbs(e)[<<c, n>>] = None \/ \E k \in 0..l : Climbs(e)[<<c, n>>] = Climbs(e)[<<c, k>>]

\* What the climb of a whole chain sees of the folders above.
LEMMA ChainIsClimb ==
  ASSUME NEW e, NEW c \in Container, NEW ch \in Seq(Container), Len(ch) <= MaxDepth, Whole(e, c, ch)
  PROVE  /\ \A n \in 0..Len(ch) : Climbs(e)[<<c, n>>] = (<<c>> \o ch)[n + 1]
         /\ NoneNewAbove(e, c, Len(ch))
<1>. DEFINE t == <<c>> \o ch
            l == Len(ch)
            h == [n \in 0..MaxDepth |-> Climbs(e)[<<c, n>>]]
<1>1. l \in Nat /\ l <= MaxDepth /\ MaxDepth \in Nat
  BY NumbersAssumption
<1>2. /\ t \in Seq(Container) /\ Len(t) = l + 1 /\ t[1] = c /\ Last(t) = t[l + 1]
  BY PathPlaces
<1>3. \A n \in 1..l : t[n + 1] = e[t[n]]
  BY DEF Whole, Follows
<1>4. l = MaxDepth \/ e[t[l + 1]] = None \/ \E j \in 1..l : t[l + 1] = t[j]
  BY <1>2, Zenon DEF Whole
<1>5. \A n \in 1..(l + 1) : t[n] # None
  <2>1. \A n \in 1..Len(t) : t[n] \in Container
    BY <1>2
  <2>. QED
    BY <1>2, <2>1, NumbersAssumption, Zenon
<1>6. h[0] = c /\ \A n \in 1..MaxDepth : h[n] = Up(e, h[n - 1])
  BY <1>1, ClimbsUp
<1>7. \A n \in 0..MaxDepth : h[n] = Climbs(e)[<<c, n>>]
  OBVIOUS
<1>8. \A n \in 0..l : n \in 0..MaxDepth
  BY <1>1
<1>9. \A n \in (l + 1)..MaxDepth : n \in 0..MaxDepth
  BY <1>1
<1>. HIDE DEF t, l, h
<1>. DEFINE N == MaxDepth
<1>10. l <= N /\ N \in Nat /\ GoesUp(e, l, N, t, h)
  BY <1>1, <1>2, <1>3, <1>5, <1>6, Zenon DEF GoesUp
<1>11. Matches(l, t, h)
  BY <1>1, <1>10, UpThePath, Zenon
<1>12. \A n \in (l + 1)..MaxDepth : Again(h, l, n)
  BY <1>1, <1>4, <1>10, BeyondThePath, Zenon
<1>13. \A n \in 0..l : Climbs(e)[<<c, n>>] = t[n + 1]
  BY <1>7, <1>8, <1>11, Zenon DEF Matches
<1>14. NoneNewAbove(e, c, l)
  BY <1>7, <1>8, <1>9, <1>12, Zenon DEF Again, NoneNewAbove
<1>. QED
  BY <1>13, <1>14, Zenon DEF t, l

-----------------------------------------------------------------------------
(* What is found at the places a compilation has been to.  A place is how    *)
(* far above which of the parents.                                           *)

Places == (0..MaxDepth) \X DOMAIN Parents
Seen   == [deny : 0..(MaxDepth + 1), allow : [dist : 0..(MaxDepth + 1), level : 0..MaxLevel]]

Folder(e, x) == Climbs(e)[<<Parents[x[2]], x[1]>>]
Spots(e, m, i, S, W) == {x \in W : Folder(e, x) # None /\ m[Folder(e, x)][i] \in S}

NearestDeny(D, n) == (\A x \in D : n <= x[1]) /\ (n = MaxDepth + 1 \/ \E x \in D : n = x[1])
Leads(x, A) == \A y \in A : Before(x, y)
Allows(e, m, i, x) == [dist |-> x[1], level |-> m[Folder(e, x)][i]]
FirstAllow(e, m, i, A, a) ==
    \/ A = {} /\ a = Far
    \/ \E x \in A : Leads(x, A) /\ a = Allows(e, m, i, x)

SeenIs(e, m, s, i, W) ==
    /\ NearestDeny(Spots(e, m, i, {Deny}, W), s.deny)
    /\ FirstAllow(e, m, i, Spots(e, m, i, Level, W), s.allow)

LEMMA PlaceNumbers ==
  ASSUME NEW x \in Places
  PROVE  x[1] \in 0..MaxDepth /\ x[1] \in Nat /\ x[2] \in DOMAIN Parents /\ x[2] \in Nat
BY ParentsAssumption, NumbersAssumption DEF Places

LEMMA BeforeAll ==
  /\ \A x, y, z \in Places : Before(x, y) /\ Before(y, z) => Before(x, z)
  /\ \A x, y \in Places : x[1] < y[1] => Before(x, y)
  /\ \A x, y \in Places : Before(x, y) => x[1] <= y[1]
  /\ \A x, y \in Places : x[1] <= y[1] /\ x[2] <= y[2] => Before(x, y)
  /\ \A x \in Places : Before(x, x)
BY PlaceNumbers DEF Before

SettingKinds == Setting = Level \cup {0, Deny} /\ Deny \notin Level /\ 0 \notin Level /\ Deny # 0

LEMMA KindsOfSetting == SettingKinds
BY NumbersAssumption DEF SettingKinds, Setting, Deny, Level

\* What a setting adds, case by case.
LEMMA CloserIs ==
  ASSUME NEW v \in Setting, NEW n \in Nat, NEW s \in Seen
  PROVE  /\ v = Deny => Closer(v, n, s) = [deny |-> IF n < s.deny THEN n ELSE s.deny, allow |-> s.allow]
         /\ v \in Level => Closer(v, n, s) =
                [deny |-> s.deny, allow |-> IF n < s.allow.dist THEN [dist |-> n, level |-> v] ELSE s.allow]
         /\ v = 0 => Closer(v, n, s) = s
<1>1. s = [deny |-> s.deny, allow |-> s.allow]
  BY DEF Seen
<1>2. CASE v = Deny
  <2>1. v \notin Level /\ v # 0
    BY <1>2, KindsOfSetting DEF SettingKinds
  <2>2. Closer(v, n, s) = [s EXCEPT !.deny = IF n < s.deny THEN n ELSE s.deny]
    BY <1>2, <2>1 DEF Closer
  <2>. QED
    BY <1>1, <1>2, <2>1, <2>2
<1>3. CASE v \in Level
  <2>1. v # Deny /\ v # 0
    BY <1>3, KindsOfSetting DEF SettingKinds
  <2>2. Closer(v, n, s) = [s EXCEPT !.allow = IF n < s.allow.dist THEN [dist |-> n, level |-> v] ELSE s.allow]
    BY <1>3, <2>1 DEF Closer
  <2>. QED
    BY <1>1, <1>3, <2>1, <2>2
<1>4. CASE v = 0
  <2>1. v # Deny /\ v \notin Level
    BY <1>4, KindsOfSetting DEF SettingKinds
  <2>2. Closer(v, n, s) = s
    BY <2>1 DEF Closer
  <2>. QED
    BY <2>1, <2>2
<1>. QED
  BY <1>2, <1>3, <1>4, KindsOfSetting DEF SettingKinds

\* One more place.
LEMMA CloserAdds ==
  ASSUME NEW e, NEW m, NEW i, NEW s \in Seen, NEW W \in SUBSET Places, NEW x \in Places,
         \A y \in W : y[2] <= x[2],
         Folder(e, x) # None, m[Folder(e, x)][i] \in Setting,
         SeenIs(e, m, s, i, W)
  PROVE  /\ SeenIs(e, m, Closer(m[Folder(e, x)][i], x[1], s), i, W \cup {x})
         /\ Closer(m[Folder(e, x)][i], x[1], s) \in Seen
<1>. DEFINE v == m[Folder(e, x)][i]
            r == Closer(v, x[1], s)
            D == Spots(e, m, i, {Deny}, W)
            A == Spots(e, m, i, Level, W)
            DW == Spots(e, m, i, {Deny}, W \cup {x})
            AW == Spots(e, m, i, Level, W \cup {x})
<1>0. /\ DW = IF v \in {Deny} THEN D \cup {x} ELSE D
      /\ AW = IF v \in Level THEN A \cup {x} ELSE A
  <2>1. ASSUME NEW S PROVE Spots(e, m, i, S, W \cup {x}) = IF v \in S THEN Spots(e, m, i, S, W) \cup {x} ELSE Spots(e, m, i, S, W)
    BY DEF Spots
  <2>. QED
    BY <2>1
<1>1. NearestDeny(D, s.deny) /\ FirstAllow(e, m, i, A, s.allow)
  BY DEF SeenIs
<1>2. D \subseteq W /\ A \subseteq W
  BY DEF Spots
<1>3. /\ s.deny \in Nat /\ s.allow.dist \in Nat /\ s.deny <= MaxDepth + 1 /\ s.allow.dist <= MaxDepth + 1
      /\ s.allow \in [dist : 0..(MaxDepth + 1), level : 0..MaxLevel]
      /\ s.deny \in 0..(MaxDepth + 1) /\ MaxDepth \in Nat
      /\ s = [deny |-> s.deny, allow |-> s.allow]
  BY NumbersAssumption DEF Seen
<1>4. x[1] \in 0..MaxDepth /\ x[1] \in Nat /\ x[2] \in Nat
  BY PlaceNumbers
<1>5. CASE v = Deny
  <2>1. v \notin Level
    BY <1>5, KindsOfSetting DEF SettingKinds
  <2>2. DW = D \cup {x} /\ AW = A
    BY <1>0, <1>5, <2>1
  <2>3. r = [deny |-> IF x[1] < s.deny THEN x[1] ELSE s.deny, allow |-> s.allow]
    BY <1>4, <1>5, CloserIs
  <2>4. NearestDeny(D \cup {x}, r.deny)
    <3>1. \A y \in D : y[1] \in Nat
      BY <1>2, PlaceNumbers
    <3>. HIDE DEF D
    <3>. QED
      BY <1>1, <1>3, <1>4, <2>3, <3>1 DEF NearestDeny
  <2>5. r \in Seen
    BY <1>3, <1>4, <2>3 DEF Seen
  <2>6. r.allow = s.allow
    BY <2>3
  <2>. HIDE DEF D, A, r
  <2>7. SeenIs(e, m, r, i, W \cup {x})
    BY <1>1, <2>2, <2>4, <2>6, Zenon DEF SeenIs
  <2>. QED
    BY <2>5, <2>7 DEF r
<1>6. CASE v \in Level
  <2>1. v # Deny
    BY <1>6, KindsOfSetting DEF SettingKinds
  <2>2. DW = D /\ AW = A \cup {x}
    BY <1>0, <1>6, <2>1
  <2>3. r = [deny |-> s.deny, allow |-> IF x[1] < s.allow.dist THEN [dist |-> x[1], level |-> v] ELSE s.allow]
    BY <1>4, <1>6, CloserIs
  <2>4. FirstAllow(e, m, i, A \cup {x}, r.allow)
    <3>1. CASE x[1] < s.allow.dist
      <4>1. r.allow = Allows(e, m, i, x)
        BY <2>3, <3>1 DEF Allows
      <4>2. \A y \in A : Before(x, y)
        <5>1. CASE A = {}
          BY <5>1
        <5>2. ASSUME NEW z \in A, Leads(z, A), s.allow = Allows(e, m, i, z), NEW y \in A
              PROVE  Before(x, y)
          <6>1. s.allow.dist = z[1]
            BY <5>2 DEF Allows
          <6>2. z \in Places /\ y \in Places /\ Before(z, y)
            BY <1>2, <5>2 DEF Leads
          <6>3. Before(x, z)
            BY <3>1, <6>1, <6>2, BeforeAll
          <6>. QED
            BY <6>2, <6>3, BeforeAll
        <5>. QED
          BY <1>1, <5>1, <5>2, Zenon DEF FirstAllow
      <4>3. Leads(x, A \cup {x})
        BY <4>2, BeforeAll, Zenon DEF Leads
      <4>. QED
        BY <4>1, <4>3, Zenon DEF FirstAllow
    <3>2. CASE ~(x[1] < s.allow.dist)
      <4>1. A # {} /\ r.allow = s.allow
        <5>1. s.allow # Far
          <6>1. Far.dist = MaxDepth + 1
            BY DEF Far
          <6>. QED
            BY <1>3, <1>4, <3>2, <6>1
        <5>. QED
          BY <1>1, <2>3, <3>2, <5>1 DEF FirstAllow
      <4>2. PICK z \in A : Leads(z, A) /\ s.allow = Allows(e, m, i, z)
        BY <1>1, <4>1, Zenon DEF FirstAllow
      <4>3. s.allow.dist = z[1]
        BY <4>2 DEF Allows
      <4>4. z \in Places /\ z \in W /\ z[1] \in Nat /\ z[2] <= x[2]
        BY <1>2, PlaceNumbers
      <4>5. Before(z, x)
        BY <1>3, <1>4, <3>2, <4>3, <4>4, BeforeAll
      <4>6. Leads(z, A \cup {x})
        BY <4>2, <4>5, Zenon DEF Leads
      <4>. QED
        BY <4>1, <4>2, <4>6, Zenon DEF FirstAllow
    <3>. QED
      BY <3>1, <3>2
  <2>5. r \in Seen
    <3>1. v \in 0..MaxLevel
      BY <1>6, NumbersAssumption DEF Level
    <3>. HIDE DEF v
    <3>. QED
      BY <1>3, <1>4, <2>3, <3>1 DEF Seen
  <2>6. r.deny = s.deny
    BY <2>3
  <2>. HIDE DEF D, A, r
  <2>7. SeenIs(e, m, r, i, W \cup {x})
    BY <1>1, <2>2, <2>4, <2>6, Zenon DEF SeenIs
  <2>. QED
    BY <2>5, <2>7 DEF r
<1>7. CASE v = 0
  <2>1. v # Deny /\ v \notin Level
    BY <1>7, KindsOfSetting DEF SettingKinds
  <2>2. DW = D /\ AW = A
    BY <1>0, <2>1
  <2>3. r = s
    BY <1>4, <1>7, CloserIs
  <2>. QED
    BY <1>1, <2>2, <2>3 DEF SeenIs
<1>8. v = Deny \/ v \in Level \/ v = 0
  BY KindsOfSetting DEF SettingKinds
<1>. QED
  BY <1>5, <1>6, <1>7, <1>8

\* Folders that were met nearer by, and places without a folder, add nothing.
LEMMA SpotsRepeat ==
  ASSUME NEW e, NEW m, NEW i, NEW W \in SUBSET Places, NEW V \in SUBSET Places, W \subseteq V,
         \A y \in V \ W : \/ Folder(e, y) = None
                          \/ \E z \in W : Folder(e, z) = Folder(e, y) /\ Before(z, y),
         NEW S
  PROVE  /\ Spots(e, m, i, S, W) \subseteq Spots(e, m, i, S, V)
         /\ \A y \in Spots(e, m, i, S, V) : \E z \in Spots(e, m, i, S, W) : Before(z, y)
<1>1. ASSUME NEW y \in Spots(e, m, i, S, V) PROVE \E z \in Spots(e, m, i, S, W) : Before(z, y)
  <2>1. y \in V /\ Folder(e, y) # None /\ m[Folder(e, y)][i] \in S
    BY DEF Spots
  <2>2. CASE y \in W
    <3>1. y \in Spots(e, m, i, S, W)
      BY <2>1, <2>2 DEF Spots
    <3>. QED
      BY <2>1, <3>1, BeforeAll
  <2>3. CASE y \notin W
    <3>1. PICK z \in W : Folder(e, z) = Folder(e, y) /\ Before(z, y)
      BY <2>1, <2>3
    <3>2. z \in Spots(e, m, i, S, W)
      BY <2>1, <3>1 DEF Spots
    <3>. QED
      BY <3>1, <3>2
  <2>. QED
    BY <2>2, <2>3
<1>. QED
  BY <1>1 DEF Spots

LEMMA RepeatsAddNothing ==
  ASSUME NEW e, NEW m, NEW i, NEW s \in Seen, NEW W \in SUBSET Places, NEW V \in SUBSET Places, W \subseteq V,
         \A y \in V \ W : \/ Folder(e, y) = None
                          \/ \E z \in W : Folder(e, z) = Folder(e, y) /\ Before(z, y),
         SeenIs(e, m, s, i, W)
  PROVE  SeenIs(e, m, s, i, V)
<1>. DEFINE D == Spots(e, m, i, {Deny}, W)
            A == Spots(e, m, i, Level, W)
            DV == Spots(e, m, i, {Deny}, V)
            AV == Spots(e, m, i, Level, V)
<1>1. D \subseteq DV /\ \A y \in DV : \E z \in D : Before(z, y)
  BY SpotsRepeat
<1>2. A \subseteq AV /\ \A y \in AV : \E z \in A : Before(z, y)
  BY SpotsRepeat
<1>3. DV \subseteq Places /\ AV \subseteq Places
  BY DEF Spots
<1>4. NearestDeny(D, s.deny) /\ FirstAllow(e, m, i, A, s.allow)
  BY DEF SeenIs
<1>5. s.deny \in Nat
  BY NumbersAssumption DEF Seen
<1>. HIDE DEF D, A, DV, AV
<1>6. NearestDeny(DV, s.deny)
  <2>1. ASSUME NEW y \in DV PROVE s.deny <= y[1]
    <3>1. PICK z \in D : Before(z, y)
      BY <1>1
    <3>2. z[1] <= y[1] /\ z[1] \in Nat /\ y[1] \in Nat
      BY <1>1, <1>3, <3>1, BeforeAll, PlaceNumbers
    <3>3. s.deny <= z[1]
      BY <1>4, Zenon DEF NearestDeny
    <3>. QED
      BY <1>5, <3>2, <3>3
  <2>. QED
    BY <1>1, <1>4, <2>1 DEF NearestDeny
<1>7. FirstAllow(e, m, i, AV, s.allow)
  <2>1. CASE A = {}
    <3>1. AV = {}
      BY <1>2, <2>1
    <3>. QED
      BY <1>4, <2>1, <3>1, Zenon DEF FirstAllow
  <2>2. ASSUME NEW x \in A, Leads(x, A), s.allow = Allows(e, m, i, x)
        PROVE  FirstAllow(e, m, i, AV, s.allow)
    <3>1. ASSUME NEW y \in AV PROVE Before(x, y)
      <4>1. PICK z \in A : Before(z, y)
        BY <1>2
      <4>2. Before(x, z)
        BY <2>2 DEF Leads
      <4>. QED
        BY <1>2, <1>3, <4>1, <4>2, BeforeAll
    <3>2. x \in AV /\ Leads(x, AV)
      BY <1>2, <3>1 DEF Leads
    <3>. QED
      BY <2>2, <3>2, Zenon DEF FirstAllow
  <2>. QED
    BY <1>4, <2>1, <2>2, Zenon DEF FirstAllow
<1>. QED
  BY <1>6, <1>7, Zenon DEF SeenIs, DV, AV

\* All places of the first k parents, and the nearest a of the next.
Done(k, a) == {x \in Places : x[2] <= k \/ (x[2] = k + 1 /\ x[1] < a)}

LEMMA DonePlaces ==
  /\ Done(0, 0) = {}
  /\ Done(Len(Parents), 0) = Places
  /\ \A k, a \in Nat : Done(k, a) \in SUBSET Places
  /\ \A k, a \in Nat : \A y \in Done(k, a) : y[2] <= k + 1
BY ParentsAssumption, NumbersAssumption DEF Done, Places

LEMMA DoneGrows ==
  ASSUME NEW k \in Nat, k + 1 \in DOMAIN Parents, NEW a \in 0..MaxDepth
  PROVE  /\ <<a, k + 1>> \in Places
         /\ Done(k, a + 1) = Done(k, a) \cup {<<a, k + 1>>}
         /\ Done(k, a + 1) \subseteq Done(k + 1, 0)
         /\ \A y \in Done(k + 1, 0) \ Done(k, a + 1) : y[2] = k + 1 /\ y[1] \in (a + 1)..MaxDepth
         /\ \A j \in 0..a : <<j, k + 1>> \in Done(k, a + 1)
<1>1. a \in Nat /\ MaxDepth \in Nat
  BY NumbersAssumption
<1>2. <<a, k + 1>> \in Places
  BY DEF Places
<1>3. \A x \in Places : x = <<x[1], x[2]>> /\ x[1] \in 0..MaxDepth /\ x[1] \in Nat /\ x[2] \in Nat
  BY PlaceNumbers DEF Places
<1>4. ASSUME NEW x \in Places
      PROVE  x \in Done(k, a + 1) <=> x \in Done(k, a) \cup {<<a, k + 1>>}
  <2>1. x = <<a, k + 1>> <=> x[1] = a /\ x[2] = k + 1
    BY <1>3
  <2>2. x[1] \in Nat /\ x[2] \in Nat
    BY <1>3
  <2>3. x[1] < a + 1 <=> x[1] < a \/ x[1] = a
    BY <1>1, <2>2
  <2>4. x[2] = k + 1 => ~(x[2] <= k)
    BY <2>2
  <2>. QED
    BY <2>1, <2>3, <2>4 DEF Done
<1>5. Done(k, a + 1) = Done(k, a) \cup {<<a, k + 1>>}
  BY <1>2, <1>4 DEF Done
<1>6. ASSUME NEW j \in 0..a PROVE <<j, k + 1>> \in Done(k, a + 1)
  <2>1. <<j, k + 1>> \in Places
    BY <1>1 DEF Places
  <2>. QED
    BY <1>1, <2>1 DEF Done
<1>7. Done(k, a + 1) \subseteq Done(k + 1, 0)
  BY <1>1, <1>3 DEF Done
<1>8. ASSUME NEW y \in Done(k + 1, 0), y \notin Done(k, a + 1)
      PROVE  y[2] = k + 1 /\ y[1] \in (a + 1)..MaxDepth
  <2>1. y \in Places
    BY DEF Done
  <2>2. y[1] \in 0..MaxDepth /\ y[2] \in Nat
    BY <1>3, <2>1
  <2>3. ~(y[1] < 0)
    BY <2>2
  <2>4. y[2] <= k + 1
    BY <2>3 DEF Done
  <2>5. ~(y[2] <= k) /\ ~(y[2] = k + 1 /\ y[1] < a + 1)
    BY <1>8, <2>1 DEF Done
  <2>. QED
    BY <1>1, <2>2, <2>4, <2>5
<1>. QED
  BY <1>2, <1>5, <1>6, <1>7, <1>8

LEMMA NothingSeen ==
  ASSUME NEW e, NEW m, NEW i \in Identity
  PROVE  Nothing[i] \in Seen /\ SeenIs(e, m, Nothing[i], i, {})
<1>1. Nothing[i] = [deny |-> MaxDepth + 1, allow |-> Far]
  BY DEF Nothing
<1>2. Far \in [dist : 0..(MaxDepth + 1), level : 0..MaxLevel]
  BY NumbersAssumption DEF Far
<1>3. \A S : Spots(e, m, i, S, {}) = {}
  BY DEF Spots
<1>. QED
  BY <1>1, <1>2, <1>3, NumbersAssumption DEF Seen, SeenIs, NearestDeny, FirstAllow

\* The folder read next is the one the climb has at its place.
LEMMA WalkOn ==
  ASSUME NEW e, NEW m \in [Container -> [Identity -> Setting]], NEW i \in Identity, NEW s \in Seen,
         NEW k \in Nat, k + 1 \in DOMAIN Parents, NEW ch \in Seq(Container), Len(ch) <= MaxDepth,
         NEW a \in 0..Len(ch), Whole(e, Parents[k + 1], ch), SeenIs(e, m, s, i, Done(k, a))
  PROVE  LET r == Closer(m[(<<Parents[k + 1]>> \o ch)[a + 1]][i], a, s)
         IN  /\ r \in Seen /\ SeenIs(e, m, r, i, Done(k, a + 1))
             /\ a = Len(ch) => SeenIs(e, m, r, i, Done(k + 1, 0))
<1>. DEFINE c == Parents[k + 1]
            x == <<a, k + 1>>
            d == (<<c>> \o ch)[a + 1]
            r == Closer(m[d][i], a, s)
<1>1. c \in Container
  BY ParentsAssumption
<1>2. Len(ch) \in Nat /\ MaxDepth \in Nat /\ a \in 0..MaxDepth /\ a \in Nat
  BY NumbersAssumption
<1>3. x[1] = a /\ x[2] = k + 1
  OBVIOUS
<1>4. d \in Container
  <2>1. <<c>> \o ch \in Seq(Container) /\ Len(<<c>> \o ch) = Len(ch) + 1
    BY <1>1, PathPlaces
  <2>2. a + 1 \in 1..(Len(ch) + 1)
    BY <1>2
  <2>. QED
    BY <2>1, <2>2
<1>5. Folder(e, x) = d
  <2>1. Climbs(e)[<<c, a>>] = d
    BY <1>1, ChainIsClimb
  <2>. QED
    BY <1>3, <2>1, Zenon DEF Folder
<1>6. d # None /\ m[d][i] \in Setting
  BY <1>4, NumbersAssumption
<1>7. x \in Places /\ Done(k, a + 1) = Done(k, a) \cup {x}
  BY <1>2, DoneGrows
<1>8. Done(k, a) \in SUBSET Places /\ \A y \in Done(k, a) : y[2] <= x[2]
  BY <1>2, <1>3, DonePlaces
<1>9. r \in Seen /\ SeenIs(e, m, r, i, Done(k, a + 1))
  <2>. HIDE DEF d, x
  <2>1. /\ SeenIs(e, m, Closer(m[Folder(e, x)][i], x[1], s), i, Done(k, a) \cup {x})
        /\ Closer(m[Folder(e, x)][i], x[1], s) \in Seen
    BY <1>5, <1>6, <1>7, <1>8, CloserAdds, Zenon
  <2>. QED
    BY <1>3, <1>5, <1>7, <2>1, Zenon
<1>10. ASSUME a = Len(ch) PROVE SeenIs(e, m, r, i, Done(k + 1, 0))
  <2>1. Done(k + 1, 0) \in SUBSET Places /\ Done(k, a + 1) \in SUBSET Places
    BY <1>2, DonePlaces
  <2>2. ASSUME NEW y \in Done(k + 1, 0) \ Done(k, a + 1)
        PROVE  \/ Folder(e, y) = None
               \/ \E z \in Done(k, a + 1) : Folder(e, z) = Folder(e, y) /\ Before(z, y)
    <3>1. y[2] = k + 1 /\ y[1] \in (a + 1)..MaxDepth
      BY <1>2, DoneGrows
    <3>2. \A n \in (a + 1)..MaxDepth : Climbs(e)[<<c, n>>] = None \/ \E j \in 0..a : Climbs(e)[<<c, n>>] = Climbs(e)[<<c, j>>]
      <4>1. NoneNewAbove(e, c, Len(ch))
        BY <1>1, ChainIsClimb
      <4>. QED
        BY <1>10, <4>1, Zenon DEF NoneNewAbove
    <3>3. Folder(e, y) = Climbs(e)[<<c, y[1]>>]
      BY <3>1, Zenon DEF Folder
    <3>4. ASSUME NEW j \in 0..a, Climbs(e)[<<c, y[1]>>] = Climbs(e)[<<c, j>>]
          PROVE  \E z \in Done(k, a + 1) : Folder(e, z) = Folder(e, y) /\ Before(z, y)
      <4>1. <<j, k + 1>> \in Done(k, a + 1)
        BY <1>2, DoneGrows
      <4>2. Folder(e, <<j, k + 1>>) = Climbs(e)[<<c, j>>]
        BY DEF Folder
      <4>3. Before(<<j, k + 1>>, y)
        <5>1. j < y[1]
          BY <1>2, <3>1
        <5>. QED
          BY <5>1 DEF Before
      <4>. QED
        BY <3>3, <3>4, <4>1, <4>2, <4>3, Zenon
    <3>. QED
      BY <3>1, <3>2, <3>3, <3>4, Zenon
  <2>3. Done(k, a + 1) \subseteq Done(k + 1, 0)
    BY <1>2, DoneGrows
  <2>. HIDE DEF r
  <2>. QED
    BY <1>9, <2>1, <2>2, <2>3, RepeatsAddNothing, Zenon
<1>. QED
  BY <1>9, <1>10, Zenon

\* What the definition lets an identity inherit is what the walk has kept.
LEMMA InheritedIsKept ==
  ASSUME NEW i \in Identity, NEW s \in Seen, SeenIs(edge, perm, s, i, Places)
  PROVE  /\ Inherited(i) = IF Kept(s) THEN {s.allow.level} ELSE {}
         /\ Kept(s) => s.allow.level \in Level
<1>. DEFINE D == Where(i, {Deny})
            A == Where(i, Level)
<1>1. \A S : Where(i, S) = Spots(edge, perm, i, S, Places)
  BY AboveIsClimbs, Zenon DEF Where, Spots, Folder, Places
<1>2. NearestDeny(D, s.deny) /\ FirstAllow(edge, perm, i, A, s.allow)
  BY <1>1 DEF SeenIs
<1>3. D \subseteq Places /\ A \subseteq Places
  BY <1>1 DEF Spots
<1>4. \A x \in A : perm[Folder(edge, x)][i] \in Level
  BY <1>1 DEF Spots
<1>5. \A x, y \in Places : Before(x, y) /\ Before(y, x) => x = y
  BY PlaceNumbers DEF Before, Places
<1>6. s.deny \in Nat /\ MaxDepth \in Nat
  BY NumbersAssumption DEF Seen
<1>7. Inherited(i) = IF \E a \in A : \A d \in D : a[1] < d[1]
                     THEN {perm[Folder(edge, CHOOSE x \in A : Leads(x, A))][i]} ELSE {}
  BY AboveIsClimbs, Zenon DEF Inherited, Folder, Leads
<1>. HIDE DEF D, A
<1>8. CASE A = {} /\ s.allow = Far
  <2>1. ~Kept(s)
    BY <1>8 DEF Kept, Far
  <2>. QED
    BY <1>7, <1>8, <2>1
<1>9. ASSUME NEW x \in A, Leads(x, A), s.allow = Allows(edge, perm, i, x)
      PROVE  /\ Inherited(i) = IF Kept(s) THEN {s.allow.level} ELSE {}
             /\ Kept(s) => s.allow.level \in Level
  <2>1. s.allow.dist = x[1] /\ s.allow.level = perm[Folder(edge, x)][i]
    BY <1>9 DEF Allows
  <2>2. s.allow.level \in Level
    BY <1>4, <2>1
  <2>3. x[1] \in 0..MaxDepth /\ x[1] \in Nat
    BY <1>3, PlaceNumbers
  <2>4. Kept(s) <=> x[1] < s.deny
    <3>1. s.allow.level > 0
      BY <2>2, NumbersAssumption DEF Level
    <3>. QED
      BY <1>6, <2>1, <2>3, <3>1 DEF Kept
  <2>5. (CHOOSE z \in A : Leads(z, A)) = x
    <3>1. \A z \in A : Leads(z, A) => z = x
      BY <1>3, <1>5, <1>9 DEF Leads
    <3>. QED
      BY <1>9, <3>1
  <2>6. ASSUME x[1] < s.deny PROVE \A d \in D : x[1] < d[1]
    <3>1. TAKE d \in D
    <3>2. s.deny <= d[1] /\ d[1] \in Nat
      BY <1>2, <1>3, PlaceNumbers DEF NearestDeny
    <3>. QED
      BY <1>6, <2>3, <2>6, <3>2
  <2>7. ASSUME NEW a \in A, \A d \in D : a[1] < d[1] PROVE x[1] < s.deny
    <3>1. x[1] <= a[1] /\ a[1] \in Nat
      BY <1>3, <1>9, BeforeAll, PlaceNumbers DEF Leads
    <3>2. CASE s.deny = MaxDepth + 1
      BY <1>6, <2>3, <3>2
    <3>3. ASSUME NEW d \in D, s.deny = d[1] PROVE x[1] < s.deny
      BY <1>6, <2>3, <2>7, <3>1, <3>3
    <3>. QED
      BY <1>2, <3>2, <3>3 DEF NearestDeny
  <2>. QED
    BY <1>7, <2>1, <2>2, <2>4, <2>5, <2>6, <2>7, Zenon
<1>. QED
  BY <1>2, <1>8, <1>9, Zenon DEF FirstAllow

-----------------------------------------------------------------------------
(* The walk over groups. *)

LEMMA SetAsSequence ==
  ASSUME NEW S, IsFiniteSet(S)
  PROVE  SetToSeq(S) \in Seq(S) /\ ToSet(SetToSeq(S)) = S
<1>. DEFINE n == Cardinality(S)
            f == SetToSeq(S)
<1>1. n \in Nat /\ Bijection(1..n, S) # {}
  BY FS_CardinalityType DEF ExistsBijection
<1>2. PICK b : b \in [1..n -> S] /\ IsInjective(b)
  BY <1>1 DEF Bijection, Injection
<1>3. f \in [1..n -> S] /\ IsInjective(f)
  BY <1>2 DEF SetToSeq
<1>4. IsFiniteSet(1..n) /\ Cardinality(1..n) = n
  <2>. HIDE DEF n
  <2>. QED
    BY <1>1, FS_Interval
<1>. HIDE DEF f
<1>5. f \in Injection(1..n, S)
  BY <1>3 DEF Injection
<1>6. f \in Surjection(1..n, S)
  BY <1>4, <1>5, FS_Injection
<1>7. \A x \in S : \E i \in 1..n : f[i] = x
  BY <1>6 DEF Surjection
<1>. HIDE DEF n
<1>8. f \in Seq(S) /\ DOMAIN f = 1..n
  BY <1>1, <1>3
<1>9. S \subseteq ToSet(f)
  <2>1. \A i \in DOMAIN f : f[i] \in ToSet(f)
    BY <1>8, SequenceMembers
  <2>. QED
    BY <1>7, <1>8, <2>1
<1>. QED
  BY <1>8, <1>9, SequenceMembers DEF f

LEMMA HeadAndTail ==
  ASSUME NEW S, NEW s \in Seq(S), s # <<>>
  PROVE  /\ Head(s) \in S /\ Tail(s) \in Seq(S) /\ Len(Tail(s)) = Len(s) - 1
         /\ ToSet(s) = {Head(s)} \cup ToSet(Tail(s))
<1>1. /\ Head(s) = s[1] /\ Tail(s) \in Seq(S) /\ Len(s) \in Nat \ {0} /\ Len(Tail(s)) = Len(s) - 1
      /\ \A i \in 1..(Len(s) - 1) : Tail(s)[i] = s[i + 1]
  OBVIOUS
<1>. DEFINE t == Tail(s)
<1>2. /\ DOMAIN s = 1..Len(s) /\ DOMAIN t = 1..(Len(s) - 1)
  BY <1>1, SequenceMembers
<1>. HIDE DEF t
<1>3. ASSUME NEW x \in ToSet(s) PROVE x = s[1] \/ x \in ToSet(t)
  <2>1. PICK i \in 1..Len(s) : s[i] = x
    BY <1>2, SequenceMembers
  <2>2. i = 1 \/ (i - 1 \in 1..(Len(s) - 1) /\ (i - 1) + 1 = i)
    BY <1>1
  <2>3. i - 1 \in 1..(Len(s) - 1) => t[i - 1] = s[(i - 1) + 1]
    BY <1>1 DEF t
  <2>4. i - 1 \in DOMAIN t => t[i - 1] \in ToSet(t)
    BY <1>1, SequenceMembers DEF t
  <2>. QED
    BY <1>2, <2>1, <2>2, <2>3, <2>4
<1>4. ASSUME NEW x \in ToSet(t) PROVE x \in ToSet(s)
  <2>1. PICK i \in 1..(Len(s) - 1) : t[i] = x
    <3>1. t \in Seq(S)
      BY <1>1 DEF t
    <3>2. \E i \in DOMAIN t : t[i] = x
      BY <1>4, <3>1, SequenceMembers
    <3>. QED
      BY <1>2, <3>2
  <2>2. t[i] = s[i + 1] /\ i + 1 \in 1..Len(s)
    BY <1>1 DEF t
  <2>. QED
    BY <1>2, <2>1, <2>2, SequenceMembers
<1>5. s[1] \in ToSet(s) /\ s[1] \in S
  <2>1. 1 \in 1..Len(s)
    BY <1>1
  <2>. QED
    BY <1>2, <2>1, SequenceMembers
<1>. QED
  BY <1>1, <1>3, <1>4, <1>5 DEF t

LEMMA NoMembers == ToSet(<<>>) = {}
BY DEF ToSet

LEMMA OneMember == ASSUME NEW S, NEW x \in S PROVE <<x>> \in Seq(S) /\ ToSet(<<x>>) = {x}
BY DEF ToSet

\* The groups T of the table m have those of d, those of S that are there, and
\* with each that is not of d the groups in it that are there.
Shut(m, T, S, d) ==
    /\ d \subseteq T /\ \A x \in S : m[x].exists => x \in T
    /\ \A x \in T \ d : \A y \in m[x].groups : m[y].exists => y \in T
Reach(m, S, d) == {x \in Group : \A T \in SUBSET Group : Shut(m, T, S, d) => x \in T}

LEMMA ReachOfNone ==
  ASSUME NEW m, NEW d \in SUBSET Group
  PROVE  Reach(m, {}, d) = d
<1>1. Shut(m, d, {}, d)
  BY DEF Shut
<1>2. \A T : Shut(m, T, {}, d) => d \subseteq T
  BY DEF Shut
<1>. QED
  BY <1>1, <1>2 DEF Reach

LEMMA ReachPasses ==
  ASSUME NEW m, NEW h \in Group, NEW S, NEW d \in SUBSET Group, h \in d \/ ~m[h].exists
  PROVE  Reach(m, {h} \cup S, d) = Reach(m, S, d)
<1>1. \A T : Shut(m, T, {h} \cup S, d) <=> Shut(m, T, S, d)
  BY DEF Shut
<1>. QED
  BY <1>1 DEF Reach

Unmet(m, h, d) == h \notin d /\ m[h].exists
With(h, S)     == {h} \cup S

LEMMA ReachEnters ==
  ASSUME NEW m, NEW h \in Group, NEW S, NEW d \in SUBSET Group, Unmet(m, h, d)
  PROVE  Reach(m, With(h, S), d) = Reach(m, m[h].groups \cup S, With(h, d))
<1>. USE DEF Unmet, With
<1>1. ASSUME NEW T, Shut(m, T, With(h, S), d) PROVE Shut(m, T, m[h].groups \cup S, With(h, d))
  BY <1>1 DEF Shut
<1>2. ASSUME NEW T, Shut(m, T, m[h].groups \cup S, With(h, d)) PROVE Shut(m, T, With(h, S), d)
  BY <1>2 DEF Shut
<1>. QED
  BY <1>1, <1>2 DEF Reach

\* f walks over the groups of m.
Walk(f, m) ==
    [x \in Seq(Group) \X SUBSET Group |->
        LET s == x[1]
            d == x[2]
        IN IF s = <<>> THEN d
           ELSE IF Head(s) \in d \/ ~m[Head(s)].exists THEN f[<<Tail(s), d>>]
           ELSE f[<<SetToSeq(m[Head(s)].groups) \o Tail(s), d \cup {Head(s)}>>]]

Reached(m) == [x \in Seq(Group) \X SUBSET Group |-> Reach(m, ToSet(x[1]), x[2])]

LEMMA GroupsInOrder ==
  ASSUME NEW m \in [Group -> Member], NEW h \in Group, NEW t \in Seq(Group)
  PROVE  /\ SetToSeq(m[h].groups) \o t \in Seq(Group)
         /\ ToSet(SetToSeq(m[h].groups) \o t) = m[h].groups \cup ToSet(t)
<1>1. m[h].groups \subseteq Group
  BY DEF Member
<1>2. IsFiniteSet(m[h].groups)
  BY <1>1, GroupAssumption, FS_Subset
<1>3. SetToSeq(m[h].groups) \in Seq(m[h].groups) /\ ToSet(SetToSeq(m[h].groups)) = m[h].groups
  BY <1>2, SetAsSequence
<1>4. SetToSeq(m[h].groups) \in Seq(Group)
  BY <1>1, <1>3
<1>. QED
  BY <1>3, <1>4, JoinedMembers

LEMMA ReachedWalks ==
  ASSUME NEW m \in [Group -> Member]
  PROVE  Reached(m) = Walk(Reached(m), m)
<1>. DEFINE f == Reached(m)
<1>1. \A s \in Seq(Group) : \A d \in SUBSET Group : f[<<s, d>>] = Reach(m, ToSet(s), d)
  BY DEF Reached
<1>. HIDE DEF f
<1>2. ASSUME NEW s \in Seq(Group), NEW d \in SUBSET Group
      PROVE  Reach(m, ToSet(s), d) =
                IF s = <<>> THEN d
                ELSE IF Head(s) \in d \/ ~m[Head(s)].exists THEN f[<<Tail(s), d>>]
                ELSE f[<<SetToSeq(m[Head(s)].groups) \o Tail(s), d \cup {Head(s)}>>]
  <2>1. CASE s = <<>>
    BY <2>1, NoMembers, ReachOfNone
  <2>2. CASE s # <<>>
    <3>. DEFINE h == Head(s)
                t == Tail(s)
    <3>1. h \in Group /\ t \in Seq(Group) /\ ToSet(s) = {h} \cup ToSet(t)
      BY <2>2, HeadAndTail
    <3>. HIDE DEF h, t
    <3>2. CASE h \in d \/ ~m[h].exists
      <4>1. Reach(m, ToSet(s), d) = f[<<t, d>>]
        BY <1>1, <3>1, <3>2, ReachPasses
      <4>. QED
        BY <2>2, <3>2, <4>1 DEF h, t
    <3>3. CASE h \notin d /\ m[h].exists
      <4>. DEFINE n == SetToSeq(m[h].groups) \o t
      <4>1. n \in Seq(Group) /\ ToSet(n) = m[h].groups \cup ToSet(t)
        BY <3>1, GroupsInOrder
      <4>2. d \cup {h} \in SUBSET Group
        BY <3>1
      <4>3. f[<<n, d \cup {h}>>] = Reach(m, ToSet(n), d \cup {h})
        BY <1>1, <4>1, <4>2
      <4>. HIDE DEF n
      <4>4. Reach(m, ToSet(s), d) = f[<<n, d \cup {h}>>]
        <5>1. Reach(m, {h} \cup ToSet(t), d) = Reach(m, m[h].groups \cup ToSet(t), d \cup {h})
          <6>1. h \in Group
            BY <3>1
          <6>2. Unmet(m, h, d)
            BY <3>3 DEF Unmet
          <6>3. Reach(m, With(h, ToSet(t)), d) = Reach(m, m[h].groups \cup ToSet(t), With(h, d))
            BY <6>1, <6>2, ReachEnters, Zenon
          <6>4. With(h, ToSet(t)) = {h} \cup ToSet(t) /\ With(h, d) = d \cup {h}
            BY DEF With
          <6>. QED
            BY <6>3, <6>4
        <5>. QED
          BY <3>1, <4>1, <4>3, <5>1, Zenon
      <4>. QED
        BY <2>2, <3>3, <4>4 DEF h, t, n
    <3>. QED
      BY <3>2, <3>3
  <2>. QED
    BY <2>1, <2>2
<1>. QED
  BY <1>2 DEF Reached, Walk, f

\* The walk always ends: every step enters a group or shortens the stack.
Differ(f, g, s, d) == f[<<s, d>>] # g[<<s, d>>]
LEMMA WalkSteps ==
  ASSUME NEW m, NEW f, f = Walk(f, m), NEW s \in Seq(Group), NEW d \in SUBSET Group
  PROVE  f[<<s, d>>] = IF s = <<>> THEN d
                       ELSE IF Head(s) \in d \/ ~m[Head(s)].exists THEN f[<<Tail(s), d>>]
                       ELSE f[<<SetToSeq(m[Head(s)].groups) \o Tail(s), d \cup {Head(s)}>>]
<1>. DEFINE X == Seq(Group) \X SUBSET Group
            F(x) == LET z == x[1]
                        b == x[2]
                    IN IF z = <<>> THEN b
                       ELSE IF Head(z) \in b \/ ~m[Head(z)].exists THEN f[<<Tail(z), b>>]
                       ELSE f[<<SetToSeq(m[Head(z)].groups) \o Tail(z), b \cup {Head(z)}>>]
<1>1. f = [x \in X |-> F(x)] /\ <<s, d>> \in X
  BY DEF Walk
<1>. HIDE DEF X
<1>2. f[<<s, d>>] = F(<<s, d>>)
  <2>. HIDE DEF F
  <2>. QED
    BY <1>1
<1>3. <<s, d>>[1] = s /\ <<s, d>>[2] = d
  OBVIOUS
<1>. QED
  BY <1>2, <1>3

LEMMA WalksAgree ==
  ASSUME NEW m \in [Group -> Member], NEW f, NEW g, f = Walk(f, m), g = Walk(g, m),
         NEW s \in Seq(Group), NEW d \in SUBSET Group
  PROVE  f[<<s, d>>] = g[<<s, d>>]
<1>. DEFINE Disputed(n, l) ==
        \E z \in Seq(Group) : \E c \in SUBSET Group :
            Cardinality(Group \ c) = n /\ Len(z) = l /\ Differ(f, g, z, c)
<1>. DEFINE Bad == {n \in Nat : \E l \in Nat : Disputed(n, l)}
<1>1. \A c \in SUBSET Group : IsFiniteSet(Group \ c) /\ Cardinality(Group \ c) \in Nat
  BY GroupAssumption, FS_Subset, FS_CardinalityType
<1>2. SUFFICES ASSUME Bad # {} PROVE FALSE
  <2>1. Len(s) \in Nat
    OBVIOUS
  <2>. QED
    BY <1>1, <2>1 DEF Differ
<1>3. PICK n \in Bad : \A k \in Bad : n <= k
  BY <1>2, LeastMember
<1>. DEFINE Lens == {l \in Nat : Disputed(n, l)}
<1>4. PICK l \in Lens : \A k \in Lens : l <= k
  <2>1. Lens # {} /\ Lens \subseteq Nat
    BY <1>3
  <2>. QED
    BY <2>1, LeastMember
<1>5. PICK z \in Seq(Group), c \in SUBSET Group :
          Cardinality(Group \ c) = n /\ Len(z) = l /\ Differ(f, g, z, c)
  BY <1>4
<1>6. \A r \in {f, g} : \A y \in Seq(Group) : \A b \in SUBSET Group :
         r[<<y, b>>] = IF y = <<>> THEN b
                   ELSE IF Head(y) \in b \/ ~m[Head(y)].exists THEN r[<<Tail(y), b>>]
                   ELSE r[<<SetToSeq(m[Head(y)].groups) \o Tail(y), b \cup {Head(y)}>>]
  <2>1. \A r : r = Walk(r, m) => \A y \in Seq(Group) : \A b \in SUBSET Group :
         r[<<y, b>>] = IF y = <<>> THEN b
                   ELSE IF Head(y) \in b \/ ~m[Head(y)].exists THEN r[<<Tail(y), b>>]
                   ELSE r[<<SetToSeq(m[Head(y)].groups) \o Tail(y), b \cup {Head(y)}>>]
    BY WalkSteps
  <2>. QED
    BY <2>1, Zenon
<1>7. z # <<>>
  <2>1. f[<<z, c>>] # g[<<z, c>>]
    BY <1>5, Zenon DEF Differ
  <2>2. z = <<>> => f[<<z, c>>] = c /\ g[<<z, c>>] = c
    BY <1>5, <1>6
  <2>. QED
    BY <2>1, <2>2
<1>. DEFINE h == Head(z)
            t == Tail(z)
<1>8. h \in Group /\ t \in Seq(Group) /\ Len(t) = l - 1 /\ l - 1 \in Nat
  BY <1>5, <1>7, HeadAndTail
<1>9. CASE h \in c \/ ~m[h].exists
  <2>1. f[<<z, c>>] = f[<<t, c>>] /\ g[<<z, c>>] = g[<<t, c>>]
    BY <1>6, <1>7, <1>9
  <2>2. Differ(f, g, t, c)
    BY <1>5, <2>1 DEF Differ
  <2>. HIDE DEF t
  <2>3. l - 1 \in Lens
    BY <1>5, <1>8, <2>2
  <2>. QED
    <3>1. l \in Nat /\ l <= l - 1
      BY <1>4, <2>3
    <3>. QED
      BY <3>1
<1>10. CASE h \notin c /\ m[h].exists
  <2>. DEFINE y == SetToSeq(m[h].groups) \o t
              b == c \cup {h}
  <2>1. f[<<z, c>>] = f[<<y, b>>] /\ g[<<z, c>>] = g[<<y, b>>]
    BY <1>6, <1>7, <1>10
  <2>2. y \in Seq(Group) /\ b \in SUBSET Group
    BY <1>8, GroupsInOrder
  <2>3. Differ(f, g, y, b)
    BY <1>5, <2>1 DEF Differ
  <2>4. n - 1 \in Nat /\ Cardinality(Group \ b) = n - 1
    <3>1. h \in Group \ c /\ Group \ b = (Group \ c) \ {h}
      BY <1>8, <1>10
    <3>. QED
      <4>1. IsFiniteSet(Group \ c) /\ n \in Nat
        BY <1>1, <1>3
      <4>2. n - 1 \in Nat /\ Cardinality((Group \ c) \ {h}) = n - 1
        BY <1>5, <3>1, <4>1, OneLess
      <4>. QED
        BY <3>1, <4>2
  <2>5. Len(y) \in Nat
    BY <2>2
  <2>. HIDE DEF y, b
  <2>6. n - 1 \in Bad
    BY <2>2, <2>3, <2>4, <2>5
  <2>. QED
    <3>1. n \in Nat /\ n <= n - 1
      BY <1>3, <2>6
    <3>. QED
      BY <3>1
<1>. QED
  BY <1>9, <1>10

\* The walk from one group finds the groups within it.
LEMMA VisitsWithin ==
  ASSUME NEW g \in Group, group \in [Group -> Member]
  PROVE  Visit[<< <<g>>, {} >>] = Within(g)
<1>1. Visit = Walk(Visit, group)
  <2>1. \E f : f = Walk(f, group)
    BY ReachedWalks
  <2>. QED
    BY <2>1 DEF Visit, Walk
<1>2. Visit[<< <<g>>, {} >>] = Reach(group, {g}, {})
  <2>1. <<g>> \in Seq(Group) /\ ToSet(<<g>>) = {g}
    BY OneMember
  <2>2. Visit[<< <<g>>, {} >>] = Reached(group)[<< <<g>>, {} >>]
    <3>1. Reached(group) = Walk(Reached(group), group) /\ {} \in SUBSET Group
      BY ReachedWalks
    <3>. QED
      BY <1>1, <2>1, <3>1, WalksAgree, Zenon
  <2>. QED
    BY <2>1, <2>2 DEF Reached
<1>3. CASE ~group[g].exists
  <2>1. Shut(group, {}, {g}, {})
    BY <1>3 DEF Shut
  <2>2. Reach(group, {g}, {}) = {}
    BY <2>1 DEF Reach
  <2>. QED
    BY <1>2, <1>3, <2>2 DEF Within
<1>4. CASE group[g].exists
  <2>. DEFINE R == Reach(group, {g}, {})
              Least(G) == /\ g \in G /\ Closed(G)
                          /\ \A H \in SUBSET Group : g \in H /\ Closed(H) => G \subseteq H
  <2>1. \A T \in SUBSET Group : Shut(group, T, {g}, {}) <=> g \in T /\ Closed(T)
    BY <1>4 DEF Shut, Closed
  <2>2. R = {x \in Group : \A T \in SUBSET Group : g \in T /\ Closed(T) => x \in T}
    BY <2>1 DEF Reach
  <2>3. R \in SUBSET Group /\ g \in R
    BY <2>2
  <2>4. Closed(R)
    <3>1. \A x \in R : \A y \in group[x].groups : y \in Group
      BY <2>3 DEF Member
    <3>. QED
      BY <2>2, <3>1 DEF Closed
  <2>5. \A H \in SUBSET Group : g \in H /\ Closed(H) => R \subseteq H
    BY <2>2
  <2>. HIDE DEF R
  <2>6. Least(R)
    BY <2>3, <2>4, <2>5
  <2>7. \A G \in SUBSET Group : Least(G) => G = R
    BY <2>3, <2>6
  <2>8. (CHOOSE G \in SUBSET Group : Least(G)) = R
    <3>. HIDE DEF Least
    <3>. QED
      BY <2>3, <2>6, <2>7
  <2>. QED
    BY <1>2, <1>4, <2>8 DEF Within, R
<1>. QED
  BY <1>3, <1>4

-----------------------------------------------------------------------------
(* A compilation that nothing disturbs. *)

Walked(p) == Len(Parents) - Len(todo[p])
FoldersLeft(s) ==
    /\ s \in Seq(Container) /\ Len(s) <= Len(Parents)
    /\ \A j \in 1..Len(s) : s[j] = Parents[(Len(Parents) - Len(s)) + j]

\* Where process p stands in the folders, ...
Placed(p) ==
    /\ pc[p] = "idle" => seen[p] = Nothing
    /\ pc[p] # "idle" => FoldersLeft(todo[p])
    /\ pc[p] # "read" => at[p] = 0
    /\ pc[p] = "read" => at[p] <= Len(chain[p])

ExactShape ==
    /\ perm \in [Container -> [Identity -> Setting]]
    /\ group \in [Group -> Member]
    /\ hints \in [Process -> SUBSET (Identity \X Level)]
    /\ at \in [Process -> Nat]
    /\ seen \in [Process -> [Identity -> Seen]]
    /\ edits \in 0..MaxEdits
    /\ since \in [Process -> (0..edits) \cup {None}]
    /\ \A p \in Process : Len(chain[p]) <= MaxDepth
    /\ \A c \in Container : Len(cache[c].chain) <= MaxDepth
    /\ \A p \in Process : Placed(p)

Undisturbed(p) == pc[p] # "idle" /\ since[p] = edits

\* ... and what it has found there, if nothing has changed since it began.
Exactly(p) ==
    /\ quiet = TTL
    /\ pc[p] = "read" => Whole(edge, Head(todo[p]), chain[p])
    /\ \A i \in Identity : SeenIs(edge, perm, seen[p][i], i, Done(Walked(p), at[p]))

ExactInv == \A p \in Process : Undisturbed(p) => Exactly(p)

LEMMA NothingIsSeen == Nothing \in [Identity -> Seen]
BY NothingSeen DEF Nothing

LEMMA ExactInit == Init => ExactShape /\ ExactInv
<1>1. Len(<<>>) = 0 /\ <<>> \in Seq(Container) /\ Absent \in Member
  BY DEF Absent, Member
<1>2. 0 \in Setting /\ 0 \in 0..MaxEdits /\ 0 <= MaxDepth
  BY NumbersAssumption DEF Setting
<1>. QED
  BY <1>1, <1>2, NothingIsSeen DEF Init, ExactShape, Placed, ExactInv, Undisturbed, Empty

-----------------------------------------------------------------------------
(* The types and the folders still to walk. *)

LEMMA RestShorter ==
  ASSUME NEW s, FoldersLeft(s), s # <<>>
  PROVE  /\ FoldersLeft(Tail(s)) /\ Head(s) \in Container
         /\ Len(Parents) - Len(s) \in Nat
         /\ (Len(Parents) - Len(s)) + 1 \in DOMAIN Parents
         /\ Head(s) = Parents[(Len(Parents) - Len(s)) + 1]
         /\ Len(Parents) - Len(Tail(s)) = (Len(Parents) - Len(s)) + 1
<1>. DEFINE n == Len(Parents)
            l == Len(s)
            t == Tail(s)
<1>1. /\ s \in Seq(Container) /\ l <= n /\ \A j \in 1..l : s[j] = Parents[(n - l) + j]
  BY DEF FoldersLeft
<1>2. n \in Nat /\ DOMAIN Parents = 1..n
  BY ParentsAssumption
<1>3. /\ Head(s) = s[1] /\ s[1] \in Container /\ t \in Seq(Container) /\ l \in Nat \ {0} /\ Len(t) = l - 1
      /\ \A i \in 1..(l - 1) : t[i] = s[i + 1]
  BY <1>1
<1>. HIDE DEF n, l, t
<1>4. /\ n - l \in Nat /\ (n - l) + 1 \in 1..n /\ n - Len(t) = (n - l) + 1 /\ Len(t) <= n /\ 1 \in 1..l
  BY <1>1, <1>2, <1>3
<1>5. ASSUME NEW j \in 1..Len(t) PROVE t[j] = Parents[(n - Len(t)) + j]
  <2>1. j + 1 \in 1..l /\ j \in 1..(l - 1) /\ (n - l) + (j + 1) = (n - Len(t)) + j
    BY <1>2, <1>3, <1>5
  <2>2. t[j] = s[j + 1] /\ s[j + 1] = Parents[(n - l) + (j + 1)]
    BY <1>1, <1>3, <2>1
  <2>. QED
    BY <2>1, <2>2
<1>6. FoldersLeft(t)
  BY <1>3, <1>4, <1>5 DEF FoldersLeft, n
<1>. QED
  BY <1>1, <1>2, <1>3, <1>4, <1>6 DEF n, l, t

LEMMA AllToWalk ==
  FoldersLeft(Parents) /\ Len(Parents) - Len(Parents) = 0 /\ Len(<<>>) = 0 /\ Len(Parents) - 0 = Len(Parents)
BY ParentsAssumption DEF FoldersLeft

\* What an edit leaves of a process's work is out of the theorem's reach.
LEMMA EditDisturbs ==
  ASSUME ExactShape, Edit
  PROVE  /\ edits' \in 0..MaxEdits /\ since' \in [Process -> (0..edits') \cup {None}]
         /\ \A p \in Process : since'[p] # edits'
<1>1. edits \in 0..MaxEdits /\ edits < MaxEdits /\ edits' = edits + 1 /\ since' = since
  BY DEF ExactShape, Edit
<1>2. edits' \in 0..MaxEdits /\ 0..edits \subseteq 0..edits' /\ edits' \notin 0..edits
  BY <1>1, NumbersAssumption
<1>3. edits' # None
  BY <1>2, NumbersAssumption
<1>4. since \in [Process -> (0..edits) \cup {None}]
  BY DEF ExactShape
<1>5. since \in [Process -> (0..edits') \cup {None}]
  BY <1>2, <1>4
<1>6. \A p \in Process : since[p] # edits'
  BY <1>2, <1>3, <1>4
<1>. QED
  BY <1>1, <1>2, <1>5, <1>6

LEMMA ExactEdit ==
  ASSUME ExactShape, Edit,
         perm' \in [Container -> [Identity -> Setting]], group' \in [Group -> Member],
         \A c \in Container : Len(cache'[c].chain) <= MaxDepth
  PROVE  ExactShape' /\ ExactInv'
<1>1. UNCHANGED <<pc, hints, todo, chain, at, seen>>
  BY DEF Edit, work
<1>2. ExactShape'
  BY <1>1, EditDisturbs DEF ExactShape, Placed
<1>3. ExactInv'
  BY EditDisturbs DEF ExactInv, Undisturbed
<1>. QED
  BY <1>2, <1>3

LEMMA ExactUpsertEdge ==
  ASSUME Shape, ExactShape, NEW a, NEW b, UpsertEdge(a, b)
  PROVE  ExactShape' /\ ExactInv'
<1>1. Edit /\ UNCHANGED <<perm, group>> /\ cache' = [cache EXCEPT ![b] = Empty]
  BY DEF UpsertEdge, Invalidate
<1>2. \A c \in Container : cache'[c] = cache[c] \/ cache'[c] = Empty
  BY <1>1 DEF Shape
<1>3. Len(Empty.chain) <= MaxDepth
  BY NumbersAssumption DEF Empty
<1>4. \A c \in Container : Len(cache'[c].chain) <= MaxDepth
  BY <1>2, <1>3 DEF ExactShape
<1>5. perm' \in [Container -> [Identity -> Setting]] /\ group' \in [Group -> Member]
  BY <1>1 DEF ExactShape
<1>. QED
  BY <1>1, <1>4, <1>5, ExactEdit

LEMMA ExactUpsertAcl ==
  ASSUME ExactShape, NEW a \in Grants, UpsertAcl(a[1], a[2], a[3])
  PROVE  ExactShape' /\ ExactInv'
<1>. DEFINE c == a[1]
            i == a[2]
            s == a[3]
<1>1. c \in Container /\ i \in Identity /\ s \in Setting
  BY EditsAssumption DEF Identity, Setting, Level, Deny
<1>. HIDE DEF c, i, s
<1>2. Edit /\ UNCHANGED <<group, cache>> /\ perm' = [perm EXCEPT ![c][i] = s]
  BY DEF UpsertAcl, c, i, s
<1>3. perm' \in [Container -> [Identity -> Setting]]
  <2>1. perm \in [Container -> [Identity -> Setting]]
    BY DEF ExactShape
  <2>. QED
    BY <1>1, <1>2, <2>1
<1>4. group' \in [Group -> Member] /\ \A d \in Container : Len(cache'[d].chain) <= MaxDepth
  BY <1>2 DEF ExactShape
<1>. QED
  BY <1>2, <1>3, <1>4, ExactEdit

LEMMA ExactDelete ==
  ASSUME ExactShape, NEW c \in Container, DeleteContainer(c)
  PROVE  ExactShape' /\ ExactInv'
<1>1. Edit /\ UNCHANGED <<group, cache>> /\ perm' = [perm EXCEPT ![c] = [i \in Identity |-> 0]]
  BY DEF DeleteContainer
<1>2. perm' \in [Container -> [Identity -> Setting]]
  BY <1>1 DEF ExactShape, Setting
<1>3. group' \in [Group -> Member] /\ \A d \in Container : Len(cache'[d].chain) <= MaxDepth
  BY <1>1 DEF ExactShape
<1>. QED
  BY <1>1, <1>2, <1>3, ExactEdit

LEMMA ExactCreateGroup ==
  ASSUME ExactShape, NEW n \in Memberships, CreateGroup(n[1], n[2], n[3])
  PROVE  ExactShape' /\ ExactInv'
<1>1. Edit /\ UNCHANGED <<perm, cache>>
      /\ group' = [group EXCEPT ![n[1]] = [exists |-> TRUE, people |-> n[2], groups |-> n[3]]]
  BY DEF CreateGroup
<1>2. [exists |-> TRUE, people |-> n[2], groups |-> n[3]] \in Member
  BY EditsAssumption DEF Member
<1>3. group' \in [Group -> Member]
  BY <1>1, <1>2 DEF ExactShape
<1>4. perm' \in [Container -> [Identity -> Setting]] /\ \A d \in Container : Len(cache'[d].chain) <= MaxDepth
  BY <1>1 DEF ExactShape
<1>. QED
  BY <1>1, <1>3, <1>4, ExactEdit

-----------------------------------------------------------------------------
(* The steps of a compilation and the clock. *)

StaysAs(q) ==
    /\ pc'[q] = pc[q] /\ todo'[q] = todo[q] /\ chain'[q] = chain[q]
    /\ at'[q] = at[q] /\ seen'[q] = seen[q] /\ since'[q] = since[q]

LEMMA OthersStay ==
  ASSUME NEW q \in Process, StaysAs(q), UNCHANGED <<edge, perm, edits, quiet>>
  PROVE  /\ Placed(q) => Placed(q)'
         /\ (Undisturbed(q) => Exactly(q)) => (Undisturbed(q) => Exactly(q))'
<1>1. Placed(q)' <=> Placed(q)
  BY DEF Placed, StaysAs
<1>2. (Undisturbed(q)' <=> Undisturbed(q)) /\ Walked(q)' = Walked(q)
  BY DEF Undisturbed, Walked, StaysAs
<1>3. Exactly(q)' <=> Exactly(q)
  <2>1. /\ quiet' = quiet /\ edge' = edge /\ perm' = perm /\ pc'[q] = pc[q] /\ todo'[q] = todo[q]
        /\ chain'[q] = chain[q] /\ seen'[q] = seen[q] /\ at'[q] = at[q]
    BY DEF StaysAs
  <2>. QED
    BY <1>2, <2>1, Zenon DEF Exactly
<1>. QED
  BY <1>1, <1>2, <1>3

\* A step of p alone.
StepsAlone(p) ==
    /\ UNCHANGED <<edge, perm, edits, quiet>>
    /\ \A q \in Process \ {p} : StaysAs(q)

TypesStay ==
    /\ group' \in [Group -> Member] /\ hints' \in [Process -> SUBSET (Identity \X Level)]
    /\ at' \in [Process -> Nat] /\ seen' \in [Process -> [Identity -> Seen]]
    /\ since' \in [Process -> (0..edits) \cup {None}]
    /\ \A c \in Container : Len(cache'[c].chain) <= MaxDepth

LEMMA ExactWork ==
  ASSUME ExactShape, ExactInv, NEW p \in Process, StepsAlone(p), TypesStay,
         Len(chain'[p]) <= MaxDepth, Placed(p)', Undisturbed(p)' => Exactly(p)'
  PROVE  ExactShape' /\ ExactInv'
<1>1. UNCHANGED <<edge, perm, edits, quiet>> /\ \A q \in Process : q # p => StaysAs(q)
  BY DEF StepsAlone
<1>2. ASSUME NEW q \in Process
      PROVE  Placed(q)' /\ (Undisturbed(q) => Exactly(q))' /\ Len(chain'[q]) <= MaxDepth
  <2>1. CASE q = p
    BY <2>1
  <2>2. CASE q # p
    <3>1. StaysAs(q) /\ Placed(q) /\ (Undisturbed(q) => Exactly(q)) /\ Len(chain[q]) <= MaxDepth
      BY <1>1, <2>2 DEF ExactShape, ExactInv
    <3>2. Len(chain'[q]) <= MaxDepth
      BY <3>1 DEF StaysAs
    <3>. QED
      BY <1>1, <3>1, <3>2, OthersStay, Zenon
  <2>. QED
    BY <2>1, <2>2
<1>3. /\ perm' \in [Container -> [Identity -> Setting]] /\ edits' \in 0..MaxEdits
      /\ since' \in [Process -> (0..edits') \cup {None}]
  BY <1>1 DEF ExactShape, TypesStay
<1>4. ExactShape'
  BY <1>2, <1>3 DEF ExactShape, TypesStay
<1>. QED
  BY <1>2, <1>4, Zenon DEF ExactInv

LEMMA TypesSame ==
  ASSUME ExactShape
  PROVE  UNCHANGED <<group, hints, at, seen, since, cache>> => TypesStay
BY DEF ExactShape, TypesStay

LEMMA NotNone == ASSUME ExactShape PROVE edits # None /\ edits \in 0..edits /\ None \notin 0..edits
BY NumbersAssumption DEF ExactShape

LEMMA ExactBegin ==
  ASSUME Shape, ExactShape, ExactInv, NEW p \in Process, NEW h \in Hints, Begin(p, h)
  PROVE  ExactShape' /\ ExactInv'
<1>1. /\ pc[p] = "idle" /\ pc' = [pc EXCEPT ![p] = "parent"]
      /\ hints' = [hints EXCEPT ![p] = h] /\ todo' = [todo EXCEPT ![p] = Parents]
      /\ since' = [since EXCEPT ![p] = IF quiet = TTL THEN edits ELSE None]
      /\ UNCHANGED <<edge, perm, cache, chain, at, seen, rows, edits, quiet>>
  BY DEF Begin
<1>2. group' \in [Group -> Member]
  <2>1. [Absent EXCEPT !.exists = TRUE] \in Member
    BY DEF Absent, Member
  <2>2. \A g \in Group : group[g] \in Member
    BY DEF ExactShape
  <2>. QED
    BY <2>1, <2>2 DEF Begin
<1>3. h \in SUBSET (Identity \X Level)
  BY HintsAssumption DEF Identity, Level
<1>4. hints' \in [Process -> SUBSET (Identity \X Level)]
  <2>1. hints \in [Process -> SUBSET (Identity \X Level)]
    BY DEF ExactShape
  <2>. QED
    BY <1>1, <1>3, <2>1
<1>5. since' \in [Process -> (0..edits) \cup {None}]
  <2>1. since \in [Process -> (0..edits) \cup {None}]
    BY DEF ExactShape
  <2>2. edits \in (0..edits) \cup {None} /\ None \in (0..edits) \cup {None}
    BY NotNone
  <2>. QED
    BY <1>1, <2>1, <2>2
<1>6. TypesStay
  BY <1>1, <1>2, <1>4, <1>5 DEF TypesStay, ExactShape
<1>7. StepsAlone(p)
  BY <1>1 DEF StepsAlone, StaysAs, Shape, ExactShape
<1>8. pc'[p] = "parent" /\ todo'[p] = Parents /\ at'[p] = 0 /\ seen'[p] = Nothing /\ since'[p] \in {edits, None}
  <2>1. Placed(p)
    BY DEF ExactShape
  <2>. QED
    BY <1>1, <2>1 DEF Shape, Placed, ExactShape
<1>9. Placed(p)'
  BY <1>8, AllToWalk DEF Placed
<1>10. ASSUME Undisturbed(p)' PROVE Exactly(p)'
  <2>1. since'[p] = edits /\ edits # None
    BY <1>1, <1>10, NotNone DEF Undisturbed
  <2>2. quiet' = TTL
    <3>1. since'[p] = IF quiet = TTL THEN edits ELSE None
      BY <1>1 DEF ExactShape
    <3>. QED
      BY <1>1, <2>1, <3>1
  <2>3. Walked(p)' = 0
    BY <1>8, AllToWalk DEF Walked
  <2>4. \A i \in Identity : SeenIs(edge', perm', Nothing[i], i, Done(0, 0))
    BY NothingSeen, DonePlaces
  <2>. QED
    BY <1>8, <2>2, <2>3, <2>4 DEF Exactly
<1>11. Len(chain'[p]) <= MaxDepth
  BY <1>1 DEF ExactShape
<1>. QED
  BY <1>6, <1>7, <1>9, <1>10, <1>11, ExactWork

LEMMA ExactNextParent ==
  ASSUME Shape, StaleInv, ExactShape, ExactInv, NEW p \in Process, NextParent(p)
  PROVE  ExactShape' /\ ExactInv'
<1>1. /\ pc[p] = "parent" /\ todo[p] # <<>>
      /\ UNCHANGED <<folders, cache, hints, todo, at, seen, rows, edits, quiet, since>>
  BY DEF NextParent
<1>2. Placed(p) /\ FoldersLeft(todo[p]) /\ at[p] = 0
  BY <1>1 DEF ExactShape, Placed
<1>. DEFINE c == Head(todo[p])
<1>3. c \in Container
  BY <1>1, <1>2, RestShorter
<1>4. \/ /\ cache[c].age < TTL
         /\ chain' = [chain EXCEPT ![p] = cache[c].chain] /\ pc' = [pc EXCEPT ![p] = "read"]
      \/ chain' = [chain EXCEPT ![p] = <<>>] /\ pc' = [pc EXCEPT ![p] = "climb"]
  BY DEF NextParent
<1>5. StepsAlone(p)
  <2>1. \A q \in Process \ {p} : pc'[q] = pc[q] /\ chain'[q] = chain[q]
    BY <1>4 DEF Shape
  <2>. QED
    BY <1>1, <2>1 DEF StepsAlone, StaysAs, folders
<1>6. TypesStay
  BY <1>1, TypesSame DEF folders
<1>7. \/ pc'[p] = "read" /\ chain'[p] = cache[c].chain /\ cache[c].age < TTL
      \/ pc'[p] = "climb" /\ chain'[p] = <<>>
  BY <1>4 DEF Shape
<1>8. Len(chain'[p]) <= MaxDepth /\ 0 <= Len(chain'[p])
  <2>1. Len(<<>>) = 0 /\ 0 <= MaxDepth
    BY NumbersAssumption
  <2>2. Len(cache[c].chain) <= MaxDepth /\ Len(cache[c].chain) \in Nat
    BY <1>3 DEF ExactShape, Shape
  <2>. QED
    BY <1>7, <2>1, <2>2
<1>9. pc'[p] # "idle" /\ todo'[p] = todo[p] /\ at'[p] = 0
  BY <1>1, <1>2, <1>7
<1>10. Placed(p)'
  BY <1>2, <1>8, <1>9 DEF Placed
<1>11. ASSUME Undisturbed(p)' PROVE Exactly(p)'
  <2>1. Undisturbed(p)
    BY <1>1, <1>11 DEF Undisturbed
  <2>2. Exactly(p)
    BY <2>1 DEF ExactInv
  <2>3. ASSUME pc'[p] = "read" PROVE Whole(edge', Head(todo'[p]), chain'[p])
    <3>1. quiet = TTL /\ cache[c].age < TTL /\ chain'[p] = cache[c].chain
      BY <1>7, <2>2, <2>3 DEF Exactly
    <3>2. Whole(edge, c, cache[c].chain)
      BY <1>3, <3>1 DEF StaleInv
    <3>. QED
      BY <1>1, <3>1, <3>2 DEF folders
  <2>4. Walked(p)' = Walked(p) /\ seen' = seen /\ at' = at /\ edge' = edge /\ perm' = perm /\ quiet' = quiet
    BY <1>1 DEF Walked, folders
  <2>. QED
    BY <2>2, <2>3, <2>4 DEF Exactly
<1>. QED
  BY <1>5, <1>6, <1>8, <1>10, <1>11, ExactWork

LEMMA ExactClimb ==
  ASSUME Shape, ExactShape, ExactInv, NEW p \in Process, Climb(p)
  PROVE  ExactShape' /\ ExactInv'
<1>1. /\ pc[p] = "climb" /\ ~Stops(p) /\ chain' = [chain EXCEPT ![p] = Append(@, edge[Current(p)])]
      /\ UNCHANGED <<folders, cache, pc, hints, todo, at, seen, rows, edits, quiet, since>>
  BY DEF Climb
<1>2. Placed(p) /\ at[p] = 0 /\ Len(chain[p]) <= MaxDepth /\ chain[p] \in Seq(Container)
  BY <1>1 DEF ExactShape, Placed, Shape
<1>3. Len(chain[p]) # MaxDepth
  BY <1>1 DEF Stops
<1>4. chain'[p] = Append(chain[p], edge[Current(p)])
  BY <1>1 DEF Shape
<1>5. Len(chain'[p]) <= MaxDepth
  <2>1. Len(Append(chain[p], edge[Current(p)])) = Len(chain[p]) + 1 /\ Len(chain[p]) \in Nat
    BY <1>2
  <2>. QED
    BY <1>2, <1>3, <1>4, <2>1, NumbersAssumption
<1>6. StepsAlone(p)
  <2>1. \A q \in Process \ {p} : chain'[q] = chain[q]
    BY <1>1 DEF Shape
  <2>. QED
    BY <1>1, <2>1 DEF StepsAlone, StaysAs, folders
<1>7. TypesStay
  BY <1>1, TypesSame DEF folders
<1>8. Placed(p)'
  BY <1>1, <1>2 DEF Placed
<1>9. ASSUME Undisturbed(p)' PROVE Exactly(p)'
  <2>1. Exactly(p)
    BY <1>1, <1>9 DEF Undisturbed, ExactInv
  <2>2. Walked(p)' = Walked(p) /\ seen' = seen /\ at' = at /\ edge' = edge /\ perm' = perm /\ quiet' = quiet
    BY <1>1 DEF Walked, folders
  <2>. QED
    BY <1>1, <2>1, <2>2 DEF Exactly
<1>. QED
  BY <1>5, <1>6, <1>7, <1>8, <1>9, ExactWork

LEMMA ExactFill ==
  ASSUME Shape, StaleInv, ExactShape, ExactInv, NEW p \in Process, Fill(p)
  PROVE  ExactShape' /\ ExactInv'
<1>1. /\ pc[p] = "climb" /\ Stops(p) /\ pc' = [pc EXCEPT ![p] = "read"]
      /\ cache' = [cache EXCEPT ![Head(todo[p])] = [chain |-> chain[p], age |-> 0]]
      /\ UNCHANGED <<folders, hints, todo, chain, at, seen, rows, edits, quiet, since>>
  BY DEF Fill
<1>2. Placed(p) /\ at[p] = 0 /\ Len(chain[p]) <= MaxDepth /\ Len(chain[p]) \in Nat
  BY <1>1 DEF ExactShape, Placed, Shape
<1>3. pc'[p] = "read" /\ todo' = todo /\ chain' = chain /\ at' = at
  BY <1>1 DEF Shape
<1>4. StepsAlone(p)
  <2>1. \A q \in Process \ {p} : pc'[q] = pc[q]
    BY <1>1 DEF Shape
  <2>. QED
    BY <1>1, <2>1 DEF StepsAlone, StaysAs, folders
<1>5. \A c \in Container : Len(cache'[c].chain) <= MaxDepth
  <2>1. \A c \in Container : cache'[c].chain = chain[p] \/ cache'[c].chain = cache[c].chain
    BY <1>1 DEF Shape
  <2>. QED
    BY <1>2, <2>1 DEF ExactShape
<1>6. TypesStay
  BY <1>1, <1>5 DEF TypesStay, folders, ExactShape
<1>7. Placed(p)'
  BY <1>1, <1>2, <1>3 DEF Placed
<1>8. ASSUME Undisturbed(p)' PROVE Exactly(p)'
  <2>1. Exactly(p)
    BY <1>1, <1>8 DEF Undisturbed, ExactInv
  <2>2. Follows(edge, Head(todo[p]), chain[p])
    <3>1. quiet = TTL /\ TTL > 0
      BY <2>1, NumbersAssumption DEF Exactly
    <3>. QED
      BY <1>1, <3>1 DEF StaleInv
  <2>3. Whole(edge, Head(todo[p]), chain[p])
    BY <1>1, <2>2 DEF Stops, Whole, Current, Visited, Path
  <2>4. Walked(p)' = Walked(p) /\ seen' = seen /\ edge' = edge /\ perm' = perm /\ quiet' = quiet
    BY <1>1 DEF Walked, folders
  <2>. QED
    BY <1>3, <2>1, <2>3, <2>4 DEF Exactly
<1>9. Len(chain'[p]) <= MaxDepth
  BY <1>2, <1>3
<1>. QED
  BY <1>4, <1>6, <1>7, <1>8, <1>9, ExactWork

LEMMA ExactPersist ==
  ASSUME Shape, ExactShape, ExactInv, NEW p \in Process, Persist(p)
  PROVE  ExactShape' /\ ExactInv'
<1>1. /\ pc[p] = "parent" /\ pc' = [pc EXCEPT ![p] = "idle"] /\ hints' = [hints EXCEPT ![p] = {}]
      /\ chain' = [chain EXCEPT ![p] = <<>>] /\ seen' = [seen EXCEPT ![p] = Nothing]
      /\ since' = [since EXCEPT ![p] = None] /\ UNCHANGED <<folders, cache, todo, at, edits, quiet>>
  BY DEF Persist
<1>2. StepsAlone(p)
  <2>1. \A q \in Process \ {p} : pc'[q] = pc[q] /\ chain'[q] = chain[q] /\ seen'[q] = seen[q] /\ since'[q] = since[q]
    BY <1>1 DEF Shape, ExactShape
  <2>. QED
    BY <1>1, <2>1 DEF StepsAlone, StaysAs, folders
<1>3. TypesStay
  <2>1. hints' \in [Process -> SUBSET (Identity \X Level)]
    BY <1>1 DEF ExactShape
  <2>2. seen' \in [Process -> [Identity -> Seen]]
    BY <1>1, NothingIsSeen DEF ExactShape
  <2>3. since' \in [Process -> (0..edits) \cup {None}]
    BY <1>1 DEF ExactShape
  <2>. QED
    BY <1>1, <2>1, <2>2, <2>3 DEF TypesStay, folders, ExactShape
<1>4. pc'[p] = "idle" /\ seen'[p] = Nothing /\ chain'[p] = <<>> /\ at'[p] = 0
  BY <1>1 DEF Shape, ExactShape, Placed
<1>5. Placed(p)' /\ ~Undisturbed(p)'
  BY <1>4 DEF Placed, Undisturbed
<1>6. Len(chain'[p]) <= MaxDepth
  BY <1>4, NumbersAssumption
<1>. QED
  BY <1>2, <1>3, <1>5, <1>6, ExactWork

LEMMA ExactTick ==
  ASSUME Shape, ExactShape, ExactInv, Tick
  PROVE  ExactShape' /\ ExactInv'
<1>1. /\ UNCHANGED <<folders, work, rows, edits, since>>
      /\ quiet' = IF quiet < TTL THEN quiet + 1 ELSE quiet
      /\ cache' = [c \in Container |-> IF cache[c].age + 1 >= TTL THEN Empty ELSE [cache[c] EXCEPT !.age = @ + 1]]
  BY DEF Tick
<1>2. \A c \in Container : Len(cache'[c].chain) <= MaxDepth
  <2>1. \A c \in Container : cache'[c].chain = cache[c].chain \/ cache'[c] = Empty
    BY <1>1 DEF Shape
  <2>2. Len(Empty.chain) <= MaxDepth
    BY NumbersAssumption DEF Empty
  <2>. QED
    BY <2>1, <2>2 DEF ExactShape
<1>3. ExactShape'
  BY <1>1, <1>2 DEF ExactShape, Placed, folders, work
<1>4. ASSUME NEW p \in Process, Undisturbed(p)' PROVE Exactly(p)'
  <2>1. Exactly(p)
    BY <1>1, <1>4 DEF Undisturbed, ExactInv, work
  <2>2. quiet' = TTL
    BY <1>1, <2>1, NumbersAssumption DEF Exactly
  <2>3. Walked(p)' = Walked(p) /\ UNCHANGED <<edge, perm, pc, todo, chain, seen, at>>
    BY <1>1 DEF Walked, folders, work
  <2>. QED
    BY <2>1, <2>2, <2>3 DEF Exactly
<1>. QED
  BY <1>3, <1>4 DEF ExactInv

LEMMA ExactSame ==
  ASSUME ExactShape, ExactInv, UNCHANGED vars
  PROVE  ExactShape' /\ ExactInv'
BY DEF vars, folders, work, ExactShape, Placed, ExactInv, Undisturbed, Exactly, Walked

LEMMA CloserSeen ==
  ASSUME NEW v \in Setting, NEW n \in 0..MaxDepth, NEW s \in Seen
  PROVE  Closer(v, n, s) \in Seen
<1>1. n \in Nat /\ n \in 0..(MaxDepth + 1)
  BY NumbersAssumption
<1>2. s.deny \in 0..(MaxDepth + 1) /\ s.allow \in [dist : 0..(MaxDepth + 1), level : 0..MaxLevel]
  BY DEF Seen
<1>3. CASE v = Deny
  BY <1>1, <1>2, <1>3, CloserIs DEF Seen
<1>4. CASE v \in Level
  <2>1. v \in 0..MaxLevel
    BY <1>4, NumbersAssumption DEF Level
  <2>. QED
    BY <1>1, <1>2, <1>4, <2>1, CloserIs DEF Seen
<1>5. CASE v = 0
  BY <1>1, <1>5, CloserIs
<1>. QED
  BY <1>3, <1>4, <1>5, KindsOfSetting DEF SettingKinds

\* Reading the place reached, which is path[a + 1], is one more place done.
Reads(e, m, i, s, k, ch, a, r) == r = Closer(m[(<<Parents[k + 1]>> \o ch)[a + 1]][i], a, s)

LEMMA ReadsOn ==
  ASSUME NEW e, NEW m \in [Container -> [Identity -> Setting]], NEW i \in Identity, NEW s \in Seen,
         NEW k \in Nat, k + 1 \in DOMAIN Parents, NEW ch \in Seq(Container), Len(ch) <= MaxDepth,
         NEW a \in 0..Len(ch), Whole(e, Parents[k + 1], ch), SeenIs(e, m, s, i, Done(k, a)),
         NEW r, Reads(e, m, i, s, k, ch, a, r)
  PROVE  SeenIs(e, m, r, i, Done(k, a + 1)) /\ (a = Len(ch) => SeenIs(e, m, r, i, Done(k + 1, 0)))
<1>. DEFINE z == Closer(m[(<<Parents[k + 1]>> \o ch)[a + 1]][i], a, s)
<1>1. z \in Seen /\ SeenIs(e, m, z, i, Done(k, a + 1)) /\ (a = Len(ch) => SeenIs(e, m, z, i, Done(k + 1, 0)))
  BY WalkOn
<1>2. r = z
  BY DEF Reads
<1>. HIDE DEF z
<1>. QED
  BY <1>1, <1>2

LEMMA ExactRead ==
  ASSUME Shape, ExactShape, ExactInv, NEW p \in Process, ReadFolder(p)
  PROVE  ExactShape' /\ ExactInv'
<1>. DEFINE t == todo[p]
            ch == chain[p]
            a == at[p]
            k == Walked(p)
            d == (<<Head(t)>> \o ch)[a + 1]
            r == [i \in Identity |-> Closer(perm[d][i], a, seen[p][i])]
<1>1. /\ pc[p] = "read" /\ seen' = [seen EXCEPT ![p] = r]
      /\ UNCHANGED <<folders, cache, hints, chain, rows, edits, quiet, since>>
  BY DEF ReadFolder, Path
<1>2. \/ a < Len(ch) /\ at' = [at EXCEPT ![p] = a + 1] /\ UNCHANGED <<pc, todo>>
      \/ /\ ~(a < Len(ch)) /\ at' = [at EXCEPT ![p] = 0]
         /\ todo' = [todo EXCEPT ![p] = Tail(t)] /\ pc' = [pc EXCEPT ![p] = "parent"]
  BY DEF ReadFolder, ExactShape, Shape
<1>3. /\ FoldersLeft(t) /\ t # <<>> /\ a \in Nat /\ Len(ch) \in Nat /\ a <= Len(ch)
      /\ Len(ch) <= MaxDepth /\ ch \in Seq(Container) /\ MaxDepth \in Nat
  BY <1>1, NumbersAssumption DEF Shape, ExactShape, Placed
<1>4. /\ FoldersLeft(Tail(t)) /\ Head(t) \in Container /\ k \in Nat /\ k + 1 \in DOMAIN Parents
      /\ Head(t) = Parents[k + 1] /\ Len(Parents) - Len(Tail(t)) = k + 1
  BY <1>3, RestShorter DEF Walked
<1>5. d \in Container
  <2>1. <<Head(t)>> \o ch \in Seq(Container) /\ Len(<<Head(t)>> \o ch) = Len(ch) + 1
    BY <1>3, <1>4, PathPlaces
  <2>2. a + 1 \in 1..(Len(ch) + 1)
    BY <1>3
  <2>. QED
    BY <2>1, <2>2
<1>6. r \in [Identity -> Seen]
  <2>1. a \in 0..MaxDepth
    BY <1>3
  <2>2. \A i \in Identity : perm[d][i] \in Setting /\ seen[p][i] \in Seen
    BY <1>5 DEF ExactShape
  <2>3. \A i \in Identity : Closer(perm[d][i], a, seen[p][i]) \in Seen
    BY <2>1, <2>2, CloserSeen
  <2>. HIDE DEF d, a
  <2>. QED
    BY <2>3
<1>. HIDE DEF t, ch, a, k, d, r
<1>7. /\ seen' \in [Process -> [Identity -> Seen]] /\ seen'[p] = r
      /\ \A q \in Process \ {p} : seen'[q] = seen[q]
  BY <1>1, <1>6 DEF ExactShape
<1>8. StepsAlone(p)
  <2>1. \A q \in Process \ {p} : pc'[q] = pc[q] /\ todo'[q] = todo[q] /\ at'[q] = at[q]
    BY <1>2 DEF Shape, ExactShape
  <2>. QED
    BY <1>1, <1>7, <2>1 DEF StepsAlone, StaysAs, folders
<1>9. TypesStay
  <2>1. at' \in [Process -> Nat]
    <3>1. at \in [Process -> Nat] /\ a + 1 \in Nat /\ 0 \in Nat
      BY <1>3 DEF ExactShape
    <3>. QED
      BY <1>2, <3>1
  <2>. QED
    BY <1>1, <1>7, <2>1 DEF TypesStay, folders, ExactShape
<1>10. chain' = chain /\ Len(chain'[p]) <= MaxDepth
  BY <1>1 DEF ExactShape
<1>11. ASSUME Undisturbed(p)'
       PROVE  /\ quiet' = TTL /\ edge' = edge /\ perm' = perm
              /\ \A i \in Identity : SeenIs(edge, perm, r[i], i, Done(k, a + 1))
              /\ a = Len(ch) => \A i \in Identity : SeenIs(edge, perm, r[i], i, Done(k + 1, 0))
              /\ Whole(edge, Head(t), ch)
  <2>1. Exactly(p)
    BY <1>1, <1>11 DEF Undisturbed, ExactInv
  <2>2. quiet = TTL /\ Whole(edge, Head(t), ch) /\ \A i \in Identity : SeenIs(edge, perm, seen[p][i], i, Done(k, a))
    BY <1>1, <2>1 DEF Exactly, t, ch, k, a
  <2>3. UNCHANGED <<quiet, edge, perm>>
    BY <1>1 DEF folders
  <2>4. ASSUME NEW i \in Identity
        PROVE  /\ SeenIs(edge, perm, r[i], i, Done(k, a + 1))
               /\ a = Len(ch) => SeenIs(edge, perm, r[i], i, Done(k + 1, 0))
    <3>1. Whole(edge, Parents[k + 1], ch) /\ a \in 0..Len(ch)
      BY <1>3, <1>4, <2>2
    <3>2. perm \in [Container -> [Identity -> Setting]] /\ seen[p][i] \in Seen
      BY DEF ExactShape
    <3>3. SeenIs(edge, perm, seen[p][i], i, Done(k, a))
      BY <2>2
    <3>4. Reads(edge, perm, i, seen[p][i], k, ch, a, r[i])
      BY <1>4 DEF Reads, r, d
    <3>. QED
      BY <1>3, <1>4, <3>1, <3>2, <3>3, <3>4, ReadsOn, Zenon
  <2>. QED
    BY <2>2, <2>3, <2>4
<1>12. CASE a < Len(ch)
  <2>1. pc'[p] = "read" /\ todo'[p] = t /\ at'[p] = a + 1
    BY <1>1, <1>2, <1>12 DEF ExactShape, t
  <2>2. Placed(p)'
    <3>1. a + 1 <= Len(ch)
      BY <1>3, <1>12
    <3>. QED
      BY <1>3, <1>10, <2>1, <3>1 DEF Placed, ch
  <2>3. Walked(p)' = k
    BY <2>1 DEF Walked, k, t
  <2>4. Undisturbed(p)' => Exactly(p)'
    BY <1>7, <1>10, <1>11, <2>1, <2>3 DEF Exactly, ch
  <2>. QED
    BY <1>8, <1>9, <1>10, <2>2, <2>4, ExactWork
<1>13. CASE ~(a < Len(ch))
  <2>1. pc'[p] = "parent" /\ todo'[p] = Tail(t) /\ at'[p] = 0
    BY <1>2, <1>13 DEF Shape, ExactShape
  <2>2. Placed(p)'
    BY <1>4, <2>1 DEF Placed
  <2>3. Walked(p)' = k + 1
    BY <1>4, <2>1 DEF Walked
  <2>4. a = Len(ch)
    BY <1>3, <1>13
  <2>5. Undisturbed(p)' => Exactly(p)'
    BY <1>7, <1>11, <2>1, <2>3, <2>4 DEF Exactly
  <2>. QED
    BY <1>8, <1>9, <1>10, <2>2, <2>5, ExactWork
<1>. QED
  BY <1>12, <1>13

LEMMA ExactStep ==
  ASSUME Shape, StaleInv, ExactShape, ExactInv, [Next]_vars
  PROVE  ExactShape' /\ ExactInv'
<1>1. ASSUME NEW p \in Process, Compile(p) PROVE ExactShape' /\ ExactInv'
  BY <1>1, ExactBegin, ExactNextParent, ExactClimb, ExactFill, ExactRead, ExactPersist DEF Compile
<1>. QED
  BY <1>1, ExactUpsertEdge, ExactUpsertAcl, ExactDelete, ExactCreateGroup, ExactTick, ExactSame DEF Next

-----------------------------------------------------------------------------
(* What is written. *)

\* The levels that the entries es give u, once expanded, ...
Gives(es, u) == {l \in Level : <<u, l>> \in Expanded(es)}
\* ... and those that u may have: by itself or by a group it is in.
Stands(u)    == {u} \cup {g \in Group : \E k \in Within(g) : u \in group[k].people}
May(u, h)    == UNION {Inherited(i) \cup {l \in Level : <<i, l>> \in h} : i \in Stands(u)}

LEMMA PeopleWithin ==
  ASSUME ExactShape, NEW g \in Group
  PROVE  People(g) = UNION {group[k].people : k \in Within(g)}
BY VisitsWithin DEF People, ExactShape

LEMMA GivesWhatItMay ==
  ASSUME ExactShape, NEW p \in Process, NEW u \in Principal,
         \A i \in Identity : SeenIs(edge, perm, seen[p][i], i, Places)
  PROVE  Gives(Entries(p), u) = May(u, hints[p])
<1>. DEFINE es == Entries(p)
            h == hints[p]
            Own(i) == Inherited(i) \cup {l \in Level : <<i, l>> \in h}
<1>1. ASSUME NEW i \in Identity, NEW l \in Level
      PROVE  <<i, l>> \in es <=> l \in Own(i)
  <2>1. seen[p][i] \in Seen
    BY DEF ExactShape
  <2>2. Inherited(i) = IF Kept(seen[p][i]) THEN {seen[p][i].allow.level} ELSE {}
    BY <2>1, InheritedIsKept
  <2>3. <<i, l>> \in es <=> <<i, l>> \in h \/ (Kept(seen[p][i]) /\ l = seen[p][i].allow.level)
    BY DEF Entries
  <2>. QED
    BY <2>2, <2>3
<1>2. ASSUME NEW i \in Identity PROVE Own(i) \subseteq Level
  <2>1. seen[p][i] \in Seen
    BY DEF ExactShape
  <2>2. Inherited(i) \subseteq Level
    BY <2>1, InheritedIsKept
  <2>. QED
    BY <2>2
<1>3. \A g \in Group : u \in People(g) <=> \E k \in Within(g) : u \in group[k].people
  BY PeopleWithin
<1>4. u \in Identity /\ Group \subseteq Identity
  BY DEF Identity
<1>. HIDE DEF es, Own
<1>5. ASSUME NEW l \in Level
      PROVE  <<u, l>> \in Expanded(es) <=> <<u, l>> \in es \/ \E g \in Group : <<g, l>> \in es /\ u \in People(g)
  BY DEF Expanded
<1>6. ASSUME NEW l \in Level
      PROVE  <<u, l>> \in Expanded(es) <=> \E i \in Stands(u) : l \in Own(i)
  BY <1>1, <1>3, <1>4, <1>5 DEF Stands
<1>7. Stands(u) \subseteq Identity
  BY <1>4 DEF Stands
<1>8. May(u, h) = UNION {Own(i) : i \in Stands(u)}
  BY DEF May, Own
<1>. QED
  BY <1>2, <1>6, <1>7, <1>8 DEF Gives, es

LEMMA PersistExact ==
  ASSUME Shape, ExactShape, ExactInv, NEW p \in Process, Persist(p), since[p] = edits, NEW u \in Principal
  PROVE  rows'[u] = Granted(u, hints[p])
<1>1. /\ pc[p] = "parent" /\ todo[p] = <<>>
      /\ rows' = [v \in Principal |-> Best(Expanded(Entries(p)), v)]
  BY DEF Persist
<1>2. at[p] = 0 /\ Undisturbed(p)
  BY <1>1 DEF ExactShape, Placed, Undisturbed
<1>3. Walked(p) = Len(Parents)
  BY <1>1, AllToWalk DEF Walked
<1>4. \A i \in Identity : SeenIs(edge, perm, seen[p][i], i, Places)
  BY <1>2, <1>3, DonePlaces DEF ExactInv, Exactly
<1>5. Gives(Entries(p), u) = May(u, hints[p])
  BY <1>4, GivesWhatItMay
<1>6. Best(Expanded(Entries(p)), u) = Max({0} \cup Gives(Entries(p), u))
  BY DEF Best, Gives
<1>7. Granted(u, hints[p]) = Max({0} \cup May(u, hints[p]))
  BY DEF Granted, May, Stands
<1>. QED
  BY <1>1, <1>5, <1>6, <1>7

\* Only Persist ends a compilation.
LEMMA PersistEnds ==
  ASSUME Shape, [Next]_vars, NEW p \in Process, pc[p] = "parent", pc'[p] = "idle"
  PROVE  Persist(p)
<1>. USE DEF Shape
<1>1. pc' # pc
  OBVIOUS
<1>2. ASSUME NEW q \in Process, Compile(q) PROVE Persist(p)
  <2>1. CASE \E h \in Hints : Begin(q, h)
    BY <2>1 DEF Begin
  <2>2. CASE NextParent(q)
    BY <2>2 DEF NextParent
  <2>3. CASE Climb(q)
    BY <1>1, <2>3 DEF Climb
  <2>4. CASE Fill(q)
    BY <2>4 DEF Fill
  <2>5. CASE ReadFolder(q)
    <3>1. pc' = pc \/ pc' = [pc EXCEPT ![q] = "parent"]
      BY <2>5 DEF ReadFolder
    <3>. QED
      BY <1>1, <3>1
  <2>6. CASE Persist(q)
    BY <2>6 DEF Persist
  <2>. QED
    BY <1>2, <2>1, <2>2, <2>3, <2>4, <2>5, <2>6 DEF Compile
<1>. QED
  BY <1>1, <1>2 DEF Next, UpsertEdge, UpsertAcl, DeleteContainer, CreateGroup, Edit, work, Tick, vars

\* A compilation that began when no folder had changed for TTL, and that no
\* edit crossed, writes for each principal exactly the level it may have, for
\* any folders with or without cycles, nested groups, depth and number of
\* compilations under way.
THEOREM CompiledExactly == Spec => ExactWhenSettled
<1>. DEFINE Inv == Shape /\ StaleInv /\ ExactShape /\ ExactInv
<1>1. Init => Inv
  <2>1. Init => StaleInv
    BY NumbersAssumption DEF Init, StaleInv, Empty
  <2>. QED
    BY <2>1, ShapeInit, ExactInit
<1>2. Inv /\ [Next]_vars => Inv'
  BY ShapeStep, StaleStep, ExactStep
<1>3. Inv /\ [Next]_vars =>
        [\A p \in Process :
            pc[p] = "parent" /\ pc'[p] = "idle" /\ since[p] = edits =>
                \A u \in Principal : rows'[u] = Granted(u, hints[p])]_vars
  BY PersistEnds, PersistExact
<1>. QED
  BY <1>1, <1>2, <1>3, PTL DEF Spec, ExactWhenSettled
=============================================================================
