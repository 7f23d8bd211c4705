----------------------- MODULE PendingIdentityProofs -----------------------
(* Theorems about PendingIdentity, for every set of addresses, documents and *)
(* processes and every bound.                                                *)
EXTENDS PendingIdentity, TLAPS

-----------------------------------------------------------------------------
(* Type correctness.  TypeOK alone is not inductive: what is in hand while   *)
(* a process or a bind is at work has to be an address and a document.       *)

InHand == /\ \A p \in Procs : /\ pc[p] # "idle" => job[p] \in Docs
                              /\ pc[p] = "miss" => hand[p] \in Emails
          /\ bpc # "idle" => bemail \in Emails

TypeInv == TypeOK /\ InHand

LEMMA TypeInit == Init => TypeInv
BY BoundsAssumption DEF Init, TypeInv, TypeOK, InHand

LEMMA TypeStep == TypeInv /\ [Next]_vars => TypeInv'
<1>. SUFFICES ASSUME TypeInv, [Next]_vars PROVE TypeInv'
  OBVIOUS
<1>. USE DEF TypeInv
<1>1. TypeOK'

  <2>1. ASSUME NEW d \in Docs, NEW e \in Emails, Share(d, e) PROVE TypeOK'
    BY <2>1, TypeInv, BoundsAssumption DEF Share, Changed, upstream, people, pipe, binder, TypeOK, InHand, Principals
  <2>2. ASSUME NEW d \in Docs, NEW e \in Emails, Unshare(d, e) PROVE TypeOK'
    BY <2>2, TypeInv, BoundsAssumption DEF Unshare, Changed, upstream, people, pipe, binder, TypeOK, InHand, Principals
  <2>3. ASSUME NEW d \in Docs, NEW e \in Emails, Edit(d, e) PROVE TypeOK'
    BY <2>3, TypeInv, BoundsAssumption DEF Edit, Changed, upstream, people, pipe, binder, TypeOK, InHand, Principals
  <2>4. ASSUME NEW p \in Procs, NEW d \in Docs, Begin(p, d) PROVE TypeOK'
    BY <2>4, TypeInv, BoundsAssumption DEF Begin, upstream, people, pipe, binder, TypeOK, InHand, Principals
  <2>5. ASSUME NEW p \in Procs, NEW e \in Emails, ResolveCached(p, e) PROVE TypeOK'
    BY <2>5, TypeInv, BoundsAssumption DEF ResolveCached, Take, upstream, people, pipe, binder, TypeOK, InHand, Principals
  <2>6. ASSUME NEW p \in Procs, NEW e \in Emails, ResolveFound(p, e) PROVE TypeOK'
    BY <2>6, TypeInv, BoundsAssumption DEF ResolveFound, Take, Fault, upstream, people, pipe, binder, TypeOK, InHand, Principals
  <2>7. ASSUME NEW p \in Procs, NEW e \in Emails, ResolveMiss(p, e) PROVE TypeOK'
    BY <2>7, TypeInv, BoundsAssumption DEF ResolveMiss, Fault, upstream, people, pipe, binder, TypeOK, InHand, Principals
  <2>8. ASSUME NEW p \in Procs, Mint(p) PROVE TypeOK'
    BY <2>8, TypeInv, BoundsAssumption DEF Mint, Take, Fault, upstream, people, pipe, binder, TypeOK, InHand, Principals
  <2>9. ASSUME NEW p \in Procs, Queue(p) PROVE TypeOK'
    <3>1. row' \in [Docs -> [Emails -> {"none", "open", "resolved"}]]
      <4>1. CASE UNCHANGED row
        BY <4>1, TypeInv DEF TypeOK
      <4>2. CASE row' = [row EXCEPT ![job[p]][hand[p]] = IF @ = "none" THEN "open" ELSE @]
        BY <4>2, TypeInv, <2>9 DEF Queue, TypeOK, InHand
      <4>. QED
        BY <4>1, <4>2, <2>9 DEF Queue
    <3>2. faults' \in Nat
      BY <2>9, TypeInv DEF Queue, Fault, TypeOK
    <3>. QED
      BY <2>9, <3>1, <3>2, TypeInv DEF Queue, Take, upstream, people, binder, TypeOK, InHand, Principals
  <2>10. ASSUME NEW p \in Procs, Replace(p) PROVE TypeOK'
    BY <2>10, TypeInv, BoundsAssumption DEF Replace, upstream, people, pipe, binder, TypeOK, InHand, Principals
  <2>11. ASSUME NEW p \in Procs, IndexDoc(p) PROVE TypeOK'
    BY <2>11, TypeInv, BoundsAssumption DEF IndexDoc, upstream, people, pipe, binder, TypeOK, InHand, Principals
  <2>12. ASSUME NEW p \in Procs, Recycle(p) PROVE TypeOK'
    BY <2>12, TypeInv, BoundsAssumption DEF Recycle, upstream, people, pipe, binder, TypeOK, InHand, Principals
  <2>13. ASSUME NEW e \in Emails, Invite(e) PROVE TypeOK'
    BY <2>13, TypeInv, BoundsAssumption DEF Invite, upstream, people, pipe, binder, TypeOK, InHand, Principals
  <2>14. ASSUME NEW e \in Emails, Login(e) PROVE TypeOK'
    BY <2>14, TypeInv, BoundsAssumption DEF Login, upstream, people, pipe, binder, TypeOK, InHand, Principals
  <2>15. CASE Drain
    BY <2>15, TypeInv, BoundsAssumption DEF Drain, Open, Inserted, upstream, people, pipe, binder, TypeOK, InHand, Principals
  <2>16. CASE Rebind
    BY <2>16, TypeInv, BoundsAssumption DEF Rebind, upstream, people, pipe, binder, TypeOK, InHand, Principals
  <2>17. CASE ReadRows
    BY <2>17, TypeInv, BoundsAssumption DEF ReadRows, upstream, people, pipe, binder, TypeOK, InHand, Principals
  <2>18. CASE WriteIndex
    BY <2>18, TypeInv, BoundsAssumption DEF WriteIndex, Unbind, upstream, people, pipe, binder, TypeOK, InHand, Principals
  <2>19. CASE BindFails
    BY <2>19, TypeInv, BoundsAssumption DEF BindFails, Unbind, Fault, upstream, people, pipe, binder, TypeOK, InHand, Principals
  <2>20. CASE UNCHANGED vars
    BY <2>20, TypeInv, BoundsAssumption DEF vars, upstream, people, pipe, binder, TypeOK, InHand, Principals
  <2>. QED
    BY <2>1, <2>2, <2>3, <2>4, <2>5, <2>6, <2>7, <2>8, <2>9, <2>10, <2>11, <2>12, <2>13, <2>14, <2>15, <2>16, <2>17, <2>18, <2>19, <2>20 DEF Next, Work, Bind
<1>2. InHand'

  <2>1. ASSUME NEW d \in Docs, NEW e \in Emails, Share(d, e) PROVE InHand'
    BY <2>1, TypeInv DEF Share, Changed, upstream, people, pipe, binder, TypeOK, InHand, Principals
  <2>2. ASSUME NEW d \in Docs, NEW e \in Emails, Unshare(d, e) PROVE InHand'
    BY <2>2, TypeInv DEF Unshare, Changed, upstream, people, pipe, binder, TypeOK, InHand, Principals
  <2>3. ASSUME NEW d \in Docs, NEW e \in Emails, Edit(d, e) PROVE InHand'
    BY <2>3, TypeInv DEF Edit, Changed, upstream, people, pipe, binder, TypeOK, InHand, Principals
  <2>4. ASSUME NEW p \in Procs, NEW d \in Docs, Begin(p, d) PROVE InHand'
    BY <2>4, TypeInv DEF Begin, upstream, people, pipe, binder, TypeOK, InHand, Principals
  <2>5. ASSUME NEW p \in Procs, NEW e \in Emails, ResolveCached(p, e) PROVE InHand'
    BY <2>5, TypeInv DEF ResolveCached, Take, upstream, people, pipe, binder, TypeOK, InHand, Principals
  <2>6. ASSUME NEW p \in Procs, NEW e \in Emails, ResolveFound(p, e) PROVE InHand'
    BY <2>6, TypeInv DEF ResolveFound, Take, Fault, upstream, people, pipe, binder, TypeOK, InHand, Principals
  <2>7. ASSUME NEW p \in Procs, NEW e \in Emails, ResolveMiss(p, e) PROVE InHand'
    BY <2>7, TypeInv DEF ResolveMiss, Fault, upstream, people, pipe, binder, TypeOK, InHand, Principals
  <2>8. ASSUME NEW p \in Procs, Mint(p) PROVE InHand'
    BY <2>8, TypeInv DEF Mint, Take, Fault, upstream, people, pipe, binder, TypeOK, InHand, Principals
  <2>9. ASSUME NEW p \in Procs, Queue(p) PROVE InHand'
    BY <2>9, TypeInv DEF Queue, Take, Fault, upstream, people, pipe, binder, TypeOK, InHand, Principals
  <2>10. ASSUME NEW p \in Procs, Replace(p) PROVE InHand'
    BY <2>10, TypeInv DEF Replace, upstream, people, pipe, binder, TypeOK, InHand, Principals
  <2>11. ASSUME NEW p \in Procs, IndexDoc(p) PROVE InHand'
    BY <2>11, TypeInv DEF IndexDoc, upstream, people, pipe, binder, TypeOK, InHand, Principals
  <2>12. ASSUME NEW p \in Procs, Recycle(p) PROVE InHand'
    BY <2>12, TypeInv DEF Recycle, upstream, people, pipe, binder, TypeOK, InHand, Principals
  <2>13. ASSUME NEW e \in Emails, Invite(e) PROVE InHand'
    BY <2>13, TypeInv DEF Invite, upstream, people, pipe, binder, TypeOK, InHand, Principals
  <2>14. ASSUME NEW e \in Emails, Login(e) PROVE InHand'
    BY <2>14, TypeInv DEF Login, upstream, people, pipe, binder, TypeOK, InHand, Principals
  <2>15. CASE Drain
    BY <2>15, TypeInv DEF Drain, Open, Inserted, upstream, people, pipe, binder, TypeOK, InHand, Principals
  <2>16. CASE Rebind
    BY <2>16, TypeInv DEF Rebind, upstream, people, pipe, binder, TypeOK, InHand, Principals
  <2>17. CASE ReadRows
    BY <2>17, TypeInv DEF ReadRows, upstream, people, pipe, binder, TypeOK, InHand, Principals
  <2>18. CASE WriteIndex
    BY <2>18, TypeInv DEF WriteIndex, Unbind, upstream, people, pipe, binder, TypeOK, InHand, Principals
  <2>19. CASE BindFails
    BY <2>19, TypeInv DEF BindFails, Unbind, Fault, upstream, people, pipe, binder, TypeOK, InHand, Principals
  <2>20. CASE UNCHANGED vars
    BY <2>20, TypeInv DEF vars, upstream, people, pipe, binder, TypeOK, InHand, Principals
  <2>. QED
    BY <2>1, <2>2, <2>3, <2>4, <2>5, <2>6, <2>7, <2>8, <2>9, <2>10, <2>11, <2>12, <2>13, <2>14, <2>15, <2>16, <2>17, <2>18, <2>19, <2>20 DEF Next, Work, Bind
<1>. QED
  BY <1>1, <1>2

\* Every variable keeps to its values, for every instance.
THEOREM TypeCorrect == Spec => []TypeOK
<1>1. TypeInv => TypeOK
  BY DEF TypeInv
<1>. QED
  BY TypeInit, TypeStep, <1>1, PTL DEF Spec

-----------------------------------------------------------------------------
(* No stranger.  The strengthening follows an address on its way: from the   *)
(* document's upstream permissions into the job, through the cache of the    *)
(* process into the compiled entries, and through the rows a bind has read.  *)

\* A cached answer names a principal that exists.
CacheKnown == \A p \in Procs, e \in Emails :
                 /\ cache[p][e] = "user" => e \in users
                 /\ cache[p][e] = "ghost" => e \in ghosts

\* What upstream shows now is part of what it ever showed.
Recorded == \A d \in Docs : /\ perms[d] \subseteq ever[d]
                            /\ modifier[d] \in ever[d] \cup {Nobody}

\* A process works on addresses its document was named for.
JobNamed == \A p \in Procs : pc[p] # "idle" =>
                /\ read[p] \subseteq ever[job[p]]
                /\ todo[p] \subseteq ever[job[p]]
                /\ pc[p] = "miss" => hand[p] \in ever[job[p]]

\* The entries compiled so far may all be granted.
GotRightful == \A p \in Procs : pc[p] # "idle" => \A x \in got[p] : Rightful(job[p], x)

\* A bind serves an existing user and holds rows that may be granted.
BindRightful == /\ bpc # "idle" => bemail \in users
                /\ \A d \in Docs : \A x \in bread[d] : Rightful(d, x)

StrangerInv == /\ CacheKnown /\ Recorded /\ JobNamed
               /\ GotRightful /\ BindRightful /\ NoStranger

LEMMA StrangerInit == Init => StrangerInv
BY DEF Init, StrangerInv, CacheKnown, Recorded, JobNamed, GotRightful, BindRightful, NoStranger

\* Users, principals and the history of names only grow, so that a rightful
\* entry stays rightful.
Grown == /\ users \subseteq users'
         /\ ghosts \subseteq ghosts'
         /\ \A d \in Docs : ever[d] \subseteq ever'[d]

LEMMA PeopleStay == TypeInv /\ [Next]_vars => Grown
<1>. SUFFICES ASSUME TypeInv, [Next]_vars PROVE Grown
  OBVIOUS
<1>1. Grown

  <2>1. ASSUME NEW d \in Docs, NEW e \in Emails, Share(d, e) PROVE Grown
    BY <2>1, TypeInv DEF Share, Changed, upstream, people, pipe, binder, TypeInv, TypeOK, Grown
  <2>2. ASSUME NEW d \in Docs, NEW e \in Emails, Unshare(d, e) PROVE Grown
    BY <2>2, TypeInv DEF Unshare, Changed, upstream, people, pipe, binder, TypeInv, TypeOK, Grown
  <2>3. ASSUME NEW d \in Docs, NEW e \in Emails, Edit(d, e) PROVE Grown
    BY <2>3, TypeInv DEF Edit, Changed, upstream, people, pipe, binder, TypeInv, TypeOK, Grown
  <2>4. ASSUME NEW p \in Procs, NEW d \in Docs, Begin(p, d) PROVE Grown
    BY <2>4, TypeInv DEF Begin, upstream, people, pipe, binder, TypeInv, TypeOK, Grown
  <2>5. ASSUME NEW p \in Procs, NEW e \in Emails, ResolveCached(p, e) PROVE Grown
    BY <2>5, TypeInv DEF ResolveCached, Take, upstream, people, pipe, binder, TypeInv, TypeOK, Grown
  <2>6. ASSUME NEW p \in Procs, NEW e \in Emails, ResolveFound(p, e) PROVE Grown
    BY <2>6, TypeInv DEF ResolveFound, Take, Fault, upstream, people, pipe, binder, TypeInv, TypeOK, Grown
  <2>7. ASSUME NEW p \in Procs, NEW e \in Emails, ResolveMiss(p, e) PROVE Grown
    BY <2>7, TypeInv DEF ResolveMiss, Fault, upstream, people, pipe, binder, TypeInv, TypeOK, Grown
  <2>8. ASSUME NEW p \in Procs, Mint(p) PROVE Grown
    BY <2>8, TypeInv DEF Mint, Take, Fault, upstream, people, pipe, binder, TypeInv, TypeOK, Grown
  <2>9. ASSUME NEW p \in Procs, Queue(p) PROVE Grown
    BY <2>9, TypeInv DEF Queue, Take, Fault, upstream, people, pipe, binder, TypeInv, TypeOK, Grown
  <2>10. ASSUME NEW p \in Procs, Replace(p) PROVE Grown
    BY <2>10, TypeInv DEF Replace, upstream, people, pipe, binder, TypeInv, TypeOK, Grown
  <2>11. ASSUME NEW p \in Procs, IndexDoc(p) PROVE Grown
    BY <2>11, TypeInv DEF IndexDoc, upstream, people, pipe, binder, TypeInv, TypeOK, Grown
  <2>12. ASSUME NEW p \in Procs, Recycle(p) PROVE Grown
    BY <2>12, TypeInv DEF Recycle, upstream, people, pipe, binder, TypeInv, TypeOK, Grown
  <2>13. ASSUME NEW e \in Emails, Invite(e) PROVE Grown
    BY <2>13, TypeInv DEF Invite, upstream, people, pipe, binder, TypeInv, TypeOK, Grown
  <2>14. ASSUME NEW e \in Emails, Login(e) PROVE Grown
    BY <2>14, TypeInv DEF Login, upstream, people, pipe, binder, TypeInv, TypeOK, Grown
  <2>15. CASE Drain
    BY <2>15, TypeInv DEF Drain, Open, Inserted, upstream, people, pipe, binder, TypeInv, TypeOK, Grown
  <2>16. CASE Rebind
    BY <2>16, TypeInv DEF Rebind, upstream, people, pipe, binder, TypeInv, TypeOK, Grown
  <2>17. CASE ReadRows
    BY <2>17, TypeInv DEF ReadRows, upstream, people, pipe, binder, TypeInv, TypeOK, Grown
  <2>18. CASE WriteIndex
    BY <2>18, TypeInv DEF WriteIndex, Unbind, upstream, people, pipe, binder, TypeInv, TypeOK, Grown
  <2>19. CASE BindFails
    BY <2>19, TypeInv DEF BindFails, Unbind, Fault, upstream, people, pipe, binder, TypeInv, TypeOK, Grown
  <2>20. CASE UNCHANGED vars
    BY <2>20, TypeInv DEF vars, upstream, people, pipe, binder, TypeInv, TypeOK, Grown
  <2>. QED
    BY <2>1, <2>2, <2>3, <2>4, <2>5, <2>6, <2>7, <2>8, <2>9, <2>10, <2>11, <2>12, <2>13, <2>14, <2>15, <2>16, <2>17, <2>18, <2>19, <2>20 DEF Next, Work, Bind
<1>. QED
  BY <1>1

LEMMA RightfulStays ==
    ASSUME Grown, NEW d \in Docs, NEW x, Rightful(d, x)
    PROVE  Rightful(d, x)'
BY DEF Grown, Rightful

LEMMA CacheStep == TypeInv /\ StrangerInv /\ [Next]_vars => CacheKnown'
<1>. SUFFICES ASSUME TypeInv /\ StrangerInv, [Next]_vars PROVE CacheKnown'
  OBVIOUS
<1>1. /\ TypeOK /\ InHand /\ Grown
      /\ CacheKnown /\ Recorded /\ JobNamed /\ GotRightful /\ BindRightful /\ NoStranger
  BY PeopleStay DEF TypeInv, StrangerInv
<1>2. CacheKnown'
  <2>1. ASSUME NEW d \in Docs, NEW e \in Emails, Share(d, e) PROVE CacheKnown'
    BY <2>1, <1>1 DEF Share, Changed, upstream, people, pipe, binder, TypeOK, InHand, Grown, CacheKnown
  <2>2. ASSUME NEW d \in Docs, NEW e \in Emails, Unshare(d, e) PROVE CacheKnown'
    BY <2>2, <1>1 DEF Unshare, Changed, upstream, people, pipe, binder, TypeOK, InHand, Grown, CacheKnown
  <2>3. ASSUME NEW d \in Docs, NEW e \in Emails, Edit(d, e) PROVE CacheKnown'
    BY <2>3, <1>1 DEF Edit, Changed, upstream, people, pipe, binder, TypeOK, InHand, Grown, CacheKnown
  <2>4. ASSUME NEW p \in Procs, NEW d \in Docs, Begin(p, d) PROVE CacheKnown'
    BY <2>4, <1>1 DEF Begin, upstream, people, pipe, binder, TypeOK, InHand, Grown, CacheKnown
  <2>5. ASSUME NEW p \in Procs, NEW e \in Emails, ResolveCached(p, e) PROVE CacheKnown'
    BY <2>5, <1>1 DEF ResolveCached, Take, upstream, people, pipe, binder, TypeOK, InHand, Grown, CacheKnown
  <2>6. ASSUME NEW p \in Procs, NEW e \in Emails, ResolveFound(p, e) PROVE CacheKnown'
    BY <2>6, <1>1 DEF ResolveFound, Take, Fault, upstream, people, pipe, binder, TypeOK, InHand, Grown, CacheKnown
  <2>7. ASSUME NEW p \in Procs, NEW e \in Emails, ResolveMiss(p, e) PROVE CacheKnown'
    BY <2>7, <1>1 DEF ResolveMiss, Fault, upstream, people, pipe, binder, TypeOK, InHand, Grown, CacheKnown
  <2>8. ASSUME NEW p \in Procs, Mint(p) PROVE CacheKnown'
    BY <2>8, <1>1 DEF Mint, Take, Fault, upstream, people, pipe, binder, TypeOK, InHand, Grown, CacheKnown
  <2>9. ASSUME NEW p \in Procs, Queue(p) PROVE CacheKnown'
    BY <2>9, <1>1 DEF Queue, Take, Fault, upstream, people, pipe, binder, TypeOK, InHand, Grown, CacheKnown
  <2>10. ASSUME NEW p \in Procs, Replace(p) PROVE CacheKnown'
    BY <2>10, <1>1 DEF Replace, upstream, people, pipe, binder, TypeOK, InHand, Grown, CacheKnown
  <2>11. ASSUME NEW p \in Procs, IndexDoc(p) PROVE CacheKnown'
    BY <2>11, <1>1 DEF IndexDoc, upstream, people, pipe, binder, TypeOK, InHand, Grown, CacheKnown
  <2>12. ASSUME NEW p \in Procs, Recycle(p) PROVE CacheKnown'
    BY <2>12, <1>1 DEF Recycle, upstream, people, pipe, binder, TypeOK, InHand, Grown, CacheKnown
  <2>13. ASSUME NEW e \in Emails, Invite(e) PROVE CacheKnown'
    BY <2>13, <1>1 DEF Invite, upstream, people, pipe, binder, TypeOK, InHand, Grown, CacheKnown
  <2>14. ASSUME NEW e \in Emails, Login(e) PROVE CacheKnown'
    BY <2>14, <1>1 DEF Login, upstream, people, pipe, binder, TypeOK, InHand, Grown, CacheKnown
  <2>15. CASE Drain
    BY <2>15, <1>1 DEF Drain, Open, Inserted, upstream, people, pipe, binder, TypeOK, InHand, Grown, CacheKnown
  <2>16. CASE Rebind
    BY <2>16, <1>1 DEF Rebind, upstream, people, pipe, binder, TypeOK, InHand, Grown, CacheKnown
  <2>17. CASE ReadRows
    BY <2>17, <1>1 DEF ReadRows, upstream, people, pipe, binder, TypeOK, InHand, Grown, CacheKnown
  <2>18. CASE WriteIndex
    BY <2>18, <1>1 DEF WriteIndex, Unbind, upstream, people, pipe, binder, TypeOK, InHand, Grown, CacheKnown
  <2>19. CASE BindFails
    BY <2>19, <1>1 DEF BindFails, Unbind, Fault, upstream, people, pipe, binder, TypeOK, InHand, Grown, CacheKnown
  <2>20. CASE UNCHANGED vars
    BY <2>20, <1>1 DEF vars, upstream, people, pipe, binder, TypeOK, InHand, Grown, CacheKnown
  <2>. QED
    BY <2>1, <2>2, <2>3, <2>4, <2>5, <2>6, <2>7, <2>8, <2>9, <2>10, <2>11, <2>12, <2>13, <2>14, <2>15, <2>16, <2>17, <2>18, <2>19, <2>20 DEF Next, Work, Bind
<1>. QED
  BY <1>2

LEMMA RecordedStep == TypeInv /\ StrangerInv /\ [Next]_vars => Recorded'
<1>. SUFFICES ASSUME TypeInv /\ StrangerInv, [Next]_vars PROVE Recorded'
  OBVIOUS
<1>1. /\ TypeOK /\ InHand /\ Grown
      /\ CacheKnown /\ Recorded /\ JobNamed /\ GotRightful /\ BindRightful /\ NoStranger
  BY PeopleStay DEF TypeInv, StrangerInv
<1>2. Recorded'
  <2>1. ASSUME NEW d \in Docs, NEW e \in Emails, Share(d, e) PROVE Recorded'
    BY <2>1, <1>1 DEF Share, Changed, upstream, people, pipe, binder, TypeOK, Grown, Recorded
  <2>2. ASSUME NEW d \in Docs, NEW e \in Emails, Unshare(d, e) PROVE Recorded'
    BY <2>2, <1>1 DEF Unshare, Changed, upstream, people, pipe, binder, TypeOK, Grown, Recorded
  <2>3. ASSUME NEW d \in Docs, NEW e \in Emails, Edit(d, e) PROVE Recorded'
    BY <2>3, <1>1 DEF Edit, Changed, upstream, people, pipe, binder, TypeOK, Grown, Recorded
  <2>4. ASSUME NEW p \in Procs, NEW d \in Docs, Begin(p, d) PROVE Recorded'
    BY <2>4, <1>1 DEF Begin, upstream, people, pipe, binder, TypeOK, Grown, Recorded
  <2>5. ASSUME NEW p \in Procs, NEW e \in Emails, ResolveCached(p, e) PROVE Recorded'
    BY <2>5, <1>1 DEF ResolveCached, Take, upstream, people, pipe, binder, TypeOK, Grown, Recorded
  <2>6. ASSUME NEW p \in Procs, NEW e \in Emails, ResolveFound(p, e) PROVE Recorded'
    BY <2>6, <1>1 DEF ResolveFound, Take, Fault, upstream, people, pipe, binder, TypeOK, Grown, Recorded
  <2>7. ASSUME NEW p \in Procs, NEW e \in Emails, ResolveMiss(p, e) PROVE Recorded'
    BY <2>7, <1>1 DEF ResolveMiss, Fault, upstream, people, pipe, binder, TypeOK, Grown, Recorded
  <2>8. ASSUME NEW p \in Procs, Mint(p) PROVE Recorded'
    BY <2>8, <1>1 DEF Mint, Take, Fault, upstream, people, pipe, binder, TypeOK, Grown, Recorded
  <2>9. ASSUME NEW p \in Procs, Queue(p) PROVE Recorded'
    BY <2>9, <1>1 DEF Queue, Take, Fault, upstream, people, pipe, binder, TypeOK, Grown, Recorded
  <2>10. ASSUME NEW p \in Procs, Replace(p) PROVE Recorded'
    BY <2>10, <1>1 DEF Replace, upstream, people, pipe, binder, TypeOK, Grown, Recorded
  <2>11. ASSUME NEW p \in Procs, IndexDoc(p) PROVE Recorded'
    BY <2>11, <1>1 DEF IndexDoc, upstream, people, pipe, binder, TypeOK, Grown, Recorded
  <2>12. ASSUME NEW p \in Procs, Recycle(p) PROVE Recorded'
    BY <2>12, <1>1 DEF Recycle, upstream, people, pipe, binder, TypeOK, Grown, Recorded
  <2>13. ASSUME NEW e \in Emails, Invite(e) PROVE Recorded'
    BY <2>13, <1>1 DEF Invite, upstream, people, pipe, binder, TypeOK, Grown, Recorded
  <2>14. ASSUME NEW e \in Emails, Login(e) PROVE Recorded'
    BY <2>14, <1>1 DEF Login, upstream, people, pipe, binder, TypeOK, Grown, Recorded
  <2>15. CASE Drain
    BY <2>15, <1>1 DEF Drain, Open, Inserted, upstream, people, pipe, binder, TypeOK, Grown, Recorded
  <2>16. CASE Rebind
    BY <2>16, <1>1 DEF Rebind, upstream, people, pipe, binder, TypeOK, Grown, Recorded
  <2>17. CASE ReadRows
    BY <2>17, <1>1 DEF ReadRows, upstream, people, pipe, binder, TypeOK, Grown, Recorded
  <2>18. CASE WriteIndex
    BY <2>18, <1>1 DEF WriteIndex, Unbind, upstream, people, pipe, binder, TypeOK, Grown, Recorded
  <2>19. CASE BindFails
    BY <2>19, <1>1 DEF BindFails, Unbind, Fault, upstream, people, pipe, binder, TypeOK, Grown, Recorded
  <2>20. CASE UNCHANGED vars
    BY <2>20, <1>1 DEF vars, upstream, people, pipe, binder, TypeOK, Grown, Recorded
  <2>. QED
    BY <2>1, <2>2, <2>3, <2>4, <2>5, <2>6, <2>7, <2>8, <2>9, <2>10, <2>11, <2>12, <2>13, <2>14, <2>15, <2>16, <2>17, <2>18, <2>19, <2>20 DEF Next, Work, Bind
<1>. QED
  BY <1>2

LEMMA JobStep == TypeInv /\ StrangerInv /\ [Next]_vars => JobNamed'
<1>. SUFFICES ASSUME TypeInv /\ StrangerInv, [Next]_vars PROVE JobNamed'
  OBVIOUS
<1>1. /\ TypeOK /\ InHand /\ Grown
      /\ CacheKnown /\ Recorded /\ JobNamed /\ GotRightful /\ BindRightful /\ NoStranger
  BY PeopleStay DEF TypeInv, StrangerInv
<1>2. JobNamed'
  <2>1. ASSUME NEW d \in Docs, NEW e \in Emails, Share(d, e) PROVE JobNamed'
    BY <2>1, <1>1 DEF Share, Changed, upstream, people, pipe, binder, TypeOK, InHand, Grown, Recorded, JobNamed
  <2>2. ASSUME NEW d \in Docs, NEW e \in Emails, Unshare(d, e) PROVE JobNamed'
    BY <2>2, <1>1 DEF Unshare, Changed, upstream, people, pipe, binder, TypeOK, InHand, Grown, Recorded, JobNamed
  <2>3. ASSUME NEW d \in Docs, NEW e \in Emails, Edit(d, e) PROVE JobNamed'
    BY <2>3, <1>1 DEF Edit, Changed, upstream, people, pipe, binder, TypeOK, InHand, Grown, Recorded, JobNamed
  <2>4. ASSUME NEW p \in Procs, NEW d \in Docs, Begin(p, d) PROVE JobNamed'
    BY <2>4, <1>1 DEF Begin, upstream, people, pipe, binder, TypeOK, InHand, Grown, Recorded, JobNamed
  <2>5. ASSUME NEW p \in Procs, NEW e \in Emails, ResolveCached(p, e) PROVE JobNamed'
    BY <2>5, <1>1 DEF ResolveCached, Take, upstream, people, pipe, binder, TypeOK, InHand, Grown, Recorded, JobNamed
  <2>6. ASSUME NEW p \in Procs, NEW e \in Emails, ResolveFound(p, e) PROVE JobNamed'
    BY <2>6, <1>1 DEF ResolveFound, Take, Fault, upstream, people, pipe, binder, TypeOK, InHand, Grown, Recorded, JobNamed
  <2>7. ASSUME NEW p \in Procs, NEW e \in Emails, ResolveMiss(p, e) PROVE JobNamed'
    BY <2>7, <1>1 DEF ResolveMiss, Fault, upstream, people, pipe, binder, TypeOK, InHand, Grown, Recorded, JobNamed
  <2>8. ASSUME NEW p \in Procs, Mint(p) PROVE JobNamed'
    BY <2>8, <1>1 DEF Mint, Take, Fault, upstream, people, pipe, binder, TypeOK, InHand, Grown, Recorded, JobNamed
  <2>9. ASSUME NEW p \in Procs, Queue(p) PROVE JobNamed'
    BY <2>9, <1>1 DEF Queue, Take, Fault, upstream, people, pipe, binder, TypeOK, InHand, Grown, Recorded, JobNamed
  <2>10. ASSUME NEW p \in Procs, Replace(p) PROVE JobNamed'
    BY <2>10, <1>1 DEF Replace, upstream, people, pipe, binder, TypeOK, InHand, Grown, Recorded, JobNamed
  <2>11. ASSUME NEW p \in Procs, IndexDoc(p) PROVE JobNamed'
    BY <2>11, <1>1 DEF IndexDoc, upstream, people, pipe, binder, TypeOK, InHand, Grown, Recorded, JobNamed
  <2>12. ASSUME NEW p \in Procs, Recycle(p) PROVE JobNamed'
    BY <2>12, <1>1 DEF Recycle, upstream, people, pipe, binder, TypeOK, InHand, Grown, Recorded, JobNamed
  <2>13. ASSUME NEW e \in Emails, Invite(e) PROVE JobNamed'
    BY <2>13, <1>1 DEF Invite, upstream, people, pipe, binder, TypeOK, InHand, Grown, Recorded, JobNamed
  <2>14. ASSUME NEW e \in Emails, Login(e) PROVE JobNamed'
    BY <2>14, <1>1 DEF Login, upstream, people, pipe, binder, TypeOK, InHand, Grown, Recorded, JobNamed
  <2>15. CASE Drain
    BY <2>15, <1>1 DEF Drain, Open, Inserted, upstream, people, pipe, binder, TypeOK, InHand, Grown, Recorded, JobNamed
  <2>16. CASE Rebind
    BY <2>16, <1>1 DEF Rebind, upstream, people, pipe, binder, TypeOK, InHand, Grown, Recorded, JobNamed
  <2>17. CASE ReadRows
    BY <2>17, <1>1 DEF ReadRows, upstream, people, pipe, binder, TypeOK, InHand, Grown, Recorded, JobNamed
  <2>18. CASE WriteIndex
    BY <2>18, <1>1 DEF WriteIndex, Unbind, upstream, people, pipe, binder, TypeOK, InHand, Grown, Recorded, JobNamed
  <2>19. CASE BindFails
    BY <2>19, <1>1 DEF BindFails, Unbind, Fault, upstream, people, pipe, binder, TypeOK, InHand, Grown, Recorded, JobNamed
  <2>20. CASE UNCHANGED vars
    BY <2>20, <1>1 DEF vars, upstream, people, pipe, binder, TypeOK, InHand, Grown, Recorded, JobNamed
  <2>. QED
    BY <2>1, <2>2, <2>3, <2>4, <2>5, <2>6, <2>7, <2>8, <2>9, <2>10, <2>11, <2>12, <2>13, <2>14, <2>15, <2>16, <2>17, <2>18, <2>19, <2>20 DEF Next, Work, Bind
<1>. QED
  BY <1>2

LEMMA GotStep == TypeInv /\ StrangerInv /\ [Next]_vars => GotRightful'
<1>. SUFFICES ASSUME TypeInv /\ StrangerInv, [Next]_vars PROVE GotRightful'
  OBVIOUS
<1>1. /\ TypeOK /\ InHand /\ Grown
      /\ CacheKnown /\ Recorded /\ JobNamed /\ GotRightful /\ BindRightful /\ NoStranger
  BY PeopleStay DEF TypeInv, StrangerInv
<1>2. GotRightful'
  <2>1. ASSUME NEW d \in Docs, NEW e \in Emails, Share(d, e) PROVE GotRightful'
    BY <2>1, <1>1 DEF Share, Changed, upstream, people, pipe, binder, TypeOK, InHand, Grown, Rightful, CacheKnown, JobNamed, GotRightful
  <2>2. ASSUME NEW d \in Docs, NEW e \in Emails, Unshare(d, e) PROVE GotRightful'
    BY <2>2, <1>1 DEF Unshare, Changed, upstream, people, pipe, binder, TypeOK, InHand, Grown, Rightful, CacheKnown, JobNamed, GotRightful
  <2>3. ASSUME NEW d \in Docs, NEW e \in Emails, Edit(d, e) PROVE GotRightful'
    BY <2>3, <1>1 DEF Edit, Changed, upstream, people, pipe, binder, TypeOK, InHand, Grown, Rightful, CacheKnown, JobNamed, GotRightful
  <2>4. ASSUME NEW p \in Procs, NEW d \in Docs, Begin(p, d) PROVE GotRightful'
    BY <2>4, <1>1 DEF Begin, upstream, people, pipe, binder, TypeOK, InHand, Grown, Rightful, CacheKnown, JobNamed, GotRightful
  <2>5. ASSUME NEW p \in Procs, NEW e \in Emails, ResolveCached(p, e) PROVE GotRightful'
    BY <2>5, <1>1 DEF ResolveCached, Take, upstream, people, pipe, binder, TypeOK, InHand, Grown, Rightful, CacheKnown, JobNamed, GotRightful
  <2>6. ASSUME NEW p \in Procs, NEW e \in Emails, ResolveFound(p, e) PROVE GotRightful'
    BY <2>6, <1>1 DEF ResolveFound, Take, Fault, upstream, people, pipe, binder, TypeOK, InHand, Grown, Rightful, CacheKnown, JobNamed, GotRightful
  <2>7. ASSUME NEW p \in Procs, NEW e \in Emails, ResolveMiss(p, e) PROVE GotRightful'
    BY <2>7, <1>1 DEF ResolveMiss, Fault, upstream, people, pipe, binder, TypeOK, InHand, Grown, Rightful, CacheKnown, JobNamed, GotRightful
  <2>8. ASSUME NEW p \in Procs, Mint(p) PROVE GotRightful'
    BY <2>8, <1>1 DEF Mint, Take, Fault, upstream, people, pipe, binder, TypeOK, InHand, Grown, Rightful, CacheKnown, JobNamed, GotRightful
  <2>9. ASSUME NEW p \in Procs, Queue(p) PROVE GotRightful'
    BY <2>9, <1>1 DEF Queue, Take, Fault, upstream, people, pipe, binder, TypeOK, InHand, Grown, Rightful, CacheKnown, JobNamed, GotRightful
  <2>10. ASSUME NEW p \in Procs, Replace(p) PROVE GotRightful'
    BY <2>10, <1>1 DEF Replace, upstream, people, pipe, binder, TypeOK, InHand, Grown, Rightful, CacheKnown, JobNamed, GotRightful
  <2>11. ASSUME NEW p \in Procs, IndexDoc(p) PROVE GotRightful'
    BY <2>11, <1>1 DEF IndexDoc, upstream, people, pipe, binder, TypeOK, InHand, Grown, Rightful, CacheKnown, JobNamed, GotRightful
  <2>12. ASSUME NEW p \in Procs, Recycle(p) PROVE GotRightful'
    BY <2>12, <1>1 DEF Recycle, upstream, people, pipe, binder, TypeOK, InHand, Grown, Rightful, CacheKnown, JobNamed, GotRightful
  <2>13. ASSUME NEW e \in Emails, Invite(e) PROVE GotRightful'
    BY <2>13, <1>1 DEF Invite, upstream, people, pipe, binder, TypeOK, InHand, Grown, Rightful, CacheKnown, JobNamed, GotRightful
  <2>14. ASSUME NEW e \in Emails, Login(e) PROVE GotRightful'
    BY <2>14, <1>1 DEF Login, upstream, people, pipe, binder, TypeOK, InHand, Grown, Rightful, CacheKnown, JobNamed, GotRightful
  <2>15. CASE Drain
    BY <2>15, <1>1 DEF Drain, Open, Inserted, upstream, people, pipe, binder, TypeOK, InHand, Grown, Rightful, CacheKnown, JobNamed, GotRightful
  <2>16. CASE Rebind
    BY <2>16, <1>1 DEF Rebind, upstream, people, pipe, binder, TypeOK, InHand, Grown, Rightful, CacheKnown, JobNamed, GotRightful
  <2>17. CASE ReadRows
    BY <2>17, <1>1 DEF ReadRows, upstream, people, pipe, binder, TypeOK, InHand, Grown, Rightful, CacheKnown, JobNamed, GotRightful
  <2>18. CASE WriteIndex
    BY <2>18, <1>1 DEF WriteIndex, Unbind, upstream, people, pipe, binder, TypeOK, InHand, Grown, Rightful, CacheKnown, JobNamed, GotRightful
  <2>19. CASE BindFails
    BY <2>19, <1>1 DEF BindFails, Unbind, Fault, upstream, people, pipe, binder, TypeOK, InHand, Grown, Rightful, CacheKnown, JobNamed, GotRightful
  <2>20. CASE UNCHANGED vars
    BY <2>20, <1>1 DEF vars, upstream, people, pipe, binder, TypeOK, InHand, Grown, Rightful, CacheKnown, JobNamed, GotRightful
  <2>. QED
    BY <2>1, <2>2, <2>3, <2>4, <2>5, <2>6, <2>7, <2>8, <2>9, <2>10, <2>11, <2>12, <2>13, <2>14, <2>15, <2>16, <2>17, <2>18, <2>19, <2>20 DEF Next, Work, Bind
<1>. QED
  BY <1>2

LEMMA BindStep == TypeInv /\ StrangerInv /\ [Next]_vars => BindRightful'
<1>. SUFFICES ASSUME TypeInv /\ StrangerInv, [Next]_vars PROVE BindRightful'
  OBVIOUS
<1>1. /\ TypeOK /\ InHand /\ Grown
      /\ CacheKnown /\ Recorded /\ JobNamed /\ GotRightful /\ BindRightful /\ NoStranger
  BY PeopleStay DEF TypeInv, StrangerInv
<1>2. BindRightful'
  <2>1. ASSUME NEW d \in Docs, NEW e \in Emails, Share(d, e) PROVE BindRightful'
    BY <2>1, <1>1 DEF Share, Changed, upstream, people, pipe, binder, TypeOK, InHand, Grown, Rightful, BindRightful, NoStranger
  <2>2. ASSUME NEW d \in Docs, NEW e \in Emails, Unshare(d, e) PROVE BindRightful'
    BY <2>2, <1>1 DEF Unshare, Changed, upstream, people, pipe, binder, TypeOK, InHand, Grown, Rightful, BindRightful, NoStranger
  <2>3. ASSUME NEW d \in Docs, NEW e \in Emails, Edit(d, e) PROVE BindRightful'
    BY <2>3, <1>1 DEF Edit, Changed, upstream, people, pipe, binder, TypeOK, InHand, Grown, Rightful, BindRightful, NoStranger
  <2>4. ASSUME NEW p \in Procs, NEW d \in Docs, Begin(p, d) PROVE BindRightful'
    BY <2>4, <1>1 DEF Begin, upstream, people, pipe, binder, TypeOK, InHand, Grown, Rightful, BindRightful, NoStranger
  <2>5. ASSUME NEW p \in Procs, NEW e \in Emails, ResolveCached(p, e) PROVE BindRightful'
    BY <2>5, <1>1 DEF ResolveCached, Take, upstream, people, pipe, binder, TypeOK, InHand, Grown, Rightful, BindRightful, NoStranger
  <2>6. ASSUME NEW p \in Procs, NEW e \in Emails, ResolveFound(p, e) PROVE BindRightful'
    BY <2>6, <1>1 DEF ResolveFound, Take, Fault, upstream, people, pipe, binder, TypeOK, InHand, Grown, Rightful, BindRightful, NoStranger
  <2>7. ASSUME NEW p \in Procs, NEW e \in Emails, ResolveMiss(p, e) PROVE BindRightful'
    BY <2>7, <1>1 DEF ResolveMiss, Fault, upstream, people, pipe, binder, TypeOK, InHand, Grown, Rightful, BindRightful, NoStranger
  <2>8. ASSUME NEW p \in Procs, Mint(p) PROVE BindRightful'
    BY <2>8, <1>1 DEF Mint, Take, Fault, upstream, people, pipe, binder, TypeOK, InHand, Grown, Rightful, BindRightful, NoStranger
  <2>9. ASSUME NEW p \in Procs, Queue(p) PROVE BindRightful'
    BY <2>9, <1>1 DEF Queue, Take, Fault, upstream, people, pipe, binder, TypeOK, InHand, Grown, Rightful, BindRightful, NoStranger
  <2>10. ASSUME NEW p \in Procs, Replace(p) PROVE BindRightful'
    BY <2>10, <1>1 DEF Replace, upstream, people, pipe, binder, TypeOK, InHand, Grown, Rightful, BindRightful, NoStranger
  <2>11. ASSUME NEW p \in Procs, IndexDoc(p) PROVE BindRightful'
    BY <2>11, <1>1 DEF IndexDoc, upstream, people, pipe, binder, TypeOK, InHand, Grown, Rightful, BindRightful, NoStranger
  <2>12. ASSUME NEW p \in Procs, Recycle(p) PROVE BindRightful'
    BY <2>12, <1>1 DEF Recycle, upstream, people, pipe, binder, TypeOK, InHand, Grown, Rightful, BindRightful, NoStranger
  <2>13. ASSUME NEW e \in Emails, Invite(e) PROVE BindRightful'
    BY <2>13, <1>1 DEF Invite, upstream, people, pipe, binder, TypeOK, InHand, Grown, Rightful, BindRightful, NoStranger
  <2>14. ASSUME NEW e \in Emails, Login(e) PROVE BindRightful'
    BY <2>14, <1>1 DEF Login, upstream, people, pipe, binder, TypeOK, InHand, Grown, Rightful, BindRightful, NoStranger
  <2>15. CASE Drain
    BY <2>15, <1>1 DEF Drain, Open, Inserted, upstream, people, pipe, binder, TypeOK, InHand, Grown, Rightful, BindRightful, NoStranger
  <2>16. CASE Rebind
    BY <2>16, <1>1 DEF Rebind, upstream, people, pipe, binder, TypeOK, InHand, Grown, Rightful, BindRightful, NoStranger
  <2>17. CASE ReadRows
    BY <2>17, <1>1 DEF ReadRows, upstream, people, pipe, binder, TypeOK, InHand, Grown, Rightful, BindRightful, NoStranger
  <2>18. CASE WriteIndex
    BY <2>18, <1>1 DEF WriteIndex, Unbind, upstream, people, pipe, binder, TypeOK, InHand, Grown, Rightful, BindRightful, NoStranger
  <2>19. CASE BindFails
    BY <2>19, <1>1 DEF BindFails, Unbind, Fault, upstream, people, pipe, binder, TypeOK, InHand, Grown, Rightful, BindRightful, NoStranger
  <2>20. CASE UNCHANGED vars
    BY <2>20, <1>1 DEF vars, upstream, people, pipe, binder, TypeOK, InHand, Grown, Rightful, BindRightful, NoStranger
  <2>. QED
    BY <2>1, <2>2, <2>3, <2>4, <2>5, <2>6, <2>7, <2>8, <2>9, <2>10, <2>11, <2>12, <2>13, <2>14, <2>15, <2>16, <2>17, <2>18, <2>19, <2>20 DEF Next, Work, Bind
<1>. QED
  BY <1>2

LEMMA NoStrangerStep == TypeInv /\ StrangerInv /\ [Next]_vars => NoStranger'
<1>. SUFFICES ASSUME TypeInv /\ StrangerInv, [Next]_vars PROVE NoStranger'
  OBVIOUS
<1>1. /\ TypeOK /\ InHand /\ Grown
      /\ CacheKnown /\ Recorded /\ JobNamed /\ GotRightful /\ BindRightful /\ NoStranger
  BY PeopleStay DEF TypeInv, StrangerInv
<1>2. NoStranger'
  <2>1. ASSUME NEW d \in Docs, NEW e \in Emails, Share(d, e) PROVE NoStranger'
    BY <2>1, <1>1 DEF Share, Changed, upstream, people, pipe, binder, TypeOK, InHand, Grown, Rightful, JobNamed, GotRightful, BindRightful, NoStranger
  <2>2. ASSUME NEW d \in Docs, NEW e \in Emails, Unshare(d, e) PROVE NoStranger'
    BY <2>2, <1>1 DEF Unshare, Changed, upstream, people, pipe, binder, TypeOK, InHand, Grown, Rightful, JobNamed, GotRightful, BindRightful, NoStranger
  <2>3. ASSUME NEW d \in Docs, NEW e \in Emails, Edit(d, e) PROVE NoStranger'
    BY <2>3, <1>1 DEF Edit, Changed, upstream, people, pipe, binder, TypeOK, InHand, Grown, Rightful, JobNamed, GotRightful, BindRightful, NoStranger
  <2>4. ASSUME NEW p \in Procs, NEW d \in Docs, Begin(p, d) PROVE NoStranger'
    BY <2>4, <1>1 DEF Begin, upstream, people, pipe, binder, TypeOK, InHand, Grown, Rightful, JobNamed, GotRightful, BindRightful, NoStranger
  <2>5. ASSUME NEW p \in Procs, NEW e \in Emails, ResolveCached(p, e) PROVE NoStranger'
    BY <2>5, <1>1 DEF ResolveCached, Take, upstream, people, pipe, binder, TypeOK, InHand, Grown, Rightful, JobNamed, GotRightful, BindRightful, NoStranger
  <2>6. ASSUME NEW p \in Procs, NEW e \in Emails, ResolveFound(p, e) PROVE NoStranger'
    BY <2>6, <1>1 DEF ResolveFound, Take, Fault, upstream, people, pipe, binder, TypeOK, InHand, Grown, Rightful, JobNamed, GotRightful, BindRightful, NoStranger
  <2>7. ASSUME NEW p \in Procs, NEW e \in Emails, ResolveMiss(p, e) PROVE NoStranger'
    BY <2>7, <1>1 DEF ResolveMiss, Fault, upstream, people, pipe, binder, TypeOK, InHand, Grown, Rightful, JobNamed, GotRightful, BindRightful, NoStranger
  <2>8. ASSUME NEW p \in Procs, Mint(p) PROVE NoStranger'
    BY <2>8, <1>1 DEF Mint, Take, Fault, upstream, people, pipe, binder, TypeOK, InHand, Grown, Rightful, JobNamed, GotRightful, BindRightful, NoStranger
  <2>9. ASSUME NEW p \in Procs, Queue(p) PROVE NoStranger'
    <3>1. ASSUME NEW d \in Docs, NEW e \in Emails, row'[d][e] # "none"
          PROVE  row[d][e] # "none" \/ (d = job[p] /\ e = hand[p])
      <4>1. CASE UNCHANGED row
        BY <3>1, <4>1
      <4>2. CASE row' = [row EXCEPT ![job[p]][hand[p]] = IF @ = "none" THEN "open" ELSE @]
        BY <3>1, <4>2, <1>1 DEF TypeOK
      <4>. QED
        BY <4>1, <4>2, <2>9 DEF Queue
    <3>2. acl' = acl /\ point' = point /\ ever' = ever /\ users' = users /\ ghosts' = ghosts
      BY <2>9 DEF Queue, upstream, people
    <3>3. hand[p] \in ever[job[p]]
      BY <2>9, <1>1 DEF Queue, JobNamed
    <3>. QED
      BY <3>1, <3>2, <3>3, <1>1 DEF NoStranger, Rightful
  <2>10. ASSUME NEW p \in Procs, Replace(p) PROVE NoStranger'
    BY <2>10, <1>1 DEF Replace, upstream, people, pipe, binder, TypeOK, InHand, Grown, Rightful, JobNamed, GotRightful, BindRightful, NoStranger
  <2>11. ASSUME NEW p \in Procs, IndexDoc(p) PROVE NoStranger'
    BY <2>11, <1>1 DEF IndexDoc, upstream, people, pipe, binder, TypeOK, InHand, Grown, Rightful, JobNamed, GotRightful, BindRightful, NoStranger
  <2>12. ASSUME NEW p \in Procs, Recycle(p) PROVE NoStranger'
    BY <2>12, <1>1 DEF Recycle, upstream, people, pipe, binder, TypeOK, InHand, Grown, Rightful, JobNamed, GotRightful, BindRightful, NoStranger
  <2>13. ASSUME NEW e \in Emails, Invite(e) PROVE NoStranger'
    BY <2>13, <1>1 DEF Invite, upstream, people, pipe, binder, TypeOK, InHand, Grown, Rightful, JobNamed, GotRightful, BindRightful, NoStranger
  <2>14. ASSUME NEW e \in Emails, Login(e) PROVE NoStranger'
    BY <2>14, <1>1 DEF Login, upstream, people, pipe, binder, TypeOK, InHand, Grown, Rightful, JobNamed, GotRightful, BindRightful, NoStranger
  <2>15. CASE Drain
    BY <2>15, <1>1 DEF Drain, Open, Inserted, upstream, people, pipe, binder, TypeOK, InHand, Grown, Rightful, JobNamed, GotRightful, BindRightful, NoStranger
  <2>16. CASE Rebind
    BY <2>16, <1>1 DEF Rebind, upstream, people, pipe, binder, TypeOK, InHand, Grown, Rightful, JobNamed, GotRightful, BindRightful, NoStranger
  <2>17. CASE ReadRows
    BY <2>17, <1>1 DEF ReadRows, upstream, people, pipe, binder, TypeOK, InHand, Grown, Rightful, JobNamed, GotRightful, BindRightful, NoStranger
  <2>18. CASE WriteIndex
    BY <2>18, <1>1 DEF WriteIndex, Unbind, upstream, people, pipe, binder, TypeOK, InHand, Grown, Rightful, JobNamed, GotRightful, BindRightful, NoStranger
  <2>19. CASE BindFails
    BY <2>19, <1>1 DEF BindFails, Unbind, Fault, upstream, people, pipe, binder, TypeOK, InHand, Grown, Rightful, JobNamed, GotRightful, BindRightful, NoStranger
  <2>20. CASE UNCHANGED vars
    BY <2>20, <1>1 DEF vars, upstream, people, pipe, binder, TypeOK, InHand, Grown, Rightful, JobNamed, GotRightful, BindRightful, NoStranger
  <2>. QED
    BY <2>1, <2>2, <2>3, <2>4, <2>5, <2>6, <2>7, <2>8, <2>9, <2>10, <2>11, <2>12, <2>13, <2>14, <2>15, <2>16, <2>17, <2>18, <2>19, <2>20 DEF Next, Work, Bind
<1>. QED
  BY <1>2

LEMMA StrangerStep == TypeInv /\ StrangerInv /\ [Next]_vars => StrangerInv'
BY CacheStep, RecordedStep, JobStep, GotStep, BindStep, NoStrangerStep DEF StrangerInv

\* Nobody reads a document upstream never named them for, for any number of
\* processes, stale caches, failing calls and interleavings of pipelines with
\* bind_pending_drive_shares.
THEOREM OnlyNamedReaders == Spec => []NoStranger
<1>1. Init => TypeInv /\ StrangerInv
  BY TypeInit, StrangerInit
<1>2. (TypeInv /\ StrangerInv) /\ [Next]_vars => (TypeInv /\ StrangerInv)'
  BY TypeStep, StrangerStep
<1>3. StrangerInv => NoStranger
  BY DEF StrangerInv
<1>. QED
  BY <1>1, <1>2, <1>3, PTL DEF Spec

-----------------------------------------------------------------------------
(* The administrator sees every address.  An address of a file is on its way *)
(* (the file changed, or a process has it still to resolve), or is accounted *)
(* for; and no step but a bind of that very address, whose user exists by    *)
(* then, takes an open row away.                                             *)

\* Somebody holds the address, or the administrator's list has it.
Accounted(e) == e \in users \cup ghosts \/ \E x \in Docs : row[x][e] = "open"

\* A row is resolved only for a user.
Bound == \A d \in Docs, e \in Emails : row[d][e] = "resolved" => e \in users

\* Nothing is left to resolve once the entries are compiled.
Compiled == \A p \in Procs : pc[p] \in {"idle", "index"} => todo[p] = {}

\* A cached negative answer hides no address.
CacheAccounted == \A p \in Procs, e \in Emails : cache[p][e] = "pending" => Accounted(e)

\* A process has the address still to resolve.
Coming(d, e) == \E p \in Procs : pc[p] # "idle" /\ job[p] = d /\ e \in todo[p]

SharesAccounted == \A d \in Docs \ Mailbox : \A e \in perms[d] :
                      d \in stale \/ Coming(d, e) \/ Accounted(e)

AdminInv == Bound /\ Compiled /\ (faults = 0 => CacheAccounted /\ SharesAccounted)

\* Initially nothing is shared, queued or cached.
LEMMA AdminInit == Init => AdminInv
BY DEF Init, AdminInv, Bound, Compiled, CacheAccounted, SharesAccounted

\* No failure is forgotten.
LEMMA FaultsStay == ASSUME TypeOK, [Next]_vars PROVE faults' = 0 => faults = 0
<1>1. faults' = faults \/ Fault
  <2>1. ASSUME NEW p \in Procs, Work(p) PROVE faults' = faults \/ Fault
    BY <2>1 DEF Work, ResolveCached, ResolveFound, ResolveMiss, Mint, Queue, Replace, IndexDoc
  <2>2. CASE Bind \/ BindFails
    BY <2>2 DEF Bind, Drain, Rebind, ReadRows, WriteIndex, BindFails
  <2>. QED
    BY <2>1, <2>2 DEF Next, vars, Share, Unshare, Edit, Changed, Begin, Recycle, Invite, Login
<1>. QED
  BY <1>1 DEF Fault, TypeOK

\* A row changes when it is queued, or when a bind of its user resolves it.
LEMMA RowStep ==
  ASSUME TypeInv, StrangerInv, [Next]_vars, NEW d \in Docs, NEW e \in Emails
  PROVE  \/ row'[d][e] = row[d][e]
         \/ row[d][e] = "none" /\ row'[d][e] = "open"
         \/ row[d][e] = "open" /\ row'[d][e] = "resolved" /\ e \in users
<1>. USE DEF TypeInv, StrangerInv
<1>1. CASE Drain
  BY <1>1 DEF Drain, Open, TypeOK, BindRightful
<1>2. ASSUME NEW p \in Procs, Queue(p),
             row' = [row EXCEPT ![job[p]][hand[p]] = IF @ = "none" THEN "open" ELSE @]
      PROVE  row'[d][e] = row[d][e] \/ (row[d][e] = "none" /\ row'[d][e] = "open")
  BY <1>2 DEF Queue, TypeOK, InHand
<1>3. CASE row' = row
  BY <1>3
<1>4. row' = row \/ Drain \/ \E p \in Procs :
         /\ Queue(p)
         /\ row' = [row EXCEPT ![job[p]][hand[p]] = IF @ = "none" THEN "open" ELSE @]
  BY DEF Next, vars, Work, Bind, Share, Unshare, Edit, Changed, Begin, ResolveCached,
     ResolveFound, ResolveMiss, Mint, Queue, Replace, IndexDoc, Recycle, Invite, Login, Rebind,
     ReadRows, WriteIndex, BindFails
<1>. QED
  BY <1>1, <1>2, <1>3, <1>4

\* An address that is accounted for stays so.
LEMMA AccountedStays ==
  ASSUME TypeInv, StrangerInv, [Next]_vars, NEW e \in Emails, Accounted(e)
  PROVE  Accounted(e)'
BY RowStep, PeopleStay DEF Accounted, Grown

LEMMA BoundStep ==
  ASSUME TypeInv, StrangerInv, AdminInv, [Next]_vars PROVE Bound'
<1>. SUFFICES ASSUME NEW d \in Docs, NEW e \in Emails, row'[d][e] = "resolved" PROVE e \in users'
  BY DEF Bound
<1>1. row[d][e] = "resolved" => e \in users
  BY DEF AdminInv, Bound
<1>. QED
  BY <1>1, RowStep, PeopleStay DEF Grown

LEMMA CompiledStep ==
  ASSUME TypeInv, StrangerInv, AdminInv, [Next]_vars PROVE Compiled'
<1>. USE DEF TypeInv, AdminInv, Compiled, TypeOK
<1>1. ASSUME NEW p \in Procs, Work(p) PROVE Compiled'
  BY <1>1 DEF Work, ResolveCached, ResolveFound, ResolveMiss, Mint, Queue, Take, Replace, IndexDoc
<1>2. ASSUME NEW p \in Procs, NEW d \in Docs, Begin(p, d) PROVE Compiled'
  BY <1>2 DEF Begin
<1>3. CASE UNCHANGED pipe
  BY <1>3 DEF pipe
<1>4. UNCHANGED pipe \/ (\E p \in Procs : Work(p) \/ \E d \in Docs : Begin(p, d))
  BY DEF Next, vars, Bind, Share, Unshare, Edit, Changed, Recycle, Invite, Login, Drain, Rebind,
     ReadRows, WriteIndex, BindFails
<1>. QED
  BY <1>1, <1>2, <1>3, <1>4

\* The answer a process takes for an address accounts for it.
LEMMA TakenIsAccounted ==
  ASSUME TypeInv, StrangerInv, AdminInv, faults' = 0, faults = 0, NEW p \in Procs, NEW e \in Emails,
         \/ ResolveCached(p, e) \/ ResolveFound(p, e)
         \/ Queue(p) /\ e = hand[p]
  PROVE  Accounted(e)'
<1>. USE DEF TypeInv, AdminInv
<1>1. CASE ResolveCached(p, e)
  <2>1. cache[p][e] \in {"pending", "ghost", "user"} /\ UNCHANGED <<row, users, ghosts>>
    BY <1>1 DEF ResolveCached, TypeOK, people
  <2>. QED
    BY <2>1 DEF CacheAccounted, Accounted, StrangerInv, CacheKnown
<1>2. CASE ResolveFound(p, e)
  BY <1>2 DEF ResolveFound, Fault, TypeOK, Accounted, people
<1>3. CASE Queue(p) /\ e = hand[p]
  <2>1. /\ row' = [row EXCEPT ![job[p]][hand[p]] = IF @ = "none" THEN "open" ELSE @]
        /\ job[p] \in Docs /\ UNCHANGED <<users, ghosts>>
    BY <1>3 DEF Queue, Fault, TypeOK, InHand, people
  <2>2. row'[job[p]][e] = IF row[job[p]][e] = "none" THEN "open" ELSE row[job[p]][e]
    BY <1>3, <2>1 DEF TypeOK
  <2>3. row[job[p]][e] \in {"none", "open", "resolved"}
    BY <2>1 DEF TypeOK
  <2>4. row[job[p]][e] = "resolved" => e \in users
    BY <2>1 DEF Bound
  <2>. QED
    BY <2>1, <2>2, <2>3, <2>4 DEF Accounted
<1>. QED
  BY <1>1, <1>2, <1>3

LEMMA CacheAccountedStep ==
  ASSUME TypeInv, StrangerInv, AdminInv, faults' = 0, faults = 0, [Next]_vars
  PROVE  CacheAccounted'
<1>1. SUFFICES ASSUME NEW p \in Procs, NEW e \in Emails, cache'[p][e] = "pending"
               PROVE  Accounted(e)'
  BY DEF CacheAccounted
<1>2. CASE cache[p][e] = "pending"
  BY <1>2, AccountedStays DEF AdminInv, CacheAccounted
<1>3. CASE cache[p][e] # "pending"
  <2>1. CASE UNCHANGED cache
    BY <1>1, <1>3, <2>1
  <2>2. ASSUME NEW q \in Procs, Recycle(q) PROVE FALSE
    BY <1>1, <1>3, <2>2 DEF Recycle, TypeInv, TypeOK
  <2>3. ASSUME NEW q \in Procs, NEW f \in Emails, ResolveFound(q, f) PROVE FALSE
    BY <1>1, <1>3, <2>3 DEF ResolveFound, TypeInv, TypeOK
  <2>4. ASSUME NEW q \in Procs, Mint(q) PROVE FALSE
    BY <1>1, <1>3, <2>4 DEF Mint, Fault, TypeInv, TypeOK
  <2>5. ASSUME NEW q \in Procs, Queue(q) PROVE e = hand[q]
    BY <1>1, <1>3, <2>5 DEF Queue, TypeInv, TypeOK
  <2>6. \/ UNCHANGED cache
        \/ \E q \in Procs : Recycle(q) \/ Mint(q) \/ Queue(q) \/ \E f \in Emails : ResolveFound(q, f)
    BY DEF Next, vars, Work, Bind, BindFails, Share, Unshare, Edit, Changed, Begin, ResolveCached,
       ResolveMiss, Replace, IndexDoc, Invite, Login, Drain, Rebind, ReadRows, WriteIndex
  <2>. QED
    BY <2>1, <2>2, <2>3, <2>4, <2>5, <2>6, TakenIsAccounted
<1>. QED
  BY <1>2, <1>3

\* What a process has to resolve it keeps until it has taken an answer.
LEMMA ComingStep ==
  ASSUME TypeInv, AdminInv, faults' = 0, faults = 0, [Next]_vars,
         NEW d \in Docs \ Mailbox, NEW e \in Emails, Coming(d, e)
  PROVE  \/ Coming(d, e)'
         \/ \E p \in Procs : ResolveCached(p, e) \/ ResolveFound(p, e) \/ (Queue(p) /\ e = hand[p])
<1>. USE DEF TypeInv, TypeOK
<1>1. PICK p \in Procs : pc[p] # "idle" /\ job[p] = d /\ e \in todo[p]
  BY DEF Coming
<1>2. CASE pc'[p] # "idle" /\ job'[p] = job[p] /\ e \in todo'[p]
  BY <1>1, <1>2 DEF Coming
<1>3. CASE UNCHANGED pipe
  BY <1>1, <1>3 DEF Coming, pipe
<1>4. ASSUME NEW q \in Procs, Work(q), q # p PROVE pc'[p] # "idle" /\ job'[p] = job[p] /\ e \in todo'[p]
  BY <1>1, <1>4 DEF Work, ResolveCached, ResolveFound, ResolveMiss, Mint, Queue, Take, Replace, IndexDoc
<1>5. ASSUME NEW f \in Emails, f # e, ResolveCached(p, f) \/ ResolveFound(p, f) \/ ResolveMiss(p, f)
      PROVE  pc'[p] # "idle" /\ job'[p] = job[p] /\ e \in todo'[p]
  BY <1>1, <1>5 DEF ResolveCached, ResolveFound, ResolveMiss, Take
<1>6. CASE ResolveMiss(p, e)
  BY <1>1, <1>2, <1>6 DEF ResolveMiss
<1>7. CASE Queue(p)
  BY <1>1, <1>2, <1>7 DEF Queue, Take
<1>8. ~Mint(p) /\ ~Replace(p) /\ ~IndexDoc(p)
  BY <1>1 DEF Mint, Replace, IndexDoc, AdminInv, Compiled
<1>9. ASSUME NEW q \in Procs, NEW g \in Docs, Begin(q, g)
      PROVE  pc'[p] # "idle" /\ job'[p] = job[p] /\ e \in todo'[p]
  BY <1>1, <1>9 DEF Begin
<1>10. UNCHANGED pipe \/ (\E q \in Procs : Work(q) \/ \E g \in Docs : Begin(q, g))
  BY DEF Next, vars, Bind, Share, Unshare, Edit, Changed, Recycle, Invite, Login, Drain, Rebind,
     ReadRows, WriteIndex, BindFails
<1>11. CASE Work(p)
  BY <1>2, <1>5, <1>6, <1>7, <1>8, <1>11 DEF Work
<1>. QED
  BY <1>2, <1>3, <1>4, <1>9, <1>10, <1>11

LEMMA SharesStep ==
  ASSUME TypeInv, StrangerInv, AdminInv, faults' = 0, faults = 0, [Next]_vars
  PROVE  SharesAccounted'
<1>. SUFFICES ASSUME NEW d \in Docs \ Mailbox, NEW e \in perms'[d], d \notin stale'
              PROVE  Coming(d, e)' \/ Accounted(e)'
  BY DEF SharesAccounted
<1>1. e \in perms[d] /\ e \in Emails /\ (d \in stale => \E p \in Procs : Begin(p, d))
  <2>1. ASSUME NEW c \in Docs, NEW f \in Emails, Share(c, f) \/ Unshare(c, f) \/ Edit(c, f)
        PROVE  d \notin stale /\ d # c /\ perms'[d] = perms[d]
    BY <2>1 DEF Share, Unshare, Edit, Changed, TypeInv, TypeOK
  <2>2. ASSUME NEW p \in Procs, NEW c \in Docs, Begin(p, c)
        PROVE  perms' = perms /\ (d \in stale => c = d)
    BY <2>2 DEF Begin, upstream
  <2>3. \/ UNCHANGED <<perms, stale>>
        \/ \E c \in Docs, f \in Emails : Share(c, f) \/ Unshare(c, f) \/ Edit(c, f)
        \/ \E p \in Procs, c \in Docs : Begin(p, c)
    BY DEF Next, vars, upstream, Work, Bind, ResolveCached, ResolveFound, ResolveMiss, Mint, Queue,
       Replace, IndexDoc, Recycle, Invite, Login, Drain, Rebind, ReadRows, WriteIndex, BindFails
  <2>4. perms'[d] = perms[d] /\ perms[d] \subseteq Emails
    BY <2>1, <2>2, <2>3 DEF TypeInv, TypeOK
  <2>. QED
    BY <2>1, <2>2, <2>3, <2>4
<1>2. CASE d \in stale
  <2>1. PICK p \in Procs : Begin(p, d)
    BY <1>1, <1>2
  <2>2. pc'[p] # "idle" /\ job'[p] = d /\ e \in todo'[p]
    BY <1>1, <2>1 DEF Begin, TypeInv, TypeOK
  <2>. QED
    BY <2>2 DEF Coming
<1>3. CASE Coming(d, e)
  BY <1>1, <1>3, ComingStep, TakenIsAccounted
<1>4. CASE Accounted(e)
  BY <1>1, <1>4, AccountedStays
<1>. QED
  BY <1>1, <1>2, <1>3, <1>4 DEF AdminInv, SharesAccounted

LEMMA AdminStep ==
  ASSUME TypeInv, StrangerInv, AdminInv, [Next]_vars PROVE AdminInv'
BY FaultsStay, BoundStep, CompiledStep, CacheAccountedStep, SharesStep DEF AdminInv, TypeInv

\* The administrator's list names every address a Drive file is shared with
\* and nobody holds, once the pipelines have caught up and no call failed, for
\* any number of processes with stale negative answers.
THEOREM AdminSeesEveryAddress == Spec => []AdminSeesAddress
<1>1. Init => TypeInv /\ StrangerInv /\ AdminInv
  BY TypeInit, StrangerInit, AdminInit
<1>2. TypeInv /\ StrangerInv /\ AdminInv /\ [Next]_vars => (TypeInv /\ StrangerInv /\ AdminInv)'
  BY TypeStep, StrangerStep, AdminStep
<1>3. AdminInv => AdminSeesAddress
  BY DEF AdminInv, SharesAccounted, Coming, Accounted, AdminSeesAddress, Settled
<1>. QED
  BY <1>1, <1>2, <1>3, PTL DEF Spec

=============================================================================
