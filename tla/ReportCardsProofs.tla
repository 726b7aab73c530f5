------------------------- MODULE ReportCardsProofs --------------------------
(***************************************************************************)
(* Proofs about ReportCards, for any sets of cards, terms, decisions and    *)
(* family requests: the trail makes sense, families see what is published,  *)
(* and the decisions are taken one after the other on PublicationRegister.  *)
(***************************************************************************)
EXTENDS ReportCards, TLAPS

(* A decision that has read the current publication, or is about to, holds
   the lock of its term, and nobody else does. *)
Locking == \A d \in Decisions :
  /\ decision[d].stage \in {"locked", "appending"} <=> lock[TermFor(d)] = d
  /\ \A t \in Terms : lock[t] = d => t = TermFor(d)

(* What a decision has read still holds when it appends. *)
StillChanges == \A d \in Decisions : decision[d].stage = "appending" => Changes(d)

(* Every set of events has a latest one. *)
Ordered == \A S \in SUBSET DOMAIN trail : S # {} => \E i \in S : \A j \in S : j <= i

CardsIssued == \A d \in Decisions : decision[d].stage # "new" => decision[d].card \in issued

(* A family request under way has seen what holds now, and has seen the
   guardian linked. *)
Now == [linked |-> linked, shown |-> Shown]
Watching == \A f \in Families : family[f].stage = "granted" =>
              Now \in views[f] /\ \E v \in views[f] : v.linked

CardsInv == /\ TypeOK /\ Ordered /\ Locking /\ StillChanges /\ CardsIssued /\ TrailMakesSense
            /\ OneEventPerDecision /\ Watching /\ FamilySeesPublished

-----------------------------------------------------------------------------
(* What the family sees of an empty trail, and of a trail after an event. *)
LEMMA EmptyTrail == ASSUME trail = <<>>, NEW t PROVE Published(t) = None
  BY DEF Published, EventsOf

LEMMA LatestExists ==
  ASSUME TypeOK, Ordered, NEW S \in SUBSET DOMAIN trail, S # {}
  PROVE  Max(S) \in S
  <1>1. DOMAIN trail \in SUBSET Int
    BY DEF TypeOK
  <1>2. \E i \in S : \A j \in S : i >= j
    BY <1>1 DEF Ordered
  <1> QED
    BY <1>2 DEF Max

LEMMA EventFound == ASSUME TypeOK, Ordered, NEW t \in Terms, EventsOf(t) # {} PROVE Max(EventsOf(t)) \in EventsOf(t)
  BY LatestExists DEF EventsOf

LEMMA PublishedType == ASSUME TypeOK, Ordered, NEW t \in Terms PROVE Published(t) \in Cards \cup {None}
  <1>1. CASE EventsOf(t) = {}
    BY <1>1 DEF Published
  <1>2. CASE EventsOf(t) # {}
    <2>1. trail[Max(EventsOf(t))] \in Event
      BY <1>2, EventFound DEF TypeOK, EventsOf
    <2> QED
      BY <1>2, <2>1 DEF Published, Event
  <1> QED
    BY <1>1, <1>2

Grown(e) == trail' = Append(trail, e)

LEMMA OrderedGrows == ASSUME TypeOK, Ordered, NEW e \in Event, Grown(e) PROVE Ordered'
  <1> SUFFICES ASSUME NEW S \in SUBSET DOMAIN trail', S # {}
               PROVE  \E i \in S : \A j \in S : j <= i
    BY DEF Ordered
  <1>1. DOMAIN trail = 1..Len(trail) /\ DOMAIN trail' = 1..(Len(trail) + 1) /\ Len(trail) \in Nat
    BY DEF TypeOK, Grown
  <1>2. CASE Len(trail) + 1 \in S
    BY <1>1, <1>2
  <1>3. CASE Len(trail) + 1 \notin S
    <2>1. S \in SUBSET DOMAIN trail
      BY <1>1, <1>3
    <2> QED
      BY <2>1 DEF Ordered
  <1> QED
    BY <1>2, <1>3

LEMMA Grows ==
  ASSUME TypeOK, NEW e \in Event, Grown(e)
  PROVE  /\ DOMAIN trail = 1..Len(trail) /\ Len(trail) \in Nat
         /\ DOMAIN trail' = 1..(Len(trail) + 1)
         /\ \A i \in DOMAIN trail : trail'[i] = trail[i]
         /\ trail'[Len(trail) + 1] = e
  BY DEF TypeOK, Grown

LEMMA PublishedGrows ==
  ASSUME TypeOK, Ordered, NEW e \in Event, Grown(e), NEW t \in Terms
  PROVE  Published(t)' = IF e.term = t THEN e.card ELSE Published(t)
  <1> DEFINE n == Len(trail) + 1
  <1>1. CASE e.term = t
    <2>1. n \in EventsOf(t)' /\ \A j \in EventsOf(t)' : j <= n
      BY <1>1, Grows DEF EventsOf
    <2>2. EventsOf(t)' \in SUBSET Nat
      BY Grows DEF EventsOf
    <2>3. Max(EventsOf(t)') = n
      BY <2>1, <2>2, Grows DEF Max
    <2> QED
      BY <1>1, <2>1, <2>3, Grows DEF Published
  <1>2. CASE e.term # t
    <2>1. EventsOf(t)' = EventsOf(t)
      BY <1>2, Grows DEF EventsOf
    <2>2. Max(EventsOf(t)') = Max(EventsOf(t))
      BY <2>1 DEF Max
    <2>3. EventsOf(t) # {} => Max(EventsOf(t)) \in DOMAIN trail
      BY EventFound DEF EventsOf
    <2> QED
      BY <1>2, <2>1, <2>3, Grows DEF Published
  <1> QED
    BY <1>1, <1>2

(* The card before the new event is the one that was shown, the card before
   an old event stays what it was. *)
LEMMA PreviousGrows ==
  ASSUME TypeOK, Ordered, NEW e \in Event, Grown(e), NEW n, n = Len(trail) + 1
  PROVE  /\ Previous(n)' = Published(e.term)
         /\ \A i \in DOMAIN trail : Previous(i)' = Previous(i)
  <1>1. Previous(n)' = Published(e.term)
    <2>1. Before(n)' = EventsOf(e.term)
      <3>1. n - 1 = Len(trail) /\ trail'[n] = e
        BY Grows
      <3>2. \A j \in 1..(n - 1) : trail'[j] = trail[j]
        BY <3>1, Grows
      <3> QED
        BY <3>1, <3>2, Grows DEF Before, EventsOf
    <2>2. e.term \in Terms
      BY DEF Event
    <2>4. EventsOf(e.term) # {} => Max(EventsOf(e.term)) \in DOMAIN trail
      BY <2>2, EventFound DEF EventsOf
    <2> QED
      BY <2>1, <2>4, Grows DEF Previous, Published
  <1>2. ASSUME NEW i \in DOMAIN trail PROVE Previous(i)' = Previous(i)
    <2>1. Before(i)' = Before(i) /\ Before(i) \in SUBSET DOMAIN trail
      <3>1. \A j \in 1..(i - 1) : j \in DOMAIN trail
        BY Grows
      <3> QED
        BY <3>1, Grows DEF Before
    <2>2. Before(i) # {} => Max(Before(i)) \in Before(i)
      BY <2>1, LatestExists
    <2> QED
      BY <2>1, <2>2, Grows DEF Previous
  <1> QED
    BY <1>1, <1>2

-----------------------------------------------------------------------------
(* The initial state satisfies the invariant. *)
LEMMA InitKeeps == Init => CardsInv
  <1> SUFFICES ASSUME Init PROVE CardsInv
    OBVIOUS
  <1> USE DEF Init
  <1>1. TypeOK
    <2>1. decision \in [Decisions -> Decision]
      <3>1. [stage : {"new"}, action : {"publish", "withdraw"}, card : Cards] \subseteq Decision
        BY DEF Decision
      <3> QED
        BY <3>1
    <2>2. family \in [Families -> Family]
      <3>1. [stage : {"new"}, asks : Cards \cup {None}, shows : {{}}] \subseteq Family
        BY DEF Family
      <3> QED
        BY <3>1
    <2>3. relinked \in 0..Relinks
      BY RelinksAssumption
    <2>4. linked \in BOOLEAN
      OBVIOUS
    <2>5. trail \in Seq(Event)
      OBVIOUS
    <2> QED
      BY <2>1, <2>2, <2>3, <2>4, <2>5 DEF TypeOK
  <1>2. Ordered
    BY DEF Ordered
  <1>3. \A d \in Decisions : decision[d].stage = "new" /\ decision[d].card \in Cards
    OBVIOUS
  <1>4. \A d \in Decisions : TermFor(d) \in Terms /\ d # None
    BY <1>3, CardAssumption DEF TermFor
  <1>5. Locking /\ StillChanges /\ CardsIssued
    BY <1>3, <1>4 DEF Locking, StillChanges, CardsIssued
  <1>6. TrailMakesSense
    BY DEF TrailMakesSense
  <1>7. Shown = {}
    BY EmptyTrail, CardAssumption DEF Shown
  <1>8. OneEventPerDecision
    BY <1>3, <1>7 DEF OneEventPerDecision
  <1>9. Watching /\ FamilySeesPublished
    BY DEF Watching, FamilySeesPublished
  <1> QED
    BY <1>1, <1>2, <1>5, <1>6, <1>8, <1>9 DEF CardsInv

-----------------------------------------------------------------------------
(* Steps that leave the trail alone *)

(* What follows from an unchanged trail. *)
LEMMA SameTrail ==
  ASSUME UNCHANGED trail
  PROVE  /\ \A t : Published(t)' = Published(t)
         /\ Shown' = Shown
         /\ \A i : Previous(i)' = Previous(i)
         /\ Ordered => Ordered'
  BY DEF Published, EventsOf, Shown, Previous, Before, Ordered

LEMMA TrailBy == ASSUME TypeOK, NEW i \in DOMAIN trail PROVE trail[i] \in Event /\ trail[i].by \in Decisions
  <1>1. trail[i] \in Event
    BY DEF TypeOK
  <1> QED
    BY <1>1 DEF Event

(* A step of one decision that leaves the trail alone, from one of its stages
   to another, keeps what is said about the trail and the families if it does
   not come from or lead to a "yes". *)
LEMMA DecisionStep ==
  ASSUME CardsInv, NEW d \in Decisions, NEW s \in {"waiting", "locked", "appending", "no", "failed"},
         decision' = [decision EXCEPT ![d].stage = s], decision[d].stage \notin {"yes", "no", "failed"},
         UNCHANGED <<issued, trail, familyVars, views>>
  PROVE  /\ decision' \in [Decisions -> Decision]
         /\ \A e \in Decisions : /\ decision'[e].action = decision[e].action
                                 /\ decision'[e].card = decision[e].card
                                 /\ e # d => decision'[e] = decision[e]
         /\ decision'[d].stage = s
         /\ Ordered' /\ TrailMakesSense' /\ OneEventPerDecision' /\ Watching' /\ FamilySeesPublished'
  <1>1. decision' \in [Decisions -> Decision]
    BY DEF CardsInv, TypeOK, Decision
  <1>2. /\ \A e \in Decisions : /\ decision'[e].action = decision[e].action
                                /\ decision'[e].card = decision[e].card
                                /\ e # d => decision'[e] = decision[e]
        /\ decision'[d].stage = s
    BY DEF CardsInv, TypeOK, Decision
  <1>3. Ordered'
    BY SameTrail DEF CardsInv
  <1>4. \A i \in DOMAIN trail : trail[i].by \in Decisions
    BY TrailBy DEF CardsInv
  <1>5. TrailMakesSense'
    BY <1>2, <1>4, SameTrail DEF CardsInv, TrailMakesSense
  <1>6. OneEventPerDecision'
    <2>1. (Shown \subseteq issued)'
      BY SameTrail DEF CardsInv, OneEventPerDecision
    <2>2. \A e \in Decisions : decision'[e].stage = "yes" <=> decision[e].stage = "yes"
      BY <1>2
    <2> QED
      BY <2>1, <2>2 DEF CardsInv, OneEventPerDecision
  <1>7. Now' = Now
    BY SameTrail DEF Now, familyVars
  <1>8. Watching' /\ FamilySeesPublished'
    BY <1>7 DEF CardsInv, Watching, FamilySeesPublished, familyVars
  <1> QED
    BY <1>1, <1>2, <1>3, <1>5, <1>6, <1>8

LEMMA AskKeeps == ASSUME CardsInv, NEW d \in Decisions, Ask(d) PROVE CardsInv'
  <1>1. decision' = [decision EXCEPT ![d].stage = "waiting"] /\ decision[d].stage = "new"
        /\ decision[d].card \in issued /\ UNCHANGED <<issued, trail, lock, familyVars, views>>
    BY DEF Ask, Goto
  <1>2. Locking'
    BY <1>1, DecisionStep DEF CardsInv, Locking, TermFor
  <1>3. StillChanges' /\ CardsIssued'
    BY <1>1, DecisionStep, SameTrail DEF CardsInv, StillChanges, CardsIssued, Changes, TermFor
  <1>4. TypeOK'
    BY <1>1, DecisionStep DEF CardsInv, TypeOK, familyVars
  <1> QED
    BY <1>1, <1>2, <1>3, <1>4, DecisionStep DEF CardsInv

LEMMA LockKeeps == ASSUME CardsInv, NEW d \in Decisions, Lock(d) PROVE CardsInv'
  <1>1. decision' = [decision EXCEPT ![d].stage = "locked"] /\ decision[d].stage = "waiting"
        /\ lock' = [lock EXCEPT ![TermFor(d)] = d] /\ lock[TermFor(d)] = None
        /\ UNCHANGED <<issued, trail, familyVars, views>>
    BY DEF Lock, Goto
  <1>2. \A e \in Decisions : TermFor(e) \in Terms /\ e # None /\ TermFor(e)' = TermFor(e)
    BY <1>1, DecisionStep, CardAssumption DEF CardsInv, TypeOK, Decision, TermFor
  <1>3. lock' \in [Terms -> Decisions \cup {None}]
    BY <1>1, <1>2 DEF CardsInv, TypeOK
  <1>4. Locking'
    BY <1>1, <1>2, DecisionStep DEF CardsInv, Locking, TypeOK
  <1>5. StillChanges' /\ CardsIssued'
    BY <1>1, DecisionStep, SameTrail DEF CardsInv, StillChanges, CardsIssued, Changes, TermFor
  <1>6. TypeOK'
    BY <1>1, <1>3, DecisionStep DEF CardsInv, TypeOK, familyVars
  <1> QED
    BY <1>1, <1>4, <1>5, <1>6, DecisionStep DEF CardsInv

(* A decision that ends gives back its lock. *)
LEMMA Unlocking ==
  ASSUME CardsInv, NEW d \in Decisions, Unlock(d), decision' \in [Decisions -> Decision],
         \A e \in Decisions : /\ decision'[e].card = decision[e].card
                              /\ e # d => decision'[e] = decision[e],
         decision'[d].stage \notin {"locked", "appending"}
  PROVE  lock' \in [Terms -> Decisions \cup {None}] /\ Locking'
  <1>1. \A e \in Decisions : TermFor(e) \in Terms /\ e # None /\ TermFor(e)' = TermFor(e)
    BY CardAssumption DEF CardsInv, TypeOK, Decision, TermFor
  <1>2. lock' \in [Terms -> Decisions \cup {None}]
    BY DEF CardsInv, TypeOK, Unlock
  <1>3. Locking'
    BY <1>1 DEF CardsInv, TypeOK, Locking, Unlock
  <1> QED
    BY <1>2, <1>3

LEMMA ReadCurrentKeeps == ASSUME CardsInv, NEW d \in Decisions, ReadCurrent(d) PROVE CardsInv'
  <1>1. decision[d].stage = "locked" /\ UNCHANGED <<issued, trail, familyVars, views>>
    BY DEF ReadCurrent
  <1>2. CASE Changes(d)
    <2>1. decision' = [decision EXCEPT ![d].stage = "appending"] /\ UNCHANGED lock
      BY <1>2 DEF ReadCurrent, Goto
    <2>2. Locking'
      BY <1>1, <2>1, DecisionStep DEF CardsInv, Locking, TermFor
    <2>3. StillChanges' /\ CardsIssued'
      BY <1>1, <1>2, <2>1, DecisionStep, SameTrail DEF CardsInv, StillChanges, CardsIssued, Changes, TermFor
    <2>4. TypeOK'
      BY <1>1, <2>1, DecisionStep DEF CardsInv, TypeOK, familyVars
    <2> QED
      BY <1>1, <2>1, <2>2, <2>3, <2>4, DecisionStep DEF CardsInv
  <1>3. CASE ~Changes(d)
    <2>1. decision' = [decision EXCEPT ![d].stage = "no"] /\ Unlock(d)
      BY <1>3 DEF ReadCurrent, Goto
    <2>2. lock' \in [Terms -> Decisions \cup {None}] /\ Locking'
      BY <1>1, <2>1, DecisionStep, Unlocking
    <2>3. StillChanges' /\ CardsIssued'
      BY <1>1, <2>1, DecisionStep, SameTrail DEF CardsInv, StillChanges, CardsIssued, Changes, TermFor
    <2>4. TypeOK'
      BY <1>1, <2>1, <2>2, DecisionStep DEF CardsInv, TypeOK, familyVars
    <2> QED
      BY <1>1, <2>1, <2>2, <2>3, <2>4, DecisionStep DEF CardsInv
  <1> QED
    BY <1>2, <1>3

LEMMA FailKeeps == ASSUME CardsInv, NEW d \in Decisions, Fail(d) PROVE CardsInv'
  <1>1. /\ decision[d].stage \in {"waiting", "locked", "appending"}
        /\ decision' = [decision EXCEPT ![d].stage = "failed"] /\ Unlock(d)
        /\ UNCHANGED <<issued, trail, familyVars, views>>
    BY DEF Fail, Goto
  <1>2. lock' \in [Terms -> Decisions \cup {None}] /\ Locking'
    BY <1>1, DecisionStep, Unlocking
  <1>3. StillChanges' /\ CardsIssued'
    BY <1>1, DecisionStep, SameTrail DEF CardsInv, StillChanges, CardsIssued, Changes, TermFor
  <1>4. TypeOK'
    BY <1>1, <1>2, DecisionStep DEF CardsInv, TypeOK, familyVars
  <1> QED
    BY <1>1, <1>2, <1>3, <1>4, DecisionStep DEF CardsInv

LEMMA IssueKeeps == ASSUME CardsInv, NEW c \in Cards, Issue(c) PROVE CardsInv'
  <1>1. issued' = issued \cup {c} /\ UNCHANGED <<trail, lock, decision, familyVars, views>>
    BY DEF Issue
  <1>2. TypeOK'
    BY <1>1 DEF CardsInv, TypeOK, familyVars
  <1>3. Locking' /\ StillChanges' /\ CardsIssued'
    BY <1>1, SameTrail DEF CardsInv, Locking, StillChanges, Changes, CardsIssued, TermFor
  <1>4. TrailMakesSense'
    BY <1>1, SameTrail DEF CardsInv, TrailMakesSense
  <1>5. OneEventPerDecision'
    BY <1>1, SameTrail DEF CardsInv, OneEventPerDecision
  <1>6. Watching' /\ FamilySeesPublished'
    BY <1>1, SameTrail DEF CardsInv, Watching, Now, FamilySeesPublished, familyVars
  <1> QED
    BY <1>1, <1>2, <1>3, <1>4, <1>5, <1>6, SameTrail DEF CardsInv

-----------------------------------------------------------------------------
(* Steps that the families watch *)

(* A step that only tells the families what holds now. *)
LEMMA WatchStep ==
  ASSUME CardsInv, TypeOK', Watch, UNCHANGED family
  PROVE  Watching' /\ FamilySeesPublished'
  <1>1. \A f \in Families : /\ views'[f] = IF family[f].stage = "granted" THEN views[f] \cup {Now'} ELSE views[f]
                            /\ family'[f] = family[f]
    BY DEF Watch, Now
  <1>2. Watching'
    BY <1>1 DEF CardsInv, Watching
  <1>3. FamilySeesPublished'
    BY <1>1 DEF CardsInv, FamilySeesPublished
  <1> QED
    BY <1>2, <1>3

LEMMA WatchType ==
  ASSUME TypeOK, linked' \in BOOLEAN, Watch
  PROVE  views' \in [Families -> SUBSET View]
  <1>1. Now' \in View
    BY DEF Now, View, Shown
  <1>2. views' = [f \in Families |-> IF family'[f].stage = "granted" \/ family[f].stage = "granted"
                                     THEN views[f] \cup {Now'} ELSE views[f]]
    BY DEF Watch, Now
  <1> QED
    BY <1>1, <1>2 DEF TypeOK

LEMMA RelationshipKeeps == ASSUME CardsInv, Revoke \/ Relink PROVE CardsInv'
  <1>1. UNCHANGED <<issued, trail, lock, decision, family>> /\ Watch
    BY DEF Revoke, Relink, publicationVars
  <1>2. linked' \in BOOLEAN /\ relinked' \in 0..Relinks
    <2>1. linked' \in BOOLEAN
      BY DEF Revoke, Relink
    <2>2. relinked \in 0..Relinks
      BY DEF CardsInv, TypeOK
    <2>3. relinked' = relinked \/ (relinked < Relinks /\ relinked' = relinked + 1)
      BY DEF Revoke, Relink
    <2>4. relinked' \in 0..Relinks
      BY <2>2, <2>3, RelinksAssumption
    <2> QED
      BY <2>1, <2>4
  <1>3. TypeOK'
    BY <1>1, <1>2, WatchType DEF CardsInv, TypeOK
  <1>4. Locking' /\ StillChanges' /\ CardsIssued'
    BY <1>1, SameTrail DEF CardsInv, Locking, StillChanges, Changes, CardsIssued, TermFor
  <1>5. TrailMakesSense' /\ OneEventPerDecision'
    BY <1>1, SameTrail DEF CardsInv, TrailMakesSense, OneEventPerDecision
  <1> QED
    BY <1>1, <1>3, <1>4, <1>5, SameTrail, WatchStep DEF CardsInv

LEMMA AskAccessKeeps == ASSUME CardsInv, NEW f \in Families, AskAccess(f) PROVE CardsInv'
  <1>1. UNCHANGED <<issued, trail, lock, decision, linked, relinked>> /\ Watch
    BY DEF AskAccess, publicationVars
  <1>2. family' = [family EXCEPT ![f].stage = IF linked THEN "granted" ELSE "refused"]
    BY DEF AskAccess
  <1>3. TypeOK'
    <2>1. PICK s \in {"granted", "refused"} : family' = [family EXCEPT ![f].stage = s]
      BY <1>2
    <2>2. family' \in [Families -> Family]
      BY <2>1 DEF CardsInv, TypeOK, Family
    <2> QED
      BY <1>1, <2>2, WatchType DEF CardsInv, TypeOK
  <1>4. Locking' /\ StillChanges' /\ CardsIssued'
    BY <1>1, SameTrail DEF CardsInv, Locking, StillChanges, Changes, CardsIssued, TermFor
  <1>5. TrailMakesSense' /\ OneEventPerDecision'
    BY <1>1, SameTrail DEF CardsInv, TrailMakesSense, OneEventPerDecision
  <1>6. Now' = Now
    BY <1>1, SameTrail DEF Now
  <1>7. \A g \in Families : views'[g] = IF family'[g].stage = "granted" \/ family[g].stage = "granted"
                                        THEN views[g] \cup {Now} ELSE views[g]
    BY <1>1, <1>6 DEF Watch, Now
  <1>8. \A g \in Families : g # f => family'[g] = family[g]
    BY <1>2 DEF CardsInv, TypeOK
  <1>9. family'[f].stage = IF linked THEN "granted" ELSE "refused"
    BY <1>2 DEF CardsInv, TypeOK, Family
  <1>10. Watching'
    <2>1. ASSUME NEW g \in Families, family'[g].stage = "granted"
          PROVE  Now' \in views'[g] /\ \E v \in views'[g] : v.linked
      <3>1. CASE g = f
        <4>1. Now.linked
          BY <1>9, <2>1, <3>1 DEF Now
        <4> QED
          BY <1>6, <1>7, <2>1, <4>1
      <3>2. CASE g # f
        BY <1>6, <1>7, <1>8, <2>1, <3>2 DEF CardsInv, Watching
      <3> QED
        BY <3>1, <3>2
    <2> QED
      BY <2>1 DEF Watching
  <1>11. FamilySeesPublished'
    <2>1. \A g \in Families : /\ family'[g].stage = "answered" => family'[g] = family[g]
                              /\ views[g] \subseteq views'[g]
      BY <1>7, <1>8, <1>9
    <2> QED
      BY <2>1 DEF CardsInv, FamilySeesPublished
  <1> QED
    BY <1>1, <1>3, <1>4, <1>5, <1>10, <1>11, SameTrail DEF CardsInv

LEMMA ShowKeeps == ASSUME CardsInv, NEW f \in Families, Show(f) PROVE CardsInv'
  <1>1. UNCHANGED <<issued, trail, lock, decision, linked, relinked>> /\ Watch /\ family[f].stage = "granted"
    BY DEF Show, publicationVars
  <1> DEFINE shows == {c \in Shown : family[f].asks \in {c, None}}
  <1>2. family' = [family EXCEPT ![f].stage = "answered", ![f].shows = shows]
    BY DEF Show
  <1>3. TypeOK'
    <2>1. PICK cards \in SUBSET Cards : cards = shows
      BY DEF Shown
    <2> HIDE DEF shows
    <2>2. family' \in [Families -> Family]
      <3>1. family \in [Families -> Family] /\ cards \in SUBSET Cards
        BY <2>1 DEF CardsInv, TypeOK
      <3>2. [family[f] EXCEPT !.stage = "answered"] \in Family
        BY <3>1 DEF Family
      <3>3. PICK r \in Family : r = [[family[f] EXCEPT !.stage = "answered"] EXCEPT !.shows = cards]
        BY <3>1, <3>2 DEF Family
      <3>4. family' = [family EXCEPT ![f] = r]
        BY <1>2, <2>1, <3>1, <3>3
      <3> QED
        BY <3>1, <3>4
    <2> QED
      BY <1>1, <2>2, WatchType DEF CardsInv, TypeOK
  <1>4. Locking' /\ StillChanges' /\ CardsIssued'
    BY <1>1, SameTrail DEF CardsInv, Locking, StillChanges, Changes, CardsIssued, TermFor
  <1>5. TrailMakesSense' /\ OneEventPerDecision'
    BY <1>1, SameTrail DEF CardsInv, TrailMakesSense, OneEventPerDecision
  <1>6. Now' = Now
    BY <1>1, SameTrail DEF Now
  <1>7. \A g \in Families : views'[g] = IF family'[g].stage = "granted" \/ family[g].stage = "granted"
                                        THEN views[g] \cup {Now} ELSE views[g]
    BY <1>1, <1>6 DEF Watch, Now
  <1>8. \A g \in Families : g # f => family'[g] = family[g]
    BY <1>2 DEF CardsInv, TypeOK
  <1>9. family'[f].stage = "answered" /\ family'[f].asks = family[f].asks /\ family'[f].shows = shows
    BY <1>2 DEF CardsInv, TypeOK, Family
  <1>10. Watching'
    BY <1>6, <1>7, <1>8, <1>9 DEF CardsInv, Watching
  <1>11. FamilySeesPublished'
    <2>1. ASSUME NEW g \in Families, family'[g].stage = "answered"
          PROVE  /\ \E v \in views'[g] : v.linked
                 /\ \E v \in views'[g] : IF family'[g].asks = None THEN family'[g].shows = v.shown
                                                                   ELSE family'[g].shows \subseteq v.shown
      <3>1. CASE g = f
        <4>1. views'[f] = views[f] \cup {Now} /\ Now.shown = Shown
          BY <1>1, <1>7 DEF Now
        <4>2. \E v \in views[f] : v.linked
          BY <1>1 DEF CardsInv, Watching
        <4>3. IF family'[f].asks = None THEN family'[f].shows = Now.shown ELSE family'[f].shows \subseteq Now.shown
          BY <1>9, <4>1
        <4> QED
          BY <3>1, <4>1, <4>2, <4>3
      <3>2. CASE g # f
        BY <1>7, <1>8, <2>1, <3>2 DEF CardsInv, FamilySeesPublished
      <3> QED
        BY <3>1, <3>2
    <2> QED
      BY <2>1 DEF FamilySeesPublished
  <1> QED
    BY <1>1, <1>3, <1>4, <1>5, <1>10, <1>11, SameTrail DEF CardsInv

-----------------------------------------------------------------------------
(* The event of a decision *)

LEMMA AppendKeeps == ASSUME CardsInv, NEW d \in Decisions, AppendEvent(d) PROVE CardsInv'
  <1> DEFINE e == [term |-> TermFor(d), by |-> d,
                   card |-> IF decision[d].action = "publish" THEN decision[d].card ELSE None]
             n == Len(trail) + 1
  <1>1. /\ decision[d].stage = "appending" /\ trail' = Append(trail, e) /\ Unlock(d)
        /\ decision' = [decision EXCEPT ![d].stage = "yes"]
        /\ UNCHANGED <<issued, familyVars>> /\ Watch
    BY DEF AppendEvent, Goto
  <1>2. decision[d].card \in Cards /\ decision[d].action \in {"publish", "withdraw"} /\ TermFor(d) \in Terms
    BY CardAssumption DEF CardsInv, TypeOK, Decision, TermFor
  <1>3. e \in Event
    BY <1>2 DEF Event
  <1>4. /\ decision' \in [Decisions -> Decision]
        /\ \A f \in Decisions : /\ decision'[f].action = decision[f].action
                                /\ decision'[f].card = decision[f].card
                                /\ f # d => decision'[f] = decision[f]
        /\ decision'[d].stage = "yes"
    BY <1>1 DEF CardsInv, TypeOK, Decision
  <1>5. lock' \in [Terms -> Decisions \cup {None}] /\ Locking'
    BY <1>1, <1>4, Unlocking
  <1>6. TypeOK'
    <2>1. trail' \in Seq(Event)
      BY <1>1, <1>3 DEF CardsInv, TypeOK
    <2>2. linked' \in BOOLEAN
      BY <1>1 DEF CardsInv, TypeOK, familyVars
    <2>3. views' \in [Families -> SUBSET View]
      BY <1>1, <2>2, WatchType DEF CardsInv
    <2> QED
      BY <1>1, <1>4, <1>5, <2>1, <2>3 DEF CardsInv, TypeOK, familyVars
  <1>7. PICK ev \in Event : ev = e
    BY <1>3
  <1>8. Grown(ev) /\ Ordered /\ TypeOK
    BY <1>1, <1>7 DEF Grown, CardsInv
  <1>9. /\ \A t \in Terms : Published(t)' = IF e.term = t THEN e.card ELSE Published(t)
        /\ Ordered'
    BY <1>7, <1>8, PublishedGrows, OrderedGrows
  <1>10. StillChanges'
    <2>1. ASSUME NEW f \in Decisions, decision'[f].stage = "appending"
          PROVE  Changes(f)'
      <3>1. f # d /\ decision[f].stage = "appending"
        BY <1>4, <2>1
      <3>2. lock[TermFor(f)] = f /\ lock[TermFor(d)] = d
        BY <1>1, <3>1 DEF CardsInv, Locking
      <3>3. TermFor(f) # TermFor(d) /\ TermFor(f) \in Terms /\ TermFor(f)' = TermFor(f)
        BY <1>4, <3>1, <3>2, CardAssumption DEF CardsInv, TypeOK, Decision, TermFor
      <3>4. PICK t \in Terms : t = TermFor(f)
        BY <3>3
      <3>5. Published(t)' = Published(t) /\ TermFor(f)' = t
        BY <1>9, <3>3, <3>4
      <3>6. Changes(f)
        BY <3>1 DEF CardsInv, StillChanges
      <3> QED
        BY <1>4, <3>4, <3>5, <3>6 DEF Changes
    <2> QED
      BY <2>1 DEF StillChanges
  <1>11. CardsIssued'
    BY <1>1, <1>4 DEF CardsInv, CardsIssued
  <1>12. Changes(d)
    BY <1>1 DEF CardsInv, StillChanges
  <1>13. TrailMakesSense'
    <2>1. ASSUME NEW i \in DOMAIN trail'
          PROVE  /\ (trail[i].card # Previous(i))'
                 /\ trail'[i].card = None => /\ (Previous(i) = decision[trail[i].by].card)'
                                             /\ decision'[trail'[i].by].action = "withdraw"
                 /\ trail'[i].card # None => /\ trail'[i].card = decision'[trail'[i].by].card
                                             /\ decision'[trail'[i].by].action = "publish"
      <3>1. CASE i \in DOMAIN trail
        <4>1. trail'[i] = trail[i] /\ Previous(i)' = Previous(i)
          BY <1>8, <3>1, Grows, PreviousGrows
        <4>2. trail[i].by \in Decisions
          BY <1>8, <3>1, TrailBy
        <4> QED
          BY <1>4, <3>1, <4>1, <4>2 DEF CardsInv, TrailMakesSense
      <3>2. CASE i \notin DOMAIN trail
        <4>1. i = Len(trail) + 1 /\ trail'[i] = ev
          BY <1>8, <3>2, Grows
        <4>2. Previous(i)' = Published(TermFor(d))
          BY <1>7, <1>8, <4>1, PreviousGrows
        <4>3. trail'[i].by = d /\ trail'[i].card = IF decision[d].action = "publish" THEN decision[d].card ELSE None
          BY <1>7, <4>1
        <4> QED
          BY <1>2, <1>4, <1>12, <4>2, <4>3, CardAssumption DEF Changes
      <3> QED
        BY <3>1, <3>2
    <2> QED
      BY <2>1 DEF TrailMakesSense
  <1>14. OneEventPerDecision'
    <2>1. (Shown \subseteq issued)'
      <3>1. ASSUME NEW c \in Cards, Published(TermOf[c])' = c
            PROVE  c \in issued
        <4>1. TermOf[c] \in Terms
          BY CardAssumption
        <4>2. CASE TermFor(d) = TermOf[c]
          <5>1. c = e.card
            BY <1>9, <3>1, <4>1, <4>2
          <5>2. decision[d].card \in issued /\ c # None
            BY <1>1, CardAssumption DEF CardsInv, CardsIssued
          <5> QED
            BY <5>1, <5>2
        <4>3. CASE TermFor(d) # TermOf[c]
          <5>1. Published(TermOf[c]) = c
            BY <1>9, <3>1, <4>1, <4>3
          <5> QED
            BY <5>1 DEF CardsInv, OneEventPerDecision, Shown
        <4> QED
          BY <4>2, <4>3
      <3> QED
        BY <1>1, <3>1 DEF Shown
    <2>2. /\ DOMAIN trail' = DOMAIN trail \cup {n} /\ n \notin DOMAIN trail
          /\ trail'[n].by = d
          /\ \A i \in DOMAIN trail : trail'[i].by = trail[i].by
      <3>1. DOMAIN trail' = DOMAIN trail \cup {n} /\ n \notin DOMAIN trail
        <4>1. DOMAIN trail = 1..Len(trail) /\ Len(trail) \in Nat /\ DOMAIN trail' = 1..n
          BY <1>8, Grows
        <4>2. 1..n = (1..Len(trail)) \cup {n} /\ n \notin 1..Len(trail)
          BY <4>1
        <4> QED
          BY <4>1, <4>2
      <3>2. trail'[n] = ev /\ \A i \in DOMAIN trail : trail'[i] = trail[i]
        BY <1>8, Grows
      <3> QED
        BY <1>7, <3>1, <3>2
    <2>3. \A i \in DOMAIN trail : trail[i].by # d
      BY <1>1 DEF CardsInv, OneEventPerDecision
    <2> HIDE DEF n
    <2>4. \A f \in Decisions : {i \in DOMAIN trail' : trail'[i].by = f} # {} <=> decision'[f].stage = "yes"
      <3>1. ASSUME NEW f \in Decisions, f # d
            PROVE  {i \in DOMAIN trail' : trail'[i].by = f} = {i \in DOMAIN trail : trail[i].by = f}
        BY <2>2, <3>1
      <3> QED
        BY <1>4, <2>2, <3>1 DEF CardsInv, OneEventPerDecision
    <2>5. \A i, j \in DOMAIN trail' : trail'[i].by = trail'[j].by => i = j
      BY <2>2, <2>3 DEF CardsInv, OneEventPerDecision
    <2> QED
      BY <2>1, <2>4, <2>5 DEF OneEventPerDecision
  <1>15. Watching' /\ FamilySeesPublished'
    BY <1>1, <1>6, WatchStep DEF familyVars
  <1> QED
    BY <1>5, <1>6, <1>9, <1>10, <1>11, <1>13, <1>14, <1>15 DEF CardsInv

LEMMA NextKeeps == CardsInv /\ [Next]_vars => CardsInv'
  <1> SUFFICES ASSUME CardsInv, [Next]_vars PROVE CardsInv'
    OBVIOUS
  <1>1. CASE UNCHANGED vars
    <2>1. UNCHANGED <<issued, trail, lock, decision, linked, relinked, family, views>>
      BY <1>1 DEF vars, publicationVars, familyVars
    <2>2. TypeOK' /\ Locking' /\ StillChanges' /\ CardsIssued'
      BY <2>1, SameTrail DEF CardsInv, TypeOK, Locking, StillChanges, Changes, CardsIssued, TermFor
    <2>3. TrailMakesSense' /\ OneEventPerDecision'
      BY <2>1, SameTrail DEF CardsInv, TrailMakesSense, OneEventPerDecision
    <2>4. Watching' /\ FamilySeesPublished'
      BY <2>1, SameTrail DEF CardsInv, Watching, Now, FamilySeesPublished
    <2> QED
      BY <2>1, <2>2, <2>3, <2>4, SameTrail DEF CardsInv
  <1>2. CASE Next
    BY <1>2, IssueKeeps, AskKeeps, LockKeeps, ReadCurrentKeeps, AppendKeeps, FailKeeps, AskAccessKeeps,
       ShowKeeps, RelationshipKeeps DEF Next, Decide, Read
  <1> QED
    BY <1>1, <1>2

-----------------------------------------------------------------------------
(* Every reachable state satisfies the inductive invariant. *)
THEOREM Invariance == Spec => []CardsInv
  BY InitKeeps, NextKeeps, PTL DEF Spec

(* Cards, events, locks, decisions and family requests have their types. *)
THEOREM TypeCorrect == Spec => []TypeOK
  BY Invariance, PTL DEF CardsInv

(* Each event changes what the family sees, and a withdrawal withdraws the
   card it was asked for. *)
THEOREM TrailMakesSenseAlways == Spec => []TrailMakesSense
  BY Invariance, PTL DEF CardsInv

(* The family sees issued cards only, and a decision that succeeded is in the
   trail exactly once. *)
THEOREM OneEventPerDecisionAlways == Spec => []OneEventPerDecision
  BY Invariance, PTL DEF CardsInv

(* What a family is given was published at one moment of its request, at some
   moment of which the guardian was linked. *)
THEOREM FamilySeesPublishedAlways == Spec => []FamilySeesPublished
  BY Invariance, PTL DEF CardsInv


-----------------------------------------------------------------------------
(* The refinement: appending an event accepts, finding nothing to change
   refuses, and every other step leaves the register and its answers alone. *)
asks   == [d \in Decisions |-> [action |-> decision[d].action, card |-> decision[d].card]]
shown  == [t \in Terms |-> Published(t)]
answer == [d \in Decisions |-> IF decision[d].stage \in {"yes", "no"} THEN decision[d].stage ELSE "none"]

LEMMA RegisterStarts == Init => Register!RegisterInit
  <1> SUFFICES ASSUME Init PROVE Register!RegisterInit
    OBVIOUS
  <1>1. \A d \in Decisions : /\ decision[d].stage = "new" /\ decision[d].action \in {"publish", "withdraw"}
                             /\ decision[d].card \in Cards
    BY DEF Init
  <1>2. asks \in [Decisions -> [action : {"publish", "withdraw"}, card : Cards]]
    BY <1>1 DEF asks
  <1>3. shown = [t \in Terms |-> None]
    BY EmptyTrail DEF Init, shown
  <1>4. answer = [d \in Decisions |-> "none"]
    BY <1>1 DEF answer
  <1> QED
    BY <1>2, <1>3, <1>4 DEF Register!RegisterInit, asks, shown, answer

(* A step that gives no answer and leaves the trail alone is none of the
   register. *)
LEMMA Silent ==
  ASSUME CardsInv, UNCHANGED trail,
         \A d \in Decisions : /\ decision'[d].action = decision[d].action /\ decision'[d].card = decision[d].card
                              /\ decision'[d].stage = decision[d].stage
                                 \/ {decision[d].stage, decision'[d].stage} \cap {"yes", "no"} = {}
  PROVE  UNCHANGED Register!rvars
  <1>1. asks' = asks
    BY DEF asks
  <1>2. shown' = shown
    BY SameTrail DEF shown
  <1>3. answer' = answer
    BY DEF answer
  <1> QED
    BY <1>1, <1>2, <1>3 DEF Register!rvars, asks, shown, answer

(* The answer of one decision. *)
LEMMA Answers ==
  ASSUME CardsInv, NEW d \in Decisions, NEW s \in {"yes", "no"}, decision' = [decision EXCEPT ![d].stage = s],
         decision[d].stage \in {"locked", "appending"}
  PROVE  asks' = asks /\ answer' = [answer EXCEPT ![d] = s] /\ answer[d] = "none"
  <1>1. \A e \in Decisions : /\ decision'[e].action = decision[e].action /\ decision'[e].card = decision[e].card
                             /\ decision'[e].stage = IF e = d THEN s ELSE decision[e].stage
    BY DEF CardsInv, TypeOK, Decision
  <1>2. asks' = asks
    BY <1>1 DEF asks
  <1>3. answer' = [e \in Decisions |-> IF e = d THEN s ELSE answer[e]]
    BY <1>1 DEF answer
  <1>4. answer[d] = "none"
    BY DEF answer
  <1> QED
    BY <1>2, <1>3, <1>4 DEF answer

LEMMA AllowedIsChanges ==
  ASSUME CardsInv, NEW d \in Decisions
  PROVE  Register!Allowed(d) <=> Changes(d)
  <1>1. decision[d].card \in Cards /\ decision[d].action \in {"publish", "withdraw"}
    BY DEF CardsInv, TypeOK, Decision
  <1>2. shown[TermOf[decision[d].card]] = Published(TermFor(d))
    BY <1>1, CardAssumption DEF shown, TermFor
  <1>3. asks[d].action = decision[d].action /\ asks[d].card = decision[d].card
    BY DEF asks
  <1> QED
    BY <1>1, <1>2, <1>3 DEF Register!Allowed, Changes, asks, shown

LEMMA RegisterSteps ==
  ASSUME CardsInv, [Next]_vars
  PROVE  [Register!RegisterNext]_Register!rvars
  <1>1. CASE \E d \in Decisions : AppendEvent(d)
    <2> PICK d \in Decisions : AppendEvent(d)
      BY <1>1
    <2> DEFINE card == IF decision[d].action = "publish" THEN decision[d].card ELSE None
    <2>1. /\ decision' = [decision EXCEPT ![d].stage = "yes"] /\ decision[d].stage = "appending"
          /\ trail' = Append(trail, [term |-> TermFor(d), by |-> d, card |-> card])
      BY DEF AppendEvent, Goto
    <2>2. TermFor(d) = TermOf[decision[d].card] /\ TermFor(d) \in Terms /\ decision[d].card \in Cards
      BY CardAssumption DEF CardsInv, TypeOK, Decision, TermFor
    <2>9. card \in Cards \cup {None}
      BY <2>2
    <2>3. PICK e \in Event : e = [term |-> TermFor(d), by |-> d, card |-> card]
      BY <2>2, <2>9 DEF Event
    <2>4. \A t \in Terms : Published(t)' = IF t = TermFor(d) THEN card ELSE Published(t)
      BY <2>1, <2>3, PublishedGrows DEF CardsInv, Grown
    <2>5. shown' = [shown EXCEPT ![TermOf[asks[d].card]] = IF asks[d].action = "publish" THEN asks[d].card ELSE None]
      BY <2>2, <2>4 DEF shown, asks
    <2>6. asks' = asks /\ answer' = [answer EXCEPT ![d] = "yes"] /\ answer[d] = "none"
      BY <2>1, Answers
    <2>7. Register!Allowed(d)
      BY <2>1, AllowedIsChanges DEF CardsInv, StillChanges
    <2>8. Register!Accept(d)
      BY <2>5, <2>6, <2>7 DEF Register!Accept, asks, shown, answer
    <2> QED
      BY <2>8 DEF Register!RegisterNext
  <1>2. CASE \E d \in Decisions : ReadCurrent(d) /\ ~Changes(d)
    <2> PICK d \in Decisions : ReadCurrent(d) /\ ~Changes(d)
      BY <1>2
    <2>1. decision' = [decision EXCEPT ![d].stage = "no"] /\ decision[d].stage = "locked" /\ UNCHANGED trail
      BY DEF ReadCurrent, Goto
    <2>2. shown' = shown
      BY <2>1, SameTrail DEF shown
    <2>3. asks' = asks /\ answer' = [answer EXCEPT ![d] = "no"] /\ answer[d] = "none"
      BY <2>1, Answers
    <2>4. ~Register!Allowed(d)
      BY AllowedIsChanges
    <2>5. Register!Refuse(d)
      BY <2>2, <2>3, <2>4 DEF Register!Refuse, asks, shown, answer
    <2> QED
      BY <2>5 DEF Register!RegisterNext
  <1>3. ASSUME NEW d \in Decisions, Ask(d) \/ Lock(d) \/ Fail(d) \/ (ReadCurrent(d) /\ Changes(d))
        PROVE  UNCHANGED Register!rvars
    <2>1. PICK s \in {"waiting", "locked", "appending", "failed"} : decision' = [decision EXCEPT ![d].stage = s]
      BY <1>3 DEF Ask, Lock, Fail, ReadCurrent, Goto
    <2>2. decision[d].stage \notin {"yes", "no"} /\ UNCHANGED trail
      BY <1>3 DEF Ask, Lock, Fail, ReadCurrent
    <2>3. \A e \in Decisions : /\ decision'[e].action = decision[e].action /\ decision'[e].card = decision[e].card
                               /\ decision'[e].stage = IF e = d THEN s ELSE decision[e].stage
      BY <2>1 DEF CardsInv, TypeOK, Decision
    <2> QED
      BY <2>2, <2>3, Silent
  <1>4. CASE UNCHANGED <<trail, decision>>
    BY <1>4, Silent
  <1>5. \/ \E d \in Decisions : Decide(d)
        \/ UNCHANGED <<trail, decision>>
    BY DEF Next, Issue, Read, AskAccess, Show, Revoke, Relink, publicationVars, vars
  <1> QED
    BY <1>1, <1>2, <1>3, <1>4, <1>5 DEF Decide

(* Decisions that overlap, fail and wait for each other act one after the
   other on a register per term, and are answered as the register says. *)
THEOREM RegisterImplemented == Spec => ImplementsRegister
  <1>1. CardsInv /\ [Next]_vars => [Register!RegisterNext]_Register!rvars
    BY RegisterSteps
  <1> QED
    BY <1>1, RegisterStarts, Invariance, PTL DEF Spec, ImplementsRegister, Register!RegisterSpec

=============================================================================
