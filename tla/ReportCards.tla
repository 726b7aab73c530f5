----------------------------- MODULE ReportCards ----------------------------
(***************************************************************************)
(* Issued report cards of ONE pupil and their publication to the family.    *)
(*                                                                          *)
(* Cards and publication events are only ever added.  A decision (publish   *)
(* or withdraw a card) is one transaction of several statements under the   *)
(* advisory lock of the pupil and the term.  A family request asks for      *)
(* access first and reads the publications in a later statement, without    *)
(* locks.                                                                   *)
(***************************************************************************)
EXTENDS Integers, Sequences, FiniteSetsExt

CONSTANTS
  Cards,      \* snapshots of report cards
  Terms,
  TermOf,     \* the term a card is about
  Decisions,  \* requests to publish or withdraw
  Families,   \* requests of one guardian of the pupil: the list or a download
  Relinks,    \* bound: how often the guardian is linked anew
  None

ASSUME CardAssumption == TermOf \in [Cards -> Terms] /\ None \notin Cards \cup Decisions
ASSUME RelinksAssumption == Relinks \in Nat

VARIABLES
  issued,    \* rpt_school_report_cards
  trail,     \* rpt_school_report_card_publications, by id
  lock,      \* for each term, the decision holding the advisory lock
  decision,  \* how far a decision has come
  linked,    \* whether the guardian's relationship grants report cards
  relinked,  \* how often the guardian was linked anew
  family,    \* how far a family request has come
  views      \* history: what held at the moments of a family request

publicationVars == <<issued, trail, lock, decision>>
familyVars      == <<linked, relinked, family>>
vars            == <<publicationVars, familyVars, views>>

Event    == [term : Terms, card : Cards \cup {None}, by : Decisions]
Decision == [stage : {"new", "waiting", "locked", "appending", "yes", "no", "failed"},
             action : {"publish", "withdraw"}, card : Cards]
Family   == [stage : {"new", "granted", "answered", "refused"},
             asks : Cards \cup {None}, shows : SUBSET Cards]
View     == [linked : BOOLEAN, shown : SUBSET Cards]

TypeOK ==
  /\ issued \in SUBSET Cards
  /\ trail \in Seq(Event)
  /\ lock \in [Terms -> Decisions \cup {None}]
  /\ decision \in [Decisions -> Decision]
  /\ linked \in BOOLEAN /\ relinked \in 0..Relinks
  /\ family \in [Families -> Family]
  /\ views \in [Families -> SUBSET View]

(* publishedForTerm: the card of the latest event of a term. *)
EventsOf(t)  == {i \in DOMAIN trail : trail[i].term = t}
Published(t) == IF EventsOf(t) = {} THEN None ELSE trail[Max(EventsOf(t))].card

(* publishedForStudent: the cards of all terms that are shown. *)
Shown == {c \in Cards : Published(TermOf[c]) = c}

Init ==
  /\ issued = {} /\ trail = <<>>
  /\ lock = [t \in Terms |-> None]
  /\ decision \in [Decisions -> [stage : {"new"}, action : {"publish", "withdraw"}, card : Cards]]
  /\ linked = TRUE /\ relinked = 0
  /\ family \in [Families -> [stage : {"new"}, asks : Cards \cup {None}, shows : {{}}]]
  /\ views = [f \in Families |-> {}]

(* What every family request under way sees happen. *)
Watch == views' = [f \in Families |->
           IF family'[f].stage = "granted" \/ family[f].stage = "granted"
           THEN views[f] \cup {[linked |-> linked', shown |-> Shown']}
           ELSE views[f]]

-----------------------------------------------------------------------------
(* Staff *)

(* generate: the new snapshot stays private. *)
Issue(c) ==
  /\ c \notin issued
  /\ issued' = issued \cup {c}
  /\ UNCHANGED <<trail, lock, decision, familyVars, views>>

Goto(d, stage) == decision' = [decision EXCEPT ![d].stage = stage]
TermFor(d)     == TermOf[decision[d].card]

(* The card exists and the caller leads its school. *)
Ask(d) ==
  /\ decision[d].stage = "new" /\ decision[d].card \in issued
  /\ Goto(d, "waiting")
  /\ UNCHANGED <<issued, trail, lock, familyVars, views>>

(* Mutation: decisions do not wait for each other. *)
PassLock(d) ==
  /\ decision[d].stage = "waiting"
  /\ Goto(d, "locked")
  /\ UNCHANGED <<issued, trail, lock, familyVars, views>>

Lock(d) ==
  /\ decision[d].stage = "waiting" /\ lock[TermFor(d)] = None
  /\ lock' = [lock EXCEPT ![TermFor(d)] = d]
  /\ Goto(d, "locked")
  /\ UNCHANGED <<issued, trail, familyVars, views>>

(* Mutation: a card that is shown blocks every other card of the term. *)
PublishFirst(d) == IF decision[d].action = "publish"
                   THEN Published(TermFor(d)) = None
                   ELSE Published(TermFor(d)) = decision[d].card

(* publish: another card or none is current; withdraw: this card is. *)
Changes(d) == IF decision[d].action = "publish"
              THEN Published(TermFor(d)) # decision[d].card
              ELSE Published(TermFor(d)) = decision[d].card

Unlock(d) == lock' = [t \in Terms |-> IF lock[t] = d THEN None ELSE lock[t]]

(* The current publication is read under the lock. *)
ReadCurrent(d) ==
  /\ decision[d].stage = "locked"
  /\ IF Changes(d) THEN Goto(d, "appending") /\ UNCHANGED lock
                   ELSE Goto(d, "no") /\ Unlock(d)
  /\ UNCHANGED <<issued, trail, familyVars, views>>

(* The event becomes visible when the transaction commits. *)
AppendEvent(d) ==
  /\ decision[d].stage = "appending"
  /\ trail' = Append(trail, [term |-> TermFor(d), by |-> d,
                 card |-> IF decision[d].action = "publish" THEN decision[d].card ELSE None])
  /\ Goto(d, "yes")
  /\ Unlock(d)
  /\ UNCHANGED <<issued, familyVars>>
  /\ Watch

(* Mutation: a lock of the session, which outlives the transaction. *)
FailHolding(d) ==
  /\ decision[d].stage \in {"waiting", "locked", "appending"}
  /\ Goto(d, "failed")
  /\ UNCHANGED <<issued, trail, lock, familyVars, views>>

(* The connection or the process is lost: the transaction is rolled back. *)
Fail(d) ==
  /\ decision[d].stage \in {"waiting", "locked", "appending"}
  /\ Goto(d, "failed")
  /\ Unlock(d)
  /\ UNCHANGED <<issued, trail, familyVars, views>>

-----------------------------------------------------------------------------
(* The guardian's relationship, see Guardians *)

Revoke ==
  /\ linked
  /\ linked' = FALSE
  /\ UNCHANGED <<publicationVars, relinked, family>>
  /\ Watch

Relink ==
  /\ ~linked /\ relinked < Relinks
  /\ linked' = TRUE /\ relinked' = relinked + 1
  /\ UNCHANGED <<publicationVars, family>>
  /\ Watch

-----------------------------------------------------------------------------
(* Family requests *)

(* guardianAccess: a fresh relationship decision. *)
AskAccess(f) ==
  /\ family[f].stage = "new"
  /\ family' = [family EXCEPT ![f].stage = IF linked THEN "granted" ELSE "refused"]
  /\ UNCHANGED <<publicationVars, linked, relinked>>
  /\ Watch

(* Mutation: the newest publication of a term, withdrawn or not. *)
EverPublished(t) == LET S == {i \in EventsOf(t) : trail[i].card # None}
                    IN  IF S = {} THEN None ELSE trail[Max(S)].card

(* Mutation: the list is read without the withdrawals. *)
ShowEver(f) ==
  /\ family[f].stage = "granted"
  /\ family' = [family EXCEPT ![f].stage = "answered", ![f].shows =
       {c \in Cards : EverPublished(TermOf[c]) = c /\ family[f].asks \in {c, None}}]
  /\ UNCHANGED <<publicationVars, linked, relinked>>
  /\ Watch

(* The list shows what is published, a download only the card asked for if
   it is. *)
Show(f) ==
  /\ family[f].stage = "granted"
  /\ family' = [family EXCEPT ![f].stage = "answered", ![f].shows =
       {c \in Shown : family[f].asks \in {c, None}}]
  /\ UNCHANGED <<publicationVars, linked, relinked>>
  /\ Watch

Decide(d) == Ask(d) \/ Lock(d) \/ ReadCurrent(d) \/ AppendEvent(d) \/ Fail(d)
Read(f)   == AskAccess(f) \/ Show(f)

Next == \/ \E c \in Cards : Issue(c)
        \/ \E d \in Decisions : Decide(d)
        \/ \E f \in Families : Read(f)
        \/ Revoke \/ Relink

Spec == Init /\ [][Next]_vars

(* A transaction goes on, and the waiters of an advisory lock are served; the
   lock is free for ever once the others have ended, so weak fairness is
   enough. *)
Proceed(d) == Lock(d) \/ ReadCurrent(d) \/ AppendEvent(d)
FairSpec   == Spec /\ \A d \in Decisions : WF_vars(Proceed(d))

-----------------------------------------------------------------------------
(* The trail tells a story that makes sense (ADR-0028, decision 2): each event
   of a term changes what the family sees, and a withdrawal follows the
   publication of the very card it was asked for, with decisions racing each
   other. *)
Before(i) == {j \in 1..(i - 1) : trail[j].term = trail[i].term}
Previous(i) == IF Before(i) = {} THEN None ELSE trail[Max(Before(i))].card

TrailMakesSense ==
  \A i \in DOMAIN trail :
     LET d == decision[trail[i].by]
     IN  /\ trail[i].card # Previous(i)
         /\ trail[i].card = None => Previous(i) = d.card /\ d.action = "withdraw"
         /\ trail[i].card # None => trail[i].card = d.card /\ d.action = "publish"

(* The family sees at most one card of a term, only cards that were issued,
   and a decision that succeeded is in the trail exactly once. *)
OneEventPerDecision ==
  /\ Shown \subseteq issued
  /\ \A d \in Decisions :
       {i \in DOMAIN trail : trail[i].by = d} # {} <=> decision[d].stage = "yes"
  /\ \A i, j \in DOMAIN trail : trail[i].by = trail[j].by => i = j

(* What a family is given was published, all of it at one moment of the
   request, and the guardian was linked at some moment of the request. *)
FamilySeesPublished ==
  \A f \in Families : family[f].stage = "answered" =>
     /\ \E v \in views[f] : v.linked
     /\ \E v \in views[f] : IF family[f].asks = None THEN family[f].shows = v.shown
                                                     ELSE family[f].shows \subseteq v.shown

(* Every decision that was taken up ends, whatever the others do. *)
DecisionsEnd ==
  \A d \in Decisions : decision[d].stage = "waiting" ~> decision[d].stage \in {"yes", "no", "failed"}

(* The decisions are taken one after the other on the register of the term. *)
Register == INSTANCE PublicationRegister WITH
  asks   <- [d \in Decisions |-> [action |-> decision[d].action, card |-> decision[d].card]],
  shown  <- [t \in Terms |-> Published(t)],
  answer <- [d \in Decisions |-> IF decision[d].stage \in {"yes", "no"} THEN decision[d].stage ELSE "none"]

ImplementsRegister == Register!RegisterSpec
=============================================================================
