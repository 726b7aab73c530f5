----------------------------- MODULE SchoolTerms ----------------------------
(***************************************************************************)
(* One academic term of a school: its row, its assessment types, the        *)
(* assessments of one class and subject, and their marks.                   *)
(*                                                                          *)
(* Every handler reads the term row first and decides on what it read; the  *)
(* write comes later, in one UPDATE with a condition or in a transaction    *)
(* that locks the term row with SELECT ... FOR UPDATE and checks again.     *)
(* Everything that writes here takes that lock, so a transaction is one     *)
(* step, and the read before it is another.                                 *)
(*                                                                          *)
(* Scopes, rosters and dates decide only between an action and its refusal. *)
(***************************************************************************)
EXTENDS Integers, FiniteSets

CONSTANTS
  Requests,     \* administrators and teachers acting on the term
  Types,        \* identifiers of assessment types, used up as they are minted
  Assessments,
  Students,
  Scores,
  Scales,       \* grade scales of the school
  None

ASSUME NoneAssumption == None \notin Types \cup Scores \cup Scales

VARIABLES
  term,         \* the sca_terms row
  types,        \* the assessment types of the term
  minted,       \* history: the type identifiers given out so far
  typeOf,       \* the assessments created, and their type
  score,        \* the marks, by assessment and student
  gradedBy,     \* the scale each mark's grade was taken from
  request,      \* how far a request has come
  seen,         \* the term row the handler read
  preview,      \* what an import was previewed against
  version       \* the calendar version a request was made for

data   == <<types, minted, typeOf, score, gradedBy>>
locals == <<request, seen, preview, version>>
tvars  == <<term, data, locals>>

Term == [status : {"open", "closed"}, released : BOOLEAN,
         scale : Scales \cup {None}, calendar : Nat]

Pairs   == Assessments \X Students
Created == {a \in Assessments : typeOf[a] # None}

TypeOK ==
  /\ term \in Term
  /\ minted \in SUBSET Types /\ types \in SUBSET minted
  /\ typeOf \in [Assessments -> Types \cup {None}]
  /\ score \in [Pairs -> Scores \cup {None}]
  /\ gradedBy \in [Pairs -> Scales \cup {None}]
  /\ request \in [Requests -> {"new", "checked", "refused", "saved", "calendar", "done"}]
  /\ seen \in [Requests -> Term]
  /\ preview \in [Requests -> [Pairs -> Scores \cup {None}] \cup {None}]
  /\ version \in [Requests -> Nat]

(* A term some way through its year.  A term closed before the release column
   existed is closed and not released. *)
Init ==
  /\ term \in [status : {"open", "closed"}, released : BOOLEAN,
               scale : Scales \cup {None}, calendar : {0}]
  /\ term.released => term.status = "closed"
  /\ types \in SUBSET Types /\ minted = types
  /\ typeOf \in [Assessments -> types \cup {None}]
  /\ term.scale = None <=> Created = {}
  /\ score \in [Pairs -> Scores \cup {None}]
  /\ \A p \in Pairs : score[p] # None => p[1] \in Created
  /\ gradedBy = [p \in Pairs |-> IF score[p] = None THEN None ELSE term.scale]
  /\ request = [r \in Requests |-> "new"]
  /\ seen = [r \in Requests |-> term]
  /\ preview = [r \in Requests |-> None]
  /\ version = [r \in Requests |-> 0]

-----------------------------------------------------------------------------
(* What comes before the write *)

(* The roster and marks an import is previewed against. *)
PreviewImport(r) ==
  /\ request[r] = "new" /\ preview[r] = None
  /\ preview' = [preview EXCEPT ![r] = score]
  /\ UNCHANGED <<term, data, request, seen, version>>

(* The calendar a client edits carries the version it was loaded with. *)
LoadCalendar(r) ==
  /\ request[r] = "new" /\ version[r] # term.calendar
  /\ version' = [version EXCEPT ![r] = term.calendar]
  /\ UNCHANGED <<term, data, request, seen, preview>>

ReadTerm(r) ==
  /\ request[r] = "new"
  /\ request' = [request EXCEPT ![r] = "checked"]
  /\ seen' = [seen EXCEPT ![r] = term]
  /\ UNCHANGED <<term, data, preview, version>>

(* 403, 404, 409 or 422, in the handler or in the transaction. *)
Refuse(r) ==
  /\ request[r] = "checked"
  /\ request' = [request EXCEPT ![r] = "refused"]
  /\ UNCHANGED <<term, data, seen, preview, version>>

(* Mutation: only the row the handler read is checked. *)
FinishOnStaleRow(r, status, outcome) ==
  /\ request[r] = "checked" /\ seen[r].status = status
  /\ request' = [request EXCEPT ![r] = outcome]
  /\ UNCHANGED <<seen, preview, version>>

(* The status the handler saw, checked again under the lock or in the WHERE. *)
Finish(r, status, outcome) ==
  /\ request[r] = "checked" /\ seen[r].status = status /\ term.status = status
  /\ request' = [request EXCEPT ![r] = outcome]
  /\ UNCHANGED <<seen, preview, version>>

-----------------------------------------------------------------------------
(* The term row *)

(* Closing a term releases its marks. *)
Close(r) ==
  /\ Finish(r, "open", "done")
  /\ term' = [term EXCEPT !.status = "closed", !.released = TRUE]
  /\ UNCHANGED data

Reopen(r) ==
  /\ Finish(r, "closed", "done")
  /\ term' = [term EXCEPT !.status = "open", !.released = FALSE]
  /\ UNCHANGED data

(* For a term closed before there was a release. *)
ReleaseMarks(r) ==
  /\ Finish(r, "closed", "done")
  /\ ~seen[r].released /\ ~term.released
  /\ term' = [term EXCEPT !.released = TRUE]
  /\ UNCHANGED data

(* Mutation: the version is not compared. *)
SetCalendarBlindly(r) ==
  /\ Finish(r, "open", "calendar")
  /\ term' = [term EXCEPT !.calendar = version[r] + 1]
  /\ UNCHANGED data

SetCalendar(r) ==
  /\ Finish(r, "open", "calendar")
  /\ term.calendar = version[r]
  /\ term' = [term EXCEPT !.calendar = version[r] + 1]
  /\ UNCHANGED data

-----------------------------------------------------------------------------
(* The transactions under the term's lock *)

(* The identifiers a client sends must still be there; the others are new. *)
ReplaceTypes(r) ==
  /\ Finish(r, "open", "done")
  /\ Created = {}
  /\ \E kept \in SUBSET minted, fresh \in SUBSET (Types \ minted) :
       /\ kept \subseteq types /\ kept \cup fresh # {}
       /\ types' = kept \cup fresh
       /\ minted' = minted \cup fresh
  /\ UNCHANGED <<term, typeOf, score, gradedBy>>

(* The first assessment fixes the term's grading basis, in its transaction.
   The type comes from the client and may be gone by now. *)
CreateAssessment(r) ==
  /\ Finish(r, "open", "done")
  /\ \E a \in Assessments \ Created, t \in minted, s \in Scales :
       /\ t \in types
       /\ seen[r].scale \in {None, s} /\ term.scale \in {None, s}
       /\ term' = [term EXCEPT !.scale = s]
       /\ typeOf' = [typeOf EXCEPT ![a] = t]
  /\ UNCHANGED <<types, minted, score, gradedBy>>

(* Mutation: an import overwrites what it was not previewed against. *)
SaveBlindly(r) ==
  /\ Finish(r, "open", "saved")
  /\ \E a \in Created, who \in (SUBSET Students) \ {{}}, value \in Scores :
       LET entries == {a} \X who
       IN /\ score' = [p \in Pairs |-> IF p \in entries THEN value ELSE score[p]]
          /\ gradedBy' = [p \in Pairs |-> IF p \in entries THEN term.scale ELSE gradedBy[p]]
  /\ UNCHANGED <<term, types, minted, typeOf>>

(* Mutation: grades are taken from the scale the handler read. *)
SaveByReadScale(r) ==
  /\ Finish(r, "open", "saved")
  /\ \E a \in Created, who \in (SUBSET Students) \ {{}}, value \in Scores :
       LET entries == {a} \X who
       IN /\ preview[r] # None => \A p \in entries : score[p] = preview[r][p]
          /\ score' = [p \in Pairs |-> IF p \in entries THEN value ELSE score[p]]
          /\ gradedBy' = [p \in Pairs |-> IF p \in entries THEN seen[r].scale ELSE gradedBy[p]]
  /\ UNCHANGED <<term, types, minted, typeOf>>

(* One batch of marks, all or nothing.  An import names the score it expects
   to find for every student. *)
SaveMarks(r) ==
  /\ Finish(r, "open", "saved")
  /\ term.scale # None
  /\ \E a \in Created, who \in (SUBSET Students) \ {{}}, value \in Scores :
       LET entries == {a} \X who
       IN /\ preview[r] # None => \A p \in entries : score[p] = preview[r][p]
          /\ score' = [p \in Pairs |-> IF p \in entries THEN value ELSE score[p]]
          /\ gradedBy' = [p \in Pairs |-> IF p \in entries THEN term.scale ELSE gradedBy[p]]
  /\ UNCHANGED <<term, types, minted, typeOf>>

Ask(r)   == PreviewImport(r) \/ LoadCalendar(r) \/ ReadTerm(r) \/ Refuse(r)
Write(r) == \/ Close(r) \/ Reopen(r) \/ ReleaseMarks(r) \/ SetCalendar(r)
            \/ ReplaceTypes(r) \/ CreateAssessment(r) \/ SaveMarks(r)

TermNext == \E r \in Requests : Ask(r) \/ Write(r)

Spec == Init /\ [][TermNext]_tvars

-----------------------------------------------------------------------------
(* Nothing a result is computed from changes while the term stays closed,
   although every writer decided to write when it read the term open
   (marks-repo.ts:58 reads it again under the lock). *)
ClosedIsFrozen ==
  [][term.status = "closed" /\ term'.status = "closed"
       => UNCHANGED <<types, typeOf, score, gradedBy, term.scale, term.calendar>>]_tvars

(* The marks of one term are comparable: every assessment weighs in with a
   type the term still has, the basis of grading was fixed by the first
   assessment and by nothing else, and every grade was taken from it, however
   creations, replacements and saves interleave (migration 0002 says that the
   first assessment fixes the grade bands and the weighting plan). *)
TypesKept       == \A a \in Created : typeOf[a] \in types
BasisByFirst    == term.scale = None <=> Created = {}
GradedByBasis   == \A p \in Pairs : score[p] # None => gradedBy[p] = term.scale /\ p[1] \in Created
MarksComparable == TypesKept /\ BasisByFirst /\ GradedByBasis

(* Families never see an open term: its marks are released only while it is
   closed, with closings, reopenings and late releases racing. *)
ReleasedIsClosed == term.released => term.status = "closed"

(* Two administrators who edited the same version of the calendar do not both
   succeed: of the saved calendars no two were based on the same version, and
   none was based on the present one. *)
NoCalendarLost ==
  \A r \in Requests : request[r] = "calendar" =>
    /\ version[r] < term.calendar
    /\ \A q \in Requests \ {r} : request[q] = "calendar" => version[q] # version[r]

(* An import changes no mark that was changed after its preview: another
   teacher's save in between makes it fail as a whole. *)
ImportsSeeTheirPreview ==
  [][\A r \in Requests : request[r] # "saved" /\ request'[r] = "saved" /\ preview[r] # None
       => \A p \in Pairs : score'[p] # score[p] => score[p] = preview[r][p]]_tvars
=============================================================================
