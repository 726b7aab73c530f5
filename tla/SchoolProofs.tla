---------------------------- MODULE SchoolProofs ----------------------------
(***************************************************************************)
(* Proofs about SchoolTerms and its composition with readers,               *)
(* SchoolResults.  SchoolInv is inductive for the term; it does not mention *)
(* the readers, so it holds of the composition as well, whose own           *)
(* invariant ReaderInv adds what a reader knows after each statement.       *)
(***************************************************************************)
EXTENDS SchoolResults, TLAPS

SchoolInv == TypeOK /\ MarksComparable /\ ReleasedIsClosed /\ NoCalendarLost

-----------------------------------------------------------------------------
(* The three shapes of step: one that only a request sees, one that changes
   the term row alone, one that changes what results are computed from. *)

LEMMA CreatedMember == ASSUME TypeOK, NEW a \in Created PROVE a \in Assessments /\ typeOf[a] # None
  BY DEF Created

(* No request saved a calendar of the version the term has now. *)
LEMMA CalendarStep ==
  ASSUME TypeOK, NoCalendarLost, NEW r \in Requests, SetCalendar(r)
  PROVE  NoCalendarLost'
  <1>1. /\ term'.calendar = term.calendar + 1 /\ version[r] = term.calendar
        /\ version' = version /\ request' = [request EXCEPT ![r] = "calendar"]
        /\ term.calendar \in Nat /\ version \in [Requests -> Nat]
    BY DEF SetCalendar, Finish, TypeOK, Term
  <1>2. ASSUME NEW q \in Requests, request'[q] = "calendar"
        PROVE  version'[q] < term'.calendar
    <2>1. CASE q = r
      BY <1>1, <2>1
    <2>2. CASE q # r
      <3>1. request[q] = "calendar"
        BY <1>1, <1>2, <2>2 DEF TypeOK
      <3> QED
        BY <1>1, <3>1 DEF NoCalendarLost
    <2> QED
      BY <2>1, <2>2
  <1>3. ASSUME NEW p \in Requests, NEW q \in Requests \ {p},
               request'[p] = "calendar", request'[q] = "calendar"
        PROVE  version'[q] # version'[p]
    <2>1. CASE p = r
      <3>1. request[q] = "calendar"
        BY <1>1, <1>3, <2>1 DEF TypeOK
      <3> QED
        BY <1>1, <2>1, <3>1 DEF NoCalendarLost
    <2>2. CASE q = r
      <3>1. request[p] = "calendar"
        BY <1>1, <1>3, <2>2 DEF TypeOK
      <3> QED
        BY <1>1, <2>2, <3>1 DEF NoCalendarLost
    <2>3. CASE p # r /\ q # r
      <3>1. request[p] = "calendar" /\ request[q] = "calendar"
        BY <1>1, <1>3, <2>3 DEF TypeOK
      <3> QED
        BY <1>1, <3>1 DEF NoCalendarLost
    <2> QED
      BY <2>1, <2>2, <2>3
  <1> QED
    BY <1>2, <1>3 DEF NoCalendarLost

(* Every other step leaves the calendar, its saves and their versions. *)
LEMMA CalendarKept ==
  ASSUME TypeOK, NoCalendarLost, term'.calendar = term.calendar,
         \A q \in Requests : request'[q] = "calendar" => request[q] = "calendar" /\ version'[q] = version[q]
  PROVE  NoCalendarLost'
  BY DEF NoCalendarLost

(* A request that ends another way has not saved a calendar. *)
LEMMA FinishKeepsCalendars ==
  ASSUME TypeOK, NEW r \in Requests, NEW status, NEW outcome, outcome # "calendar",
         Finish(r, status, outcome)
  PROVE  \A q \in Requests : request'[q] = "calendar" => request[q] = "calendar" /\ version'[q] = version[q]
  BY DEF Finish, TypeOK

LEMMA FinishType ==
  ASSUME TypeOK, NEW r \in Requests, NEW status, NEW outcome \in {"saved", "calendar", "done"},
         Finish(r, status, outcome)
  PROVE  /\ request' \in [Requests -> {"new", "checked", "refused", "saved", "calendar", "done"}]
         /\ seen' \in [Requests -> Term]
         /\ preview' \in [Requests -> [Pairs -> Scores \cup {None}] \cup {None}]
         /\ version' \in [Requests -> Nat]
  BY DEF Finish, TypeOK

(* A step that leaves the data leaves the marks comparable. *)
LEMMA DataKept ==
  ASSUME MarksComparable, UNCHANGED data, term'.scale = term.scale
  PROVE  MarksComparable'
  <1> USE DEF Created, data
  <1>1. TypesKept'
    BY DEF MarksComparable, TypesKept
  <1>2. BasisByFirst'
    BY DEF MarksComparable, BasisByFirst
  <1>3. GradedByBasis'
    BY DEF MarksComparable, GradedByBasis
  <1> QED
    BY <1>1, <1>2, <1>3 DEF MarksComparable

LEMMA AskKeeps ==
  ASSUME SchoolInv, NEW r \in Requests, Ask(r)
  PROVE  SchoolInv'
  <1> USE DEF SchoolInv
  <1>1. UNCHANGED <<term, data>>
    BY DEF Ask, PreviewImport, LoadCalendar, ReadTerm, Refuse
  <1>2. TypeOK'
    <2>1. CASE PreviewImport(r)
      BY <2>1, <1>1 DEF PreviewImport, TypeOK, data
    <2>2. CASE LoadCalendar(r)
      BY <2>2, <1>1 DEF LoadCalendar, TypeOK, data, Term
    <2>3. CASE ReadTerm(r)
      BY <2>3, <1>1 DEF ReadTerm, TypeOK, data
    <2>4. CASE Refuse(r)
      BY <2>4, <1>1 DEF Refuse, TypeOK, data
    <2> QED
      BY <2>1, <2>2, <2>3, <2>4 DEF Ask
  <1>3. MarksComparable'
    BY <1>1, DataKept
  <1>4. \A q \in Requests : request'[q] = "calendar" => request[q] = "calendar" /\ version'[q] = version[q]
    BY DEF Ask, PreviewImport, LoadCalendar, ReadTerm, Refuse, TypeOK
  <1>5. NoCalendarLost'
    BY <1>1, <1>4, CalendarKept
  <1>6. ReleasedIsClosed'
    BY <1>1 DEF ReleasedIsClosed
  <1> QED
    BY <1>2, <1>3, <1>5, <1>6

(* Close, Reopen, ReleaseMarks and SetCalendar write the term row only. *)
LEMMA TermRowKeeps ==
  ASSUME SchoolInv, NEW r \in Requests,
         Close(r) \/ Reopen(r) \/ ReleaseMarks(r) \/ SetCalendar(r)
  PROVE  SchoolInv'
  <1> USE DEF SchoolInv
  <1>1. UNCHANGED data /\ term'.scale = term.scale /\ term' \in Term
    <2>1. CASE Close(r)
      BY <2>1 DEF Close, TypeOK, Term
    <2>2. CASE Reopen(r)
      BY <2>2 DEF Reopen, TypeOK, Term
    <2>3. CASE ReleaseMarks(r)
      BY <2>3 DEF ReleaseMarks, TypeOK, Term
    <2>4. CASE SetCalendar(r)
      BY <2>4 DEF SetCalendar, TypeOK, Term
    <2> QED
      BY <2>1, <2>2, <2>3, <2>4
  <1>2. \E outcome \in {"done", "calendar"}, status \in {"open", "closed"} : Finish(r, status, outcome)
    BY DEF Close, Reopen, ReleaseMarks, SetCalendar
  <1>3. TypeOK'
    <2>1. /\ request' \in [Requests -> {"new", "checked", "refused", "saved", "calendar", "done"}]
          /\ seen' \in [Requests -> Term]
          /\ preview' \in [Requests -> [Pairs -> Scores \cup {None}] \cup {None}]
          /\ version' \in [Requests -> Nat]
      BY <1>2, FinishType
    <2> QED
      BY <1>1, <2>1 DEF TypeOK, data
  <1>4. MarksComparable'
    BY <1>1, DataKept
  <1>5. ReleasedIsClosed'
    BY DEF Close, Reopen, ReleaseMarks, SetCalendar, Finish, ReleasedIsClosed, TypeOK, Term
  <1>6. NoCalendarLost'
    <2>1. CASE SetCalendar(r)
      BY <2>1, CalendarStep
    <2>2. CASE Close(r) \/ Reopen(r) \/ ReleaseMarks(r)
      <3>1. term'.calendar = term.calendar
        BY <2>2 DEF Close, Reopen, ReleaseMarks, TypeOK, Term
      <3>2. \E status : Finish(r, status, "done")
        BY <2>2 DEF Close, Reopen, ReleaseMarks
      <3>3. \A q \in Requests : request'[q] = "calendar" => request[q] = "calendar" /\ version'[q] = version[q]
        BY <3>2, FinishKeepsCalendars
      <3> QED
        BY <3>1, <3>3, CalendarKept
    <2> QED
      BY <2>1, <2>2
  <1> QED
    BY <1>3, <1>4, <1>5, <1>6

LEMMA ReplaceKeeps ==
  ASSUME SchoolInv, NEW r \in Requests, ReplaceTypes(r)
  PROVE  SchoolInv'
  <1> USE DEF SchoolInv
  <1>1. /\ Finish(r, "open", "done") /\ Created = {}
        /\ UNCHANGED <<term, typeOf, score, gradedBy>>
    BY DEF ReplaceTypes
  <1>2. minted' \in SUBSET Types /\ types' \in SUBSET minted'
    BY DEF ReplaceTypes, TypeOK
  <1>3. TypeOK'
    BY <1>1, <1>2, FinishType DEF TypeOK
  <1>4. Created' = {}
    BY <1>1 DEF Created
  <1>5. MarksComparable'
    BY <1>1, <1>4 DEF MarksComparable, TypesKept, BasisByFirst, GradedByBasis
  <1>6. NoCalendarLost'
    BY <1>1, FinishKeepsCalendars, CalendarKept
  <1>7. ReleasedIsClosed'
    BY <1>1 DEF ReleasedIsClosed
  <1> QED
    BY <1>3, <1>5, <1>6, <1>7

(* The scale is the one the term has, or the term had none and no mark. *)
LEMMA CreateKeeps ==
  ASSUME SchoolInv, NEW r \in Requests, CreateAssessment(r)
  PROVE  SchoolInv'
  <1> USE DEF SchoolInv
  <1>1. PICK a \in Assessments \ Created, t \in minted, s \in Scales :
           /\ t \in types /\ term.scale \in {None, s}
           /\ term' = [term EXCEPT !.scale = s]
           /\ typeOf' = [typeOf EXCEPT ![a] = t]
    BY DEF CreateAssessment
  <1>2. Finish(r, "open", "done") /\ UNCHANGED <<types, minted, score, gradedBy>>
    BY DEF CreateAssessment
  <1>3. term' \in Term /\ term'.scale = s /\ term'.calendar = term.calendar
        /\ term'.status = term.status /\ term'.released = term.released /\ s # None /\ t # None
    BY <1>1, NoneAssumption DEF TypeOK, Term
  <1>4. typeOf' \in [Assessments -> Types \cup {None}] /\ Created' = Created \cup {a}
        /\ \A b \in Created : typeOf'[b] = typeOf[b]
    BY <1>1, <1>3 DEF TypeOK, Created
  <1>5. TypeOK'
    BY <1>2, <1>3, <1>4, FinishType DEF TypeOK
  <1>6. TypesKept'
    BY <1>1, <1>2, <1>4 DEF TypesKept, MarksComparable, TypeOK
  <1>7. BasisByFirst'
    BY <1>3, <1>4 DEF BasisByFirst
  <1>8. GradedByBasis'
    <2> SUFFICES ASSUME NEW p \in Pairs, score[p] # None
                 PROVE  gradedBy[p] = s /\ p[1] \in Created'
      BY <1>2, <1>3 DEF GradedByBasis
    <2>1. gradedBy[p] = term.scale /\ p[1] \in Created
      BY DEF MarksComparable, GradedByBasis
    <2>2. term.scale # None
      BY <2>1 DEF MarksComparable, BasisByFirst
    <2> QED
      BY <1>1, <1>4, <2>1, <2>2
  <1>9. NoCalendarLost'
    BY <1>2, <1>3, FinishKeepsCalendars, CalendarKept
  <1>10. ReleasedIsClosed'
    BY <1>3 DEF ReleasedIsClosed
  <1> QED
    BY <1>5, <1>6, <1>7, <1>8, <1>9, <1>10 DEF MarksComparable

LEMMA SaveKeeps ==
  ASSUME SchoolInv, NEW r \in Requests, SaveMarks(r)
  PROVE  SchoolInv'
  <1> USE DEF SchoolInv
  <1>1. PICK a \in Created, who \in (SUBSET Students) \ {{}}, value \in Scores :
           /\ score' = [p \in Pairs |-> IF p \in {a} \X who THEN value ELSE score[p]]
           /\ gradedBy' = [p \in Pairs |-> IF p \in {a} \X who THEN term.scale ELSE gradedBy[p]]
    BY DEF SaveMarks
  <1>2. Finish(r, "open", "saved") /\ UNCHANGED <<term, types, minted, typeOf>> /\ term.scale # None
    BY DEF SaveMarks
  <1>3. score' \in [Pairs -> Scores \cup {None}]
    BY <1>1 DEF TypeOK
  <1>4. gradedBy' \in [Pairs -> Scales \cup {None}]
    BY <1>1 DEF TypeOK, Term
  <1>5. TypeOK'
    BY <1>2, <1>3, <1>4, FinishType DEF TypeOK
  <1>6. Created' = Created
    BY <1>2 DEF Created
  <1>7. TypesKept' /\ BasisByFirst'
    BY <1>2, <1>6 DEF MarksComparable, TypesKept, BasisByFirst
  <1>8. GradedByBasis'
    <2> SUFFICES ASSUME NEW p \in Pairs, score'[p] # None
                 PROVE  gradedBy'[p] = term.scale /\ p[1] \in Created
      BY <1>2, <1>6 DEF GradedByBasis
    <2>1. CASE p \in {a} \X who
      BY <1>1, <2>1
    <2>2. CASE p \notin {a} \X who
      BY <1>1, <2>2 DEF MarksComparable, GradedByBasis
    <2> QED
      BY <2>1, <2>2
  <1>9. NoCalendarLost'
    BY <1>2, FinishKeepsCalendars, CalendarKept
  <1>10. ReleasedIsClosed'
    BY <1>2 DEF ReleasedIsClosed
  <1> QED
    BY <1>5, <1>7, <1>8, <1>9, <1>10 DEF MarksComparable

LEMMA InitEstablishes == Init => SchoolInv
  <1> SUFFICES ASSUME Init PROVE SchoolInv
    OBVIOUS
  <1>1. gradedBy \in [Pairs -> Scales \cup {None}]
    BY DEF Init
  <1>2. TypeOK
    BY <1>1 DEF Init, TypeOK, Term
  <1>3. TypesKept
    BY DEF Init, TypesKept, Created
  <1>4. BasisByFirst /\ GradedByBasis
    BY DEF Init, BasisByFirst, GradedByBasis
  <1>5. NoCalendarLost /\ ReleasedIsClosed
    BY DEF Init, NoCalendarLost, ReleasedIsClosed
  <1> QED
    BY <1>2, <1>3, <1>4, <1>5 DEF SchoolInv, MarksComparable

LEMMA TermNextKeeps == SchoolInv /\ [TermNext]_tvars => SchoolInv'
  <1> SUFFICES ASSUME SchoolInv, [TermNext]_tvars PROVE SchoolInv'
    OBVIOUS
  <1>1. CASE UNCHANGED tvars
    BY <1>1 DEF tvars, data, locals, SchoolInv, TypeOK, MarksComparable, TypesKept, BasisByFirst,
                GradedByBasis, ReleasedIsClosed, NoCalendarLost, Created
  <1>2. ASSUME NEW r \in Requests, Ask(r) \/ Write(r) PROVE SchoolInv'
    <2>1. CASE Ask(r)
      BY <2>1, AskKeeps
    <2>2. CASE Close(r) \/ Reopen(r) \/ ReleaseMarks(r) \/ SetCalendar(r)
      BY <2>2, TermRowKeeps
    <2>3. CASE ReplaceTypes(r)
      BY <2>3, ReplaceKeeps
    <2>4. CASE CreateAssessment(r)
      BY <2>4, CreateKeeps
    <2>5. CASE SaveMarks(r)
      BY <2>5, SaveKeeps
    <2> QED
      BY <1>2, <2>1, <2>2, <2>3, <2>4, <2>5 DEF Write
  <1> QED
    BY <1>1, <1>2 DEF TermNext

THEOREM SchoolInvariance == Spec => []SchoolInv
  <1> QED
    BY InitEstablishes, TermNextKeeps, PTL DEF Spec

(* The marks of a term stay comparable: types in use stay, the grading basis
   is fixed by the first assessment, and every grade was taken from it. *)
THEOREM MarksComparableAlways == Spec => []MarksComparable
  <1>1. SchoolInv => MarksComparable
    BY DEF SchoolInv
  <1> QED
    BY <1>1, SchoolInvariance, PTL

(* No two saved calendars were based on the same version. *)
THEOREM NoCalendarLostAlways == Spec => []NoCalendarLost
  <1>1. SchoolInv => NoCalendarLost
    BY DEF SchoolInv
  <1> QED
    BY <1>1, SchoolInvariance, PTL

(* The marks of an open term are not released. *)
THEOREM ReleasedIsClosedAlways == Spec => []ReleasedIsClosed
  <1>1. SchoolInv => ReleasedIsClosed
    BY DEF SchoolInv
  <1> QED
    BY <1>1, SchoolInvariance, PTL

(* Every writer of the data found the term open under its lock. *)
LEMMA WritersFindItOpen ==
  ASSUME TypeOK, [TermNext]_tvars, term.status = "closed", term'.status = "closed"
  PROVE  UNCHANGED <<types, typeOf, score, gradedBy, term.scale, term.calendar>>
  <1>1. CASE UNCHANGED tvars
    BY <1>1 DEF tvars, data
  <1>2. ASSUME NEW r \in Requests, Ask(r)
        PROVE  UNCHANGED <<types, typeOf, score, gradedBy, term.scale, term.calendar>>
    BY <1>2 DEF Ask, PreviewImport, LoadCalendar, ReadTerm, Refuse, data
  <1>3. ASSUME NEW r \in Requests, Write(r)
        PROVE  UNCHANGED <<types, typeOf, score, gradedBy, term.scale, term.calendar>>
    <2>1. CASE ReleaseMarks(r)
      BY <2>1 DEF ReleaseMarks, data, TypeOK, Term
    <2>2. CASE Reopen(r)
      BY <2>2 DEF Reopen, TypeOK, Term
    <2>3. CASE Close(r) \/ SetCalendar(r) \/ ReplaceTypes(r) \/ CreateAssessment(r) \/ SaveMarks(r)
      BY <2>3 DEF Close, SetCalendar, ReplaceTypes, CreateAssessment, SaveMarks, Finish
    <2> QED
      BY <1>3, <2>1, <2>2, <2>3 DEF Write
  <1> QED
    BY <1>1, <1>2, <1>3 DEF TermNext

(* Nothing a result is computed from changes while the term stays closed. *)
THEOREM ClosedIsFrozenAlways == Spec => ClosedIsFrozen
  <1>1. SchoolInv /\ [TermNext]_tvars =>
          [term.status = "closed" /\ term'.status = "closed"
             => UNCHANGED <<types, typeOf, score, gradedBy, term.scale, term.calendar>>]_tvars
    BY WritersFindItOpen DEF SchoolInv
  <1> QED
    BY <1>1, SchoolInvariance, PTL DEF Spec, ClosedIsFrozen

(* A request comes to "saved" by saving marks, and by nothing else. *)
LEMMA SavedBySaving ==
  ASSUME TypeOK, [TermNext]_tvars, NEW r \in Requests, request[r] # "saved", request'[r] = "saved"
  PROVE  SaveMarks(r)
  <1>1. ASSUME NEW q \in Requests, Ask(q) PROVE FALSE
    BY <1>1 DEF Ask, PreviewImport, LoadCalendar, ReadTerm, Refuse, TypeOK
  <1>2. ASSUME NEW q \in Requests, NEW outcome \in {"done", "calendar"}, NEW status,
               Finish(q, status, outcome)
        PROVE  FALSE
    BY <1>2 DEF Finish, TypeOK
  <1>3. ASSUME NEW q \in Requests, Write(q), ~ SaveMarks(q) PROVE FALSE
    BY <1>2, <1>3 DEF Write, Close, Reopen, ReleaseMarks, SetCalendar, ReplaceTypes, CreateAssessment
  <1>4. ASSUME NEW q \in Requests, SaveMarks(q) PROVE q = r
    BY <1>4 DEF SaveMarks, Finish, TypeOK
  <1>5. request' # request
    OBVIOUS
  <1> QED
    BY <1>1, <1>3, <1>4, <1>5 DEF TermNext, tvars, locals

(* An import that is saved changes no mark that was changed after its
   preview: what it was previewed against is compared under the term's lock
   (SaveMarks). *)
THEOREM ImportsSeeTheirPreviewAlways == Spec => ImportsSeeTheirPreview
  <1>1. ASSUME SchoolInv, [TermNext]_tvars
        PROVE  [\A r \in Requests : request[r] # "saved" /\ request'[r] = "saved" /\ preview[r] # None
                  => \A p \in Pairs : score'[p] # score[p] => score[p] = preview[r][p]]_tvars
    <2> SUFFICES ASSUME NEW r \in Requests, request[r] # "saved", request'[r] = "saved",
                        preview[r] # None, NEW p \in Pairs, score'[p] # score[p]
                 PROVE  score[p] = preview[r][p]
      OBVIOUS
    <2>1. SaveMarks(r)
      BY <1>1, SavedBySaving DEF SchoolInv
    <2>2. PICK a \in Created, who \in (SUBSET Students) \ {{}}, value \in Scores :
             /\ \A q \in {a} \X who : score[q] = preview[r][q]
             /\ score' = [q \in Pairs |-> IF q \in {a} \X who THEN value ELSE score[q]]
      BY <2>1 DEF SaveMarks
    <2> QED
      BY <2>2
  <1> QED
    BY <1>1, SchoolInvariance, PTL DEF Spec, ImportsSeeTheirPreview

-----------------------------------------------------------------------------
(* The readers *)

(* What a reader has read of the assessments still stands: none is deleted
   or changes its type. *)
AssessmentsStand ==
  \A r \in Readers, a \in Assessments : got[r].typeOf[a] # None => typeOf[a] = got[r].typeOf[a]

HasTypes == {"types", "read", "shown", "issued"}
HasMarks == {"read", "shown", "issued", "withheld"}

(* While the term stays closed, every statement's result still stands. *)
SteadyStands ==
  \A r \in steady :
    /\ term.status = "closed" /\ reader[r] \notin {"new", "begun"}
    /\ got[r].term.scale = term.scale
    /\ reader[r] # "term" => got[r].typeOf = typeOf
    /\ reader[r] \notin {"term", "assessments"} => got[r].types = types
    /\ reader[r] \in HasMarks => got[r].score = score

ReaderInv == ResultsTypeOK /\ SchoolInv /\ AssessmentsStand /\ TypesOfResultKnown /\ SteadyStands

(* Assessments are only ever added. *)
LEMMA AssessmentsOnlyAdded ==
  ASSUME TypeOK, TermNext, NEW a \in Assessments, typeOf[a] # None
  PROVE  typeOf'[a] = typeOf[a]
  <1>1. PICK r \in Requests : Ask(r) \/ Write(r)
    BY DEF TermNext
  <1>2. CASE CreateAssessment(r)
    BY <1>2 DEF CreateAssessment, Created, TypeOK
  <1>3. CASE ~CreateAssessment(r)
    BY <1>1, <1>3 DEF Ask, Write, PreviewImport, LoadCalendar, ReadTerm, Refuse, Close, Reopen,
                      ReleaseMarks, SetCalendar, ReplaceTypes, SaveMarks, data
  <1> QED
    BY <1>2, <1>3

LEMMA TermStepKeeps ==
  ASSUME ReaderInv, TermStep
  PROVE  ReaderInv'
  <1> USE DEF ReaderInv
  <1>1. TermNext /\ UNCHANGED <<reader, purpose, got>>
    BY DEF TermStep, reading
  <1>2. SchoolInv'
    BY <1>1, TermNextKeeps
  <1>3. ResultsTypeOK'
    <2>2. steady' \in SUBSET Readers
      BY DEF TermStep, ResultsTypeOK
    <2> QED
      BY <1>1, <1>2, <2>2 DEF ResultsTypeOK, SchoolInv
  <1>4. AssessmentsStand'
    <2> SUFFICES ASSUME NEW r \in Readers, NEW a \in Assessments, got[r].typeOf[a] # None
                 PROVE  typeOf'[a] = got[r].typeOf[a]
      BY <1>1 DEF AssessmentsStand
    <2>1. typeOf[a] = got[r].typeOf[a]
      BY DEF AssessmentsStand
    <2> QED
      BY <1>1, <2>1, AssessmentsOnlyAdded DEF SchoolInv
  <1>5. TypesOfResultKnown'
    BY <1>1 DEF TypesOfResultKnown
  <1>6. SteadyStands'
    <2> SUFFICES ASSUME NEW r \in steady' PROVE
          /\ term'.status = "closed" /\ reader[r] \notin {"new", "begun"}
          /\ got[r].term.scale = term'.scale
          /\ reader[r] # "term" => got[r].typeOf = typeOf'
          /\ reader[r] \notin {"term", "assessments"} => got[r].types = types'
          /\ reader[r] \in HasMarks => got[r].score = score'
      BY <1>1 DEF SteadyStands
    <2>1. r \in steady /\ term'.status # "open"
      BY DEF TermStep
    <2>2. term.status = "closed" /\ term'.status = "closed"
      BY <1>2, <2>1 DEF SteadyStands, SchoolInv, TypeOK, Term
    <2>3. UNCHANGED <<types, typeOf, score, gradedBy, term.scale, term.calendar>>
      BY <1>1, <2>2, WritersFindItOpen DEF SchoolInv
    <2> QED
      BY <2>1, <2>2, <2>3 DEF SteadyStands
  <1> QED
    BY <1>2, <1>3, <1>4, <1>5, <1>6

(* Reading fills one field of what the reader has. *)
LEMMA GotType ==
  ASSUME got \in [Readers -> Source], NEW r \in Readers
  PROVE  /\ \A x \in Term : [got EXCEPT ![r].term = x] \in [Readers -> Source]
         /\ \A x \in [Assessments -> Types \cup {None}] : [got EXCEPT ![r].typeOf = x] \in [Readers -> Source]
         /\ \A x \in SUBSET Types : [got EXCEPT ![r].types = x] \in [Readers -> Source]
         /\ \A x \in [Pairs -> Scores \cup {None}] : [got EXCEPT ![r].score = x] \in [Readers -> Source]
  <1> DEFINE A == [Assessments -> Types \cup {None}]  S == SUBSET Types  P == [Pairs -> Scores \cup {None}]
  <1>1. Source = [term : Term, typeOf : A, types : S, score : P]
    BY DEF Source
  <1> HIDE DEF A, S, P
  <1>2. \A x \in Term : [got EXCEPT ![r].term = x] \in [Readers -> Source]
    BY <1>1
  <1>3. \A x \in A : [got EXCEPT ![r].typeOf = x] \in [Readers -> Source]
    BY <1>1
  <1>4. \A x \in S : [got EXCEPT ![r].types = x] \in [Readers -> Source]
    BY <1>1
  <1>5. \A x \in P : [got EXCEPT ![r].score = x] \in [Readers -> Source]
    BY <1>1
  <1> QED
    BY <1>2, <1>3, <1>4, <1>5 DEF A, S, P

(* A statement of a reader leaves the term alone. *)
LEMMA ReaderStepType ==
  ASSUME ReaderInv, NEW r \in Readers, Read(r)
  PROVE  /\ ResultsTypeOK' /\ SchoolInv' /\ UNCHANGED tvars
         /\ \A q \in Readers \ {r} : reader'[q] = reader[q] /\ got'[q] = got[q]
                                     /\ (q \in steady' <=> q \in steady)
  <1> USE DEF ReaderInv, ResultsTypeOK, Advance
  <1>1. UNCHANGED <<tvars, purpose>>
    BY DEF Read, Begin, ReadTermRow, ReadAssessments, ReadTypes, ReadScores, Show, Withhold, Issue
  <1>2. SchoolInv'
    BY <1>1, TermNextKeeps
  <1>3. reader' \in [Readers -> Stages]
    BY DEF Read, Begin, ReadTermRow, ReadAssessments, ReadTypes, ReadScores, Show, Withhold, Issue, Stages
  <1>4. got' \in [Readers -> Source]
    <2> USE GotType
    <2>1. CASE ReadTermRow(r)
      BY <2>1 DEF ReadTermRow, TypeOK
    <2>2. CASE ReadAssessments(r)
      BY <2>2 DEF ReadAssessments, TypeOK
    <2>3. CASE ReadTypes(r)
      <3>1. types \in SUBSET Types
        BY DEF TypeOK
      <3> QED
        BY <2>3, <3>1 DEF ReadTypes
    <2>4. CASE ReadScores(r)
      <3>1. PICK asked : got' = [got EXCEPT ![r].score = [p \in Pairs |-> IF p \in asked THEN score[p] ELSE None]]
        BY <2>4 DEF ReadScores
      <3>2. [p \in Pairs |-> IF p \in asked THEN score[p] ELSE None] \in [Pairs -> Scores \cup {None}]
        BY DEF TypeOK
      <3> QED
        BY <3>1, <3>2
    <2>5. CASE Begin(r) \/ Show(r) \/ Withhold(r) \/ Issue(r)
      BY <2>5 DEF Begin, Show, Withhold, Issue
    <2> QED
      BY <2>1, <2>2, <2>3, <2>4, <2>5 DEF Read
  <1>6. steady' \in SUBSET Readers /\ \A q \in Readers \ {r} : q \in steady' <=> q \in steady
    BY DEF Read, Begin, ReadTermRow, ReadAssessments, ReadTypes, ReadScores, Show, Withhold, Issue
  <1>7. \A q \in Readers \ {r} : reader'[q] = reader[q]
    BY DEF Read, Begin, ReadTermRow, ReadAssessments, ReadTypes, ReadScores, Show, Withhold, Issue
  <1>8. \A q \in Readers \ {r} : got'[q] = got[q]
    BY DEF Read, Begin, ReadTermRow, ReadAssessments, ReadTypes, ReadScores, Show, Withhold, Issue
  <1> QED
    BY <1>1, <1>2, <1>3, <1>4, <1>6, <1>7, <1>8 DEF SchoolInv

(* It suffices to look at the reader that made the step. *)
LEMMA ReaderStepLocal ==
  ASSUME ReaderInv, NEW r \in Readers, Read(r),
         \A a \in Assessments : got'[r].typeOf[a] # None => typeOf[a] = got'[r].typeOf[a],
         reader'[r] \in HasTypes =>
           \A a \in Assessments : got'[r].typeOf[a] # None => got'[r].typeOf[a] \in got'[r].types,
         r \in steady' =>
           /\ term.status = "closed" /\ reader'[r] \notin {"new", "begun"}
           /\ got'[r].term.scale = term.scale
           /\ reader'[r] # "term" => got'[r].typeOf = typeOf
           /\ reader'[r] \notin {"term", "assessments"} => got'[r].types = types
           /\ reader'[r] \in HasMarks => got'[r].score = score
  PROVE  ReaderInv'
  <1> USE DEF ReaderInv
  <1>1. /\ ResultsTypeOK' /\ SchoolInv' /\ UNCHANGED tvars
        /\ \A q \in Readers \ {r} : reader'[q] = reader[q] /\ got'[q] = got[q]
                                    /\ (q \in steady' <=> q \in steady)
    BY ReaderStepType
  <1>2. term' = term /\ typeOf' = typeOf /\ types' = types /\ score' = score
    BY <1>1 DEF tvars, data
  <1>3. AssessmentsStand'
    BY <1>1, <1>2 DEF AssessmentsStand
  <1>4. TypesOfResultKnown'
    BY <1>1 DEF TypesOfResultKnown, HasTypes
  <1>5. SteadyStands'
    <2> SUFFICES ASSUME NEW q \in steady' PROVE
          /\ term.status = "closed" /\ reader'[q] \notin {"new", "begun"}
          /\ got'[q].term.scale = term.scale
          /\ reader'[q] # "term" => got'[q].typeOf = typeOf
          /\ reader'[q] \notin {"term", "assessments"} => got'[q].types = types
          /\ reader'[q] \in HasMarks => got'[q].score = score
      BY <1>2 DEF SteadyStands
    <2>1. q \in Readers
      BY <1>1 DEF ResultsTypeOK
    <2>2. CASE q = r
      BY <2>2
    <2>3. CASE q # r
      <3>1. q \in steady /\ reader'[q] = reader[q] /\ got'[q] = got[q]
        BY <1>1, <2>1, <2>3
      <3> QED
        BY <3>1 DEF SteadyStands
    <2> QED
      BY <2>2, <2>3
  <1> QED
    BY <1>1, <1>3, <1>4, <1>5

LEMMA ReaderStepKeeps ==
  ASSUME ReaderInv, NEW r \in Readers, Read(r)
  PROVE  ReaderInv'
  <1> USE DEF ReaderInv, Advance
  <1>0. /\ reader \in [Readers -> Stages] /\ got \in [Readers -> Source]
        /\ typeOf \in [Assessments -> Types \cup {None}] /\ score \in [Pairs -> Scores \cup {None}]
        /\ r \in Readers
        /\ \A a \in Assessments : got[r].typeOf[a] # None => typeOf[a] = got[r].typeOf[a]
        /\ \A a \in Assessments : typeOf[a] # None => typeOf[a] \in types
    BY DEF ResultsTypeOK, SchoolInv, TypeOK, MarksComparable, TypesKept, Created, AssessmentsStand
  <1>known. reader[r] \in HasTypes =>
              \A a \in Assessments : got[r].typeOf[a] # None => got[r].typeOf[a] \in got[r].types
    BY DEF TypesOfResultKnown, HasTypes
  <1>steady. r \in steady =>
           /\ term.status = "closed" /\ reader[r] \notin {"new", "begun"}
           /\ got[r].term.scale = term.scale
           /\ reader[r] # "term" => got[r].typeOf = typeOf
           /\ reader[r] \notin {"term", "assessments"} => got[r].types = types
           /\ reader[r] \in HasMarks => got[r].score = score
    BY DEF SteadyStands
  <1>1. CASE Begin(r)
    <2>1. reader[r] = "new" /\ reader'[r] = "begun" /\ got' = got /\ steady' = steady
      BY <1>0, <1>1 DEF Begin
    <2> QED
      BY <1>0, <1>steady, <2>1, ReaderStepLocal DEF HasTypes
  <1>2. CASE ReadTermRow(r)
    <2>1. /\ reader[r] = "begun" /\ reader'[r] = "term"
          /\ got'[r].term = term /\ got'[r].typeOf = got[r].typeOf
          /\ steady' = IF term.status = "closed" THEN steady \cup {r} ELSE steady
      BY <1>0, <1>2 DEF ReadTermRow, Source
    <2>2. r \in steady' => term.status = "closed"
      BY <1>steady, <2>1
    <2> QED
      BY <1>0, <2>1, <2>2, ReaderStepLocal DEF HasTypes, HasMarks
  <1>3. CASE ReadAssessments(r)
    <2>1. /\ reader[r] = "term" /\ reader'[r] = "assessments"
          /\ got'[r].term = got[r].term /\ got'[r].typeOf = typeOf /\ steady' = steady
      BY <1>0, <1>3 DEF ReadAssessments, Source
    <2> QED
      BY <1>0, <1>steady, <2>1, ReaderStepLocal DEF HasTypes, HasMarks
  <1>4. CASE ReadTypes(r)
    <2>1. /\ reader[r] = "assessments" /\ reader'[r] = "types" /\ steady' = steady
          /\ got'[r].term = got[r].term /\ got'[r].typeOf = got[r].typeOf /\ got'[r].types = types
      BY <1>0, <1>4 DEF ReadTypes, Source
    <2>2. \A a \in Assessments : got'[r].typeOf[a] # None => got'[r].typeOf[a] \in got'[r].types
      BY <1>0, <2>1
    <2> QED
      BY <1>0, <1>steady, <2>1, <2>2, ReaderStepLocal DEF HasMarks
  <1>5. CASE ReadScores(r)
    <2> DEFINE asked == {p \in Pairs : got[r].typeOf[p[1]] # None}
               sc == [p \in Pairs |-> IF p \in asked THEN score[p] ELSE None]
    <2>1. /\ reader[r] = "types" /\ reader'[r] = "read" /\ steady' = steady
          /\ got' = [got EXCEPT ![r].score = sc]
      BY <1>0, <1>5 DEF ReadScores
    <2>2. ASSUME r \in steady PROVE sc = score
      <3>1. got[r].typeOf = typeOf
        BY <1>steady, <2>1, <2>2
      <3>2. ASSUME NEW p \in Pairs, score[p] # None PROVE p \in asked
        BY <3>1, <3>2 DEF SchoolInv, MarksComparable, GradedByBasis, Created
      <3>3. \A p \in Pairs : sc[p] = score[p]
        BY <3>2
      <3> QED
        BY <1>0, <3>3
    <2> HIDE DEF asked, sc
    <2>3. /\ got'[r].term = got[r].term /\ got'[r].typeOf = got[r].typeOf
          /\ got'[r].types = got[r].types /\ got'[r].score = sc
      BY <1>0, <2>1 DEF Source
    <2> QED
      BY <1>0, <1>known, <1>steady, <2>1, <2>2, <2>3, ReaderStepLocal DEF HasTypes, HasMarks
  <1>6. CASE Show(r) \/ Withhold(r) \/ Issue(r)
    <2>1. /\ reader[r] = "read" /\ reader'[r] \in {"shown", "withheld", "issued"}
          /\ got' = got /\ steady' = steady
      BY <1>0, <1>6 DEF Show, Withhold, Issue
    <2> QED
      BY <1>0, <1>known, <1>steady, <2>1, ReaderStepLocal DEF HasTypes, HasMarks
  <1> QED
    BY <1>1, <1>2, <1>3, <1>4, <1>5, <1>6 DEF Read

LEMMA ReaderInit == ResultsInit => ReaderInv
  <1> SUFFICES ASSUME ResultsInit PROVE ReaderInv
    OBVIOUS
  <1>1. SchoolInv
    BY InitEstablishes DEF ResultsInit
  <1>2. Nothing \in Source
    BY <1>1 DEF Nothing, Source, SchoolInv, TypeOK
  <1>3. got \in [Readers -> Source]
    BY <1>2 DEF ResultsInit
  <1>4. ResultsTypeOK
    BY <1>1, <1>3 DEF ResultsInit, ResultsTypeOK, SchoolInv, Stages
  <1>5. AssessmentsStand
    BY DEF ResultsInit, AssessmentsStand, Nothing
  <1>6. TypesOfResultKnown /\ SteadyStands
    BY DEF ResultsInit, TypesOfResultKnown, SteadyStands
  <1> QED
    BY <1>1, <1>4, <1>5, <1>6 DEF ReaderInv

THEOREM ReaderInvariance == ResultsSpec => []ReaderInv
  <1>1. ReaderInv /\ [Next]_vars => ReaderInv'
    <2> SUFFICES ASSUME ReaderInv, [Next]_vars PROVE ReaderInv'
      OBVIOUS
    <2>1. CASE UNCHANGED vars
      <3>1. SchoolInv'
        BY <2>1, TermNextKeeps DEF vars, ReaderInv
      <3>2. UNCHANGED <<reader, purpose, got, steady>> /\ UNCHANGED <<term, typeOf, types, score>>
        BY <2>1 DEF vars, reading, tvars, data
      <3> QED
        BY <3>1, <3>2 DEF ReaderInv, ResultsTypeOK, SchoolInv, AssessmentsStand, TypesOfResultKnown, SteadyStands
    <2>2. CASE TermStep
      BY <2>2, TermStepKeeps
    <2>3. ASSUME NEW r \in Readers, Read(r) PROVE ReaderInv'
      BY <2>3, ReaderStepKeeps
    <2> QED
      BY <2>1, <2>2, <2>3 DEF Next
  <1> QED
    BY <1>1, ReaderInit, PTL DEF ResultsSpec

(* A result never weighs an assessment of a type it has not read, although
   assessments and types are read by two statements. *)
THEOREM TypesOfResultKnownAlways == ResultsSpec => []TypesOfResultKnown
  <1>1. ReaderInv => TypesOfResultKnown
    BY DEF ReaderInv
  <1> QED
    BY <1>1, ReaderInvariance, PTL

(* What is read while the term stays closed is exactly the term. *)
THEOREM SteadyReadIsExactAlways == ResultsSpec => []SteadyReadIsExact
  <1>1. ReaderInv => SteadyReadIsExact
    BY DEF ReaderInv, SteadyStands, SteadyReadIsExact, ResultsTypeOK, HasMarks
  <1> QED
    BY <1>1, ReaderInvariance, PTL

(* Readers leave the term alone: with any number of them the term does what
   it does without, so every theorem about Spec holds of the composition. *)
THEOREM ReadersLeaveTheTerm == ResultsSpec => Spec
  <1>1. ResultsInit => Init
    BY DEF ResultsInit
  <1>2. [Next]_vars => [TermNext]_tvars
    <2>1. ASSUME NEW r \in Readers, Read(r) PROVE UNCHANGED tvars
      BY <2>1 DEF Read, Begin, ReadTermRow, ReadAssessments, ReadTypes, ReadScores, Show,
                  Withhold, Issue
    <2> QED
      BY <2>1 DEF Next, TermStep, vars
  <1> QED
    BY <1>1, <1>2, PTL DEF ResultsSpec, Spec
=============================================================================
