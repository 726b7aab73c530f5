---------------------------- MODULE SchoolResults ---------------------------
(***************************************************************************)
(* Reading the result of a pupil while the term is worked on.               *)
(*                                                                          *)
(* termResultSource reads the term, its assessments, its types and the      *)
(* marks in four statements outside any transaction.  The portal shows      *)
(* families the marks of released terms from it, and report cards are       *)
(* built from it.  The composition with SchoolTerms: writers and readers    *)
(* interleave statement by statement.                                       *)
(***************************************************************************)
EXTENDS SchoolTerms

CONSTANT Readers

VARIABLES
  reader,    \* how far a reader has come
  purpose,   \* a family's view or a report card
  got,       \* what it has read
  steady     \* history: readers since whose first read the term stayed closed

reading == <<reader, purpose, got>>
vars    == <<tvars, reading, steady>>

Stages == {"new", "begun", "term", "assessments", "types", "read", "shown", "issued", "withheld"}

Source == [term : Term, typeOf : [Assessments -> Types \cup {None}],
           types : SUBSET Types, score : [Pairs -> Scores \cup {None}]]

ResultsTypeOK ==
  /\ TypeOK
  /\ reader \in [Readers -> Stages]
  /\ purpose \in [Readers -> {"family", "card"}]
  /\ got \in [Readers -> Source]
  /\ steady \in SUBSET Readers

Nothing == [term |-> term, typeOf |-> [a \in Assessments |-> None],
            types |-> {}, score |-> [p \in Pairs |-> None]]

ResultsInit ==
  /\ Init
  /\ reader = [r \in Readers |-> "new"]
  /\ purpose \in [Readers -> {"family", "card"}]
  /\ got = [r \in Readers |-> Nothing]
  /\ steady = {}

-----------------------------------------------------------------------------
(* termResultSource *)

Advance(r, from, to) == reader[r] = from /\ reader' = [reader EXCEPT ![r] = to]

(* The portal lists the released terms first; a report card is built for any
   term of the pupil's school, open ones too. *)
Begin(r) ==
  /\ purpose[r] = "family" => term.status = "closed" /\ term.released
  /\ Advance(r, "new", "begun")
  /\ UNCHANGED <<tvars, purpose, got, steady>>

ReadTermRow(r) ==
  /\ Advance(r, "begun", "term")
  /\ got' = [got EXCEPT ![r].term = term]
  /\ steady' = IF term.status = "closed" THEN steady \cup {r} ELSE steady
  /\ UNCHANGED <<tvars, purpose>>

ReadAssessments(r) ==
  /\ Advance(r, "term", "assessments")
  /\ got' = [got EXCEPT ![r].typeOf = typeOf]
  /\ UNCHANGED <<tvars, purpose, steady>>

ReadTypes(r) ==
  /\ Advance(r, "assessments", "types")
  /\ got' = [got EXCEPT ![r].types = types]
  /\ UNCHANGED <<tvars, purpose, steady>>

(* The marks of the assessments it has read. *)
ReadScores(r) ==
  /\ Advance(r, "types", "read")
  /\ LET asked == {p \in Pairs : got[r].typeOf[p[1]] # None}
     IN got' = [got EXCEPT ![r].score = [p \in Pairs |-> IF p \in asked THEN score[p] ELSE None]]
  /\ UNCHANGED <<tvars, purpose, steady>>

Visible(r) ==
  /\ got[r].term.status = "closed" /\ got[r].term.released
  /\ \E a \in Assessments : got[r].typeOf[a] # None

(* The portal checks the term row that came with the marks. *)
Show(r) ==
  /\ purpose[r] = "family" /\ Visible(r)
  /\ Advance(r, "read", "shown")
  /\ UNCHANGED <<tvars, purpose, got, steady>>

Withhold(r) ==
  /\ purpose[r] = "family" /\ ~Visible(r)
  /\ Advance(r, "read", "withheld")
  /\ UNCHANGED <<tvars, purpose, got, steady>>

(* A report card is issued from what was read, whatever the term's status. *)
Issue(r) ==
  /\ purpose[r] = "card"
  /\ Advance(r, "read", "issued")
  /\ UNCHANGED <<tvars, purpose, got, steady>>

(* Mutation: the types are read before the assessments. *)
TypesBefore(r) ==
  /\ Advance(r, "term", "assessments")
  /\ got' = [got EXCEPT ![r].types = types]
  /\ UNCHANGED <<tvars, purpose, steady>>

AssessmentsAfter(r) ==
  /\ Advance(r, "assessments", "types")
  /\ got' = [got EXCEPT ![r].typeOf = typeOf]
  /\ UNCHANGED <<tvars, purpose, steady>>

ReadTypesFirst(r) == Begin(r) \/ ReadTermRow(r) \/ TypesBefore(r) \/ AssessmentsAfter(r)

(* Mutation: the marks are read before the term row. *)
MarksBefore(r) ==
  /\ Advance(r, "new", "begun")
  /\ got' = [got EXCEPT ![r].score = score]
  /\ UNCHANGED <<tvars, purpose, steady>>

MarksKept(r) ==
  /\ Advance(r, "types", "read")
  /\ UNCHANGED <<tvars, purpose, got, steady>>

ReadMarksFirst(r) == MarksBefore(r) \/ ReadTermRow(r) \/ ReadAssessments(r) \/ ReadTypes(r) \/ MarksKept(r)

Read(r) == \/ Begin(r) \/ ReadTermRow(r) \/ ReadAssessments(r) \/ ReadTypes(r)
           \/ ReadScores(r) \/ Show(r) \/ Withhold(r) \/ Issue(r)

(* What happens to the term: a reopening unsettles every reader. *)
TermStep ==
  /\ TermNext
  /\ steady' = IF term'.status = "open" THEN {} ELSE steady
  /\ UNCHANGED reading

Next == TermStep \/ \E r \in Readers : Read(r)

ResultsSpec == ResultsInit /\ [][Next]_vars

-----------------------------------------------------------------------------
(* Weighting never meets an assessment of an unknown type, although the two
   are read by two statements: types are read last, and none that is in use
   is ever replaced (report-source.ts:156-166). *)
TypesOfResultKnown ==
  \A r \in Readers : reader[r] \in {"types", "read", "shown", "issued"} =>
    \A a \in Assessments : got[r].typeOf[a] # None => got[r].typeOf[a] \in got[r].types

(* What is read while the term stays closed is no mixture: the four
   statements agree with each other and with the term as it still is, so a
   report card issued of a closed term is the result of that term. *)
SteadyReadIsExact ==
  \A r \in steady : reader[r] \in {"read", "shown", "issued"} =>
    /\ got[r].term.scale = term.scale
    /\ got[r].typeOf = typeOf
    /\ got[r].types = types
    /\ got[r].score = score
=============================================================================
