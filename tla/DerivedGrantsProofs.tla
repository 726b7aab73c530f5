------------------------ MODULE DerivedGrantsProofs ------------------------
(***************************************************************************)
(* Proofs about DerivedGrants, for any assignments, teachers, accounts and  *)
(* requests.  The invariant says what a worker may rely on: what it holds   *)
(* fits its stage, always; what it has read still holds, as long as nobody  *)
(* overlapped it; and what it has left to do is all that separates the      *)
(* grants from the assignments.                                             *)
(***************************************************************************)
EXTENDS DerivedGrants, FiniteSetTheorems, TLAPS

(* What a request holds at its stages: the assignment it works on is
   defined, and a plan, a kind and a stage go together. *)
HasTarget(w) == work[w].stage \in {"delete", "replace", "role", "add"}
                \/ (At(w, "evict") /\ work[w].kind # "strip")
Granted(a)   == grant[a].user
Planned(w)   == work[w].plan[Target(w)]

StagesFit(w) ==
  /\ work[w].kind = "reconcile" <=> w = Job
  /\ work[w].stage \in {"insert", "undo"} => work[w].kind = "create"
  /\ work[w].stage \in {"update", "list"} => work[w].kind = "relink"
  /\ At(w, "look") => work[w].kind \in {"relink", "reconcile"}
  /\ At(w, "drop") => work[w].kind = "remove" /\ work[w].todo = {}
  /\ At(w, "sweep") => work[w].kind = "reconcile"
  /\ work[w].kind = "strip" => work[w].stage \in {"new", "evict", "done", "crashed"}

PlansFit(w) ==
  /\ HasTarget(w) => work[w].todo # {}
  /\ work[w].stage \in {"replace", "role", "add"} => Planned(w) # None
  /\ At(w, "delete") => Planned(w) = None
  /\ work[w].stage \in {"delete", "replace"} => work[w].found.user # None
  /\ At(w, "replace") => work[w].found.user # Planned(w)
  /\ work[w].kind \in {"create", "remove"} => work[w].todo \subseteq {work[w].a}
  /\ work[w].kind = "create" => \A b \in Assignments \ {work[w].a} : work[w].plan[b] = None
  /\ work[w].kind \in {"remove", "strip"} => work[w].plan = NoPlan
  /\ work[w].kind = "relink" /\ work[w].stage \in {"new", "update", "list", "look"} => work[w].plan = NoPlan

WorkFits == \A w \in Workers : StagesFit(w) /\ PlansFit(w)
TypeInv  == DerivedTypeOK /\ WorkFits

-----------------------------------------------------------------------------
(* What a step of a worker writes: its own record, and of it the stage and
   what it remembers. *)
Grants == [user : Users \cup {None}, id : Nat]
Turns(w, stage, todo, plan, seen, found) ==
  /\ work' \in [Workers -> Work]
  /\ \A v \in Workers \ {w} : work'[v] = work[v]
  /\ work'[w].kind = work[w].kind /\ work'[w].a = work[w].a
  /\ work'[w].t = work[w].t /\ work'[w].u = work[w].u
  /\ work'[w].stage = stage /\ work'[w].todo = todo /\ work'[w].plan = plan
  /\ work'[w].seen = seen /\ work'[w].found = found
Goes(w, stage)       == Turns(w, stage, work[w].todo, work[w].plan, work[w].seen, work[w].found)
Takes(w, stage, todo) == Turns(w, stage, todo, work[w].plan, work[w].seen, work[w].found)
Ends(w, stage)       == Turns(w, stage, {}, NoPlan, None, NoGrant)

LEMMA Nothing == NoGrant \in Grants /\ NoPlan \in Plan
  BY DEF NoGrant, NoPlan, Plan, Grants

LEMMA AskedType ==
  ASSUME NEW task, task.kind \in Kinds, task.a \in Assignments, task.t \in Teachers,
         task.u \in Users \cup {None}, NEW stage \in Stages
  PROVE  Asked(task, stage) \in Work
  BY Nothing DEF Asked, Work, Grants

LEMMA Ending ==
  ASSUME DerivedTypeOK, NEW w \in Workers, NEW stage \in Stages, End(w, stage)
  PROVE  Ends(w, stage)
  <1> DEFINE r == Asked(work[w], stage)
  <1>1. work \in [Workers -> Work] /\ work[w] \in Work
    BY DEF DerivedTypeOK
  <1>2. r \in Work
    BY <1>1, AskedType DEF Work
  <1>3. /\ r.kind = work[w].kind /\ r.a = work[w].a /\ r.t = work[w].t /\ r.u = work[w].u
        /\ r.stage = stage /\ r.todo = {} /\ r.plan = NoPlan /\ r.seen = None /\ r.found = NoGrant
    BY DEF Asked
  <1> HIDE DEF r
  <1>4. work' = [work EXCEPT ![w] = r]
    BY DEF End, r
  <1> QED
    BY <1>1, <1>2, <1>3, <1>4 DEF Ends, Turns

LEMMA Going == ASSUME DerivedTypeOK, NEW w \in Workers, NEW stage \in Stages, To(w, stage) PROVE Goes(w, stage)
  BY DEF DerivedTypeOK, To, Goes, Turns, Work

LEMMA Taking ==
  ASSUME DerivedTypeOK, NEW w \in Workers, NEW stage \in Stages, NEW todo \in SUBSET Assignments,
         work' = [work EXCEPT ![w].stage = stage, ![w].todo = todo]
  PROVE  Takes(w, stage, todo)
  BY DEF DerivedTypeOK, Takes, Turns, Work

LEMMA Planning ==
  ASSUME DerivedTypeOK, NEW w \in Workers, NEW stage \in Stages, NEW todo \in SUBSET Assignments, NEW plan \in Plan,
         work' = [work EXCEPT ![w].stage = stage, ![w].todo = todo, ![w].plan = plan]
  PROVE  Turns(w, stage, todo, plan, work[w].seen, work[w].found)
  BY DEF DerivedTypeOK, Turns, Work

LEMMA Seeing ==
  ASSUME DerivedTypeOK, NEW w \in Workers, NEW stage \in Stages, NEW seen \in Users \cup {None},
         work' = [work EXCEPT ![w].stage = stage, ![w].seen = seen]
  PROVE  Turns(w, stage, work[w].todo, work[w].plan, seen, work[w].found)
  BY DEF DerivedTypeOK, Turns, Work

LEMMA Finding ==
  ASSUME DerivedTypeOK, NEW w \in Workers, NEW stage \in Stages, NEW found \in Grants,
         work' = [work EXCEPT ![w].stage = stage, ![w].found = found]
  PROVE  Turns(w, stage, work[w].todo, work[w].plan, work[w].seen, found)
  BY DEF DerivedTypeOK, Turns, Work, Grants

LEMMA PlanWith ==
  ASSUME NEW plan \in Plan, NEW a \in Assignments, NEW u \in Users \cup {None}
  PROVE  /\ [plan EXCEPT ![a] = u] \in Plan
         /\ [plan EXCEPT ![a] = u][a] = u
         /\ \A b \in Assignments \ {a} : [plan EXCEPT ![a] = u][b] = plan[b]
  BY DEF Plan

LEMMA TargetIn == ASSUME NEW w \in Workers, work[w].todo # {} PROVE Target(w) \in work[w].todo
  BY DEF Target

LEMMA WorkTypes ==
  ASSUME DerivedTypeOK, NEW w \in Workers
  PROVE  /\ work[w].kind \in Kinds /\ work[w].stage \in Stages /\ work[w].a \in Assignments
         /\ work[w].t \in Teachers /\ work[w].u \in Users \cup {None} /\ work[w].seen \in Users \cup {None}
         /\ work[w].plan \in Plan /\ work[w].todo \in SUBSET Assignments /\ work[w].found \in Grants
         /\ work[w].todo # {} => /\ Target(w) \in work[w].todo /\ Target(w) \in Assignments
                                 /\ Planned(w) \in Users \cup {None}
  <1>1. work[w] \in Work
    BY DEF DerivedTypeOK
  <1>2. work[w].todo # {} => Target(w) \in work[w].todo
    BY TargetIn
  <1> QED
    BY <1>1, <1>2 DEF Work, Grants, Plan, Planned

LEMMA RowTypes ==
  ASSUME DerivedTypeOK, NEW a \in Assignments
  PROVE  TeacherOf[a] \in Teachers /\ teacher[TeacherOf[a]] \in Users \cup {None}
         /\ grant[a] \in Grants /\ Granted(a) \in Users \cup {None} /\ Wanted[a] \in Users \cup {None}
         /\ Wanted[a] = IF assignment[a] = "there" THEN teacher[TeacherOf[a]] ELSE None
  BY AssignmentAssumption DEF DerivedTypeOK, Granted, Grants, Wanted

-----------------------------------------------------------------------------
(* An id that no grant and no request has. *)
LEMMA Images ==
  ASSUME NEW S, IsFiniteSet(S), NEW f \in [S -> Nat]
  PROVE  LET R == {f[x] : x \in S} IN IsFiniteSet(R) /\ Cardinality(R) <= Cardinality(S)
  <1> DEFINE R == {f[x] : x \in S}
  <1>1. f \in Surjection(S, R)
    BY DEF Surjection
  <1> QED
    BY <1>1, FS_Surjection

LEMMA FreshIdType == ASSUME DerivedTypeOK PROVE FreshId \in Nat
  <1> DEFINE n == Cardinality(Assignments)
             m == Cardinality(Workers)
             f == [a \in Assignments |-> grant[a].id]
             g == [w \in Workers |-> work[w].found.id]
             F == {f[a] : a \in Assignments}
             G == {g[w] : w \in Workers}
             N == n + m + 1
             P(i) == (\A a \in Assignments : grant[a].id # i) /\ \A w \in Workers : work[w].found.id # i
  <1>1. IsFiniteSet(Assignments) /\ IsFiniteSet(Workers) /\ n \in Nat /\ m \in Nat
    BY AssignmentAssumption, JobAssumption, FS_CardinalityType
  <1>2. f \in [Assignments -> Nat]
    BY DEF DerivedTypeOK
  <1>3. g \in [Workers -> Nat]
    BY WorkTypes DEF Grants
  <1>4. IsFiniteSet(F) /\ Cardinality(F) <= n
    <2> HIDE DEF f
    <2> QED
      BY <1>1, <1>2, Images
  <1>5. IsFiniteSet(G) /\ Cardinality(G) <= m
    <2> HIDE DEF g
    <2> QED
      BY <1>1, <1>3, Images
  <1> DEFINE U == F \cup G
  <1>6. IsFiniteSet(U) /\ Cardinality(U) <= n + m
    <2> HIDE DEF F, G
    <2>1. /\ IsFiniteSet(F \cup G)
          /\ Cardinality(F \cup G) = Cardinality(F) + Cardinality(G) - Cardinality(F \cap G)
      BY <1>4, <1>5, FS_Union
    <2>2. IsFiniteSet(F \cap G) /\ Cardinality(F \cap G) \in Nat
      <3>1. F \cap G \in SUBSET F
        OBVIOUS
      <3> QED
        BY <1>4, <3>1, FS_Subset, FS_CardinalityType
    <2>3. Cardinality(F) \in Nat /\ Cardinality(G) \in Nat
      BY <1>4, <1>5, FS_CardinalityType
    <2> QED
      BY <1>1, <1>4, <1>5, <2>1, <2>2, <2>3
  <1>7. Cardinality(1..N) = N /\ N \in Nat
    <2>1. N \in Nat /\ N \in Int /\ 1 \in Int /\ N >= 1
      BY <1>1
    <2> HIDE DEF N
    <2>2. Cardinality(1..N) = IF 1 > N THEN 0 ELSE N - 1 + 1
      BY <2>1, FS_Interval
    <2> QED
      BY <2>1, <2>2
  <1>8. ~ (1..N \subseteq U)
    <2>1. SUFFICES ASSUME 1..N \subseteq U PROVE FALSE
      OBVIOUS
    <2> HIDE DEF U, N
    <2>2. 1..N \in SUBSET U
      BY <2>1
    <2>3. Cardinality(1..N) <= Cardinality(U) /\ Cardinality(U) \in Nat
      BY <1>6, <2>2, FS_Subset, FS_CardinalityType
    <2> QED
      BY <1>1, <1>6, <1>7, <2>3 DEF N
  <1>9. PICK i \in 1..N : i \notin U
    BY <1>8
  <1>10. P(i)
    BY <1>9
  <1>11. \E j \in 1..N : P(j)
    BY <1>10
  <1>12. FreshId = CHOOSE j \in 1..N : P(j)
    BY DEF FreshId
  <1>13. FreshId \in 1..N
    <2> HIDE DEF P, N
    <2> QED
      BY <1>11, <1>12
  <1> QED
    BY <1>7, <1>13

-----------------------------------------------------------------------------
(* What each step writes. *)
Mine(w)  == {a \in Assignments : assignment[a] = "there" /\ TeacherOf[a] = work[w].t}
Same(w)  == [a \in Assignments |-> IF a \in Mine(w) THEN work[w].seen ELSE None]

LEMMA LoadTeacherWrites ==
  ASSUME DerivedTypeOK, NEW w \in Workers, LoadTeacher(w)
  PROVE  \E plan \in Plan :
           /\ Turns(w, "insert", work[w].todo, plan, work[w].seen, work[w].found)
           /\ plan[work[w].a] = teacher[TeacherOf[work[w].a]]
           /\ \A b \in Assignments \ {work[w].a} : plan[b] = work[w].plan[b]
  <1> DEFINE u == teacher[TeacherOf[work[w].a]]
             plan == [work[w].plan EXCEPT ![work[w].a] = u]
  <1>1. work[w].plan \in Plan /\ work[w].a \in Assignments /\ u \in Users \cup {None}
    BY WorkTypes, RowTypes
  <1>2. /\ plan \in Plan /\ plan[work[w].a] = u
        /\ \A b \in Assignments \ {work[w].a} : plan[b] = work[w].plan[b]
    BY <1>1, PlanWith
  <1>3. work' = [work EXCEPT ![w].stage = "insert", ![w].plan = plan]
    BY DEF LoadTeacher
  <1> HIDE DEF plan, u
  <1>4. Turns(w, "insert", work[w].todo, plan, work[w].seen, work[w].found)
    BY <1>2, <1>3 DEF DerivedTypeOK, Turns, Work, Stages
  <1> QED
    BY <1>2, <1>4 DEF u

LEMMA InsertRowWrites ==
  ASSUME DerivedTypeOK, NEW w \in Workers, InsertRow(w)
  PROVE  IF assignment[work[w].a] # "none" THEN Ends(w, "failed")
         ELSE IF work[w].plan[work[w].a] = None THEN Ends(w, "done") ELSE Takes(w, "next", {work[w].a})
  <1>1. "done" \in Stages /\ "failed" \in Stages /\ "next" \in Stages
    BY DEF Stages
  <1>2. {work[w].a} \in SUBSET Assignments
    BY WorkTypes
  <1>3. CASE assignment[work[w].a] # "none"
    BY <1>1, <1>3, Ending DEF InsertRow
  <1>4. CASE assignment[work[w].a] = "none" /\ work[w].plan[work[w].a] = None
    BY <1>1, <1>4, Ending DEF InsertRow
  <1>5. CASE assignment[work[w].a] = "none" /\ work[w].plan[work[w].a] # None
    <2>1. work' = [work EXCEPT ![w].stage = "next", ![w].todo = {work[w].a}]
      BY <1>5 DEF InsertRow
    <2> QED
      BY <1>1, <1>2, <1>5, <2>1, Taking
  <1> QED
    BY <1>3, <1>4, <1>5

LEMMA SimpleWrites ==
  ASSUME DerivedTypeOK, NEW w \in Workers
  PROVE  /\ Undo(w) => Ends(w, "failed")
         /\ DropRow(w) => Ends(w, "done")
         /\ EndRun(w) => Ends(w, "done")
         /\ Crash(w) => Ends(w, "crashed")
         /\ NextRun(w) => Goes(w, "new")
         /\ RemoveGrant(w) => Goes(w, "evict")
         /\ AddRole(w) => Goes(w, "add")
         /\ Finish(w) => IF work[w].kind = "remove" THEN Goes(w, "drop") ELSE Ends(w, "done")
         /\ Relink(w) => Goes(w, "list") \/ (work[w].seen = work[w].u /\ Ends(w, "done"))
  <1> USE DEF Stages
  <1>1. Undo(w) => Ends(w, "failed")
    BY Ending DEF Undo
  <1>2. DropRow(w) => Ends(w, "done")
    BY Ending DEF DropRow
  <1>3. EndRun(w) => Ends(w, "done")
    BY Ending DEF EndRun
  <1>4. Crash(w) => Ends(w, "crashed")
    BY Ending DEF Crash
  <1>5. NextRun(w) => Goes(w, "new")
    BY Going DEF NextRun
  <1>6. RemoveGrant(w) => Goes(w, "evict")
    BY Going DEF RemoveGrant
  <1>7. AddRole(w) => Goes(w, "add")
    BY Going DEF AddRole
  <1>8. Finish(w) => IF work[w].kind = "remove" THEN Goes(w, "drop") ELSE Ends(w, "done")
    BY Going, Ending DEF Finish
  <1>9. Relink(w) => Goes(w, "list") \/ (work[w].seen = work[w].u /\ Ends(w, "done"))
    BY Going, Ending DEF Relink
  <1> QED
    BY <1>1, <1>2, <1>3, <1>4, <1>5, <1>6, <1>7, <1>8, <1>9

LEMMA TodoWrites ==
  ASSUME DerivedTypeOK, NEW w \in Workers
  PROVE  /\ LoadRow(w) => Takes(w, "next", {work[w].a})
         /\ Repair(w) => Takes(w, "next", {a \in Assignments : work[w].plan[a] # None})
         /\ ListGrants(w) => Takes(w, "sweep", {a \in Assignments : grant[a].user # None /\ work[w].plan[a] = None})
  <1>1. "next" \in Stages /\ "sweep" \in Stages
    BY DEF Stages
  <1>2. {work[w].a} \in SUBSET Assignments
    BY WorkTypes
  <1>3. LoadRow(w) => Takes(w, "next", {work[w].a})
    BY <1>1, <1>2, Taking DEF LoadRow
  <1>4. Repair(w) => Takes(w, "next", {a \in Assignments : work[w].plan[a] # None})
    BY <1>1, Taking DEF Repair
  <1>5. ListGrants(w) => Takes(w, "sweep", {a \in Assignments : grant[a].user # None /\ work[w].plan[a] = None})
    BY <1>1, Taking DEF ListGrants
  <1> QED
    BY <1>3, <1>4, <1>5

LEMMA SeenWrites ==
  ASSUME DerivedTypeOK, NEW w \in Workers
  PROVE  LET now == teacher[work[w].t]
         IN  /\ ReadTeacher(w) => Turns(w, "update", work[w].todo, work[w].plan, now, work[w].found)
             /\ SyncTeacher(w) => Turns(w, "look", work[w].todo, work[w].plan, now, work[w].found)
  <1>1. "update" \in Stages /\ "look" \in Stages
    BY DEF Stages
  <1>2. teacher[work[w].t] \in Users \cup {None}
    BY WorkTypes DEF DerivedTypeOK
  <1> QED
    BY <1>1, <1>2, Seeing DEF ReadTeacher, SyncTeacher

LEMMA ListTeacherWrites ==
  ASSUME DerivedTypeOK, NEW w \in Workers, ListTeacher(w)
  PROVE  Turns(w, "next", Mine(w), Same(w), work[w].seen, work[w].found)
  <1>1. "next" \in Stages /\ Mine(w) \in SUBSET Assignments
    BY DEF Stages, Mine
  <1>2. Same(w) \in Plan
    BY WorkTypes DEF Same, Plan
  <1>3. work' = [work EXCEPT ![w].stage = "next", ![w].todo = Mine(w), ![w].plan = Same(w)]
    BY Zenon DEF ListTeacher, Mine, Same
  <1> QED
    BY <1>1, <1>2, <1>3, Planning

LEMMA ListAllWrites ==
  ASSUME DerivedTypeOK, NEW w \in Workers, ListAll(w)
  PROVE  Turns(w, "look", {a \in Assignments : assignment[a] = "there"}, NoPlan, work[w].seen, work[w].found)
  <1>1. "look" \in Stages /\ NoPlan \in Plan
    BY Nothing DEF Stages
  <1>2. work' = [work EXCEPT ![w].stage = "look", ![w].todo = {a \in Assignments : assignment[a] = "there"},
                             ![w].plan = NoPlan]
    BY DEF ListAll
  <1> QED
    BY <1>1, <1>2, Planning

LEMMA LookUpWrites ==
  ASSUME DerivedTypeOK, NEW w \in Workers, NEW a \in Assignments, LookUp(w, a)
  PROVE  \E plan \in Plan :
           /\ Turns(w, "look", work[w].todo \ {a}, plan, work[w].seen, work[w].found)
           /\ plan[a] = teacher[TeacherOf[a]]
           /\ \A b \in Assignments \ {a} : plan[b] = work[w].plan[b]
  <1> DEFINE u == teacher[TeacherOf[a]]
             plan == [work[w].plan EXCEPT ![a] = u]
             todo == work[w].todo \ {a}
  <1>1. work[w].plan \in Plan /\ u \in Users \cup {None} /\ todo \in SUBSET Assignments
    BY WorkTypes, RowTypes
  <1>2. /\ plan \in Plan /\ plan[a] = u
        /\ \A b \in Assignments \ {a} : plan[b] = work[w].plan[b]
    BY <1>1, PlanWith
  <1>3. work' = [work EXCEPT ![w].todo = todo, ![w].plan = plan] /\ At(w, "look")
    BY DEF LookUp
  <1> HIDE DEF plan, u, todo
  <1>4. Turns(w, "look", todo, plan, work[w].seen, work[w].found)
    BY <1>1, <1>2, <1>3 DEF DerivedTypeOK, Turns, Work, Stages, At
  <1> QED
    BY <1>2, <1>4 DEF u, todo

LEMMA StripWrites ==
  ASSUME DerivedTypeOK, NEW w \in Workers, Strip(w)
  PROVE  Turns(w, "evict", work[w].todo, work[w].plan, work[w].seen, [user |-> work[w].u, id |-> 0])
  <1>1. "evict" \in Stages /\ [user |-> work[w].u, id |-> 0] \in Grants
    BY WorkTypes DEF Stages, Grants
  <1>2. work' = [work EXCEPT ![w].stage = "evict", ![w].found = [user |-> work[w].u, id |-> 0]]
    BY DEF Strip
  <1> QED
    BY <1>1, <1>2, Finding

LEMMA FindWrites ==
  ASSUME DerivedTypeOK, NEW w \in Workers, Find(w)
  PROVE  LET a == Target(w)
         IN  IF Planned(w) = Granted(a) THEN Takes(w, work[w].stage, Rest(w, a))
             ELSE Turns(w, IF Granted(a) = None THEN "role" ELSE IF Planned(w) = None THEN "delete" ELSE "replace",
                        work[w].todo, work[w].plan, work[w].seen, grant[a])
  <1> DEFINE a == Target(w)
             todo == Rest(w, a)
             stage == IF Granted(a) = None THEN "role" ELSE IF Planned(w) = None THEN "delete" ELSE "replace"
  <1>1. todo \in SUBSET Assignments /\ stage \in Stages /\ work[w].todo # {}
    BY WorkTypes DEF Rest, Stages, Find
  <1>2. grant[a] \in Grants
    BY <1>1, WorkTypes, RowTypes
  <1>3. IF Planned(w) = Granted(a) THEN work' = [work EXCEPT ![w].todo = todo]
        ELSE work' = [work EXCEPT ![w].stage = stage, ![w].found = grant[a]]
    BY Zenon DEF Find, Planned, Granted
  <1>4. CASE Planned(w) = Granted(a)
    <2>1. work' = [work EXCEPT ![w].todo = todo]
      BY <1>3, <1>4
    <2> HIDE DEF todo, stage, a
    <2>2. Takes(w, work[w].stage, todo)
      BY <1>1, <2>1 DEF DerivedTypeOK, Takes, Turns, Work
    <2> QED
      BY <1>4, <2>2 DEF todo, a
  <1>5. CASE Planned(w) # Granted(a)
    <2>1. work' = [work EXCEPT ![w].stage = stage, ![w].found = grant[a]]
      BY <1>3, <1>5
    <2> HIDE DEF stage, todo
    <2>2. Turns(w, stage, work[w].todo, work[w].plan, work[w].seen, grant[a])
      BY <1>1, <1>2, <2>1, Finding
    <2> QED
      BY <1>5, <2>2 DEF stage
  <1> QED
    BY <1>4, <1>5

LEMMA AddGrantWrites ==
  ASSUME DerivedTypeOK, NEW w \in Workers, AddGrant(w)
  PROVE  IF Granted(Target(w)) = None /\ Planned(w) \in holds
         THEN Turns(w, "evict", work[w].todo, work[w].plan, work[w].seen, [user |-> Planned(w), id |-> 0])
         ELSE IF work[w].kind = "create" THEN Goes(w, "undo") ELSE Ends(w, "failed")
  <1>1. CASE Granted(Target(w)) = None /\ Planned(w) \in holds
    <2>1. "evict" \in Stages /\ [user |-> Planned(w), id |-> 0] \in Grants
      BY <1>1 DEF Stages, Grants, DerivedTypeOK
    <2>2. work' = [work EXCEPT ![w].stage = "evict", ![w].found = [user |-> Planned(w), id |-> 0]]
      BY <1>1, Zenon DEF AddGrant, Planned, Granted
    <2> QED
      BY <1>1, <2>1, <2>2, Finding
  <1>2. CASE ~(Granted(Target(w)) = None /\ Planned(w) \in holds)
    <2>1. Abort(w) /\ "undo" \in Stages /\ "failed" \in Stages
      BY <1>2 DEF AddGrant, Planned, Granted, Stages
    <2> QED
      BY <1>2, <2>1, Going, Ending DEF Abort
  <1> QED
    BY <1>1, <1>2

LEMMA EvictWrites ==
  ASSUME DerivedTypeOK, NEW w \in Workers, Evict(w)
  PROVE  IF work[w].kind = "strip" THEN Ends(w, "done")
         ELSE IF work[w].found.user = Planned(w) \/ Planned(w) = None THEN Takes(w, After(w), Rest(w, Target(w)))
         ELSE Goes(w, "role")
  <1>1. "done" \in Stages /\ "role" \in Stages /\ After(w) \in Stages
    BY DEF Stages, After
  <1>2. Rest(w, Target(w)) \in SUBSET Assignments
    BY WorkTypes DEF Rest
  <1>3. CASE work[w].kind = "strip"
    BY <1>1, <1>3, Ending DEF Evict
  <1>4. CASE work[w].kind # "strip" /\ (work[w].found.user = Planned(w) \/ Planned(w) = None)
    <2>1. work' = [work EXCEPT ![w].stage = After(w), ![w].todo = Rest(w, Target(w))]
      BY <1>4 DEF Evict, Planned
    <2> QED
      BY <1>1, <1>2, <1>4, <2>1, Taking
  <1>5. CASE work[w].kind # "strip" /\ ~(work[w].found.user = Planned(w) \/ Planned(w) = None)
    <2>1. To(w, "role")
      BY <1>5 DEF Evict, Planned, To
    <2> QED
      BY <1>1, <1>5, <2>1, Going
  <1> QED
    BY <1>3, <1>4, <1>5

-----------------------------------------------------------------------------
(* The rows and the flags have their types. *)
RowsType ==
  /\ assignment \in [Assignments -> {"none", "there", "gone"}]
  /\ teacher \in [Teachers -> Users \cup {None}]
  /\ grant \in [Assignments -> Grants]
  /\ \A a \in Assignments : grant[a].user # None => grant[a].user \in holds
  /\ holds \subseteq Users /\ owed \subseteq Users
  /\ crashes \in 0..Crashes
  /\ alone \in BOOLEAN /\ overlap \in BOOLEAN

LEMMA TypeParts == DerivedTypeOK <=> RowsType /\ work \in [Workers -> Work]
  BY DEF DerivedTypeOK, RowsType, Grants

LEMMA SameTarget ==
  ASSUME NEW w, work'[w].todo = work[w].todo, work'[w].plan = work[w].plan
  PROVE  Target(w)' = Target(w) /\ Planned(w)' = Planned(w)
  <1>1. Target(w)' = Target(w)
    BY DEF Target
  <1> QED
    BY <1>1 DEF Planned

LEMMA OthersFit ==
  ASSUME WorkFits, NEW w \in Workers, \A v \in Workers \ {w} : work'[v] = work[v],
         StagesFit(w)', PlansFit(w)'
  PROVE  WorkFits'
  <1> SUFFICES ASSUME NEW v \in Workers, v # w PROVE StagesFit(v)' /\ PlansFit(v)'
    BY DEF WorkFits
  <1>1. work'[v] = work[v]
    OBVIOUS
  <1>2. Target(v)' = Target(v) /\ Planned(v)' = Planned(v)
    BY <1>1, SameTarget
  <1>3. StagesFit(v) /\ PlansFit(v)
    BY DEF WorkFits
  <1> QED
    BY <1>1, <1>2, <1>3 DEF StagesFit, PlansFit, HasTarget, At

LEMMA TypeStays ==
  ASSUME TypeInv, NEW w \in Workers, NEW stage, NEW todo, NEW plan, NEW seen, NEW found,
         Turns(w, stage, todo, plan, seen, found), RowsType', StagesFit(w)', PlansFit(w)'
  PROVE  TypeInv'
  <1>1. WorkFits'
    BY OthersFit DEF TypeInv, Turns
  <1>2. DerivedTypeOK'
    BY TypeParts DEF Turns, DerivedTypeOK, RowsType, Grants
  <1> QED
    BY <1>1, <1>2 DEF TypeInv

LEMMA Fits == ASSUME TypeInv, NEW w \in Workers PROVE StagesFit(w) /\ PlansFit(w) /\ DerivedTypeOK /\ RowsType
  BY TypeParts DEF TypeInv, WorkFits

LEMMA RestingFits ==
  ASSUME TypeInv, NEW w \in Workers, NEW stage \in {"done", "failed", "crashed"}, Ends(w, stage),
         stage = "failed" => work[w].kind # "strip"
  PROVE  StagesFit(w)' /\ PlansFit(w)'
  BY Fits DEF StagesFit, PlansFit, HasTarget, At, Ends, Turns, NoPlan

LEMMA TypeInvInit == Init => TypeInv
  <1> SUFFICES ASSUME Init PROVE TypeInv
    OBVIOUS
  <1>1. PICK task \in [Workers -> Tasks] :
          /\ \A w \in Workers : task[w].kind = "reconcile" <=> w = Job
          /\ work = [w \in Workers |-> Asked(task[w], "new")]
    BY DEF Init
  <1>2. AnyA \in Assignments /\ AnyT \in Teachers
    <2>1. PICK a \in Assignments : TRUE
      BY AssignmentAssumption
    <2>2. TeacherOf[a] \in Teachers
      BY AssignmentAssumption
    <2> QED
      BY <2>1, <2>2 DEF AnyA, AnyT
  <1>3. ASSUME NEW w \in Workers
        PROVE  /\ task[w].kind \in Kinds /\ task[w].a \in Assignments /\ task[w].t \in Teachers
               /\ task[w].u \in Users \cup {None}
    BY <1>2 DEF Tasks, Kinds
  <1>4. work \in [Workers -> Work]
    BY <1>1, <1>3, AskedType DEF Stages
  <1>5. WorkFits
    <2> SUFFICES ASSUME NEW w \in Workers PROVE StagesFit(w) /\ PlansFit(w)
      BY DEF WorkFits
    <2>1. work[w] = Asked(task[w], "new")
      BY <1>1
    <2>2. /\ work[w].kind = task[w].kind /\ work[w].stage = "new"
          /\ work[w].todo = {} /\ work[w].plan = NoPlan
      BY <2>1 DEF Asked
    <2> QED
      BY <1>1, <2>2 DEF StagesFit, PlansFit, HasTarget, At, NoPlan
  <1>6. \A a \in Assignments : Wanted[a] \in Users \cup {None}
    BY AssignmentAssumption DEF Init, Wanted
  <1>7. /\ grant \in [Assignments -> Grants]
        /\ \A a \in Assignments : grant[a].user \in Users \cup {None}
        /\ \A a \in Assignments : grant[a].user # None => grant[a].user \in holds
        /\ holds \subseteq Users
    <2>1. \A a \in Assignments : grant[a] = IF Wanted[a] = None THEN NoGrant ELSE [user |-> Wanted[a], id |-> 1]
      BY DEF Init
    <2>2. \A a \in Assignments : grant[a] \in Grants
      <3> SUFFICES ASSUME NEW a \in Assignments PROVE grant[a] \in Grants
        OBVIOUS
      <3>1. CASE Wanted[a] = None
        BY <2>1, <3>1, Nothing
      <3>2. CASE Wanted[a] # None
        <4>1. grant[a] = [user |-> Wanted[a], id |-> 1] /\ Wanted[a] \in Users \cup {None}
          BY <1>6, <2>1, <3>2
        <4> QED
          BY <4>1 DEF Grants
      <3> QED
        BY <3>1, <3>2
    <2>3. grant \in [Assignments -> Grants]
      BY <2>2, Zenon DEF Init
    <2>4. holds = {grant[a].user : a \in Assignments} \ {None}
      BY DEF Init
    <2> QED
      BY <2>2, <2>3, <2>4 DEF Grants
  <1>8. RowsType
    <2>1. assignment \in [Assignments -> {"none", "there", "gone"}] /\ teacher \in [Teachers -> Users \cup {None}]
      BY DEF Init
    <2>2. crashes \in 0..Crashes /\ owed \subseteq Users /\ alone \in BOOLEAN /\ overlap \in BOOLEAN
      <3>1. crashes = 0 /\ owed = {} /\ alone = FALSE /\ overlap = FALSE
        BY DEF Init
      <3>2. 0 \in 0..Crashes
        BY CrashAssumption
      <3>3. crashes \in 0..Crashes
        BY <3>1, <3>2
      <3> QED
        BY <3>1, <3>3
    <2> QED
      BY <1>7, <2>1, <2>2 DEF RowsType
  <1> QED
    BY <1>4, <1>5, <1>8, TypeParts DEF TypeInv

Untouched == UNCHANGED <<rows, crashes, owed>>

LEMMA RowsStay == ASSUME RowsType, Untouched, alone' \in BOOLEAN, overlap' \in BOOLEAN PROVE RowsType'
  BY DEF RowsType, Untouched, rows

LEMMA RowsDrop ==
  ASSUME RowsType, NEW w \in Workers, work[w].a \in Assignments, NEW to \in {"there", "gone"},
         assignment' = [assignment EXCEPT ![work[w].a] = to],
         UNCHANGED <<teacher, grant, holds, crashes, owed>>, alone' \in BOOLEAN, overlap' \in BOOLEAN
  PROVE  RowsType'
  BY DEF RowsType

LEMMA StartFlags == ASSUME RowsType, NEW w \in Workers, NEW kind, Start(w, kind)
                    PROVE  alone' \in BOOLEAN /\ overlap' \in BOOLEAN /\ At(w, "new") /\ work[w].kind = kind
  BY DEF RowsType, Start

LEMMA SameFlags == ASSUME RowsType, Undisturbed PROVE alone' \in BOOLEAN /\ overlap' \in BOOLEAN
  BY DEF RowsType, Undisturbed

LEMMA TypeInvRequest ==
  ASSUME TypeInv, NEW w \in Workers, Request(w)
  PROVE  TypeInv'
  <1>. USE Fits, WorkTypes
  <1>0. /\ DerivedTypeOK /\ RowsType /\ StagesFit(w) /\ PlansFit(w)
        /\ work[w].a \in Assignments
    OBVIOUS
  <1>1. CASE LoadTeacher(w)
    <2>1. PICK plan \in Plan : Turns(w, "insert", work[w].todo, plan, work[w].seen, work[w].found)
      BY <1>0, <1>1, LoadTeacherWrites
    <2>2. RowsType'
      BY <1>0, <1>1, RowsStay, StartFlags DEF LoadTeacher, Untouched
    <2>3. StagesFit(w)' /\ PlansFit(w)'
      BY <1>0, <1>1, <2>1, StartFlags DEF LoadTeacher, StagesFit, PlansFit, HasTarget, At, Turns
    <2> QED
      BY <2>1, <2>2, <2>3, TypeStays
  <1>2. CASE InsertRow(w)
    <2>1. RowsType'
      <3>1. CASE assignment[work[w].a] = "none"
        BY <1>0, <1>2, <3>1, RowsDrop, SameFlags DEF InsertRow
      <3>2. CASE assignment[work[w].a] # "none"
        BY <1>0, <1>2, <3>2, RowsStay, SameFlags DEF InsertRow, Untouched, rows
      <3> QED
        BY <3>1, <3>2
    <2>2. CASE Ends(w, "failed") \/ Ends(w, "done")
      BY <1>0, <1>2, <2>1, <2>2, RestingFits, TypeStays DEF Ends, StagesFit, At, InsertRow
    <2>3. CASE Takes(w, "next", {work[w].a})
      <3>1. StagesFit(w)' /\ PlansFit(w)'
        BY <1>0, <1>2, <2>3 DEF InsertRow, StagesFit, PlansFit, HasTarget, At, Takes, Turns
      <3> QED
        BY <2>1, <2>3, <3>1, TypeStays DEF Takes
    <2> QED
      BY <1>0, <1>2, <2>2, <2>3, InsertRowWrites
  <1>3. CASE Undo(w) \/ DropRow(w)
    <2>1. RowsType'
      BY <1>0, <1>3, RowsDrop, SameFlags DEF Undo, DropRow
    <2>2. PICK stage \in {"failed", "done"} : Ends(w, stage)
      BY <1>0, <1>3, SimpleWrites
    <2>3. work[w].kind # "strip"
      BY <1>0, <1>3 DEF Undo, DropRow, StagesFit, At
    <2> QED
      BY <2>1, <2>2, <2>3, RestingFits, TypeStays DEF Ends
  <1>4. CASE LoadRow(w)
    <2>1. Takes(w, "next", {work[w].a})
      BY <1>0, <1>4, TodoWrites
    <2>2. RowsType'
      BY <1>0, <1>4, RowsStay, StartFlags DEF LoadRow, Untouched
    <2>3. StagesFit(w)' /\ PlansFit(w)'
      BY <1>0, <1>4, <2>1, StartFlags DEF LoadRow, StagesFit, PlansFit, HasTarget, At, Takes, Turns
    <2> QED
      BY <2>1, <2>2, <2>3, TypeStays DEF Takes
  <1>5. CASE ReadTeacher(w) \/ SyncTeacher(w)
    <2>1. PICK stage \in {"update", "look"} :
             /\ Turns(w, stage, work[w].todo, work[w].plan, teacher[work[w].t], work[w].found)
             /\ work[w].kind = "relink" /\ work[w].stage \in {"new", "list"}
      BY <1>0, <1>5, SeenWrites, StartFlags DEF ReadTeacher, SyncTeacher, At
    <2>2. RowsType'
      BY <1>0, <1>5, RowsStay, StartFlags, SameFlags DEF ReadTeacher, SyncTeacher, Untouched
    <2>3. StagesFit(w)' /\ PlansFit(w)'
      BY <1>0, <2>1 DEF StagesFit, PlansFit, HasTarget, At, Turns
    <2> QED
      BY <2>1, <2>2, <2>3, TypeStays
  <1>6. CASE Relink(w)
    <2>1. RowsType'
      <3>1. teacher' = [teacher EXCEPT ![work[w].t] = work[w].u] /\ work[w].u \in Users \cup {None}
        BY <1>0, <1>6 DEF Relink
      <3>2. teacher' \in [Teachers -> Users \cup {None}]
        BY <1>0, <3>1 DEF RowsType
      <3> QED
        BY <1>0, <1>6, <3>2, SameFlags DEF Relink, RowsType
    <2>2. CASE Ends(w, "done")
      BY <2>1, <2>2, RestingFits, TypeStays DEF Ends
    <2>3. CASE Goes(w, "list")
      <3>1. StagesFit(w)' /\ PlansFit(w)'
        BY <1>0, <1>6, <2>3 DEF Relink, StagesFit, PlansFit, HasTarget, At, Goes, Turns
      <3> QED
        BY <2>1, <2>3, <3>1, TypeStays DEF Goes
    <2> QED
      BY <1>0, <1>6, <2>2, <2>3, SimpleWrites
  <1>7. CASE ListTeacher(w)
    <2>1. Turns(w, "next", Mine(w), Same(w), work[w].seen, work[w].found)
      BY <1>0, <1>7, ListTeacherWrites
    <2>2. RowsType'
      BY <1>0, <1>7, RowsStay, SameFlags DEF ListTeacher, Untouched
    <2>3. StagesFit(w)' /\ PlansFit(w)'
      BY <1>0, <1>7, <2>1 DEF ListTeacher, StagesFit, PlansFit, HasTarget, At, Turns
    <2> QED
      BY <2>1, <2>2, <2>3, TypeStays
  <1>8. CASE Strip(w)
    <2>1. Turns(w, "evict", work[w].todo, work[w].plan, work[w].seen, [user |-> work[w].u, id |-> 0])
      BY <1>0, <1>8, StripWrites
    <2>2. RowsType'
      <3>1. /\ work[w].u \in holds /\ holds' = holds \ {work[w].u} /\ owed' = owed \cup {work[w].u}
            /\ grant' = [a \in Assignments |-> IF grant[a].user = work[w].u THEN NoGrant ELSE grant[a]]
            /\ UNCHANGED <<assignment, teacher, crashes>>
        BY <1>8 DEF Strip
      <3>2. \A a \in Assignments : grant[a] \in Grants
        BY <1>0 DEF RowsType
      <3>3. grant' \in [Assignments -> Grants]
        BY <3>1, <3>2, Nothing
      <3>4. \A a \in Assignments : grant'[a].user # None => grant'[a].user \in holds'
        BY <1>0, <3>1 DEF RowsType, NoGrant
      <3>5. alone' \in BOOLEAN /\ overlap' \in BOOLEAN
        BY <1>0, <1>8, StartFlags DEF Strip
      <3> QED
        BY <1>0, <3>1, <3>3, <3>4, <3>5 DEF RowsType
    <2>3. StagesFit(w)' /\ PlansFit(w)'
      BY <1>0, <1>8, <2>1, StartFlags DEF Strip, StagesFit, PlansFit, HasTarget, At, Turns
    <2> QED
      BY <2>1, <2>2, <2>3, TypeStays
  <1> QED
    BY <1>1, <1>2, <1>3, <1>4, <1>5, <1>6, <1>7, <1>8 DEF Request

LEMMA TypeInvReconcile ==
  ASSUME TypeInv, NEW w \in Workers, Reconcile(w)
  PROVE  TypeInv'
  <1>0. DerivedTypeOK /\ RowsType /\ StagesFit(w) /\ PlansFit(w)
    BY Fits
  <1>1. RowsType'
    <2>1. Untouched
      BY DEF Reconcile, Untouched, ListAll, Repair, ListGrants, EndRun, NextRun, LookUp
    <2>2. ListAll(w) \/ Undisturbed
      BY DEF Reconcile, Repair, ListGrants, EndRun, NextRun, LookUp
    <2>3. alone' \in BOOLEAN /\ overlap' \in BOOLEAN
      BY <1>0, <2>2, StartFlags, SameFlags DEF ListAll
    <2> QED
      BY <1>0, <2>1, <2>3, RowsStay
  <1>2. CASE ListAll(w)
    <2>1. Turns(w, "look", {a \in Assignments : assignment[a] = "there"}, NoPlan, work[w].seen, work[w].found)
      BY <1>0, <1>2, ListAllWrites
    <2>2. StagesFit(w)' /\ PlansFit(w)'
      BY <1>0, <1>2, <2>1, StartFlags DEF ListAll, StagesFit, PlansFit, HasTarget, At, Turns
    <2> QED
      BY <1>1, <2>1, <2>2, TypeStays
  <1>3. CASE Repair(w) \/ ListGrants(w)
    <2>1. PICK stage \in {"next", "sweep"}, todo \in SUBSET Assignments :
             Takes(w, stage, todo) /\ work[w].kind = "reconcile"
      <3>1. CASE Repair(w)
        <4>1. work[w].kind = "reconcile" /\ {a \in Assignments : work[w].plan[a] # None} \in SUBSET Assignments
          BY <3>1 DEF Repair
        <4> QED
          BY <1>0, <3>1, <4>1, TodoWrites
      <3>2. CASE ListGrants(w)
        <4>1. /\ work[w].kind = "reconcile"
              /\ {a \in Assignments : grant[a].user # None /\ work[w].plan[a] = None} \in SUBSET Assignments
          BY <3>2 DEF ListGrants
        <4> QED
          BY <1>0, <3>2, <4>1, TodoWrites
      <3> QED
        BY <1>3, <3>1, <3>2
    <2>2. StagesFit(w)' /\ PlansFit(w)'
      BY <1>0, <2>1 DEF StagesFit, PlansFit, HasTarget, At, Takes, Turns
    <2> QED
      BY <1>1, <2>1, <2>2, TypeStays DEF Takes
  <1>4. CASE EndRun(w)
    <2>1. Ends(w, "done")
      BY <1>0, <1>4, SimpleWrites
    <2> QED
      BY <1>1, <2>1, RestingFits, TypeStays DEF Ends
  <1>5. CASE NextRun(w)
    <2>1. Goes(w, "new") /\ work[w].kind = "reconcile"
      BY <1>0, <1>5, SimpleWrites DEF NextRun
    <2>2. StagesFit(w)' /\ PlansFit(w)'
      BY <1>0, <2>1 DEF StagesFit, PlansFit, HasTarget, At, Goes, Turns
    <2> QED
      BY <1>1, <2>1, <2>2, TypeStays DEF Goes
  <1>6. CASE \E a \in Assignments : LookUp(w, a)
    <2>1. PICK a \in Assignments : LookUp(w, a)
      BY <1>6
    <2>2. PICK plan \in Plan : Turns(w, "look", work[w].todo \ {a}, plan, work[w].seen, work[w].found)
      BY <1>0, <2>1, LookUpWrites
    <2>3. StagesFit(w)' /\ PlansFit(w)'
      BY <1>0, <2>1, <2>2 DEF LookUp, StagesFit, PlansFit, HasTarget, At, Turns
    <2> QED
      BY <1>1, <2>2, <2>3, TypeStays
  <1> QED
    BY <1>2, <1>3, <1>4, <1>5, <1>6 DEF Reconcile

LEMMA TypeInvDerive ==
  ASSUME TypeInv, NEW w \in Workers, Derive(w)
  PROVE  TypeInv'
  <1>0. DerivedTypeOK /\ RowsType /\ StagesFit(w) /\ PlansFit(w) /\ alone' \in BOOLEAN /\ overlap' \in BOOLEAN
    <2>1. Undisturbed
      BY DEF Derive, Find, Finish, RemoveGrant, AddRole, AddGrant, Evict
    <2> QED
      BY <2>1, Fits, SameFlags
  <1>1. CASE Find(w)
    <2>1. RowsType'
      BY <1>0, <1>1, RowsStay DEF Find, Untouched
    <2>2. work[w].todo # {} /\ (At(w, "next") \/ Sweeps(w))
      BY <1>1 DEF Find
    <2>3. CASE Planned(w) = Granted(Target(w))
      <3>1. Takes(w, work[w].stage, Rest(w, Target(w)))
        BY <1>0, <1>1, <2>3, FindWrites
      <3>2. StagesFit(w)' /\ PlansFit(w)'
        BY <1>0, <2>2, <3>1 DEF StagesFit, PlansFit, HasTarget, At, Takes, Turns, Rest, Sweeps
      <3> QED
        BY <2>1, <3>1, <3>2, TypeStays DEF Takes
    <2>4. CASE Planned(w) # Granted(Target(w))
      <3>1. PICK stage \in {"role", "delete", "replace"} :
              /\ Turns(w, stage, work[w].todo, work[w].plan, work[w].seen, grant[Target(w)])
              /\ stage = IF Granted(Target(w)) = None THEN "role" ELSE IF Planned(w) = None THEN "delete" ELSE "replace"
        BY <1>0, <1>1, <2>4, FindWrites
      <3>2. Target(w)' = Target(w) /\ Planned(w)' = Planned(w)
        BY <3>1, SameTarget DEF Turns
      <3>3. work[w].kind # "strip"
        BY <1>0, <2>2 DEF StagesFit, At, Sweeps
      <3>4. StagesFit(w)'
        BY <1>0, <3>1, <3>3 DEF StagesFit, At, Turns
      <3>5. PlansFit(w)'
        BY <1>0, <2>2, <2>4, <3>1, <3>2 DEF PlansFit, HasTarget, At, Turns, Granted
      <3> QED
        BY <2>1, <3>1, <3>4, <3>5, TypeStays
    <2> QED
      BY <2>3, <2>4
  <1>2. CASE Finish(w)
    <2>1. RowsType'
      BY <1>0, <1>2, RowsStay DEF Finish, Untouched
    <2>2. CASE Ends(w, "done")
      BY <2>1, <2>2, RestingFits, TypeStays DEF Ends
    <2>3. CASE Goes(w, "drop") /\ work[w].kind = "remove"
      <3>1. StagesFit(w)' /\ PlansFit(w)'
        BY <1>0, <1>2, <2>3 DEF Finish, StagesFit, PlansFit, HasTarget, At, Goes, Turns
      <3> QED
        BY <2>1, <2>3, <3>1, TypeStays DEF Goes
    <2> QED
      BY <1>0, <1>2, <2>2, <2>3, SimpleWrites
  <1>3. CASE RemoveGrant(w)
    <2>1. Goes(w, "evict")
      BY <1>0, <1>3, SimpleWrites
    <2>2. work[w].todo # {} /\ Target(w) \in Assignments /\ work[w].found.user # None /\ work[w].kind # "strip"
      BY <1>0, <1>3, WorkTypes DEF RemoveGrant, PlansFit, StagesFit, HasTarget
    <2>3. RowsType'
      <3>1. CASE grant[Target(w)] = work[w].found
        <4>1. /\ grant' = [grant EXCEPT ![Target(w)] = NoGrant]
              /\ owed' = owed \cup {grant[Target(w)].user}
              /\ UNCHANGED <<assignment, teacher, holds, crashes>>
          BY <1>3, <3>1 DEF RemoveGrant
        <4>2. grant[Target(w)].user \in Users
          BY <1>0, <2>2, <3>1 DEF RowsType
        <4>3. grant' \in [Assignments -> Grants]
          BY <1>0, <4>1, Nothing DEF RowsType
        <4>4. \A a \in Assignments : grant'[a].user # None => grant'[a].user \in holds'
          BY <1>0, <4>1 DEF RowsType, NoGrant
        <4> QED
          BY <1>0, <4>1, <4>2, <4>3, <4>4 DEF RowsType
      <3>2. CASE grant[Target(w)] # work[w].found
        BY <1>0, <1>3, <3>2, RowsStay DEF RemoveGrant, Untouched, rows
      <3> QED
        BY <3>1, <3>2
    <2>4. StagesFit(w)' /\ PlansFit(w)'
      BY <1>0, <2>1, <2>2 DEF StagesFit, PlansFit, HasTarget, At, Goes, Turns
    <2> QED
      BY <2>1, <2>3, <2>4, TypeStays DEF Goes
  <1>4. CASE AddRole(w)
    <2>1. Goes(w, "add")
      BY <1>0, <1>4, SimpleWrites
    <2>2. work[w].todo # {} /\ Planned(w) \in Users /\ work[w].kind # "strip"
      BY <1>0, <1>4, WorkTypes DEF AddRole, PlansFit, StagesFit, HasTarget, At
    <2>3. holds' = holds \cup {Planned(w)} /\ UNCHANGED <<assignment, teacher, grant, crashes, owed>>
      BY <1>4 DEF AddRole, Planned
    <2>4. RowsType'
      BY <1>0, <2>2, <2>3 DEF RowsType
    <2>5. Target(w)' = Target(w) /\ Planned(w)' = Planned(w)
      BY <2>1, SameTarget DEF Goes, Turns
    <2>6. StagesFit(w)'
      BY <1>0, <2>1, <2>2 DEF StagesFit, At, Goes, Turns
    <2>7. PlansFit(w)'
      BY <1>0, <1>4, <2>1, <2>2, <2>5, JobAssumption DEF AddRole, PlansFit, HasTarget, At, Goes, Turns
    <2> QED
      BY <2>1, <2>4, <2>6, <2>7, TypeStays DEF Goes
  <1>5. CASE AddGrant(w)
    <2>1. work[w].todo # {} /\ Target(w) \in Assignments /\ work[w].kind # "strip"
      BY <1>0, <1>5, WorkTypes DEF AddGrant, PlansFit, StagesFit, HasTarget, At
    <2>2. RowsType'
      <3>1. CASE Granted(Target(w)) = None /\ Planned(w) \in holds
        <4>1. /\ grant' = [grant EXCEPT ![Target(w)] = [user |-> Planned(w), id |-> FreshId]]
              /\ owed' = owed \cup {Planned(w)}
              /\ UNCHANGED <<assignment, teacher, holds, crashes>>
          BY <1>5, <3>1, Zenon DEF AddGrant, Planned, Granted
        <4>2. [user |-> Planned(w), id |-> FreshId] \in Grants
          BY <1>0, <3>1, FreshIdType DEF Grants, RowsType
        <4>3. grant' \in [Assignments -> Grants]
          BY <1>0, <4>1, <4>2 DEF RowsType
        <4>4. \A a \in Assignments : grant'[a].user # None => grant'[a].user \in holds'
          BY <1>0, <3>1, <4>1 DEF RowsType
        <4> QED
          BY <1>0, <3>1, <4>1, <4>3, <4>4 DEF RowsType
      <3>2. CASE ~(Granted(Target(w)) = None /\ Planned(w) \in holds)
        <4>1. Untouched
          BY <1>5, <3>2 DEF AddGrant, Planned, Granted, Untouched, rows
        <4> QED
          BY <1>0, <4>1, RowsStay
      <3> QED
        BY <3>1, <3>2
    <2>3. CASE Turns(w, "evict", work[w].todo, work[w].plan, work[w].seen, [user |-> Planned(w), id |-> 0])
      <3>1. StagesFit(w)' /\ PlansFit(w)'
        BY <1>0, <2>1, <2>3 DEF StagesFit, PlansFit, HasTarget, At, Turns
      <3> QED
        BY <2>2, <2>3, <3>1, TypeStays
    <2>4. CASE Goes(w, "undo") /\ work[w].kind = "create"
      <3>1. StagesFit(w)' /\ PlansFit(w)'
        BY <1>0, <2>1, <2>4, JobAssumption DEF StagesFit, PlansFit, HasTarget, At, Goes, Turns
      <3> QED
        BY <2>2, <2>4, <3>1, TypeStays DEF Goes
    <2>5. CASE Ends(w, "failed")
      BY <2>1, <2>2, <2>5, RestingFits, TypeStays DEF Ends
    <2> QED
      BY <1>0, <1>5, <2>3, <2>4, <2>5, AddGrantWrites
  <1>6. CASE Evict(w)
    <2>1. RowsType'
      <3>1. owed' \subseteq owed /\ UNCHANGED <<rows, crashes>>
        BY <1>6 DEF Evict
      <3> QED
        BY <1>0, <3>1 DEF RowsType, rows
    <2>2. CASE work[w].kind = "strip"
      <3>1. Ends(w, "done")
        BY <1>0, <1>6, <2>2, EvictWrites
      <3> QED
        BY <2>1, <3>1, RestingFits, TypeStays DEF Ends
    <2>3. CASE work[w].kind # "strip" /\ (work[w].found.user = Planned(w) \/ Planned(w) = None)
      <3>1. Takes(w, After(w), Rest(w, Target(w)))
        BY <1>0, <1>6, <2>3, EvictWrites
      <3>2. After(w) = "next" \/ (After(w) = "sweep" /\ work[w].kind = "reconcile")
        BY DEF After
      <3>3. StagesFit(w)' /\ PlansFit(w)'
        BY <1>0, <2>3, <3>1, <3>2 DEF StagesFit, PlansFit, HasTarget, At, Takes, Turns, Rest
      <3> QED
        BY <2>1, <3>1, <3>3, TypeStays DEF Takes
    <2>4. CASE work[w].kind # "strip" /\ ~(work[w].found.user = Planned(w) \/ Planned(w) = None)
      <3>1. Goes(w, "role")
        BY <1>0, <1>6, <2>4, EvictWrites
      <3>2. Target(w)' = Target(w) /\ Planned(w)' = Planned(w)
        BY <3>1, SameTarget DEF Goes, Turns
      <3>3. StagesFit(w)'
        BY <1>0, <2>4, <3>1 DEF StagesFit, At, Goes, Turns
      <3>4. PlansFit(w)'
        BY <1>0, <1>6, <2>4, <3>1, <3>2 DEF Evict, PlansFit, HasTarget, At, Goes, Turns
      <3> QED
        BY <2>1, <3>1, <3>3, <3>4, TypeStays DEF Goes
    <2> QED
      BY <2>2, <2>3, <2>4
  <1> QED
    BY <1>1, <1>2, <1>3, <1>4, <1>5, <1>6 DEF Derive

LEMMA TypeInvCrash ==
  ASSUME TypeInv, NEW w \in Workers, Crash(w)
  PROVE  TypeInv'
  <1>0. DerivedTypeOK /\ RowsType
    BY Fits
  <1>1. Ends(w, "crashed")
    BY <1>0, SimpleWrites
  <1>2. RowsType'
    <2>1. crashes \in 0..Crashes /\ crashes < Crashes /\ crashes' = crashes + 1
      BY <1>0 DEF Crash, RowsType
    <2>2. crashes' \in 0..Crashes
      BY <2>1, CrashAssumption
    <2> QED
      BY <1>0, <2>2 DEF Crash, RowsType, rows, Undisturbed
  <1> QED
    BY <1>1, <1>2, RestingFits, TypeStays DEF Ends

LEMMA TypeInvNext == TypeInv /\ [Next]_vars => TypeInv'
  <1> SUFFICES ASSUME TypeInv, [Next]_vars PROVE TypeInv'
    OBVIOUS
  <1>1. CASE Next
    BY <1>1, TypeInvRequest, TypeInvReconcile, TypeInvDerive, TypeInvCrash DEF Next
  <1>2. CASE UNCHANGED vars
    <2>1. work' = work /\ UNCHANGED <<assignment, teacher, grant, holds, crashes, owed, alone, overlap>>
      BY <1>2 DEF vars, rows
    <2>2. DerivedTypeOK'
      BY <2>1 DEF TypeInv, DerivedTypeOK
    <2>3. WorkFits'
      <3> SUFFICES ASSUME NEW w \in Workers PROVE StagesFit(w)' /\ PlansFit(w)'
        BY DEF WorkFits
      <3>1. StagesFit(w) /\ PlansFit(w) /\ Target(w)' = Target(w) /\ Planned(w)' = Planned(w)
        BY <2>1, Fits, SameTarget
      <3> QED
        BY <2>1, <3>1 DEF StagesFit, PlansFit, HasTarget, At
    <2> QED
      BY <2>2, <2>3 DEF TypeInv
  <1> QED
    BY <1>1, <1>2

(* The types, and what goes with a stage, always hold. *)
THEOREM GrantTypesAlways == Spec => []TypeInv
  BY TypeInvInit, TypeInvNext, PTL DEF Spec

-----------------------------------------------------------------------------
(* While no process has died, whoever is owed an eviction is the account that
   a request at its eviction has found. *)
Owing == crashes = 0 => \A u \in owed : \E w \in Workers : At(w, "evict") /\ work[w].found.user = u

LEMMA OwingStays ==
  ASSUME Owing, NEW w \in Workers, NEW stage, NEW todo, NEW plan, NEW seen, NEW found,
         Turns(w, stage, todo, plan, seen, found), UNCHANGED crashes,
         \A u \in owed' : \/ u \in owed /\ ~(At(w, "evict") /\ work[w].found.user = u)
                          \/ stage = "evict" /\ found.user = u
  PROVE  Owing'
  <1> SUFFICES ASSUME crashes' = 0, NEW u \in owed'
               PROVE  \E v \in Workers : At(v, "evict")' /\ work'[v].found.user = u
    BY DEF Owing
  <1>1. CASE stage = "evict" /\ found.user = u
    BY <1>1 DEF Turns, At
  <1>2. CASE u \in owed /\ ~(At(w, "evict") /\ work[w].found.user = u)
    <2>1. PICK v \in Workers : At(v, "evict") /\ work[v].found.user = u
      BY <1>2 DEF Owing
    <2>2. v # w /\ work'[v] = work[v]
      BY <1>2, <2>1 DEF Turns
    <2> QED
      BY <2>1, <2>2 DEF At
  <1> QED
    BY <1>1, <1>2

LEMMA OwingNext == TypeInv /\ Owing /\ [Next]_vars => Owing'
  <1> SUFFICES ASSUME TypeInv, Owing, [Next]_vars PROVE Owing'
    OBVIOUS
  <1>1. CASE UNCHANGED vars
    BY <1>1 DEF vars, rows, Owing, At
  <1> SUFFICES ASSUME NEW w \in Workers, Request(w) \/ Reconcile(w) \/ Derive(w) \/ Crash(w) PROVE Owing'
    BY <1>1 DEF Next
  <1>0. DerivedTypeOK /\ RowsType /\ StagesFit(w) /\ PlansFit(w)
    BY Fits
  <1>2. CASE Request(w) /\ ~Strip(w)
    <2>1. UNCHANGED <<crashes, owed>> /\ ~At(w, "evict")
      BY <1>2 DEF Request, LoadTeacher, InsertRow, Undo, LoadRow, DropRow, ReadTeacher, Relink, SyncTeacher,
                  ListTeacher, Start, At
    <2>2. \E stage, todo, plan, seen, found : Turns(w, stage, todo, plan, seen, found)
      BY <1>0, <1>2, LoadTeacherWrites, InsertRowWrites, SimpleWrites, TodoWrites, SeenWrites, ListTeacherWrites
         DEF Request, Ends, Goes, Takes
    <2> QED
      BY <2>1, <2>2, OwingStays
  <1>3. CASE Strip(w)
    <2>1. Turns(w, "evict", work[w].todo, work[w].plan, work[w].seen, [user |-> work[w].u, id |-> 0])
      BY <1>0, <1>3, StripWrites
    <2>2. owed' = owed \cup {work[w].u} /\ UNCHANGED crashes /\ ~At(w, "evict")
      BY <1>3 DEF Strip, Start, At
    <2> QED
      BY <2>1, <2>2, OwingStays
  <1>4. CASE Reconcile(w)
    <2>1. UNCHANGED <<crashes, owed>> /\ ~At(w, "evict")
      BY <1>4 DEF Reconcile, ListAll, Repair, ListGrants, EndRun, NextRun, LookUp, Start, At
    <2>2. \E stage, todo, plan, seen, found : Turns(w, stage, todo, plan, seen, found)
      BY <1>0, <1>4, ListAllWrites, TodoWrites, SimpleWrites, LookUpWrites DEF Reconcile, Ends, Goes, Takes
    <2> QED
      BY <2>1, <2>2, OwingStays
  <1>5. CASE Find(w) \/ Finish(w) \/ AddRole(w)
    <2>1. UNCHANGED <<crashes, owed>> /\ ~At(w, "evict")
      BY <1>5 DEF Find, Finish, AddRole, Sweeps, At
    <2>2. \E stage, todo, plan, seen, found : Turns(w, stage, todo, plan, seen, found)
      BY <1>0, <1>5, FindWrites, SimpleWrites DEF Ends, Goes, Takes
    <2> QED
      BY <2>1, <2>2, OwingStays
  <1>6. CASE RemoveGrant(w)
    <2>1. Turns(w, "evict", work[w].todo, work[w].plan, work[w].seen, work[w].found)
      BY <1>0, <1>6, SimpleWrites DEF Goes
    <2>2. owed' \subseteq owed \cup {work[w].found.user} /\ UNCHANGED crashes /\ ~At(w, "evict")
      BY <1>6 DEF RemoveGrant, At
    <2> QED
      BY <2>1, <2>2, OwingStays
  <1>7. CASE AddGrant(w)
    <2>1. ~At(w, "evict") /\ UNCHANGED crashes
      BY <1>7 DEF AddGrant, At
    <2>2. CASE Granted(Target(w)) = None /\ Planned(w) \in holds
      <3>1. Turns(w, "evict", work[w].todo, work[w].plan, work[w].seen, [user |-> Planned(w), id |-> 0])
        BY <1>0, <1>7, <2>2, AddGrantWrites
      <3>2. owed' = owed \cup {Planned(w)}
        BY <1>7, <2>2, Zenon DEF AddGrant, Planned, Granted
      <3> QED
        BY <2>1, <3>1, <3>2, OwingStays
    <2>3. CASE ~(Granted(Target(w)) = None /\ Planned(w) \in holds)
      <3>1. \E stage, todo, plan, seen, found : Turns(w, stage, todo, plan, seen, found)
        BY <1>0, <1>7, <2>3, AddGrantWrites DEF Goes, Ends
      <3>2. owed' = owed
        BY <1>7, <2>3 DEF AddGrant, Planned, Granted
      <3> QED
        BY <2>1, <3>1, <3>2, OwingStays
    <2> QED
      BY <2>2, <2>3
  <1>8. CASE Evict(w)
    <2>1. \E stage, todo, plan, seen, found : Turns(w, stage, todo, plan, seen, found)
      BY <1>0, <1>8, EvictWrites DEF Goes, Ends, Takes
    <2>2. owed' = owed \ {work[w].found.user} /\ UNCHANGED crashes
      BY <1>8 DEF Evict
    <2> QED
      BY <2>1, <2>2, OwingStays
  <1>9. CASE Crash(w)
    <2>1. crashes \in 0..Crashes /\ crashes' = crashes + 1
      BY <1>0, <1>9 DEF RowsType, Crash
    <2>2. crashes' # 0
      BY <2>1
    <2> QED
      BY <2>2 DEF Owing
  <1> QED
    BY <1>2, <1>3, <1>4, <1>5, <1>6, <1>7, <1>8, <1>9 DEF Derive

(* Whoever gained or lost a grant, or the role, was logged out by the time
   the requests have ended, if no process died. *)
THEOREM EvictedWhenDoneAlways == Spec => []EvictedWhenDone
  <1>1. Init => Owing
    BY DEF Init, Owing
  <1>2. Owing => EvictedWhenDone
    BY DEF Owing, EvictedWhenDone, Busy, Idle, At
  <1> QED
    BY <1>1, <1>2, TypeInvInit, TypeInvNext, OwingNext, PTL DEF Spec

-----------------------------------------------------------------------------
(* As long as no two workers have overlapped, or the job runs alone, what the
   one busy worker has read still holds. *)
Quiet == ~overlap \/ alone

Held(w) ==
  /\ ~At(w, "undo")
  /\ work[w].stage \in {"delete", "replace"} => grant[Target(w)] = work[w].found
  /\ work[w].stage \in {"role", "add"} => Granted(Target(w)) = None
  /\ At(w, "add") => Planned(w) \in holds
  /\ At(w, "evict") /\ work[w].kind # "strip" =>
       Granted(Target(w)) = IF work[w].found.user = Planned(w) THEN Planned(w) ELSE None
  /\ ~At(w, "insert") => \A a \in Assignments : work[w].plan[a] # None => assignment[a] = "there"
  /\ At(w, "look") /\ work[w].kind = "reconcile" => \A a \in work[w].todo : assignment[a] = "there"
  /\ work[w].kind = "remove" => Granted(work[w].a) = None \/ work[w].a \in work[w].todo

Only(w)   == (\A v \in Busy : v = w) /\ (alone => w = Job)
QuietWork == Quiet => \A w \in Busy : Only(w) /\ Held(w)

Begins(w) == LoadTeacher(w) \/ LoadRow(w) \/ ReadTeacher(w) \/ Strip(w) \/ ListAll(w)
Proceeds(w) == \/ InsertRow(w) \/ Undo(w) \/ DropRow(w) \/ Relink(w) \/ SyncTeacher(w) \/ ListTeacher(w)
               \/ Repair(w) \/ ListGrants(w) \/ EndRun(w) \/ (\E a \in Assignments : LookUp(w, a))
               \/ Derive(w) \/ Crash(w)

LEMMA Acting ==
  ASSUME TypeInv, Next
  PROVE  \E w \in Workers : Begins(w) \/ Proceeds(w) \/ NextRun(w)
  BY DEF Next, Request, Reconcile, Begins, Proceeds

LEMMA BusyAfter ==
  ASSUME NEW w \in Workers, NEW stage, NEW todo, NEW plan, NEW seen, NEW found,
         Turns(w, stage, todo, plan, seen, found)
  PROVE  /\ \A v \in Workers \ {w} : v \in Busy' <=> v \in Busy
         /\ w \in Busy' <=> stage \notin Idle
  BY DEF Turns, Busy, Idle

LEMMA Writes ==
  ASSUME TypeInv, NEW w \in Workers, Begins(w) \/ Proceeds(w) \/ NextRun(w)
  PROVE  \E stage, todo, plan, seen, found : Turns(w, stage, todo, plan, seen, found)
  <1>0. DerivedTypeOK
    BY Fits
  <1>1. CASE Begins(w)
    BY <1>0, <1>1, LoadTeacherWrites, TodoWrites, SeenWrites, StripWrites, ListAllWrites DEF Begins, Takes
  <1>2. CASE \/ NextRun(w) \/ Undo(w) \/ DropRow(w) \/ Relink(w) \/ EndRun(w) \/ Crash(w)
            \/ Finish(w) \/ RemoveGrant(w) \/ AddRole(w)
    BY <1>0, <1>2, SimpleWrites DEF Goes, Ends
  <1>3. CASE InsertRow(w)
    BY <1>0, <1>3, InsertRowWrites DEF Ends, Takes
  <1>4. CASE SyncTeacher(w) \/ ListTeacher(w) \/ Repair(w) \/ ListGrants(w) \/ (\E a \in Assignments : LookUp(w, a))
    BY <1>0, <1>4, SeenWrites, ListTeacherWrites, TodoWrites, LookUpWrites DEF Takes
  <1>5. CASE Find(w) \/ AddGrant(w) \/ Evict(w)
    BY <1>0, <1>5, FindWrites, AddGrantWrites, EvictWrites DEF Takes, Goes, Ends
  <1> QED
    BY <1>1, <1>2, <1>3, <1>4, <1>5 DEF Proceeds, Derive

LEMMA Proceeding ==
  ASSUME NEW w \in Workers, Proceeds(w)
  PROVE  w \in Busy /\ Undisturbed
  BY DEF Proceeds, InsertRow, Undo, DropRow, Relink, SyncTeacher, ListTeacher, Repair, ListGrants, EndRun, LookUp,
         Derive, Find, Finish, RemoveGrant, AddRole, AddGrant, Evict, Crash, Busy, Idle, At, Sweeps

LEMMA Beginning ==
  ASSUME TypeInv, NEW w \in Workers, Begins(w)
  PROVE  /\ At(w, "new")
         /\ Quiet' => Busy = {} /\ (overlap => alone') /\ (alone' => w = Job)
         /\ alone' => work[w].kind = "reconcile" /\ ListAll(w)
         /\ overlap => overlap'
  <1>1. PICK kind : Start(w, kind)
    BY DEF Begins, LoadTeacher, LoadRow, ReadTeacher, Strip, ListAll
  <1>2. work[Job].kind = "reconcile" /\ JobAssumption
    BY Fits, JobAssumption DEF StagesFit
  <1> QED
    BY <1>1, <1>2 DEF Start, Quiet, Begins, LoadTeacher, LoadRow, ReadTeacher, Strip, ListAll

LEMMA HeldAtFirst ==
  ASSUME TypeInv, NEW w \in Workers, Begins(w)
  PROVE  Held(w)'
  <1>0. DerivedTypeOK /\ RowsType /\ StagesFit(w) /\ PlansFit(w) /\ At(w, "new")
    BY Fits, Beginning
  <1>1. CASE LoadTeacher(w)
    <2>1. PICK plan \in Plan : Turns(w, "insert", work[w].todo, plan, work[w].seen, work[w].found)
      BY <1>0, <1>1, LoadTeacherWrites
    <2>2. work[w].kind = "create"
      BY <1>1 DEF LoadTeacher, Start
    <2> QED
      BY <2>1, <2>2 DEF Held, At, Turns
  <1>2. CASE LoadRow(w)
    <2>1. Takes(w, "next", {work[w].a}) /\ work[w].kind = "remove"
      BY <1>0, <1>2, TodoWrites DEF LoadRow, Start
    <2> QED
      BY <1>0, <2>1 DEF Held, At, Turns, Takes, PlansFit, NoPlan
  <1>3. CASE ReadTeacher(w)
    <2>1. Turns(w, "update", work[w].todo, work[w].plan, teacher[work[w].t], work[w].found)
      BY <1>0, <1>3, SeenWrites
    <2>2. work[w].kind = "relink"
      BY <1>3 DEF ReadTeacher, Start
    <2> QED
      BY <1>0, <2>1, <2>2 DEF Held, At, Turns, PlansFit, NoPlan
  <1>4. CASE Strip(w)
    <2>1. Turns(w, "evict", work[w].todo, work[w].plan, work[w].seen, [user |-> work[w].u, id |-> 0])
      BY <1>0, <1>4, StripWrites
    <2>2. work[w].kind = "strip"
      BY <1>4 DEF Strip, Start
    <2> QED
      BY <1>0, <2>1, <2>2 DEF Held, At, Turns, PlansFit, NoPlan
  <1>5. CASE ListAll(w)
    <2>1. Turns(w, "look", {a \in Assignments : assignment[a] = "there"}, NoPlan, work[w].seen, work[w].found)
      BY <1>0, <1>5, ListAllWrites
    <2>2. work[w].kind = "reconcile" /\ UNCHANGED assignment
      BY <1>5 DEF ListAll, Start, rows
    <2> QED
      BY <1>0, <2>1, <2>2 DEF Held, At, Turns, NoPlan
  <1> QED
    BY <1>1, <1>2, <1>3, <1>4, <1>5 DEF Begins

Resting(w) == work'[w].stage \in Idle
LEMMA EndsRest == ASSUME NEW w, NEW stage \in {"done", "failed", "crashed"}, Ends(w, stage) PROVE Resting(w)
  BY DEF Resting, Ends, Turns, Idle

LEMMA HeldByRequest ==
  ASSUME TypeInv, NEW w \in Workers, Held(w),
         InsertRow(w) \/ Undo(w) \/ DropRow(w) \/ Relink(w) \/ SyncTeacher(w) \/ ListTeacher(w) \/ Crash(w)
  PROVE  Resting(w) \/ Held(w)'
  <1>0. DerivedTypeOK /\ RowsType /\ StagesFit(w) /\ PlansFit(w)
    BY Fits
  <1>1. CASE InsertRow(w)
    <2>1. CASE Takes(w, "next", {work[w].a}) /\ assignment[work[w].a] = "none"
      <3>1. work[w].kind = "create" /\ At(w, "insert") /\ work[w].a \in Assignments
        BY <1>0, <1>1, WorkTypes DEF InsertRow, StagesFit, At
      <3>2. assignment' = [assignment EXCEPT ![work[w].a] = "there"]
        BY <1>1, <2>1 DEF InsertRow
      <3>3. \A a \in Assignments : work'[w].plan[a] # None => assignment'[a] = "there"
        BY <1>0, <2>1, <3>1, <3>2 DEF Takes, Turns, PlansFit, RowsType
      <3> QED
        BY <2>1, <3>1, <3>3 DEF Held, At, Takes, Turns
    <2>2. CASE Ends(w, "failed") \/ Ends(w, "done")
      BY <2>2, EndsRest
    <2> QED
      BY <1>0, <1>1, <2>1, <2>2, InsertRowWrites
  <1>2. CASE Undo(w) \/ DropRow(w) \/ Crash(w)
    BY <1>0, <1>2, SimpleWrites, EndsRest
  <1>3. CASE Relink(w)
    <2>1. CASE Goes(w, "list")
      BY <1>0, <1>3, <2>1 DEF Held, At, Goes, Turns, Relink, PlansFit, StagesFit, NoPlan
    <2> QED
      BY <1>0, <1>3, <2>1, SimpleWrites, EndsRest
  <1>4. CASE SyncTeacher(w)
    <2>1. Turns(w, "look", work[w].todo, work[w].plan, teacher[work[w].t], work[w].found)
      BY <1>0, <1>4, SeenWrites
    <2> QED
      BY <1>0, <1>4, <2>1 DEF Held, At, Turns, SyncTeacher, PlansFit, NoPlan
  <1>5. CASE ListTeacher(w)
    <2>1. Turns(w, "next", Mine(w), Same(w), work[w].seen, work[w].found)
      BY <1>0, <1>5, ListTeacherWrites
    <2>2. assignment' = assignment /\ work[w].kind = "relink"
      BY <1>5 DEF ListTeacher, rows
    <2>3. \A a \in Assignments : Same(w)[a] # None => assignment[a] = "there"
      BY DEF Same, Mine
    <2> QED
      BY <2>1, <2>2, <2>3 DEF Held, At, Turns
  <1> QED
    BY <1>1, <1>2, <1>3, <1>4, <1>5

LEMMA HeldByJob ==
  ASSUME TypeInv, NEW w \in Workers, Held(w),
         Repair(w) \/ ListGrants(w) \/ EndRun(w) \/ \E a \in Assignments : LookUp(w, a)
  PROVE  Resting(w) \/ Held(w)'
  <1>0. DerivedTypeOK /\ RowsType /\ StagesFit(w) /\ PlansFit(w) /\ work[w].kind = "reconcile"
    BY Fits DEF StagesFit, Repair, ListGrants, EndRun, LookUp, At
  <1>1. CASE EndRun(w)
    BY <1>0, <1>1, SimpleWrites, EndsRest
  <1>2. CASE Repair(w) \/ ListGrants(w)
    <2>1. \E stage \in {"next", "sweep"} : \E todo : Takes(w, stage, todo)
      BY <1>0, <1>2, TodoWrites
    <2>2. assignment' = assignment /\ ~At(w, "insert")
      BY <1>0, <1>2 DEF Repair, ListGrants, rows, StagesFit, At
    <2> QED
      BY <1>0, <2>1, <2>2 DEF Held, At, Takes, Turns
  <1>3. CASE \E a \in Assignments : LookUp(w, a)
    <2>1. PICK a \in Assignments : LookUp(w, a)
      BY <1>3
    <2>2. PICK plan \in Plan :
            /\ Turns(w, "look", work[w].todo \ {a}, plan, work[w].seen, work[w].found)
            /\ \A b \in Assignments \ {a} : plan[b] = work[w].plan[b]
      BY <1>0, <2>1, LookUpWrites
    <2>3. assignment' = assignment /\ a \in work[w].todo /\ At(w, "look")
      BY <2>1 DEF LookUp, rows
    <2>4. assignment[a] = "there" /\ \A b \in Assignments : work[w].plan[b] # None => assignment[b] = "there"
      BY <1>0, <2>3 DEF Held, At
    <2>5. \A b \in Assignments : plan[b] # None => assignment[b] = "there"
      BY <2>2, <2>4
    <2> QED
      BY <1>0, <2>2, <2>3, <2>5 DEF Held, At, Turns
  <1> QED
    BY <1>1, <1>2, <1>3

LEMMA HeldByDerive ==
  ASSUME TypeInv, NEW w \in Workers, Held(w), Derive(w)
  PROVE  Resting(w) \/ Held(w)'
  <1>0. DerivedTypeOK /\ RowsType /\ StagesFit(w) /\ PlansFit(w)
    BY Fits
  <1>a. assignment' = assignment /\ ~At(w, "insert")
    BY DEF Derive, Find, Finish, RemoveGrant, AddRole, AddGrant, Evict, rows, At, Sweeps
  <1>b. \A a \in Assignments : work[w].plan[a] # None => assignment[a] = "there"
    BY <1>a DEF Held
  <1>c. work[w].todo # {} => Target(w) \in work[w].todo
    BY TargetIn
  <1>1. CASE Find(w)
    <2>1. work[w].todo # {} /\ (At(w, "next") \/ Sweeps(w)) /\ grant' = grant
      BY <1>1 DEF Find, rows
    <2>2. CASE Planned(w) = Granted(Target(w))
      <3>1. Takes(w, work[w].stage, Rest(w, Target(w)))
        BY <1>0, <1>1, <2>2, FindWrites
      <3>2. work[w].kind = "remove" => Granted(work[w].a)' = None \/ work'[w].a \in work'[w].todo
        BY <1>0, <1>c, <2>1, <2>2, <3>1, WorkTypes DEF PlansFit, NoPlan, Planned, Granted, Takes, Turns, Rest, Held
      <3> QED
        BY <1>a, <1>b, <2>1, <3>1, <3>2 DEF Held, At, Takes, Turns, Sweeps, Granted
    <2>3. CASE Planned(w) # Granted(Target(w))
      <3>1. PICK stage \in {"role", "delete", "replace"} :
              /\ Turns(w, stage, work[w].todo, work[w].plan, work[w].seen, grant[Target(w)])
              /\ stage = "role" => Granted(Target(w)) = None
        BY <1>0, <1>1, <2>3, FindWrites
      <3>2. Target(w)' = Target(w) /\ Planned(w)' = Planned(w)
        BY <3>1, SameTarget DEF Turns
      <3> QED
        BY <1>a, <1>b, <2>1, <3>1, <3>2 DEF Held, At, Turns, Granted
    <2> QED
      BY <2>2, <2>3
  <1>2. CASE Finish(w)
    <2>1. CASE Goes(w, "drop")
      BY <1>2, <1>a, <1>b, <2>1 DEF Held, At, Goes, Turns, Finish, Granted, rows
    <2> QED
      BY <1>0, <1>2, <2>1, SimpleWrites, EndsRest
  <1>3. CASE RemoveGrant(w)
    <2>1. Goes(w, "evict")
      BY <1>0, <1>3, SimpleWrites
    <2>2. Target(w)' = Target(w) /\ Planned(w)' = Planned(w)
      BY <2>1, SameTarget DEF Goes, Turns
    <2>3. /\ work[w].found.user # Planned(w) /\ Target(w) \in Assignments
          /\ grant' = [grant EXCEPT ![Target(w)] = NoGrant]
      BY <1>0, <1>3, WorkTypes DEF RemoveGrant, Held, PlansFit, HasTarget, At
    <2>4. Granted(Target(w))' = None
      BY <1>0, <2>2, <2>3 DEF Granted, NoGrant, RowsType
    <2>5. work[w].kind = "remove" => Granted(work[w].a)' = None \/ work'[w].a \in work'[w].todo
      BY <1>0, <2>1, <2>3, WorkTypes DEF Held, Goes, Turns, Granted, NoGrant, RowsType
    <2> QED
      BY <1>a, <1>b, <2>1, <2>2, <2>3, <2>4, <2>5 DEF Held, At, Goes, Turns
  <1>4. CASE AddRole(w)
    <2>1. Goes(w, "add")
      BY <1>0, <1>4, SimpleWrites
    <2>2. Target(w)' = Target(w) /\ Planned(w)' = Planned(w)
      BY <2>1, SameTarget DEF Goes, Turns
    <2>3. holds' = holds \cup {Planned(w)} /\ grant' = grant /\ At(w, "role")
      BY <1>4 DEF AddRole, Planned
    <2> QED
      BY <1>a, <1>b, <2>1, <2>2, <2>3 DEF Held, At, Goes, Turns, Granted
  <1>5. CASE AddGrant(w)
    <2>1. Granted(Target(w)) = None /\ Planned(w) \in holds /\ Target(w) \in Assignments /\ work[w].todo # {}
      BY <1>0, <1>5, WorkTypes DEF AddGrant, Held, PlansFit, HasTarget, At
    <2>2. Turns(w, "evict", work[w].todo, work[w].plan, work[w].seen, [user |-> Planned(w), id |-> 0])
      BY <1>0, <1>5, <2>1, AddGrantWrites
    <2>3. Target(w)' = Target(w) /\ Planned(w)' = Planned(w)
      BY <2>2, SameTarget DEF Turns
    <2>4. grant' = [grant EXCEPT ![Target(w)] = [user |-> Planned(w), id |-> FreshId]]
      BY <1>5, <2>1, Zenon DEF AddGrant, Planned, Granted
    <2>5. Granted(Target(w))' = Planned(w)
      BY <1>0, <2>1, <2>3, <2>4 DEF Granted, RowsType
    <2>6. work[w].kind = "remove" => work[w].a \in work[w].todo
      BY <1>0, <1>c, <2>1 DEF PlansFit
    <2> QED
      BY <1>a, <1>b, <2>2, <2>3, <2>5, <2>6 DEF Held, At, Turns
  <1>6. CASE Evict(w)
    <2>1. grant' = grant /\ At(w, "evict")
      BY <1>6 DEF Evict, rows
    <2>2. CASE work[w].kind = "strip"
      BY <1>0, <1>6, <2>2, EvictWrites, EndsRest
    <2>3. CASE work[w].kind # "strip" /\ (work[w].found.user = Planned(w) \/ Planned(w) = None)
      <3>1. Takes(w, After(w), Rest(w, Target(w)))
        BY <1>0, <1>6, <2>3, EvictWrites
      <3>2. After(w) \in {"next", "sweep"}
        BY DEF After
      <3>3. work[w].todo # {}
        BY <1>0, <2>1, <2>3 DEF PlansFit, HasTarget
      <3>4. Granted(Target(w)) = Planned(w)
        BY <2>1, <2>3 DEF Held
      <3>5. work[w].kind = "remove" => Granted(work[w].a)' = None \/ work'[w].a \in work'[w].todo
        BY <1>0, <1>c, <2>1, <3>1, <3>3, <3>4, WorkTypes DEF PlansFit, NoPlan, Planned, Granted, Takes, Turns, Rest, Held
      <3> QED
        BY <1>a, <1>b, <3>1, <3>2, <3>5 DEF Held, At, Takes, Turns
    <2>4. CASE work[w].kind # "strip" /\ ~(work[w].found.user = Planned(w) \/ Planned(w) = None)
      <3>1. Goes(w, "role")
        BY <1>0, <1>6, <2>4, EvictWrites
      <3>2. Target(w)' = Target(w) /\ Planned(w)' = Planned(w)
        BY <3>1, SameTarget DEF Goes, Turns
      <3>3. Granted(Target(w)) = None
        BY <2>1, <2>4 DEF Held
      <3> QED
        BY <1>a, <1>b, <2>1, <3>1, <3>2, <3>3 DEF Held, At, Goes, Turns, Granted
    <2> QED
      BY <2>2, <2>3, <2>4
  <1> QED
    BY <1>1, <1>2, <1>3, <1>4, <1>5, <1>6 DEF Derive

LEMMA HeldOn ==
  ASSUME TypeInv, NEW w \in Workers, Held(w), Proceeds(w)
  PROVE  Resting(w) \/ Held(w)'
  BY HeldByRequest, HeldByJob, HeldByDerive DEF Proceeds

LEMMA QuietWorkNext == TypeInv /\ QuietWork /\ [Next]_vars => QuietWork'
  <1> SUFFICES ASSUME TypeInv, QuietWork, [Next]_vars, Quiet', NEW v \in Workers, v \in Busy'
               PROVE  Only(v)' /\ Held(v)'
    BY DEF QuietWork, Busy
  <1>1. CASE work' = work /\ UNCHANGED <<rows, alone, overlap>>
    <2>1. Busy' = Busy /\ Target(v)' = Target(v) /\ Planned(v)' = Planned(v)
      BY <1>1, SameTarget DEF Busy
    <2>2. Only(v) /\ Held(v)
      BY <1>1, <2>1 DEF QuietWork, Quiet
    <2> QED
      BY <1>1, <2>1, <2>2 DEF Only, Held, At, Granted, rows
  <1>2. CASE Next
    <2>1. PICK w \in Workers : Begins(w) \/ Proceeds(w) \/ NextRun(w)
      BY <1>2, Acting
    <2>2. PICK stage, todo, plan, seen, found : Turns(w, stage, todo, plan, seen, found)
      BY <2>1, Writes
    <2>3. /\ \A u \in Workers \ {w} : u \in Busy' <=> u \in Busy
          /\ w \in Busy' <=> ~Resting(w)
      BY <2>2, BusyAfter DEF Resting, Turns
    <2>4. CASE Begins(w)
      BY <2>3, <2>4, Beginning, HeldAtFirst DEF Only, Busy
    <2>5. CASE Proceeds(w)
      <3>1. w \in Busy /\ Only(w) /\ Held(w) /\ UNCHANGED <<alone, overlap>>
        BY <2>5, Proceeding DEF QuietWork, Quiet, Undisturbed
      <3>2. \A u \in Busy' : u = w
        BY <2>3, <3>1 DEF Only, Busy
      <3>3. v = w /\ ~Resting(w)
        BY <2>3, <3>2
      <3> QED
        BY <2>5, <3>1, <3>2, <3>3, HeldOn DEF Only
    <2>6. CASE NextRun(w)
      <3>1. Resting(w) /\ UNCHANGED <<rows, alone, overlap>> /\ w \notin Busy
        BY <2>6, Fits, SimpleWrites DEF NextRun, Resting, Goes, Turns, Idle, Undisturbed, Busy
      <3>2. v # w /\ v \in Busy /\ work'[v] = work[v]
        BY <2>2, <2>3, <3>1 DEF Turns
      <3>3. Only(v) /\ Held(v)
        BY <3>1, <3>2 DEF QuietWork, Quiet
      <3>4. Target(v)' = Target(v) /\ Planned(v)' = Planned(v)
        BY <3>2, SameTarget
      <3>5. Only(v)'
        BY <2>3, <3>1, <3>3 DEF Only, Busy
      <3> QED
        BY <3>1, <3>2, <3>3, <3>4, <3>5 DEF Held, At, Granted, rows
    <2> QED
      BY <2>1, <2>4, <2>5, <2>6
  <1> QED
    BY <1>1, <1>2 DEF vars

(* Without overlaps a grant belongs to an assignment that is there. *)
LEMMA OrphansNext ==
  ASSUME TypeInv, QuietWork, OrphansNeedOverlap, [Next]_vars
  PROVE  OrphansNeedOverlap'
  <1> SUFFICES ASSUME ~overlap', NEW a \in Assignments, grant'[a].user # None
               PROVE  assignment'[a] = "there"
    BY DEF OrphansNeedOverlap
  <1>1. CASE UNCHANGED rows /\ ~overlap
    BY <1>1 DEF OrphansNeedOverlap, rows
  <1>2. CASE Next
    <2>1. PICK w \in Workers : Begins(w) \/ Proceeds(w) \/ NextRun(w)
      BY <1>2, Acting
    <2>2. ~overlap
      BY <2>1, Beginning, Proceeding DEF Undisturbed, NextRun
    <2>3. DerivedTypeOK /\ RowsType /\ StagesFit(w) /\ PlansFit(w)
      BY Fits
    <2>4. Proceeds(w) => Held(w)
      BY <2>2, Proceeding DEF QuietWork, Quiet
    <2>5. CASE UNCHANGED <<assignment, grant>>
      BY <2>2, <2>5 DEF OrphansNeedOverlap
    <2>6. CASE Strip(w)
      BY <2>2, <2>6 DEF OrphansNeedOverlap, Strip, NoGrant
    <2>7. CASE InsertRow(w)
      BY <2>2, <2>3, <2>7 DEF OrphansNeedOverlap, InsertRow, RowsType
    <2>8. CASE Undo(w)
      BY <2>4, <2>8 DEF Held, Proceeds, Undo
    <2>9. CASE DropRow(w)
      <3>1. Granted(work[w].a) = None
        BY <2>3, <2>4, <2>9 DEF Held, Proceeds, DropRow, StagesFit
      <3> QED
        BY <2>2, <2>3, <2>9, <3>1 DEF OrphansNeedOverlap, DropRow, RowsType, Granted
    <2>10. CASE RemoveGrant(w)
      <3>1. work[w].todo # {} /\ Target(w) \in Assignments
        BY <2>3, <2>10, WorkTypes DEF RemoveGrant, PlansFit, HasTarget
      <3> QED
        BY <2>2, <2>3, <2>10, <3>1 DEF OrphansNeedOverlap, RemoveGrant, RowsType, NoGrant
    <2>11. CASE AddGrant(w)
      <3>1. Held(w) /\ At(w, "add")
        BY <2>4, <2>11 DEF Proceeds, Derive, AddGrant
      <3>2. Planned(w) \in holds /\ Granted(Target(w)) = None /\ Target(w) \in Assignments /\ Planned(w) # None
        BY <2>3, <3>1, WorkTypes DEF PlansFit, HasTarget, Held, At
      <3>3. assignment[Target(w)] = "there"
        BY <3>1, <3>2 DEF Held, At, Planned
      <3>4. grant' = [grant EXCEPT ![Target(w)] = [user |-> Planned(w), id |-> FreshId]] /\ assignment' = assignment
        BY <2>11, <3>2, Zenon DEF AddGrant, Planned, Granted
      <3> QED
        BY <2>2, <2>3, <3>2, <3>3, <3>4 DEF OrphansNeedOverlap, RowsType
    <2> QED
      BY <2>1, <2>5, <2>6, <2>7, <2>8, <2>9, <2>10, <2>11
         DEF Begins, Proceeds, Derive, LoadTeacher, LoadRow, ReadTeacher, ListAll, Relink, SyncTeacher, ListTeacher,
             Repair, ListGrants, EndRun, NextRun, LookUp, Find, Finish, AddRole, Evict, Crash, rows
  <1> QED
    BY <1>1, <1>2 DEF vars

LEMMA QuietInit == Init => QuietWork /\ OrphansNeedOverlap
  <1> SUFFICES ASSUME Init PROVE QuietWork /\ OrphansNeedOverlap
    OBVIOUS
  <1>1. PICK task \in [Workers -> Tasks] : work = [w \in Workers |-> Asked(task[w], "new")]
    BY DEF Init
  <1>2. Busy = {}
    BY <1>1 DEF Busy, Asked, Idle
  <1>3. \A a \in Assignments : grant[a] = IF Wanted[a] = None THEN NoGrant ELSE [user |-> Wanted[a], id |-> 1]
    BY DEF Init
  <1>4. \A a \in Assignments : Wanted[a] # None => assignment[a] = "there"
    BY DEF Wanted
  <1>5. OrphansNeedOverlap
    <2> SUFFICES ASSUME NEW a \in Assignments, grant[a].user # None PROVE assignment[a] = "there"
      BY DEF OrphansNeedOverlap
    <2>1. Wanted[a] # None
      <3>1. Wanted[a] = None => grant[a] = NoGrant
        BY <1>3
      <3> QED
        BY <3>1 DEF NoGrant
    <2> QED
      BY <1>4, <2>1
  <1> QED
    BY <1>2, <1>5 DEF QuietWork

(* Unless requests overlapped, authority has a source at every moment, after
   a crash between any two writes as well. *)
THEOREM GrantsInvAlways == Spec => []GrantsInv
  <1>1. TypeInv /\ OrphansNeedOverlap => GrantsInv
    BY DEF TypeInv, GrantsInv
  <1>2. TypeInv /\ QuietWork /\ OrphansNeedOverlap /\ [Next]_vars => OrphansNeedOverlap'
    BY OrphansNext
  <1> QED
    BY <1>1, <1>2, TypeInvInit, TypeInvNext, QuietInit, QuietWorkNext, PTL DEF Spec

-----------------------------------------------------------------------------
(* What the job has planned is what the assignments ask for, and in a run
   that nothing overlapped every grant is as planned or still to be done. *)
JobPlan ==
  Quiet /\ Job \in Busy =>
    \A a \in Assignments : work[Job].plan[a] = Wanted[a] \/ (At(Job, "look") /\ a \in work[Job].todo)

Upserts == At(Job, "next") \/ (HasTarget(Job) /\ Planned(Job) # None)
Upserting == /\ \A a \in work[Job].todo : work[Job].plan[a] # None
             /\ \A a \in Assignments : work[Job].plan[a] = None \/ a \in work[Job].todo \/ Granted(a) = work[Job].plan[a]
Sweeping  == /\ \A a \in work[Job].todo : work[Job].plan[a] = None
             /\ \A a \in Assignments : a \in work[Job].todo \/ Granted(a) = work[Job].plan[a]
Progress  == ~At(Job, "look") => IF Upserts THEN Upserting ELSE Sweeping
JobProgress == alone /\ Job \in Busy => Progress

(* A step of another worker is of no account: it was not busy, or the job
   is not. *)
LEMMA JobAlone ==
  ASSUME TypeInv, QuietWork, NEW w \in Workers, Proceeds(w), Quiet, Job \in Busy \/ alone
  PROVE  w = Job /\ Held(Job)
  BY Proceeding, JobAssumption DEF QuietWork, Only

JobsOwn(w) == ListAll(w) \/ Repair(w) \/ ListGrants(w) \/ EndRun(w) \/ (\E a \in Assignments : LookUp(w, a)) \/ Derive(w)

LEMMA JobsActions ==
  ASSUME TypeInv, Begins(Job) \/ Proceeds(Job)
  PROVE  JobsOwn(Job) \/ Crash(Job)
  <1>1. Job \in Workers /\ work[Job].kind = "reconcile"
    BY Fits, JobAssumption DEF StagesFit
  <1>2. StagesFit(Job)
    BY <1>1, Fits
  <1> QED
    BY <1>1, <1>2 DEF Begins, Proceeds, LoadTeacher, LoadRow, ReadTeacher, Strip, Start, InsertRow, Undo, DropRow,
           Relink, SyncTeacher, ListTeacher, StagesFit, JobsOwn, At

LEMMA JobPlanNext ==
  ASSUME TypeInv, QuietWork, JobPlan, [Next]_vars
  PROVE  JobPlan'
  <1> SUFFICES ASSUME Quiet', Job \in Busy', NEW a \in Assignments
               PROVE  work'[Job].plan[a] = Wanted'[a] \/ (At(Job, "look")' /\ a \in work'[Job].todo)
    BY DEF JobPlan
  <1>0. Job \in Workers
    BY JobAssumption
  <1>1. CASE work'[Job] = work[Job] /\ UNCHANGED <<rows, alone, overlap>>
    BY <1>0, <1>1 DEF JobPlan, Busy, Wanted, At, Quiet, rows
  <1>2. CASE Next
    <2>1. PICK w \in Workers : Begins(w) \/ Proceeds(w) \/ NextRun(w)
      BY <1>2, Acting
    <2>2. PICK stage, todo, plan, seen, found : Turns(w, stage, todo, plan, seen, found)
      BY <2>1, Writes
    <2>3. w # Job => Job \in Busy
      BY <1>0, <2>2, BusyAfter
    <2>4. CASE Begins(w) /\ w # Job
      BY <2>3, <2>4, Beginning
    <2>5. CASE Proceeds(w) /\ w # Job
      BY <2>3, <2>5, JobAlone, Proceeding DEF Undisturbed, Quiet
    <2>6. CASE NextRun(w)
      <3>1. StagesFit(w) /\ work'[w].stage = "new"
        BY <2>6, Fits, SimpleWrites DEF Goes, Turns
      <3>2. w = Job
        BY <2>6, <3>1 DEF NextRun, StagesFit
      <3> QED
        BY <3>1, <3>2 DEF Busy, Idle
    <2>7. CASE (Begins(w) \/ Proceeds(w)) /\ w = Job
      <3>0. /\ DerivedTypeOK /\ RowsType /\ StagesFit(Job) /\ PlansFit(Job) /\ work[Job].kind = "reconcile"
            /\ ~Resting(Job)
        BY <1>0, Fits DEF StagesFit, Resting, Busy
      <3>1. JobsOwn(Job)
        BY <1>0, <2>7, <3>0, JobsActions, SimpleWrites, EndsRest
      <3>2. UNCHANGED <<assignment, teacher>> /\ Wanted' = Wanted
        BY <3>1 DEF JobsOwn, ListAll, Repair, ListGrants, EndRun, LookUp, Derive, Find, Finish, RemoveGrant, AddRole,
                    AddGrant, Evict, rows, Wanted
      <3>3. CASE ListAll(Job)
        <4>1. Turns(Job, "look", {b \in Assignments : assignment[b] = "there"}, NoPlan, work[Job].seen, work[Job].found)
          BY <1>0, <3>0, <3>3, ListAllWrites
        <4> QED
          BY <3>0, <3>2, <4>1, RowTypes DEF Turns, At, NoPlan
      <3>4. ASSUME ~ListAll(Job)
            PROVE  /\ Held(Job) /\ Job \in Busy
                   /\ work[Job].plan[a] = Wanted[a] \/ (At(Job, "look") /\ a \in work[Job].todo)
        <4>1. Proceeds(Job)
          BY <3>1, <3>4 DEF JobsOwn, Proceeds
        <4> QED
          BY <1>0, <4>1, Proceeding DEF QuietWork, Quiet, Undisturbed, JobPlan
      <3>5. CASE \E b \in Assignments : LookUp(Job, b)
        <4>1. PICK b \in Assignments : LookUp(Job, b)
          BY <3>5
        <4>2. PICK p \in Plan :
                /\ Turns(Job, "look", work[Job].todo \ {b}, p, work[Job].seen, work[Job].found)
                /\ p[b] = teacher[TeacherOf[b]]
                /\ \A c \in Assignments \ {b} : p[c] = work[Job].plan[c]
          BY <1>0, <3>0, <4>1, LookUpWrites
        <4>3. b \in work[Job].todo /\ At(Job, "look") /\ ~ListAll(Job)
          BY <4>1 DEF LookUp, ListAll, Start, At
        <4>4. Wanted[b] = teacher[TeacherOf[b]]
          BY <3>0, <3>4, <4>3, RowTypes DEF Held
        <4> QED
          BY <3>2, <3>4, <4>2, <4>3, <4>4 DEF Turns, At
      <3>6. CASE Repair(Job)
        BY <1>0, <3>0, <3>2, <3>4, <3>6, TodoWrites DEF Repair, Takes, Turns, ListAll, Start, At
      <3>7. CASE ListGrants(Job) \/ Derive(Job)
        <4>1. ~At(Job, "look") /\ ~ListAll(Job)
          BY <3>7 DEF ListGrants, Derive, Find, Finish, RemoveGrant, AddRole, AddGrant, Evict, ListAll, Start, At, Sweeps
        <4>2. work'[Job].plan = work[Job].plan
          BY <1>0, <3>0, <3>7, TodoWrites, FindWrites, SimpleWrites, AddGrantWrites, EvictWrites, EndsRest
             DEF Derive, Takes, Goes, Turns
        <4> QED
          BY <3>2, <3>4, <4>1, <4>2
      <3>8. CASE EndRun(Job)
        BY <1>0, <3>0, <3>8, SimpleWrites, EndsRest
      <3> QED
        BY <3>1, <3>3, <3>5, <3>6, <3>7, <3>8 DEF JobsOwn
    <2> QED
      BY <2>1, <2>4, <2>5, <2>6, <2>7
  <1> QED
    BY <1>1, <1>2 DEF vars

LEMMA JobProgressNext ==
  ASSUME TypeInv, QuietWork, JobProgress, [Next]_vars
  PROVE  JobProgress'
  <1> SUFFICES ASSUME alone', Job \in Busy' PROVE Progress'
    BY DEF JobProgress
  <1>0. Job \in Workers
    BY JobAssumption
  <1>1. CASE work'[Job] = work[Job] /\ UNCHANGED <<rows, alone, overlap>>
    <2>1. Target(Job)' = Target(Job) /\ Planned(Job)' = Planned(Job)
      BY <1>1, SameTarget
    <2>2. Progress
      BY <1>0, <1>1 DEF JobProgress, Busy
    <2> QED
      BY <1>1, <2>1, <2>2 DEF Progress, Upserts, Upserting, Sweeping, HasTarget, At, Granted, rows
  <1>2. CASE Next
    <2>1. PICK w \in Workers : Begins(w) \/ Proceeds(w) \/ NextRun(w)
      BY <1>2, Acting
    <2>2. PICK stage, todo, plan, seen, found : Turns(w, stage, todo, plan, seen, found)
      BY <2>1, Writes
    <2>3. w = Job
      <3>1. w # Job => Job \in Busy
        BY <1>0, <2>2, BusyAfter
      <3>2. CASE Begins(w)
        BY <3>1, <3>2, Beginning DEF Quiet
      <3>3. CASE Proceeds(w)
        BY <3>1, <3>3, JobAlone, Proceeding DEF Undisturbed, Quiet
      <3>4. CASE NextRun(w)
        BY <3>4, Fits DEF NextRun, StagesFit
      <3> QED
        BY <2>1, <3>2, <3>3, <3>4
    <2>4. CASE NextRun(Job)
      <3>1. work'[Job].stage = "new"
        BY <1>0, <2>4, Fits, SimpleWrites DEF Goes, Turns
      <3> QED
        BY <3>1 DEF Busy, Idle
    <2>5. CASE Begins(Job) \/ Proceeds(Job)
      <3>0. /\ DerivedTypeOK /\ RowsType /\ StagesFit(Job) /\ PlansFit(Job) /\ work[Job].kind = "reconcile"
            /\ ~Resting(Job)
        BY <1>0, Fits DEF StagesFit, Resting, Busy
      <3>1. JobsOwn(Job)
        BY <1>0, <2>5, <3>0, JobsActions, SimpleWrites, EndsRest
      <3>2. ASSUME Repair(Job) \/ ListGrants(Job) \/ Derive(Job)
            PROVE  Held(Job) /\ Progress
        BY <1>0, <3>2, Proceeding DEF Proceeds, QuietWork, Quiet, Undisturbed, JobProgress
      <3>3. CASE ListAll(Job) \/ (\E b \in Assignments : LookUp(Job, b))
        BY <1>0, <3>0, <3>3, ListAllWrites, LookUpWrites DEF Progress, Turns, At
      <3>4. CASE Repair(Job)
        <4>1. Takes(Job, "next", {a \in Assignments : work[Job].plan[a] # None})
          BY <1>0, <3>0, <3>4, TodoWrites
        <4> QED
          BY <4>1 DEF Progress, Upserts, Upserting, Takes, Turns, At
      <3>5. CASE ListGrants(Job)
        <4>1. Takes(Job, "sweep", {a \in Assignments : grant[a].user # None /\ work[Job].plan[a] = None})
          BY <1>0, <3>0, <3>5, TodoWrites
        <4>2. Upserting /\ work[Job].todo = {} /\ grant' = grant
          BY <3>2, <3>5 DEF ListGrants, Progress, Upserts, At, rows
        <4>3. ~Upserts'
          BY <4>1 DEF Upserts, Takes, Turns, At, HasTarget
        <4>4. Sweeping'
          BY <3>0, <4>1, <4>2 DEF Upserting, Sweeping, Takes, Turns, Granted, RowsType
        <4> QED
          BY <4>3, <4>4 DEF Progress
      <3>6. CASE Find(Job)
        <4>1. /\ work[Job].todo # {} /\ grant' = grant /\ (At(Job, "next") \/ At(Job, "sweep"))
              /\ Target(Job) \in work[Job].todo /\ work[Job].todo \subseteq Assignments
          BY <1>0, <3>0, <3>6, WorkTypes DEF Find, rows, Sweeps
        <4>2. CASE Planned(Job) = Granted(Target(Job))
          <5>1. Takes(Job, work[Job].stage, Rest(Job, Target(Job)))
            BY <1>0, <3>0, <3>6, <4>2, FindWrites
          <5>2. CASE At(Job, "next")
            BY <3>2, <3>6, <4>1, <4>2, <5>1, <5>2
               DEF Derive, Progress, Upserts, Upserting, Takes, Turns, At, Granted, Planned, Rest
          <5>3. CASE At(Job, "sweep")
            BY <3>2, <3>6, <4>1, <4>2, <5>1, <5>3
               DEF Derive, Progress, Upserts, Sweeping, Takes, Turns, At, Granted, Planned, Rest, HasTarget
          <5> QED
            BY <4>1, <5>2, <5>3
        <4>3. CASE Planned(Job) # Granted(Target(Job))
          <5>1. PICK s \in {"role", "delete", "replace"} :
                  Turns(Job, s, work[Job].todo, work[Job].plan, work[Job].seen, grant[Target(Job)])
            BY <1>0, <3>0, <3>6, <4>3, FindWrites
          <5>2. Target(Job)' = Target(Job) /\ Planned(Job)' = Planned(Job)
            BY <5>1, SameTarget DEF Turns
          <5>3. Upserts' <=> Planned(Job) # None
            BY <5>1, <5>2 DEF Upserts, HasTarget, Turns, At
          <5>4. Upserting' <=> Upserting
            BY <4>1, <5>1 DEF Upserting, Turns, Granted
          <5>5. Sweeping' <=> Sweeping
            BY <4>1, <5>1 DEF Sweeping, Turns, Granted
          <5>6. IF At(Job, "next") THEN Upserting /\ Planned(Job) # None ELSE Sweeping /\ Planned(Job) = None
            BY <3>2, <3>6, <4>1 DEF Derive, Progress, Upserts, Upserting, Sweeping, Planned, HasTarget, At
          <5> QED
            BY <5>3, <5>4, <5>5, <5>6 DEF Progress
        <4> QED
          BY <4>2, <4>3
      <3>7. CASE Finish(Job)
        BY <3>0, <3>7 DEF Finish
      <3>8. CASE RemoveGrant(Job) \/ AddRole(Job) \/ AddGrant(Job)
        <4>1. /\ HasTarget(Job) /\ Target(Job) \in work[Job].todo /\ Target(Job) \in Assignments
              /\ ~At(Job, "next") /\ ~At(Job, "look")
          BY <1>0, <3>0, <3>8, WorkTypes DEF RemoveGrant, AddRole, AddGrant, HasTarget, PlansFit, At
        <4>0. \E s \in {"evict", "add"} : \E f :
                Turns(Job, s, work[Job].todo, work[Job].plan, work[Job].seen, f)
          <5>1. CASE AddGrant(Job)
            <6>1. Granted(Target(Job)) = None /\ Planned(Job) \in holds
              BY <3>0, <3>2, <5>1 DEF Derive, Held, AddGrant, At
            <6> QED
              BY <1>0, <3>0, <5>1, <6>1, AddGrantWrites
          <5>2. CASE RemoveGrant(Job) \/ AddRole(Job)
            BY <1>0, <3>0, <5>2, SimpleWrites DEF Goes
          <5> QED
            BY <3>8, <5>1, <5>2
        <4>2. PICK s, f : s \in {"evict", "add"}
                          /\ Turns(Job, s, work[Job].todo, work[Job].plan, work[Job].seen, f)
          BY <4>0
        <4>3. \A a \in Assignments \ {Target(Job)} : grant'[a] = grant[a]
          BY <3>0, <3>8, <4>1 DEF RemoveGrant, AddRole, AddGrant, RowsType
        <4>4. Target(Job)' = Target(Job) /\ Planned(Job)' = Planned(Job)
          BY <4>2, SameTarget DEF Turns
        <4>5. Upserts' <=> Upserts
          BY <3>0, <4>1, <4>2, <4>4 DEF Upserts, HasTarget, Turns, At
        <4>6. Progress
          BY <3>2, <3>8 DEF Derive
        <4>7. Upserting => Upserting'
          BY <4>1, <4>2, <4>3 DEF Upserting, Turns, Granted
        <4>8. Sweeping => Sweeping'
          BY <4>1, <4>2, <4>3 DEF Sweeping, Turns, Granted
        <4> QED
          BY <4>1, <4>5, <4>6, <4>7, <4>8 DEF Progress
      <3>9. CASE Evict(Job)
        <4>1. /\ At(Job, "evict") /\ grant' = grant /\ HasTarget(Job) /\ Target(Job) \in work[Job].todo
              /\ Target(Job) \in Assignments /\ work[Job].todo \subseteq Assignments
          BY <1>0, <3>0, <3>9, WorkTypes DEF Evict, HasTarget, PlansFit, rows
        <4>2. Held(Job) /\ Progress
          BY <3>2, <3>9 DEF Derive
        <4>3. CASE work[Job].found.user = Planned(Job) \/ Planned(Job) = None
          <5>1. Takes(Job, After(Job), Rest(Job, Target(Job)))
            BY <1>0, <3>0, <3>9, <4>3, EvictWrites
          <5>2. Granted(Target(Job)) = Planned(Job)
            BY <3>0, <4>1, <4>2, <4>3 DEF Held
          <5>3. CASE Planned(Job) # None
            <6>1. After(Job) = "next" /\ Upserting
              BY <4>1, <4>2, <5>3 DEF After, Planned, Progress, Upserts, At
            <6> QED
              BY <4>1, <5>1, <5>2, <6>1 DEF Progress, Upserts, Upserting, Takes, Turns, At, Granted, Planned, Rest
          <5>4. CASE Planned(Job) = None
            <6>1. After(Job) = "sweep" /\ Sweeping
              BY <3>0, <4>1, <4>2, <5>4 DEF After, Planned, Progress, Upserts, At
            <6> QED
              BY <4>1, <5>1, <5>2, <6>1 DEF Progress, Upserts, Sweeping, Takes, Turns, At, Granted, Planned, Rest, HasTarget
          <5> QED
            BY <5>3, <5>4
        <4>4. CASE ~(work[Job].found.user = Planned(Job) \/ Planned(Job) = None)
          <5>1. Goes(Job, "role")
            BY <1>0, <3>0, <3>9, <4>4, EvictWrites
          <5>2. Target(Job)' = Target(Job) /\ Planned(Job)' = Planned(Job)
            BY <5>1, SameTarget DEF Goes, Turns
          <5>3. Upserts' /\ Upserts
            BY <4>1, <4>4, <5>1, <5>2 DEF Upserts, HasTarget, Goes, Turns, At
          <5>4. Upserting
            BY <4>1, <4>2, <5>3 DEF Progress, At
          <5>5. Upserting'
            BY <4>1, <5>1, <5>4 DEF Upserting, Goes, Turns, Granted
          <5> QED
            BY <5>3, <5>5 DEF Progress
        <4> QED
          BY <4>3, <4>4
      <3>10. CASE EndRun(Job)
        BY <1>0, <3>0, <3>10, SimpleWrites, EndsRest
      <3> QED
        BY <3>1, <3>3, <3>4, <3>5, <3>6, <3>7, <3>8, <3>9, <3>10 DEF JobsOwn, Derive
    <2> QED
      BY <2>1, <2>3, <2>4, <2>5
  <1> QED
    BY <1>1, <1>2 DEF vars

LEMMA JobRepairsNext ==
  ASSUME TypeInv, QuietWork, JobPlan, JobProgress, JobRepairs, [Next]_vars
  PROVE  JobRepairs'
  <1> SUFFICES ASSUME work'[Job].stage = "done", alone' PROVE Exact'
    BY DEF JobRepairs
  <1>0. Job \in Workers
    BY JobAssumption
  <1>1. CASE work'[Job] = work[Job] /\ UNCHANGED <<rows, alone, overlap>>
    BY <1>1 DEF JobRepairs, Exact, Wanted, rows
  <1>2. CASE Next
    <2>1. PICK w \in Workers : Begins(w) \/ Proceeds(w) \/ NextRun(w)
      BY <1>2, Acting
    <2>2. PICK stage, todo, plan, seen, found : Turns(w, stage, todo, plan, seen, found)
      BY <2>1, Writes
    <2>3. CASE w # Job
      <3>1. ~Proceeds(w)
        BY <2>3, JobAlone, Proceeding DEF Undisturbed, Quiet
      <3>2. ~Begins(w) /\ ~NextRun(w)
        BY <2>3, Beginning, Fits DEF NextRun, StagesFit
      <3> QED
        BY <2>1, <3>1, <3>2
    <2>4. CASE w = Job
      <3>0. DerivedTypeOK /\ StagesFit(Job) /\ work[Job].kind = "reconcile"
        BY <1>0, Fits DEF StagesFit
      <3>1. EndRun(Job)
        <4>1. ~NextRun(Job)
          BY <1>0, <3>0, SimpleWrites DEF Goes, Turns
        <4>2. JobsOwn(Job) /\ ~ListAll(Job)
          BY <1>0, <2>1, <2>4, <3>0, <4>1, JobsActions, SimpleWrites, ListAllWrites DEF Ends, Turns
        <4>3. ~Finish(Job)
          BY <3>0 DEF Finish
        <4>4. CASE Derive(Job)
          <5>1. Proceeds(Job) /\ Held(Job)
            BY <1>0, <4>4, Proceeding DEF Proceeds, QuietWork, Quiet, Undisturbed
          <5>2. CASE AddGrant(Job)
            <6>1. Granted(Target(Job)) = None /\ Planned(Job) \in holds
              BY <5>1, <5>2 DEF Held, AddGrant, At
            <6> QED
              BY <1>0, <3>0, <5>2, <6>1, AddGrantWrites DEF Turns
          <5>3. CASE Find(Job)
            BY <1>0, <3>0, <5>3, FindWrites DEF Find, Takes, Turns, At, Sweeps
          <5>4. CASE RemoveGrant(Job) \/ AddRole(Job) \/ Evict(Job)
            BY <1>0, <3>0, <5>4, SimpleWrites, EvictWrites DEF Goes, Takes, Turns, After
          <5> QED
            BY <4>3, <4>4, <5>2, <5>3, <5>4 DEF Derive
        <4>5. ~(Repair(Job) \/ ListGrants(Job) \/ \E a \in Assignments : LookUp(Job, a))
          BY <1>0, <3>0, TodoWrites, LookUpWrites DEF Takes, Turns
        <4> QED
          BY <4>2, <4>4, <4>5 DEF JobsOwn
      <3>2. At(Job, "sweep") /\ work[Job].todo = {} /\ UNCHANGED <<rows, alone>>
        BY <3>1 DEF EndRun, Undisturbed
      <3>3. Job \in Busy
        BY <1>0, <3>2 DEF Busy, Idle, At
      <3>4. Sweeping
        BY <3>2, <3>3 DEF JobProgress, Progress, Upserts, HasTarget, At
      <3>5. \A a \in Assignments : work[Job].plan[a] = Wanted[a]
        BY <3>2, <3>3 DEF JobPlan, Quiet
      <3>6. Exact
        BY <3>2, <3>4, <3>5 DEF Exact, Sweeping, Granted
      <3> QED
        BY <3>2, <3>6 DEF Exact, Wanted, rows
    <2> QED
      BY <2>3, <2>4
  <1> QED
    BY <1>1, <1>2 DEF vars

(* A run of the job that nothing overlapped leaves the grants exactly what
   the assignments ask for, whatever crashes and overlaps left before. *)
THEOREM JobRepairsAlways == Spec => []JobRepairs
  <1> DEFINE JobInv == TypeInv /\ QuietWork /\ JobPlan /\ JobProgress /\ JobRepairs
  <1>1. Init => JobInv
    <2>1. Init => Busy = {} /\ ~alone
      <3> SUFFICES ASSUME Init PROVE Busy = {} /\ ~alone
        OBVIOUS
      <3>1. PICK task \in [Workers -> Tasks] : work = [w \in Workers |-> Asked(task[w], "new")]
        BY DEF Init
      <3> QED
        BY <3>1 DEF Init, Busy, Asked, Idle
    <2> QED
      BY <2>1, TypeInvInit, QuietInit DEF JobPlan, JobProgress, JobRepairs
  <1>2. JobInv /\ [Next]_vars => JobInv'
    BY TypeInvNext, QuietWorkNext, JobPlanNext, JobProgressNext, JobRepairsNext
  <1>3. JobInv => JobRepairs
    OBVIOUS
  <1> QED
    BY <1>1, <1>2, <1>3, PTL DEF Spec

-----------------------------------------------------------------------------
(* Without overlaps, crashes and administrators, every grant is as the
   assignments ask or is one the busy worker has still to put right. *)
Ordinary == ~overlap /\ crashes = 0 /\ \A w \in Workers : work[w].kind # "strip"
Good(a)  == Granted(a) = Wanted[a]

Drift(w) ==
  /\ work[w].kind = "reconcile" => Exact /\ ~HasTarget(w)
  /\ work[w].kind = "remove" => \A a \in Assignments : a = work[w].a \/ Good(a)
  /\ At(w, "insert") => /\ Exact /\ assignment[work[w].a] = "none"
                        /\ work[w].plan[work[w].a] = teacher[TeacherOf[work[w].a]]
  /\ At(w, "update") => Exact /\ work[w].seen = teacher[work[w].t]
  /\ work[w].kind = "relink" /\ work[w].stage \in {"list", "look"} =>
       \A a \in Assignments : a \in Mine(w) \/ Good(a)
  /\ work[w].kind = "relink" /\ At(w, "look") => work[w].seen = teacher[work[w].t]
  /\ work[w].kind \in {"create", "relink"} /\ work[w].stage \notin {"insert", "update", "list", "look"} =>
       /\ \A a \in Assignments : a \in work[w].todo \/ Good(a)
       /\ \A a \in work[w].todo : work[w].plan[a] = Wanted[a]
InOrder == Ordinary => \A w \in Busy : Drift(w)

LEMMA ExactGood == Exact <=> \A a \in Assignments : Good(a)
  BY DEF Exact, Good, Granted

LEMMA SameGoods == ASSUME UNCHANGED rows PROVE (\A a : Good(a)' <=> Good(a)) /\ Exact' = Exact /\ Wanted' = Wanted
  <1>1. Wanted' = Wanted /\ grant' = grant
    BY DEF Wanted, rows
  <1> QED
    BY <1>1 DEF Good, Exact, Granted

(* What is the case when a step of w has been taken in an ordinary state. *)
Fine(w) == IF Resting(w) THEN Exact' ELSE Drift(w)'

LEMMA DriftAtFirst ==
  ASSUME TypeInv, Exact, NEW w \in Workers, Begins(w), work[w].kind # "strip"
  PROVE  Fine(w)
  <1>0. DerivedTypeOK /\ StagesFit(w) /\ PlansFit(w) /\ At(w, "new")
    BY Fits, Beginning
  <1>1. UNCHANGED rows
    BY DEF Begins, LoadTeacher, LoadRow, ReadTeacher, Strip, ListAll, Start
  <1>2. Exact' /\ \A a \in Assignments : Good(a)'
    BY <1>1, SameGoods, ExactGood
  <1>3. CASE LoadTeacher(w)
    <2>1. PICK plan \in Plan : /\ Turns(w, "insert", work[w].todo, plan, work[w].seen, work[w].found)
                               /\ plan[work[w].a] = teacher[TeacherOf[work[w].a]]
      BY <1>0, <1>3, LoadTeacherWrites
    <2>2. work[w].kind = "create" /\ assignment[work[w].a] = "none"
      BY <1>3 DEF LoadTeacher, Start
    <2> QED
      BY <1>1, <1>2, <2>1, <2>2 DEF Fine, Resting, Idle, Drift, At, Turns, rows
  <1>4. CASE LoadRow(w)
    <2>1. Takes(w, "next", {work[w].a}) /\ work[w].kind = "remove"
      BY <1>0, <1>4, TodoWrites DEF LoadRow, Start
    <2> QED
      BY <1>2, <2>1 DEF Fine, Resting, Idle, Drift, At, Takes, Turns
  <1>5. CASE ReadTeacher(w)
    <2>1. Turns(w, "update", work[w].todo, work[w].plan, teacher[work[w].t], work[w].found)
      BY <1>0, <1>5, SeenWrites
    <2>2. work[w].kind = "relink"
      BY <1>5 DEF ReadTeacher, Start
    <2> QED
      BY <1>1, <1>2, <2>1, <2>2 DEF Fine, Resting, Idle, Drift, At, Turns, rows
  <1>6. CASE ListAll(w)
    <2>1. Turns(w, "look", {a \in Assignments : assignment[a] = "there"}, NoPlan, work[w].seen, work[w].found)
      BY <1>0, <1>6, ListAllWrites
    <2>2. work[w].kind = "reconcile"
      BY <1>6 DEF ListAll, Start
    <2> QED
      BY <1>2, <2>1, <2>2 DEF Fine, Resting, Idle, Drift, At, Turns, HasTarget
  <1> QED
    BY <1>3, <1>4, <1>5, <1>6 DEF Begins, Strip, Start

LEMMA DriftByRequest ==
  ASSUME TypeInv, NEW w \in Workers, Held(w), Drift(w), work[w].kind # "strip",
         InsertRow(w) \/ Undo(w) \/ DropRow(w) \/ Relink(w) \/ SyncTeacher(w) \/ ListTeacher(w)
  PROVE  Fine(w)
  <1>0. /\ DerivedTypeOK /\ RowsType /\ StagesFit(w) /\ PlansFit(w)
        /\ work[w].a \in Assignments /\ work[w].t \in Teachers
    BY Fits, WorkTypes
  <1>1. CASE InsertRow(w)
    <2>1. /\ work[w].kind = "create" /\ Exact /\ assignment[work[w].a] = "none"
          /\ work[w].plan[work[w].a] = teacher[TeacherOf[work[w].a]]
      BY <1>0, <1>1 DEF InsertRow, StagesFit, Drift, At
    <2>2. assignment' = [assignment EXCEPT ![work[w].a] = "there"] /\ UNCHANGED <<teacher, grant>>
      BY <1>1, <2>1 DEF InsertRow
    <2>3. Wanted'[work[w].a] = work[w].plan[work[w].a]
      BY <1>0, <2>1, <2>2 DEF Wanted, RowsType
    <2>4. \A a \in Assignments \ {work[w].a} : Good(a)' /\ Wanted'[a] = Wanted[a]
      <3>1. \A a \in Assignments \ {work[w].a} : Wanted'[a] = Wanted[a]
        BY <1>0, <2>2 DEF Wanted, RowsType
      <3> QED
        BY <2>1, <2>2, <3>1, ExactGood DEF Good, Granted
    <2>5. CASE work[w].plan[work[w].a] = None
      <3>1. Ends(w, "done")
        BY <1>0, <1>1, <2>1, <2>5, InsertRowWrites
      <3>2. Good(work[w].a)'
        <4>1. Wanted[work[w].a] = None
          BY <1>0, <2>1 DEF Wanted
        <4>2. Granted(work[w].a) = None
          BY <1>0, <2>1, <4>1, ExactGood DEF Good
        <4> QED
          BY <3>1, <2>2, <2>3, <2>5, <4>2 DEF Good, Granted, Ends, Turns
      <3>3. \A a \in Assignments : Good(a)'
        BY <2>4, <3>1, <3>2 DEF Ends, Turns
      <3>4. Exact'
        BY <3>3 DEF Exact, Good, Granted
      <3> QED
        BY <3>1, <3>4, EndsRest DEF Fine
    <2>6. CASE work[w].plan[work[w].a] # None
      <3>1. Takes(w, "next", {work[w].a})
        BY <1>0, <1>1, <2>1, <2>6, InsertRowWrites
      <3>2. \A a \in Assignments : a \in work'[w].todo \/ Good(a)'
        BY <2>4, <3>1 DEF Takes, Turns
      <3>3. \A a \in work'[w].todo : work'[w].plan[a] = Wanted'[a]
        BY <2>3, <3>1 DEF Takes, Turns
      <3> QED
        BY <2>1, <3>1, <3>2, <3>3 DEF Fine, Resting, Idle, Drift, At, Takes, Turns
    <2> QED
      BY <2>5, <2>6
  <1>2. CASE Undo(w)
    BY <1>2 DEF Held, Undo
  <1>3. CASE DropRow(w)
    <2>1. /\ work[w].kind = "remove" /\ Granted(work[w].a) = None
          /\ \A a \in Assignments : a = work[w].a \/ Good(a)
      BY <1>0, <1>3 DEF DropRow, StagesFit, Held, Drift, At
    <2>2. assignment' = [assignment EXCEPT ![work[w].a] = "gone"] /\ UNCHANGED <<teacher, grant>>
      BY <1>3 DEF DropRow
    <2>3. \A a \in Assignments : Wanted'[a] = IF a = work[w].a THEN None ELSE Wanted[a]
      BY <1>0, <2>2 DEF Wanted, RowsType
    <2>4. Exact'
      BY <2>1, <2>2, <2>3 DEF Exact, Good, Granted
    <2> QED
      BY <1>0, <1>3, <2>4, SimpleWrites, EndsRest DEF Fine
  <1>4. CASE Relink(w)
    <2>1. work[w].kind = "relink" /\ Exact /\ work[w].seen = teacher[work[w].t]
      BY <1>0, <1>4 DEF Relink, StagesFit, Drift, At
    <2>2. teacher' = [teacher EXCEPT ![work[w].t] = work[w].u] /\ UNCHANGED <<assignment, grant>>
      BY <1>4 DEF Relink
    <2>3. CASE work[w].seen = work[w].u /\ Ends(w, "done")
      <3>1. teacher' = teacher
        BY <1>0, <2>1, <2>2, <2>3 DEF RowsType
      <3>2. Exact'
        BY <2>1, <2>2, <3>1 DEF Exact, Wanted
      <3> QED
        BY <2>3, <3>2, EndsRest DEF Fine
    <2>4. CASE Goes(w, "list")
      <3>1. \A a \in Assignments : a \in Mine(w) \/ Wanted'[a] = Wanted[a]
        BY <1>0, <2>2, RowTypes DEF Wanted, Mine, RowsType
      <3>2. \A a \in Assignments : a \in Mine(w) \/ Good(a)'
        BY <2>1, <2>2, <3>1, ExactGood DEF Good, Granted
      <3>3. Mine(w)' = Mine(w)
        BY <2>2, <2>4 DEF Mine, Goes, Turns
      <3> QED
        BY <2>1, <2>4, <3>2, <3>3 DEF Fine, Resting, Idle, Drift, At, Goes, Turns
    <2> QED
      BY <1>0, <1>4, <2>3, <2>4, SimpleWrites
  <1>5. CASE SyncTeacher(w)
    <2>1. Turns(w, "look", work[w].todo, work[w].plan, teacher[work[w].t], work[w].found)
      BY <1>0, <1>5, SeenWrites
    <2>2. UNCHANGED rows /\ work[w].kind = "relink" /\ At(w, "list")
      BY <1>5 DEF SyncTeacher
    <2>3. Mine(w)' = Mine(w)
      BY <2>1, <2>2 DEF Mine, Turns, rows
    <2> QED
      BY <2>1, <2>2, <2>3, SameGoods DEF Fine, Resting, Idle, Drift, At, Turns, rows
  <1>6. CASE ListTeacher(w)
    <2>1. Turns(w, "next", Mine(w), Same(w), work[w].seen, work[w].found)
      BY <1>0, <1>6, ListTeacherWrites
    <2>2. UNCHANGED rows /\ work[w].kind = "relink" /\ At(w, "look")
      BY <1>6 DEF ListTeacher
    <2>3. \A a \in Mine(w) : Same(w)[a] = Wanted[a]
      BY <2>2 DEF Drift, Mine, Same, Wanted
    <2> QED
      BY <2>1, <2>2, <2>3, SameGoods DEF Fine, Resting, Idle, Drift, At, Turns
  <1> QED
    BY <1>1, <1>2, <1>3, <1>4, <1>5, <1>6

LEMMA DriftByJob ==
  ASSUME TypeInv, NEW w \in Workers, Drift(w), Repair(w) \/ ListGrants(w) \/ EndRun(w) \/ \E a \in Assignments : LookUp(w, a)
  PROVE  Fine(w)
  <1>0. /\ DerivedTypeOK /\ RowsType /\ StagesFit(w) /\ PlansFit(w)
        /\ work[w].kind = "reconcile" /\ UNCHANGED rows
    BY Fits DEF StagesFit, Repair, ListGrants, EndRun, LookUp, At
  <1>1. Exact'
    BY <1>0, SameGoods DEF Drift
  <1>2. CASE EndRun(w)
    BY <1>0, <1>1, <1>2, SimpleWrites, EndsRest DEF Fine
  <1>3. CASE Repair(w) \/ ListGrants(w)
    <2>1. \E stage \in {"next", "sweep"} : \E todo : Takes(w, stage, todo)
      BY <1>0, <1>3, TodoWrites
    <2> QED
      BY <1>0, <1>1, <2>1 DEF Fine, Resting, Idle, Drift, At, Takes, Turns, HasTarget
  <1>4. CASE \E a \in Assignments : LookUp(w, a)
    <2>1. \E plan, todo : Turns(w, "look", todo, plan, work[w].seen, work[w].found)
      BY <1>0, <1>4, LookUpWrites
    <2> QED
      BY <1>0, <1>1, <2>1 DEF Fine, Resting, Idle, Drift, At, Turns, HasTarget
  <1> QED
    BY <1>2, <1>3, <1>4

LEMMA DriftByDerive ==
  ASSUME TypeInv, NEW w \in Workers, Held(w), Drift(w), work[w].kind # "strip", Derive(w),
         w = Job => \A a \in Assignments : work[w].plan[a] = Wanted[a] \/ At(w, "look")
  PROVE  Fine(w)
  <1>0. /\ DerivedTypeOK /\ RowsType /\ StagesFit(w) /\ PlansFit(w)
        /\ work[w].todo \subseteq Assignments /\ work[w].a \in Assignments
        /\ work[w].todo # {} => Target(w) \in work[w].todo /\ Target(w) \in Assignments
    BY Fits, WorkTypes
  <1>1. /\ UNCHANGED <<assignment, teacher>> /\ Wanted' = Wanted
        /\ work[w].stage \notin {"insert", "update", "list", "look"}
    BY DEF Derive, Find, Finish, RemoveGrant, AddRole, AddGrant, Evict, rows, At, Sweeps, Wanted
  <1>2. CASE work[w].kind = "reconcile"
    <2>1. w = Job /\ Exact /\ ~HasTarget(w)
      BY <1>0, <1>2 DEF StagesFit, Drift
    <2>2. CASE Find(w)
      <3>1. Target(w) \in Assignments /\ UNCHANGED rows
        BY <1>0, <2>2 DEF Find
      <3>2. Planned(w) = Granted(Target(w))
        BY <1>1, <2>1, <3>1, ExactGood DEF Planned, Good, At
      <3>3. Takes(w, work[w].stage, Rest(w, Target(w)))
        BY <1>0, <2>2, <3>2, FindWrites
      <3>4. Exact'
        BY <2>1, <3>1, SameGoods
      <3>5. ~HasTarget(w)'
        BY <2>1, <3>3 DEF HasTarget, At, Takes, Turns
      <3> QED
        BY <1>1, <1>2, <3>3, <3>4, <3>5 DEF Fine, Drift, At, Takes, Turns
    <2> QED
      BY <1>2, <2>1, <2>2 DEF Derive, Finish, RemoveGrant, AddRole, AddGrant, Evict, HasTarget, At
  <1>3. CASE work[w].kind = "remove"
    <2>1. \A a \in Assignments : a = work[w].a \/ Good(a)
      BY <1>3 DEF Drift
    <2>2. \A a \in Assignments : a = work[w].a \/ grant'[a] = grant[a]
      <3>1. work[w].todo # {} => Target(w) = work[w].a
        BY <1>0, <1>3 DEF PlansFit
      <3>2. RemoveGrant(w) \/ AddGrant(w) => work[w].todo # {}
        BY <1>0, <1>3 DEF RemoveGrant, AddGrant, PlansFit, HasTarget, At
      <3> QED
        BY <1>0, <3>1, <3>2 DEF Derive, Find, Finish, RemoveGrant, AddRole, AddGrant, Evict, rows, RowsType
    <2>3. \A a \in Assignments : a = work[w].a \/ Good(a)'
      BY <1>1, <2>1, <2>2 DEF Good, Granted
    <2>4. CASE Resting(w)
      <3>1. Ends(w, "failed") /\ AddGrant(w) /\ ~(Granted(Target(w)) = None /\ Planned(w) \in holds)
        <4>1. AddGrant(w)
          BY <1>0, <1>3, <2>4, FindWrites, SimpleWrites, EvictWrites
             DEF Derive, Resting, Idle, Takes, Goes, Turns, After, Find, At, Sweeps
        <4> QED
          BY <1>0, <1>3, <2>4, <4>1, AddGrantWrites DEF Resting, Idle, Turns
      <3> QED
        BY <1>0, <3>1 DEF Held, AddGrant, At
    <2>5. CASE ~Resting(w)
      <3> DEFINE Onward == {"next", "role", "delete", "replace", "drop", "evict", "add", "sweep", "undo"}
      <3>0. \E stage \in Onward : \E todo, found :
              Turns(w, stage, todo, work[w].plan, work[w].seen, found)
        <4>1. CASE Find(w) \/ RemoveGrant(w) \/ AddRole(w) \/ Finish(w)
          BY <1>0, <1>3, <4>1, FindWrites, SimpleWrites DEF Takes, Goes, Find, At, Sweeps
        <4>2. CASE AddGrant(w)
          BY <1>0, <2>5, <4>2, AddGrantWrites, EndsRest DEF Goes
        <4>3. CASE Evict(w)
          BY <1>0, <1>3, <4>3, EvictWrites DEF Takes, Goes, After
        <4> QED
          BY <4>1, <4>2, <4>3 DEF Derive
      <3>1. PICK stage, todo, found :
              stage \in Onward /\ Turns(w, stage, todo, work[w].plan, work[w].seen, found)
        BY <3>0
      <3> QED
        BY <1>3, <2>3, <2>5, <3>1 DEF Fine, Drift, At, Turns
    <2> QED
      BY <2>4, <2>5
  <1>4. CASE work[w].kind \in {"create", "relink"}
    <2>1. /\ \A a \in Assignments : a \in work[w].todo \/ Good(a)
          /\ \A a \in work[w].todo : work[w].plan[a] = Wanted[a]
      BY <1>1, <1>4 DEF Drift
    <2>2. CASE Find(w) /\ Planned(w) = Granted(Target(w))
      <3>1. Takes(w, work[w].stage, Rest(w, Target(w))) /\ UNCHANGED rows /\ work[w].todo # {} /\ At(w, "next")
        BY <1>0, <1>4, <2>2, FindWrites DEF Find, Sweeps
      <3>2. Good(Target(w))
        BY <1>0, <2>1, <2>2, <3>1 DEF Good, Planned
      <3>3. \A a \in Assignments : a \in Rest(w, Target(w)) \/ Good(a)'
        BY <2>1, <3>1, <3>2, SameGoods DEF Rest
      <3>4. \A a \in Rest(w, Target(w)) : work[w].plan[a] = Wanted'[a]
        BY <1>1, <2>1 DEF Rest
      <3> QED
        BY <1>4, <3>1, <3>3, <3>4 DEF Fine, Resting, Idle, Drift, At, Takes, Turns
    <2>3. ASSUME NEW stage \in {"role", "delete", "replace", "evict", "add"}, NEW found,
                 Turns(w, stage, work[w].todo, work[w].plan, work[w].seen, found),
                 \A a \in Assignments : a \in work[w].todo \/ grant'[a] = grant[a]
          PROVE  Fine(w)
      <3>1. \A a \in Assignments : a \in work[w].todo \/ Good(a)'
        BY <1>1, <2>1, <2>3 DEF Good, Granted
      <3> QED
        BY <1>1, <1>4, <2>1, <2>3, <3>1 DEF Fine, Resting, Idle, Drift, At, Turns
    <2>4. CASE Find(w) /\ Planned(w) # Granted(Target(w))
      <3>1. \E stage \in {"role", "delete", "replace"} :
              Turns(w, stage, work[w].todo, work[w].plan, work[w].seen, grant[Target(w)])
        BY <1>0, <2>4, FindWrites
      <3>2. grant' = grant
        BY <2>4 DEF Find, rows
      <3> QED
        BY <2>3, <3>1, <3>2
    <2>5. CASE Finish(w)
      <3>1. Ends(w, "done") /\ work[w].todo = {} /\ UNCHANGED rows
        BY <1>0, <1>4, <2>5, SimpleWrites DEF Finish
      <3>2. Exact'
        BY <2>1, <3>1, ExactGood, SameGoods
      <3> QED
        BY <3>1, <3>2, EndsRest DEF Fine
    <2>6. CASE RemoveGrant(w) \/ AddRole(w)
      <3>1. \E stage \in {"evict", "add"} : Goes(w, stage)
        BY <1>0, <2>6, SimpleWrites
      <3>2. \A a \in Assignments : a \in work[w].todo \/ grant'[a] = grant[a]
        <4>1. work[w].todo # {}
          BY <1>0, <2>6 DEF PlansFit, HasTarget, RemoveGrant, AddRole, At
        <4> QED
          BY <1>0, <2>6, <4>1 DEF RemoveGrant, AddRole, RowsType
      <3> QED
        BY <2>3, <3>1, <3>2 DEF Goes
    <2>7. CASE AddGrant(w)
      <3>1. Granted(Target(w)) = None /\ Planned(w) \in holds /\ work[w].todo # {}
        BY <1>0, <2>7 DEF AddGrant, Held, PlansFit, HasTarget, At
      <3>2. Turns(w, "evict", work[w].todo, work[w].plan, work[w].seen, [user |-> Planned(w), id |-> 0])
        BY <1>0, <2>7, <3>1, AddGrantWrites
      <3>3. grant' = [grant EXCEPT ![Target(w)] = [user |-> Planned(w), id |-> FreshId]]
        BY <2>7, <3>1, Zenon DEF AddGrant, Planned, Granted
      <3>4. \A a \in Assignments : a \in work[w].todo \/ grant'[a] = grant[a]
        BY <1>0, <3>1, <3>3 DEF RowsType
      <3> QED
        BY <2>3, <3>2, <3>4
    <2>8. CASE Evict(w)
      <3>1. UNCHANGED rows /\ At(w, "evict") /\ work[w].todo # {}
        BY <1>0, <1>4, <2>8 DEF Evict, PlansFit, HasTarget, At
      <3>2. CASE work[w].found.user = Planned(w) \/ Planned(w) = None
        <4>1. Takes(w, "next", Rest(w, Target(w)))
          BY <1>0, <1>4, <2>8, <3>2, EvictWrites DEF After
        <4>2. Good(Target(w))
          <5>1. Granted(Target(w)) = Planned(w)
            BY <1>4, <3>1, <3>2 DEF Held
          <5> QED
            BY <1>0, <2>1, <3>1, <5>1 DEF Good, Planned
        <4>3. \A a \in Assignments : a \in Rest(w, Target(w)) \/ Good(a)'
          BY <2>1, <3>1, <4>2, SameGoods DEF Rest
        <4>4. \A a \in Rest(w, Target(w)) : work[w].plan[a] = Wanted'[a]
          BY <1>1, <2>1 DEF Rest
        <4> QED
          BY <1>4, <4>1, <4>3, <4>4 DEF Fine, Resting, Idle, Drift, At, Takes, Turns
      <3>3. CASE ~(work[w].found.user = Planned(w) \/ Planned(w) = None)
        <4>1. Goes(w, "role") /\ grant' = grant
          BY <1>0, <1>4, <2>8, <3>1, <3>3, EvictWrites DEF rows
        <4> QED
          BY <2>3, <4>1 DEF Goes
      <3> QED
        BY <3>2, <3>3
    <2> QED
      BY <2>2, <2>4, <2>5, <2>6, <2>7, <2>8 DEF Derive
  <1> QED
    BY <1>0, <1>2, <1>3, <1>4, WorkTypes DEF Kinds

LEMMA InOrderNext ==
  ASSUME TypeInv, QuietWork, JobPlan, InOrder, ExactWhenAlone, [Next]_vars
  PROVE  InOrder' /\ ExactWhenAlone'
  <1> SUFFICES ASSUME Ordinary' PROVE (\A v \in Busy' : Drift(v)') /\ (Busy' = {} => Exact')
    BY DEF InOrder, ExactWhenAlone, Ordinary, Busy
  <1>1. CASE UNCHANGED vars
    <2>1. /\ work' = work /\ UNCHANGED rows /\ Busy' = Busy /\ Ordinary
          /\ Exact' = Exact /\ Wanted' = Wanted /\ \A a : Good(a)' <=> Good(a)
      BY <1>1, SameGoods DEF vars, Busy, Ordinary
    <2>2. \A v \in Busy : Drift(v) => Drift(v)'
      BY <2>1 DEF Drift, HasTarget, At, rows, Mine
    <2> QED
      BY <2>1, <2>2 DEF InOrder, ExactWhenAlone, Ordinary
  <1>2. CASE Next
    <2>1. PICK w \in Workers : Begins(w) \/ Proceeds(w) \/ NextRun(w)
      BY <1>2, Acting
    <2>2. PICK stage, todo, plan, seen, found : Turns(w, stage, todo, plan, seen, found)
      BY <2>1, Writes
    <2>3. /\ \A u \in Workers \ {w} : u \in Busy' <=> u \in Busy
          /\ w \in Busy' <=> ~Resting(w)
          /\ Busy \subseteq Workers /\ Busy' \subseteq Workers
      BY <2>2, BusyAfter DEF Resting, Turns, Busy
    <2>4. \A v \in Workers : work[v].kind # "strip"
      BY <2>2 DEF Ordinary, Turns
    <2>5. CASE Begins(w)
      <3>1. Busy = {} /\ ~overlap /\ crashes = 0
        BY <2>4, <2>5, Beginning
           DEF Ordinary, Quiet, Begins, LoadTeacher, LoadRow, ReadTeacher, Strip, ListAll
      <3>2. Fine(w)
        BY <2>4, <2>5, <3>1, DriftAtFirst DEF ExactWhenAlone
      <3> QED
        BY <2>3, <3>1, <3>2 DEF Fine
    <2>6. CASE Proceeds(w)
      <3>1. ~overlap /\ w \in Busy /\ (\A v \in Busy : v = w) /\ Held(w) /\ UNCHANGED <<alone, overlap>>
        BY <2>6, Proceeding DEF Ordinary, Undisturbed, QuietWork, Quiet, Only
      <3>2. CASE Crash(w)
        <4>1. crashes \in 0..Crashes /\ crashes' = crashes + 1
          BY <3>2, Fits DEF RowsType, Crash
        <4> QED
          BY <4>1 DEF Ordinary
      <3>3. CASE ~Crash(w)
        <4>1. crashes' = crashes
          BY <2>6, <3>3 DEF Proceeds, InsertRow, Undo, DropRow, Relink, SyncTeacher, ListTeacher, Repair, ListGrants,
                 EndRun, LookUp, Derive, Find, Finish, RemoveGrant, AddRole, AddGrant, Evict
        <4>2. Drift(w)
          BY <2>4, <3>1, <4>1 DEF InOrder, Ordinary
        <4>3. w = Job => \A a \in Assignments : work[w].plan[a] = Wanted[a] \/ At(w, "look")
          BY <3>1 DEF JobPlan, Quiet
        <4>4. Fine(w)
          BY <2>4, <2>6, <3>1, <3>3, <4>2, <4>3, DriftByRequest, DriftByJob, DriftByDerive DEF Proceeds
        <4> QED
          BY <2>3, <3>1, <4>4 DEF Fine
      <3> QED
        BY <3>2, <3>3
    <2>7. CASE NextRun(w)
      <3>1. Resting(w) /\ UNCHANGED rows /\ UNCHANGED <<crashes, alone, overlap>> /\ w \notin Busy
        BY <2>7, Fits, SimpleWrites DEF NextRun, Resting, Goes, Turns, Idle, Undisturbed, Busy
      <3>2. Busy' = Busy /\ Ordinary
        BY <2>3, <2>4, <3>1 DEF Ordinary
      <3>3. Exact' = Exact /\ Wanted' = Wanted /\ \A a : Good(a)' <=> Good(a)
        BY <3>1, SameGoods
      <3>4. ASSUME NEW v \in Busy PROVE Drift(v)'
        <4>1. Drift(v) /\ work'[v] = work[v]
          BY <2>2, <2>3, <3>1, <3>2, <3>4 DEF InOrder, Turns
        <4> QED
          BY <3>1, <3>3, <4>1 DEF Drift, HasTarget, At, rows, Mine
      <3> QED
        BY <3>2, <3>3, <3>4 DEF ExactWhenAlone, Ordinary
    <2> QED
      BY <2>1, <2>5, <2>6, <2>7
  <1> QED
    BY <1>1, <1>2

(* Without overlaps, crashes and administrators the grants are exactly what
   the assignments ask for whenever nothing runs. *)
THEOREM ExactWhenAloneAlways == Spec => []ExactWhenAlone
  <1> DEFINE OrderInv == TypeInv /\ QuietWork /\ JobPlan /\ InOrder /\ ExactWhenAlone
  <1>1. Init => OrderInv
    <2> SUFFICES ASSUME Init PROVE OrderInv
      OBVIOUS
    <2>1. PICK task \in [Workers -> Tasks] : work = [w \in Workers |-> Asked(task[w], "new")]
      BY DEF Init
    <2>2. Busy = {}
      BY <2>1 DEF Busy, Asked, Idle
    <2>3. Exact
      <3> SUFFICES ASSUME NEW a \in Assignments PROVE grant[a].user = Wanted[a]
        BY DEF Exact
      <3>1. grant[a] = IF Wanted[a] = None THEN NoGrant ELSE [user |-> Wanted[a], id |-> 1]
        BY DEF Init
      <3>2. CASE Wanted[a] = None
        BY <3>1, <3>2 DEF NoGrant
      <3>3. CASE Wanted[a] # None
        BY <3>1, <3>3
      <3> QED
        BY <3>2, <3>3
    <2> QED
      BY <2>2, <2>3, TypeInvInit, QuietInit DEF JobPlan, InOrder, ExactWhenAlone
  <1>2. OrderInv /\ [Next]_vars => OrderInv'
    BY TypeInvNext, QuietWorkNext, JobPlanNext, InOrderNext
  <1>3. OrderInv => ExactWhenAlone
    OBVIOUS
  <1> QED
    BY <1>1, <1>2, <1>3, PTL DEF Spec
=============================================================================
