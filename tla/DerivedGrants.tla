---------------------------- MODULE DerivedGrants ---------------------------
(***************************************************************************)
(* Teacher assignments and the scope grants derived from them (ADR-0015).   *)
(* People writes assignments and teachers, identity writes grants; nothing  *)
(* spans the two, so every request is a sequence of separate writes that    *)
(* others may overlap and a crash may cut short.  An hourly job compares    *)
(* the two and repairs the grants.                                          *)
(***************************************************************************)
EXTENDS Integers, FiniteSets

CONSTANTS
  Assignments, \* ids of assignment rows, each used once
  Teachers,
  TeacherOf,   \* the teacher an assignment is for
  Users,       \* identity accounts
  Workers,     \* requests, and the job
  Job,         \* the worker that runs grant-reconcile, again and again
  Crashes,     \* bound: how often a process dies
  None

ASSUME AssignmentAssumption ==
  IsFiniteSet(Assignments) /\ Assignments # {} /\ TeacherOf \in [Assignments -> Teachers]
ASSUME JobAssumption == IsFiniteSet(Workers) /\ Job \in Workers /\ None \notin Users
ASSUME CrashAssumption == Crashes \in Nat

VARIABLES
  assignment,  \* ppl_teacher_assignments: not yet there, there, deleted
  teacher,     \* the account of an active teacher, None if inactive or unlinked
  grant,       \* idn_scope_grants, by source_ref
  holds,       \* idn_user_roles: the accounts with the derived role
  work,        \* how far a request has come
  crashes,
  owed,        \* history: accounts whose authority changed since their sessions ended
  alone,       \* history: no request ran since the job was last started
  overlap      \* history: two workers ran at the same time

rows == <<assignment, teacher, grant, holds>>
vars == <<rows, work, crashes, owed, alone, overlap>>

(* What is asked for: fields a task does not use have one value. *)
AnyA  == CHOOSE a \in Assignments : TRUE
AnyT  == CHOOSE t \in Teachers : TRUE
Tasks == [kind : {"create", "remove"}, a : Assignments, t : {AnyT}, u : {None}]
         \cup [kind : {"relink"}, a : {AnyA}, t : Teachers, u : Users \cup {None}]
         \cup [kind : {"strip"}, a : {AnyA}, t : {AnyT}, u : Users]
         \cup [kind : {"reconcile"}, a : {AnyA}, t : {AnyT}, u : {None}]

NoPlan  == [a \in Assignments |-> None]
NoGrant == [user |-> None, id |-> 0]
Kinds   == {"create", "remove", "relink", "strip", "reconcile"}
Plan    == [Assignments -> Users \cup {None}]
Stages  == {"new", "insert", "update", "list", "look", "next", "delete", "replace", "role", "add",
            "evict", "undo", "drop", "sweep", "done", "failed", "crashed"}

Work == [kind : Kinds, stage : Stages, a : Assignments, t : Teachers, u : Users \cup {None},
         seen : Users \cup {None}, plan : Plan, todo : SUBSET Assignments, found : [user : Users \cup {None}, id : Nat]]

(* A request that has not begun, or is over, remembers only what it is for. *)
Asked(task, stage) ==
  [kind |-> task.kind, stage |-> stage, a |-> task.a, t |-> task.t, u |-> task.u,
   seen |-> None, plan |-> NoPlan, todo |-> {}, found |-> NoGrant]

DerivedTypeOK ==
  /\ assignment \in [Assignments -> {"none", "there", "gone"}]
  /\ teacher \in [Teachers -> Users \cup {None}]
  /\ grant \in [Assignments -> [user : Users \cup {None}, id : Nat]]
  /\ \A a \in Assignments : grant[a].user # None => grant[a].user \in holds
  /\ holds \subseteq Users /\ owed \subseteq Users
  /\ work \in [Workers -> Work]
  /\ crashes \in 0..Crashes
  /\ alone \in BOOLEAN /\ overlap \in BOOLEAN

Idle   == {"new", "done", "failed", "crashed"}
Busy   == {w \in Workers : work[w].stage \notin Idle}
Wanted == [a \in Assignments |-> IF assignment[a] = "there" THEN teacher[TeacherOf[a]] ELSE None]
Exact  == \A a \in Assignments : grant[a].user = Wanted[a]

Init ==
  /\ assignment \in [Assignments -> {"none", "there"}]
  /\ teacher \in [Teachers -> Users \cup {None}]
  /\ grant = [a \in Assignments |-> IF Wanted[a] = None THEN NoGrant ELSE [user |-> Wanted[a], id |-> 1]]
  /\ holds = {grant[a].user : a \in Assignments} \ {None}
  /\ \E task \in [Workers -> Tasks] :
       /\ \A w \in Workers : task[w].kind = "reconcile" <=> w = Job
       /\ work = [w \in Workers |-> Asked(task[w], "new")]
  /\ crashes = 0 /\ owed = {}
  /\ alone = FALSE /\ overlap = FALSE

-----------------------------------------------------------------------------
(* Requests *)

To(w, stage)     == work' = [work EXCEPT ![w].stage = stage]
End(w, stage)    == work' = [work EXCEPT ![w] = Asked(work[w], stage)]
At(w, stage)     == work[w].stage = stage
Undisturbed      == UNCHANGED <<alone, overlap>>
Start(w, kind)   ==
  /\ work[w].kind = kind /\ At(w, "new")
  /\ alone' = (w = Job /\ Busy = {})
  /\ overlap' = (overlap \/ Busy # {})

(* create: the teacher is read before the row is written. *)
LoadTeacher(w) ==
  /\ Start(w, "create") /\ assignment[work[w].a] = "none"
  /\ work' = [work EXCEPT ![w].stage = "insert",
                          ![w].plan = [@ EXCEPT ![work[w].a] = teacher[TeacherOf[work[w].a]]]]
  /\ UNCHANGED <<rows, crashes, owed>>

InsertRow(w) ==
  /\ At(w, "insert")
  /\ IF assignment[work[w].a] = "none"
     THEN /\ assignment' = [assignment EXCEPT ![work[w].a] = "there"]
          /\ IF work[w].plan[work[w].a] = None THEN End(w, "done")
             ELSE work' = [work EXCEPT ![w].stage = "next", ![w].todo = {work[w].a}]
     ELSE End(w, "failed") /\ UNCHANGED assignment
  /\ UNCHANGED <<teacher, grant, holds, crashes, owed>> /\ Undisturbed

(* The row of a create whose grant call failed is deleted again. *)
Undo(w) ==
  /\ At(w, "undo")
  /\ assignment' = [assignment EXCEPT ![work[w].a] = "gone"]
  /\ End(w, "failed")
  /\ UNCHANGED <<teacher, grant, holds, crashes, owed>> /\ Undisturbed

(* Mutation: the row first, then the grant. *)
DropRowFirst(w) ==
  /\ Start(w, "remove") /\ assignment[work[w].a] = "there"
  /\ assignment' = [assignment EXCEPT ![work[w].a] = "gone"]
  /\ work' = [work EXCEPT ![w].stage = "next", ![w].todo = {work[w].a}]
  /\ UNCHANGED <<teacher, grant, holds, crashes, owed>>

(* remove: the grant first, then the row. *)
LoadRow(w) ==
  /\ Start(w, "remove") /\ assignment[work[w].a] = "there"
  /\ work' = [work EXCEPT ![w].stage = "next", ![w].todo = {work[w].a}]
  /\ UNCHANGED <<rows, crashes, owed>>

DropRow(w) ==
  /\ At(w, "drop")
  /\ assignment' = [assignment EXCEPT ![work[w].a] = "gone"]
  /\ End(w, "done")
  /\ UNCHANGED <<teacher, grant, holds, crashes, owed>> /\ Undisturbed

(* Linking, unlinking, activating and deactivating a teacher.  A change of
   status is followed by syncTeacher only if the row read before the update
   had the other status; a change of link always is. *)
ReadTeacher(w) ==
  /\ Start(w, "relink")
  /\ work' = [work EXCEPT ![w].stage = "update", ![w].seen = teacher[work[w].t]]
  /\ UNCHANGED <<rows, crashes, owed>>

Relink(w) ==
  /\ At(w, "update")
  /\ teacher' = [teacher EXCEPT ![work[w].t] = work[w].u]
  /\ \/ To(w, "list")
     \/ work[w].seen = work[w].u /\ End(w, "done")
  /\ UNCHANGED <<assignment, grant, holds, crashes, owed>> /\ Undisturbed

SyncTeacher(w) ==
  /\ At(w, "list") /\ work[w].kind = "relink"
  /\ work' = [work EXCEPT ![w].stage = "look", ![w].seen = teacher[work[w].t]]
  /\ UNCHANGED <<rows, crashes, owed>> /\ Undisturbed

(* Mutation: an unlinked teacher keeps the grants. *)
ListLinked(w) ==
  /\ At(w, "look") /\ work[w].kind = "relink"
  /\ LET mine == {a \in Assignments : assignment[a] = "there" /\ TeacherOf[a] = work[w].t /\ work[w].seen # None}
     IN  work' = [work EXCEPT ![w].stage = "next", ![w].todo = mine,
                    ![w].plan = [a \in Assignments |-> IF a \in mine THEN work[w].seen ELSE None]]
  /\ UNCHANGED <<rows, crashes, owed>> /\ Undisturbed

ListTeacher(w) ==
  /\ At(w, "look") /\ work[w].kind = "relink"
  /\ LET mine == {a \in Assignments : assignment[a] = "there" /\ TeacherOf[a] = work[w].t}
     IN  work' = [work EXCEPT ![w].stage = "next", ![w].todo = mine,
                    ![w].plan = [a \in Assignments |-> IF a \in mine THEN work[w].seen ELSE None]]
  /\ UNCHANGED <<rows, crashes, owed>> /\ Undisturbed

(* setRoles of an administrator takes the role away and its grants with it. *)
Strip(w) ==
  /\ Start(w, "strip") /\ work[w].u \in holds
  /\ holds' = holds \ {work[w].u}
  /\ grant' = [a \in Assignments |-> IF grant[a].user = work[w].u THEN NoGrant ELSE grant[a]]
  /\ owed' = owed \cup {work[w].u}
  /\ work' = [work EXCEPT ![w].stage = "evict", ![w].found = [user |-> work[w].u, id |-> 0]]
  /\ UNCHANGED <<assignment, teacher, crashes>>

-----------------------------------------------------------------------------
(* The job *)

ListAll(w) ==
  /\ Start(w, "reconcile")
  /\ work' = [work EXCEPT ![w].stage = "look", ![w].todo = {a \in Assignments : assignment[a] = "there"},
                          ![w].plan = NoPlan]
  /\ UNCHANGED <<rows, crashes, owed>>

(* The teachers are read one by one. *)
LookUp(w, a) ==
  /\ At(w, "look") /\ work[w].kind = "reconcile" /\ a \in work[w].todo
  /\ work' = [work EXCEPT ![w].todo = work[w].todo \ {a},
                          ![w].plan = [@ EXCEPT ![a] = teacher[TeacherOf[a]]]]
  /\ UNCHANGED <<rows, crashes, owed>> /\ Undisturbed

Repair(w) ==
  /\ At(w, "look") /\ work[w].kind = "reconcile" /\ work[w].todo = {}
  /\ work' = [work EXCEPT ![w].stage = "next", ![w].todo = {a \in Assignments : work[w].plan[a] # None}]
  /\ UNCHANGED <<rows, crashes, owed>> /\ Undisturbed

(* Mutation: the grants of deleted assignments are left. *)
SweepNothing(w) ==
  /\ At(w, "next") /\ work[w].kind = "reconcile" /\ work[w].todo = {}
  /\ To(w, "sweep")
  /\ UNCHANGED <<rows, crashes, owed>> /\ Undisturbed

(* The grants there are, less the wanted ones, are removed. *)
ListGrants(w) ==
  /\ At(w, "next") /\ work[w].kind = "reconcile" /\ work[w].todo = {}
  /\ work' = [work EXCEPT ![w].stage = "sweep",
       ![w].todo = {a \in Assignments : grant[a].user # None /\ work[w].plan[a] = None}]
  /\ UNCHANGED <<rows, crashes, owed>> /\ Undisturbed

(* A run ends and the next is scheduled. *)
EndRun(w) ==
  /\ At(w, "sweep") /\ work[w].todo = {}
  /\ End(w, "done")
  /\ UNCHANGED <<rows, crashes, owed>> /\ Undisturbed

NextRun(w) ==
  /\ work[w].kind = "reconcile" /\ work[w].stage \in {"done", "failed", "crashed"}
  /\ To(w, "new")
  /\ UNCHANGED <<rows, crashes, owed>> /\ Undisturbed

-----------------------------------------------------------------------------
(* upsert and removeBySourceRef, of identity *)

Rest(w, a)  == work[w].todo \ {a}
Target(w)   == CHOOSE a \in work[w].todo : TRUE
Sweeps(w)   == work[w].kind = "reconcile" /\ At(w, "sweep")
After(w)    == IF work[w].kind = "reconcile" /\ work[w].plan[Target(w)] = None THEN "sweep" ELSE "next"

(* The grant of the assignment is looked up: it may be right already. *)
Find(w) ==
  /\ At(w, "next") \/ Sweeps(w)
  /\ work[w].todo # {}
  /\ LET a == Target(w)
         want == work[w].plan[a]
     IN  IF want = grant[a].user
         THEN work' = [work EXCEPT ![w].todo = Rest(w, a)]
         ELSE work' = [work EXCEPT
                ![w].stage = IF grant[a].user = None THEN "role" ELSE IF want = None THEN "delete" ELSE "replace",
                ![w].found = grant[a]]
  /\ UNCHANGED <<rows, crashes, owed>> /\ Undisturbed

(* A request whose grants are done. *)
Finish(w) ==
  /\ At(w, "next") /\ work[w].todo = {} /\ work[w].kind # "reconcile"
  /\ IF work[w].kind = "remove" THEN To(w, "drop") ELSE End(w, "done")
  /\ UNCHANGED <<rows, crashes, owed>> /\ Undisturbed

(* The very grant that was found is deleted, if it is still there. *)
RemoveGrant(w) ==
  /\ work[w].stage \in {"delete", "replace"}
  /\ LET a == Target(w)
     IN  IF grant[a] = work[w].found
         THEN /\ grant' = [grant EXCEPT ![a] = NoGrant]
              /\ owed' = owed \cup {grant[a].user}
         ELSE UNCHANGED <<grant, owed>>
  /\ To(w, "evict")
  /\ UNCHANGED <<assignment, teacher, holds, crashes>> /\ Undisturbed

AddRole(w) ==
  /\ At(w, "role")
  /\ holds' = holds \cup {work[w].plan[Target(w)]}
  /\ To(w, "add")
  /\ UNCHANGED <<assignment, teacher, grant, crashes, owed>> /\ Undisturbed

Abort(w) == IF work[w].kind = "create" THEN To(w, "undo") ELSE End(w, "failed")

(* The id of a grant is not that of any other grant, nor one a request
   remembers. *)
FreshId == CHOOSE i \in 1..(Cardinality(Assignments) + Cardinality(Workers) + 1) :
             /\ \A a \in Assignments : grant[a].id # i
             /\ \A w \in Workers : work[w].found.id # i

(* The insert fails if another has written the grant of the assignment, or
   the role was taken away again. *)
AddGrant(w) ==
  /\ At(w, "add")
  /\ LET a == Target(w)
         user == work[w].plan[a]
     IN  IF grant[a].user = None /\ user \in holds
         THEN /\ grant' = [grant EXCEPT ![a] = [user |-> user, id |-> FreshId]]
               /\ owed' = owed \cup {user}
              /\ work' = [work EXCEPT ![w].stage = "evict", ![w].found = [user |-> user, id |-> 0]]
         ELSE Abort(w) /\ UNCHANGED <<grant, owed>>
  /\ UNCHANGED <<assignment, teacher, holds, crashes>> /\ Undisturbed

(* Mutation: only the new holder of a grant is logged out. *)
EvictNewHolder(w) ==
  /\ At(w, "evict")
  /\ IF work[w].kind = "strip"
     THEN owed' = owed \ {work[w].found.user} /\ End(w, "done")
     ELSE LET a == Target(w)
              want == work[w].plan[a]
          IN  IF work[w].found.user = want
              THEN /\ owed' = owed \ {want}
                   /\ work' = [work EXCEPT ![w].stage = After(w), ![w].todo = Rest(w, a)]
              ELSE /\ UNCHANGED owed
                   /\ work' = IF want = None
                              THEN [work EXCEPT ![w].stage = After(w), ![w].todo = Rest(w, a)]
                              ELSE [work EXCEPT ![w].stage = "role"]
  /\ UNCHANGED <<rows, crashes>> /\ Undisturbed

(* invalidateAllForUser, of the account that lost or won the grant; a
   replacement goes on with the new holder. *)
Evict(w) ==
  /\ At(w, "evict")
  /\ owed' = owed \ {work[w].found.user}
  /\ IF work[w].kind = "strip" THEN End(w, "done")
     ELSE LET a == Target(w)
              want == work[w].plan[a]
          IN  work' = IF work[w].found.user = want \/ want = None
                      THEN [work EXCEPT ![w].stage = After(w), ![w].todo = Rest(w, a)]
                      ELSE [work EXCEPT ![w].stage = "role"]
  /\ UNCHANGED <<rows, crashes>> /\ Undisturbed

(* The process dies, or the other database or Redis is away. *)
Crash(w) ==
  /\ w \in Busy /\ crashes < Crashes
  /\ crashes' = crashes + 1
  /\ End(w, "crashed")
  /\ UNCHANGED <<rows, owed>> /\ Undisturbed

Request(w) == \/ LoadTeacher(w) \/ InsertRow(w) \/ Undo(w) \/ LoadRow(w) \/ DropRow(w)
              \/ ReadTeacher(w) \/ Relink(w) \/ SyncTeacher(w) \/ ListTeacher(w)
              \/ Strip(w)
Reconcile(w) == \/ ListAll(w) \/ Repair(w) \/ ListGrants(w) \/ EndRun(w) \/ NextRun(w)
                \/ \E a \in Assignments : LookUp(w, a)
Derive(w)  == Find(w) \/ Finish(w) \/ RemoveGrant(w) \/ AddRole(w) \/ AddGrant(w) \/ Evict(w)

Next == \E w \in Workers : Request(w) \/ Reconcile(w) \/ Derive(w) \/ Crash(w)

Spec == Init /\ [][Next]_vars

-----------------------------------------------------------------------------
(* Without overlaps authority has a source at every moment, also after a
   crash between any two writes: a grant belongs to an assignment that is
   there (create writes the row first, remove deletes it last). *)
OrphansNeedOverlap ==
  ~overlap => \A a \in Assignments : grant[a].user # None => assignment[a] = "there"

GrantsInv == DerivedTypeOK /\ OrphansNeedOverlap

(* Without overlaps and crashes the grants are exactly what the assignments
   ask for whenever nothing runs, unless an administrator took the role; a
   failed request leaves nothing behind. *)
ExactWhenAlone ==
  ~overlap /\ crashes = 0 /\ Busy = {} /\ (\A w \in Workers : work[w].kind # "strip") => Exact

(* A run of the job that nothing overlapped repairs whatever crashes and
   overlaps had left. *)
JobRepairs == work[Job].stage = "done" /\ alone => Exact

(* Whoever gained or lost a grant was logged out by the time the requests
   have ended (authority never changes in the middle of a session). *)
EvictedWhenDone == crashes = 0 /\ Busy = {} => owed = {}
=============================================================================
