-------------------------- MODULE InvoiceRunsProofs --------------------------
(***************************************************************************)
(* Proofs about InvoiceRuns, for any number of runs, deliveries, students,  *)
(* sections and fee structures.                                             *)
(***************************************************************************)
EXTENDS InvoiceRuns, FiniteSetTheorems, TLAPS

Work == [stage : WorkStages, structures : SUBSET Structures, unread : SUBSET Sections,
         students : SUBSET (Students \X Sections), created : Nat, skipped : Nat]

LEMMA InitType == Init => TypeOK
  BY InvoiceRunsAssumption
  DEF Init, TypeOK, RunStatuses, WorkStages, Working, Reading, NoWork, MaxDeliveries

(* Rows for the same student and structure make one pair: what the insert
   counts as skipped is never negative. *)
LEMMA Counted ==
  ASSUME TypeOK, NEW d \in Deliveries
  PROVE  /\ Cardinality(NewPairs(d)) \in Nat
         /\ Cardinality(Rows(d)) - Cardinality(NewPairs(d)) \in Nat
  <1> DEFINE f == [x \in Rows(d) |-> <<x[1][1], x[2]>>]
  <1>1. Rows(d) \in SUBSET ((Students \X Sections) \X Structures)
    BY DEF TypeOK, Rows
  <1>2. IsFiniteSet((Students \X Sections) \X Structures)
    <2>1. IsFiniteSet(Students \X Sections)
      BY InvoiceRunsAssumption, FS_Product DEF InvoiceRunsAssumption
    <2> QED
      BY <2>1, InvoiceRunsAssumption, FS_Product DEF InvoiceRunsAssumption
  <1>3. IsFiniteSet(Rows(d))
    BY <1>1, <1>2, FS_Subset
  <1>4. f \in Surjection(Rows(d), Targets(d))
    BY DEF Surjection, Targets
  <1>5. IsFiniteSet(Targets(d)) /\ Cardinality(Targets(d)) <= Cardinality(Rows(d))
    BY <1>3, <1>4, FS_Surjection
  <1>6. NewPairs(d) \in SUBSET Targets(d)
    BY DEF NewPairs
  <1>7. IsFiniteSet(NewPairs(d)) /\ Cardinality(NewPairs(d)) <= Cardinality(Targets(d))
    BY <1>5, <1>6, FS_Subset
  <1>8. /\ Cardinality(Rows(d)) \in Nat /\ Cardinality(Targets(d)) \in Nat
        /\ Cardinality(NewPairs(d)) \in Nat
    BY <1>3, <1>5, <1>7, FS_CardinalityType
  <1> QED
    BY <1>5, <1>7, <1>8

(* Replacing one field of a run or of a delivery keeps its type. *)
LEMMA StatusType ==
  ASSUME TypeOK, NEW r \in Runs, NEW s \in RunStatuses
  PROVE  [run EXCEPT ![r].status = s]
           \in [Runs -> [status : RunStatuses, created : Nat, skipped : Nat]]
  <1> DEFINE Run == [status : RunStatuses, created : Nat, skipped : Nat]
  <1>1. run \in [Runs -> Run]
    BY DEF TypeOK
  <1>2. [run[r] EXCEPT !.status = s] \in Run
    BY <1>1
  <1>3. [run EXCEPT ![r].status = s] = [run EXCEPT ![r] = [run[r] EXCEPT !.status = s]]
    BY <1>1, Zenon
  <1> HIDE DEF Run
  <1>4. [run EXCEPT ![r] = [run[r] EXCEPT !.status = s]] \in [Runs -> Run]
    BY <1>1, <1>2
  <1> QED
    BY <1>3, <1>4 DEF Run

LEMMA GotoType ==
  ASSUME TypeOK, NEW d \in Deliveries, NEW s \in WorkStages, Goto(d, s)
  PROVE  work' \in [Deliveries -> Work]
  <1>1. work \in [Deliveries -> Work]
    BY DEF TypeOK, Work
  <1>2. [work[d] EXCEPT !.stage = s] \in Work
    BY <1>1 DEF Work
  <1>3. work' = [work EXCEPT ![d] = [work[d] EXCEPT !.stage = s]]
    BY Zenon DEF Goto
  <1> QED
    BY <1>1, <1>2, <1>3

(* The environment and the route. *)
LEMMA RouteType ==
  ASSUME TypeOK,
         \/ ClassChanges
         \/ \E r \in Runs : CreateRun(r) \/ EnqueueRun(r) \/ LoseRequest(r)
  PROVE  TypeOK'
  <1> USE DEF TypeOK, queue, environment, history
  <1>1. CASE \E st \in Students, sec \in Sections \cup {None} : Enroll(st, sec)
    BY <1>1 DEF Enroll
  <1>2. CASE \E f \in Structures : DefineStructure(f)
    BY <1>2 DEF DefineStructure
  <1>3. ASSUME NEW r \in Runs, CreateRun(r) PROVE TypeOK'
    <2>1. run' \in [Runs -> [status : RunStatuses, created : Nat, skipped : Nat]]
      BY <1>3, StatusType DEF CreateRun, RunStatuses
    <2> QED
      BY <1>3, <2>1 DEF CreateRun
  <1>4. ASSUME NEW r \in Runs, EnqueueRun(r) \/ LoseRequest(r) PROVE TypeOK'
    BY <1>4 DEF EnqueueRun, LoseRequest
  <1> QED
    BY <1>1, <1>2, <1>3, <1>4 DEF ClassChanges

LEMMA LeaveType ==
  ASSUME TypeOK, NEW d \in Deliveries, NEW s \in WorkStages, Leave(d, s)
  PROVE  /\ work' \in [Deliveries -> Work]
         /\ present' \in [Deliveries -> SUBSET Pairs]
         /\ moved' \in [Deliveries -> SUBSET Students]
  BY DEF TypeOK, Leave, Work, NoWork

(* The queue. *)
LEMMA QueueType ==
  ASSUME TypeOK, NEW r \in Runs, Deliver(r) \/ Stall(r)
  PROVE  TypeOK'
  <1> USE InvoiceRunsAssumption
      DEF InvoiceRunsAssumption, TypeOK, queue, environment, history, MaxDeliveries
  <1>1. CASE Deliver(r)
    <2>1. <<r, delivered[r] + 1>> \in Deliveries
      BY <1>1 DEF Deliver, Deliveries
    <2>2. work' \in [Deliveries -> Work]
      BY <1>1, <2>1, GotoType DEF Deliver, WorkStages, Working
    <2>3. delivered' \in [Runs -> 0 .. MaxDeliveries]
      BY <1>1 DEF Deliver
    <2> QED
      BY <1>1, <2>1, <2>2, <2>3 DEF Deliver, Work
  <1>2. CASE Stall(r)
    <2>1. stalls' \in [Runs -> 0 .. MaxStalls]
      BY <1>2 DEF Stall
    <2>2. job' \in [Runs -> {"absent", "queued", "active", "done", "dead"}]
      BY <1>2 DEF Stall
    <2> QED
      BY <1>2, <2>1, <2>2 DEF Stall
  <1> QED
    BY <1>1, <1>2
(* The processor, up to the end of its run. *)
LEMMA ReadType ==
  ASSUME TypeOK, NEW d \in Deliveries,
         MarkRunning(d) \/ ListStructures(d) \/ ReadRoster(d)
  PROVE  TypeOK'
  <1> USE DEF queue, environment, history, Deliveries
  <1>1. CASE MarkRunning(d)
    <2>1. run' \in [Runs -> [status : RunStatuses, created : Nat, skipped : Nat]]
      BY <1>1, StatusType DEF MarkRunning, RunStatuses
    <2>2. work' \in [Deliveries -> Work]
      BY <1>1, GotoType DEF MarkRunning, WorkStages, Working, Reading
    <2> QED
      BY <1>1, <2>1, <2>2 DEF MarkRunning, TypeOK, Work
  <1>2. CASE ListStructures(d)
    <2>1. work' \in [Deliveries -> Work]
      <3>1. work[d] \in Work
        BY DEF TypeOK, Work
      <3>2. [work[d] EXCEPT !.stage = "reading", !.structures = defined,
                            !.unread = Sections] \in Work
        BY <3>1 DEF TypeOK, Work, WorkStages, Working, Reading
      <3>3. work' = [work EXCEPT ![d] = [work[d] EXCEPT !.stage = "reading",
                                           !.structures = defined, !.unread = Sections]]
        BY <1>2 DEF ListStructures, TypeOK, Work
      <3> QED
        BY <3>2, <3>3 DEF TypeOK, Work
    <2> QED
      BY <1>2, <2>1 DEF ListStructures, TypeOK, Work
  <1>3. CASE ReadRoster(d)
    <2>1. PICK sec \in work[d].unread :
            work' = [work EXCEPT ![d].unread = @ \ {sec},
                                 ![d].students = @ \cup {<<st, sec>> : st \in Enrolled(sec)}]
      BY <1>3 DEF ReadRoster
    <2>2. {<<st, sec>> : st \in Enrolled(sec)} \in SUBSET (Students \X Sections)
      BY <2>1 DEF Enrolled, TypeOK
    <2>3. work' \in [Deliveries -> Work]
      <3> DEFINE more == {<<st, sec>> : st \in Enrolled(sec)}
      <3>1. work[d] \in Work
        BY DEF TypeOK, Work
      <3>2. [work[d] EXCEPT !.unread = @ \ {sec}, !.students = @ \cup more] \in Work
        <4> HIDE DEF more
        <4> QED
          BY <2>2, <3>1 DEF Work, more
      <3>3. work' = [work EXCEPT ![d] = [work[d] EXCEPT !.unread = @ \ {sec},
                                                        !.students = @ \cup more]]
        BY <2>1 DEF TypeOK, Work
      <3> QED
        BY <3>2, <3>3 DEF TypeOK, Work
    <2> QED
      BY <1>3, <2>3 DEF ReadRoster, TypeOK, Work
  <1> QED
    BY <1>1, <1>2, <1>3

LEMMA EndType ==
  ASSUME TypeOK, NEW d \in Deliveries,
         CreateInvoices(d) \/ FinishCompleted(d) \/ FinishFailed(d)
  PROVE  TypeOK'
  <1> USE DEF queue, environment, history, Deliveries
  <1>1. CASE CreateInvoices(d)
    <2> DEFINE new  == Cardinality(NewPairs(d))
               rest == Cardinality(Rows(d)) - Cardinality(NewPairs(d))
    <2>1. new \in Nat /\ rest \in Nat
      BY Counted
    <2>2. [NoWork EXCEPT !.stage = "inserted", !.created = new, !.skipped = rest] \in Work
      BY <2>1 DEF NoWork, Work, WorkStages, Working
    <2>3. work' \in [Deliveries -> Work]
      BY <1>1, <2>2 DEF CreateInvoices, Insert, TypeOK, Work
    <2>4. invoices' \in [Pairs -> Nat]
      BY <1>1 DEF CreateInvoices, Insert, TypeOK
    <2> QED
      BY <1>1, <2>3, <2>4 DEF CreateInvoices, Insert, TypeOK, Work
  <1>2. CASE FinishCompleted(d) \/ FinishFailed(d)
    <2>1. run' \in [Runs -> [status : RunStatuses, created : Nat, skipped : Nat]]
      <3>1. work[d].created \in Nat /\ work[d].skipped \in Nat
        BY DEF TypeOK
      <3>2. CASE FinishCompleted(d)
        BY <3>1, <3>2 DEF FinishCompleted, RunStatuses, TypeOK
      <3>3. CASE FinishFailed(d)
        BY <3>3 DEF FinishFailed, RunStatuses, TypeOK
      <3> QED
        BY <1>2, <3>2, <3>3
    <2>2. work' \in [Deliveries -> Work]
      BY <1>2, GotoType DEF FinishCompleted, FinishFailed, WorkStages, Working
    <2> QED
      BY <1>2, <2>1, <2>2 DEF FinishCompleted, FinishFailed, TypeOK, Work
  <1> QED
    BY <1>1, <1>2

(* The queue gives a job up when it has used all its attempts, and knows of
   no job before the route adds it. *)
AttemptsLeft ==
  \A r \in Runs :
    /\ request[r] \in {"new", "created"} => job[r] = "absent"
    /\ job[r] \notin {"done", "dead"} => failures[r] < MaxAttempts

(* The steps by which a delivery leaves the processor. *)
LEMMA OutType ==
  ASSUME TypeOK, AttemptsLeft, NEW d \in Deliveries, Acknowledge(d) \/ Fail(d) \/ Throw(d) \/ Die(d)
  PROVE  TypeOK'
  <1>1. /\ work' \in [Deliveries -> Work]
        /\ present' \in [Deliveries -> SUBSET Pairs]
        /\ moved' \in [Deliveries -> SUBSET Students]
    BY LeaveType DEF Acknowledge, Fail, Throw, Die, WorkStages, Working
  <1>2. d[1] \in Runs
    BY DEF Deliveries
  <1>3. job' \in [Runs -> {"absent", "queued", "active", "done", "dead"}]
    BY DEF Acknowledge, Fail, Throw, Die, TypeOK, queue
  <1>4. failures' \in [Runs -> 0 .. MaxAttempts]
    <2>1. CASE Throw(d) /\ Holds(d)
      <3>1. failures[d[1]] < MaxAttempts
        BY <1>2, <2>1 DEF Holds, AttemptsLeft
      <3>2. failures[d[1]] + 1 \in 0 .. MaxAttempts
        BY <1>2, <3>1, InvoiceRunsAssumption DEF TypeOK, InvoiceRunsAssumption
      <3> QED
        BY <2>1, <3>2 DEF Throw, TypeOK
    <2>2. CASE ~ (Throw(d) /\ Holds(d))
      BY <2>2 DEF Acknowledge, Fail, Throw, Die, TypeOK, queue
    <2> QED
      BY <2>1, <2>2
  <1> QED
    BY <1>1, <1>3, <1>4 DEF Acknowledge, Fail, Throw, Die, TypeOK, Work, queue, environment
LEMMA NextType ==
  ASSUME TypeOK, AttemptsLeft, [Next]_vars
  PROVE  TypeOK'
  <1>1. CASE ClassChanges \/ \E r \in Runs : CreateRun(r) \/ EnqueueRun(r) \/ LoseRequest(r)
    BY <1>1, RouteType
  <1>2. CASE \E r \in Runs : Deliver(r) \/ Stall(r)
    BY <1>2, QueueType
  <1>3. ASSUME NEW d \in Deliveries, Process(d) \/ Fail(d) \/ Throw(d) \/ Die(d)
        PROVE  TypeOK'
    BY <1>3, ReadType, EndType, OutType DEF Process
  <1>4. CASE UNCHANGED vars
    BY <1>4 DEF vars, TypeOK, environment, queue, history
  <1> QED
    BY <1>1, <1>2, <1>3, <1>4 DEF Next

LEMMA AttemptsLeftNext ==
  ASSUME TypeOK, AttemptsLeft, [Next]_vars
  PROVE  AttemptsLeft'
  <1> USE DEF AttemptsLeft, queue, TypeOK
  <1>1. ASSUME NEW r \in Runs, CreateRun(r) \/ EnqueueRun(r) \/ LoseRequest(r)
        PROVE  AttemptsLeft'
    BY <1>1 DEF CreateRun, EnqueueRun, LoseRequest
  <1>2. ASSUME NEW r \in Runs, Deliver(r) \/ Stall(r)
        PROVE  AttemptsLeft'
    BY <1>2 DEF Deliver, Stall
  <1>3. ASSUME NEW d \in Deliveries, Acknowledge(d)
        PROVE  AttemptsLeft'
    BY <1>3 DEF Acknowledge, Holds, Deliveries
  <1>4. ASSUME NEW d \in Deliveries, Throw(d)
        PROVE  AttemptsLeft'
    <2>1. CASE Holds(d)
      BY <1>4, <2>1, InvoiceRunsAssumption
      DEF Throw, Holds, Deliveries, InvoiceRunsAssumption
    <2>2. CASE ~ Holds(d)
      BY <1>4, <2>2 DEF Throw
    <2> QED
      BY <2>1, <2>2
  <1>5. CASE UNCHANGED <<request, job, failures>>
    BY <1>5
  <1>6. ASSUME NEW d \in Deliveries,
               \/ MarkRunning(d) \/ ListStructures(d) \/ ReadRoster(d) \/ CreateInvoices(d)
               \/ FinishCompleted(d) \/ FinishFailed(d) \/ Fail(d) \/ Die(d)
        PROVE  AttemptsLeft'
    BY <1>6, <1>5 DEF MarkRunning, ListStructures, ReadRoster, CreateInvoices, Insert,
                      FinishCompleted, FinishFailed, Fail, Die
  <1>7. ASSUME ClassChanges \/ UNCHANGED vars
        PROVE  AttemptsLeft'
    BY <1>7, <1>5 DEF ClassChanges, Enroll, DefineStructure, vars
  <1> QED
    BY <1>1, <1>2, <1>3, <1>4, <1>6, <1>7 DEF Next, Process

-----------------------------------------------------------------------------
(* The inductive invariant. *)

(* What a delivery has made sure of, at each stage, for a pair that was there
   when it began and whose student has not moved since. *)
Accounted(d, p) ==
  /\ work[d].stage \in {"started", "marked"} => section[p[1]] # None /\ p[2] \in defined
  /\ work[d].stage = "reading" =>
       /\ p[2] \in work[d].structures
       /\ \/ section[p[1]] \in work[d].unread
          \/ \E sec \in Sections : <<p[1], sec>> \in work[d].students
  /\ work[d].stage \in {"inserted", "completed"} => invoices[p] = 1

AllAccounted ==
  \A d \in Deliveries : \A p \in present[d] : p[1] \in moved[d] \/ Accounted(d, p)

RunsInv == TypeOK /\ AttemptsLeft /\ AllAccounted

LEMMA InitInv == Init => RunsInv
  BY InitType, InvoiceRunsAssumption
  DEF Init, RunsInv, AttemptsLeft, AllAccounted, InvoiceRunsAssumption

(* A student who moves is forgotten, or remembered as moved, by every
   delivery that has begun; a structure that is defined stays. *)
LEMMA ClassChangesAccounted ==
  ASSUME TypeOK, AllAccounted, ClassChanges
  PROVE  AllAccounted'
  <1>1. ASSUME NEW st \in Students, NEW sec \in Sections \cup {None}, Enroll(st, sec),
               NEW d \in Deliveries, NEW p \in present'[d], p[1] \notin moved'[d]
        PROVE  Accounted(d, p)'
    <2>1. p \in present[d] /\ present[d] \in SUBSET Pairs
      BY <1>1 DEF Enroll, TypeOK
    <2>2. CASE Begun(d)
      <3>1. p[1] # st /\ p[1] \notin moved[d]
        BY <1>1, <2>2 DEF Enroll
      <3>2. section'[p[1]] = section[p[1]]
        BY <1>1, <2>1, <3>1 DEF Enroll, TypeOK, Pairs
      <3>3. Accounted(d, p)
        BY <2>1, <3>1 DEF AllAccounted
      <3> QED
        BY <1>1, <3>2, <3>3 DEF Accounted, Enroll
    <2>3. CASE ~ Begun(d)
      BY <1>1, <2>3 DEF Begun, Working, Reading, Accounted, Enroll, TypeOK
    <2> QED
      BY <2>2, <2>3
  <1>2. ASSUME NEW f \in Structures, DefineStructure(f),
               NEW d \in Deliveries, NEW p \in present'[d], p[1] \notin moved'[d]
        PROVE  Accounted(d, p)'
    BY <1>2 DEF DefineStructure, AllAccounted, Accounted, history
  <1> QED
    BY <1>1, <1>2 DEF ClassChanges, AllAccounted
AccountedAt(d) == \A p \in present[d] : p[1] \in moved[d] \/ Accounted(d, p)

(* What one delivery does leaves the others' accounts as they are: invoices
   are never taken back. *)
LEMMA OthersKept ==
  ASSUME AllAccounted, NEW e \in Deliveries,
         UNCHANGED <<section, defined, work[e], present[e], moved[e]>>,
         \A p \in Pairs : invoices[p] = 1 => invoices'[p] = 1,
         present[e] \in SUBSET Pairs
  PROVE  AccountedAt(e)'
  BY DEF AllAccounted, AccountedAt, Accounted

(* A delivery begins with what there is. *)
LEMMA DeliverAccounted ==
  ASSUME TypeOK, AllAccounted, NEW r \in Runs, Deliver(r)
  PROVE  AllAccounted'
  <1>1. PICK d \in Deliveries : d = <<r, delivered[r] + 1>>
    BY InvoiceRunsAssumption
    DEF Deliver, Deliveries, TypeOK, MaxDeliveries, InvoiceRunsAssumption
  <1>2. ASSUME NEW e \in Deliveries, e # d
        PROVE  AccountedAt(e)'
    <2>1. work'[e] = work[e] /\ present'[e] = present[e]
      BY <1>1, <1>2 DEF Deliver, Goto, TypeOK
    <2> QED
      BY <2>1, OthersKept DEF Deliver, environment, TypeOK
  <1>3. AccountedAt(d)'
    <2>1. work'[d].stage = "started"
      BY <1>1 DEF Deliver, Goto, TypeOK
    <2>2. present'[d] = {p \in Pairs : section[p[1]] # None /\ p[2] \in defined}
      BY <1>1 DEF Deliver, TypeOK
    <2> QED
      BY <2>1, <2>2 DEF AccountedAt, Accounted, Deliver, environment
  <1> QED
    BY <1>2, <1>3 DEF AllAccounted, AccountedAt

(* A processor that moves on: the pairs it must account for stay the same. *)
LEMMA ReadAccounted ==
  ASSUME TypeOK, AllAccounted, NEW d \in Deliveries,
         MarkRunning(d) \/ ListStructures(d) \/ ReadRoster(d)
  PROVE  AllAccounted'
  <1>1. ASSUME NEW e \in Deliveries, e # d
        PROVE  AccountedAt(e)'
    <2>1. work'[e] = work[e]
      <3>1. MarkRunning(d) \/ ListStructures(d) => work'[e] = work[e]
        BY <1>1 DEF MarkRunning, ListStructures, Goto, TypeOK
      <3>2. ReadRoster(d) => work'[e] = work[e]
        BY <1>1 DEF ReadRoster, TypeOK
      <3> QED
        BY <3>1, <3>2
    <2>2. UNCHANGED <<section, defined, invoices, present, moved>>
      BY DEF MarkRunning, ListStructures, ReadRoster, environment, history
    <2>3. present[e] \in SUBSET Pairs
      BY DEF TypeOK
    <2> QED
      BY <2>1, <2>2, <2>3, OthersKept
  <1>2. ASSUME NEW p \in present'[d], p[1] \notin moved'[d]
        PROVE  Accounted(d, p)'
    <2>1. p \in Pairs /\ Accounted(d, p)
      BY <1>2 DEF MarkRunning, ListStructures, ReadRoster, history, TypeOK, AllAccounted
    <2>2. section' = section /\ defined' = defined
      BY DEF MarkRunning, ListStructures, ReadRoster, environment
    <2>3. section[p[1]] \in Sections \cup {None}
      BY <2>1 DEF TypeOK, Pairs
    <2>4. CASE MarkRunning(d)
      BY <2>1, <2>2, <2>4 DEF MarkRunning, Goto, TypeOK, Accounted
    <2>5. CASE ListStructures(d)
      <3>1. /\ work'[d].stage = "reading" /\ work'[d].unread = Sections
            /\ work'[d].structures = defined
        BY <2>5 DEF ListStructures, TypeOK
      <3>2. section[p[1]] # None /\ p[2] \in defined
        BY <2>1, <2>5 DEF ListStructures, Accounted
      <3> QED
        BY <2>2, <2>3, <3>1, <3>2 DEF Accounted
    <2>6. CASE ReadRoster(d)
      <3>1. PICK sec \in work[d].unread :
              work' = [work EXCEPT ![d].unread = @ \ {sec},
                                   ![d].students = @ \cup {<<st, sec>> : st \in Enrolled(sec)}]
        BY <2>6 DEF ReadRoster
      <3>2. /\ work'[d].stage = "reading" /\ work'[d].structures = work[d].structures
            /\ work'[d].unread = work[d].unread \ {sec}
            /\ work'[d].students = work[d].students \cup {<<st, sec>> : st \in Enrolled(sec)}
        <4> DEFINE more == {<<st, sec>> : st \in Enrolled(sec)}
        <4>1. /\ work' = [work EXCEPT ![d].unread = @ \ {sec}, ![d].students = @ \cup more]
              /\ work[d].stage = "reading" /\ work \in [Deliveries -> Work]
          BY <2>6, <3>1 DEF ReadRoster, TypeOK, Work
        <4>2. /\ work'[d].stage = "reading" /\ work'[d].structures = work[d].structures
              /\ work'[d].unread = work[d].unread \ {sec}
              /\ work'[d].students = work[d].students \cup more
          <5> HIDE DEF more
          <5> QED
            BY <4>1 DEF Work
        <4> QED
          BY <4>2
      <3>3. p[2] \in work[d].structures
        BY <2>1, <2>6 DEF ReadRoster, Accounted
      <3>4. sec \in Sections
        BY <3>1 DEF TypeOK
      <3>5. CASE section[p[1]] = sec
        <4>1. p[1] \in Enrolled(sec)
          BY <2>1, <3>5 DEF Enrolled, Pairs
        <4>2. <<p[1], sec>> \in work'[d].students
          BY <3>2, <4>1
        <4> QED
          BY <3>2, <3>3, <3>4, <4>2 DEF Accounted
      <3>6. CASE section[p[1]] # sec
        BY <2>1, <2>2, <2>6, <3>2, <3>3, <3>6 DEF ReadRoster, Accounted
      <3> QED
        BY <3>5, <3>6
    <2> QED
      BY <2>4, <2>5, <2>6
  <1> QED
    BY <1>1, <1>2 DEF AllAccounted, AccountedAt
(* Once the last roster is read, the insert has a row for every pair. *)
LEMMA CreateAccounted ==
  ASSUME TypeOK, AllAccounted, NEW d \in Deliveries, CreateInvoices(d)
  PROVE  AllAccounted'
  <1>1. /\ work[d].stage = "reading" /\ work[d].unread = {}
        /\ invoices' = [p \in Pairs |-> IF p \in Targets(d) THEN 1 ELSE invoices[p]]
        /\ UNCHANGED <<section, defined, present, moved>>
    BY DEF CreateInvoices, Insert, environment, history
  <1>2. ASSUME NEW e \in Deliveries, e # d
        PROVE  AccountedAt(e)'
    <2>1. work'[e] = work[e]
      BY <1>2 DEF CreateInvoices, Insert, TypeOK
    <2>2. \A p \in Pairs : invoices[p] = 1 => invoices'[p] = 1
      BY <1>1
    <2>3. present[e] \in SUBSET Pairs
      BY DEF TypeOK
    <2> QED
      BY <1>1, <2>1, <2>2, <2>3, OthersKept
  <1>3. ASSUME NEW p \in present'[d], p[1] \notin moved'[d]
        PROVE  Accounted(d, p)'
    <2>1. p \in Pairs /\ Accounted(d, p)
      BY <1>1, <1>3 DEF TypeOK, AllAccounted
    <2>2. PICK sec \in Sections : <<p[1], sec>> \in work[d].students
      BY <1>1, <2>1 DEF Accounted
    <2>3. p[2] \in work[d].structures
      BY <1>1, <2>1 DEF Accounted
    <2>4. <<<<p[1], sec>>, p[2]>> \in Rows(d)
      BY <2>2, <2>3 DEF Rows
    <2>5. p \in Targets(d)
      BY <2>1, <2>4 DEF Targets, Pairs
    <2>6. work'[d].stage = "inserted"
      BY DEF CreateInvoices, Insert, TypeOK, NoWork
    <2> QED
      BY <1>1, <2>1, <2>5, <2>6 DEF Accounted
  <1> QED
    BY <1>2, <1>3 DEF AllAccounted, AccountedAt

(* A delivery that ends the run has nothing more to account for, and one that
   leaves the processor forgets its pairs. *)
LEMMA EndAccounted ==
  ASSUME TypeOK, AllAccounted, NEW d \in Deliveries,
         \/ FinishCompleted(d) \/ FinishFailed(d)
         \/ Acknowledge(d) \/ Fail(d) \/ Throw(d) \/ Die(d)
  PROVE  AllAccounted'
  <1>1. UNCHANGED <<section, defined, invoices>>
    BY DEF FinishCompleted, FinishFailed, Acknowledge, Fail, Throw, Die, environment
  <1>2. ASSUME NEW e \in Deliveries, e # d
        PROVE  AccountedAt(e)'
    <2>1. work'[e] = work[e] /\ present'[e] = present[e] /\ moved'[e] = moved[e]
      BY <1>2 DEF FinishCompleted, FinishFailed, Acknowledge, Fail, Throw, Die, Goto, Leave,
                  history, TypeOK
    <2>2. present[e] \in SUBSET Pairs
      BY DEF TypeOK
    <2> QED
      BY <1>1, <2>1, <2>2, OthersKept
  <1>3. CASE FinishCompleted(d)
    <2>1. work[d].stage = "inserted" /\ work'[d].stage = "completed"
      BY <1>3 DEF FinishCompleted, Goto, TypeOK
    <2>2. AccountedAt(d)'
      BY <1>1, <1>3, <2>1 DEF FinishCompleted, history, AllAccounted, AccountedAt, Accounted
    <2> QED
      BY <1>2, <2>2 DEF AllAccounted, AccountedAt
  <1>4. CASE FinishFailed(d)
    <2>1. work'[d].stage = "failed"
      BY <1>4 DEF FinishFailed, Goto, TypeOK
    <2>2. AccountedAt(d)'
      BY <2>1 DEF AccountedAt, Accounted
    <2> QED
      BY <1>2, <2>2 DEF AllAccounted, AccountedAt
  <1>5. CASE Acknowledge(d) \/ Fail(d) \/ Throw(d) \/ Die(d)
    <2>1. present'[d] = {}
      BY <1>5 DEF Acknowledge, Fail, Throw, Die, Leave, TypeOK
    <2>2. AccountedAt(d)'
      BY <2>1 DEF AccountedAt
    <2> QED
      BY <1>2, <2>2 DEF AllAccounted, AccountedAt
  <1> QED
    BY <1>3, <1>4, <1>5

LEMMA NextInv == RunsInv /\ [Next]_vars => RunsInv'
  <1> SUFFICES ASSUME RunsInv, [Next]_vars
               PROVE  AllAccounted'
    BY NextType, AttemptsLeftNext DEF RunsInv
  <1> USE DEF RunsInv
  <1>1. CASE ClassChanges
    BY <1>1, ClassChangesAccounted
  <1>2. ASSUME NEW r \in Runs, Deliver(r)
        PROVE  AllAccounted'
    BY <1>2, DeliverAccounted
  <1>3. ASSUME NEW d \in Deliveries, Process(d) \/ Fail(d) \/ Throw(d) \/ Die(d)
        PROVE  AllAccounted'
    BY <1>3, ReadAccounted, CreateAccounted, EndAccounted DEF Process
  <1>4. CASE UNCHANGED <<section, defined, invoices, work, present, moved>>
    BY <1>4 DEF AllAccounted, Accounted
  <1>5. ASSUME NEW r \in Runs, CreateRun(r) \/ EnqueueRun(r) \/ LoseRequest(r) \/ Stall(r)
        PROVE  AllAccounted'
    BY <1>4, <1>5 DEF CreateRun, EnqueueRun, LoseRequest, Stall, environment, history
  <1>6. CASE UNCHANGED vars
    BY <1>4, <1>6 DEF vars, environment, history
  <1> QED
    BY <1>1, <1>2, <1>3, <1>5, <1>6 DEF Next
-----------------------------------------------------------------------------
(* Sums of a function over a finite set.  The fold that Sum is defined by
   counts units: pairs of an argument and a number up to its value. *)

(* Induction over finite sets, in a form the provers can use: among some
   subsets of a finite set there is one with no smaller one among them. *)
LEMMA SmallestSubset ==
  ASSUME NEW S, IsFiniteSet(S), NEW C, C \subseteq SUBSET S, C # {}
  PROVE  \E T \in C : \A U \in C : U \subseteq T => U = T
  <1>1. IsWellFoundedOn(StrictSubsetOrdering(S), FiniteSubsetsOf(S))
    BY FS_StrictSubsetOrderingWellFounded
  <1>2. FiniteSubsetsOf(S) = SUBSET S
    BY FS_FiniteSubsetsOfFinite
  <1>3. PICK T \in C : \A U \in C : ~ (<<U, T>> \in StrictSubsetOrdering(S))
    BY <1>1, <1>2, WFMin
  <1> QED
    BY <1>3 DEF StrictSubsetOrdering

Units(S, f) == {u \in S \X Nat : u[2] \in 1 .. f[u[1]]}

LEMMA UnitsOfOneMore ==
  ASSUME NEW S, NEW f \in [S -> Nat], NEW T \in SUBSET S, IsFiniteSet(Units(T, f)),
         NEW x \in S \ T
  PROVE  /\ IsFiniteSet(Units(T \cup {x}, f))
         /\ Cardinality(Units(T \cup {x}, f)) = Cardinality(Units(T, f)) + f[x]
  <1> DEFINE n == f[x]
             own == {x} \X (1 .. n)
  <1>1. n \in Nat
    OBVIOUS
  <1>2. IsFiniteSet(1 .. n) /\ Cardinality(1 .. n) = n
    BY <1>1, FS_Interval
  <1>3. IsFiniteSet(own) /\ Cardinality(own) = n
    <2>1. IsFiniteSet({x}) /\ Cardinality({x}) = 1
      BY FS_Singleton
    <2>2. IsFiniteSet(own) /\ Cardinality(own) = 1 * n
      BY <1>2, <2>1, FS_Product
    <2> QED
      BY <1>1, <2>2
  <1>4. Units(T \cup {x}, f) = Units(T, f) \cup own
    BY <1>1 DEF Units
  <1>5. Units(T, f) \cap own = {}
    BY DEF Units
  <1> QED
    <2> HIDE DEF own, n
    <2>1. /\ IsFiniteSet(Units(T, f) \cup own)
          /\ Cardinality(Units(T, f) \cup own) = Cardinality(Units(T, f)) + n - Cardinality({})
      BY <1>3, <1>5, FS_Union
    <2>2. Cardinality({}) = 0 /\ Cardinality(Units(T, f)) \in Nat
      BY FS_EmptySet, FS_CardinalityType
    <2>3. Cardinality(Units(T, f) \cup own) = Cardinality(Units(T, f)) + n
      BY ONLY <1>1, <2>1, <2>2
    <2> QED
      BY <1>4, <2>1, <2>3 DEF n

LEMMA UnitsFinite ==
  ASSUME NEW S, IsFiniteSet(S), NEW f \in [S -> Nat], NEW T \in SUBSET S
  PROVE  IsFiniteSet(Units(T, f))
  <1> DEFINE C == {U \in SUBSET S : ~ IsFiniteSet(Units(U, f))}
  <1> SUFFICES ASSUME C # {} PROVE FALSE
    OBVIOUS
  <1>1. PICK U \in C : \A V \in C : V \subseteq U => V = U
    <2>1. C \subseteq SUBSET S
      OBVIOUS
    <2> HIDE DEF C
    <2> QED
      BY <2>1, SmallestSubset
  <1>2. PICK x \in U : TRUE
    BY FS_EmptySet DEF Units
  <1>3. IsFiniteSet(Units(U \ {x}, f))
    BY <1>1, <1>2
  <1>4. U = (U \ {x}) \cup {x}
    BY <1>2
  <1>5. IsFiniteSet(Units((U \ {x}) \cup {x}, f))
    BY <1>2, <1>3, UnitsOfOneMore
  <1> QED
    BY <1>1, <1>4, <1>5

(* The count of units satisfies the equation that defines the fold, and no
   other function does. *)
LEMMA SumCounts ==
  ASSUME NEW S, IsFiniteSet(S), NEW f \in [S -> Nat]
  PROVE  Sum(f) = Cardinality(Units(S, f)) /\ Sum(f) \in Nat
  <1> DEFINE Value(x) == f[x]
             Pick(s) == CHOOSE x \in s : TRUE
             Sums(g) == g = [s \in SUBSET S |->
                               IF s = {} THEN 0
                               ELSE Value(Pick(s)) + g[s \ {Pick(s)}]]
             count == [s \in SUBSET S |-> Cardinality(Units(s, f))]
             sum == CHOOSE g : Sums(g)
  <1>1. MapThenSumSet(LAMBDA x : f[x], S) = sum[S]
    BY DEF MapThenSumSet, MapThenFoldSet
  <1>2. Cardinality(Units({}, f)) = 0
    BY FS_EmptySet DEF Units
  <1>3. ASSUME NEW s \in SUBSET S, s # {}
        PROVE  /\ Pick(s) \in s
               /\ Cardinality(Units(s, f)) = Value(Pick(s)) + Cardinality(Units(s \ {Pick(s)}, f))
    <2>1. Pick(s) \in s
      BY <1>3
    <2> DEFINE p == Pick(s)
    <2> HIDE DEF p
    <2>2. s = (s \ {p}) \cup {p} /\ p \in s
      BY <2>1 DEF p
    <2>3. IsFiniteSet(Units(s \ {p}, f))
      BY UnitsFinite
    <2>4. Cardinality(Units((s \ {p}) \cup {p}, f)) = Cardinality(Units(s \ {p}, f)) + f[p]
      BY <2>2, <2>3, UnitsOfOneMore
    <2>5. Cardinality(Units(s \ {p}, f)) \in Nat /\ f[p] \in Nat
      BY <2>2, <2>3, FS_CardinalityType
    <2>6. Cardinality(Units(s, f)) = f[p] + Cardinality(Units(s \ {p}, f))
      <3>1. Cardinality(Units(s, f)) = Cardinality(Units(s \ {p}, f)) + f[p]
        BY ONLY <2>2, <2>4
      <3> QED
        BY ONLY <2>5, <3>1
    <2> QED
      BY <2>1, <2>6 DEF p
  <1>4. Sums(count)
    BY <1>2, <1>3
  <1>5. Sums(sum)
    BY <1>4
  <1> DEFINE C == {s \in SUBSET S : sum[s] # count[s]}
  <1>6. C = {}
    <2> SUFFICES ASSUME C # {} PROVE FALSE
      OBVIOUS
    <2>1. PICK T \in C : \A U \in C : U \subseteq T => U = T
      <3>1. C \subseteq SUBSET S
        OBVIOUS
      <3> HIDE DEF C
      <3> QED
        BY <3>1, SmallestSubset
    <2>2. T # {}
      BY <1>2, <1>5
    <2>3. Pick(T) \in T
      BY <2>2
    <2>4. sum[T \ {Pick(T)}] = count[T \ {Pick(T)}]
      <3>1. T \ {Pick(T)} \notin C
        BY <2>1, <2>3
      <3> QED
        BY <3>1
    <2>5. sum[T] = Value(Pick(T)) + sum[T \ {Pick(T)}]
      BY <1>5, <2>2
    <2>6. count[T] = Value(Pick(T)) + count[T \ {Pick(T)}]
      BY <1>4, <2>2
    <2> QED
      BY <2>4, <2>5, <2>6
  <1>7. sum[S] = count[S]
    BY <1>6
  <1>8. Sum(f) = Cardinality(Units(S, f))
    BY <1>1, <1>7 DEF Sum
  <1> HIDE DEF sum, count
  <1>9. IsFiniteSet(Units(S, f))
    BY UnitsFinite
  <1> QED
    BY <1>8, <1>9, FS_CardinalityType

(* Changing one value changes the sum by the difference. *)
LEMMA SumChange ==
  ASSUME NEW S, IsFiniteSet(S), NEW f \in [S -> Nat], NEW g \in [S -> Nat],
         NEW x \in S, \A y \in S \ {x} : g[y] = f[y]
  PROVE  Sum(g) + f[x] = Sum(f) + g[x]
  <1> DEFINE rest == S \ {x}
  <1>1. Units(rest, g) = Units(rest, f)
    BY DEF Units
  <1>2. rest \cup {x} = S /\ x \in S \ rest /\ rest \in SUBSET S
    OBVIOUS
  <1> HIDE DEF rest
  <1>3. IsFiniteSet(Units(rest, f)) /\ Cardinality(Units(rest, f)) \in Nat
    BY <1>2, UnitsFinite, FS_CardinalityType
  <1>4. Cardinality(Units(S, f)) = Cardinality(Units(rest, f)) + f[x]
    BY <1>2, <1>3, UnitsOfOneMore
  <1>5. Cardinality(Units(S, g)) = Cardinality(Units(rest, f)) + g[x]
    <2>1. Cardinality(Units(rest \cup {x}, g)) = Cardinality(Units(rest, g)) + g[x]
      BY <1>1, <1>2, <1>3, UnitsOfOneMore
    <2> QED
      BY <1>1, <1>2, <2>1
  <1>6. Sum(f) = Cardinality(Units(S, f)) /\ Sum(g) = Cardinality(Units(S, g))
    BY SumCounts
  <1>7. f[x] \in Nat /\ g[x] \in Nat
    OBVIOUS
  <1> QED
    BY ONLY <1>3, <1>4, <1>5, <1>6, <1>7

(* The sum of a function into {0, 1} is the number of its ones. *)
LEMMA SumOfOnes ==
  ASSUME NEW S, IsFiniteSet(S), NEW f \in [S -> {0, 1}]
  PROVE  /\ IsFiniteSet({x \in S : f[x] = 1})
         /\ Sum(f) = Cardinality({x \in S : f[x] = 1})
  <1> DEFINE ones == {x \in S : f[x] = 1}
  <1>1. ones \in SUBSET S
    OBVIOUS
  <1>2. Units(S, f) = ones \X {1}
    BY DEF Units
  <1> HIDE DEF ones
  <1>3. IsFiniteSet(ones) /\ Cardinality(ones) \in Nat
    BY <1>1, FS_Subset, FS_CardinalityType
  <1>4. IsFiniteSet({1}) /\ Cardinality({1}) = 1
    BY FS_Singleton
  <1>5. Cardinality(ones \X {1}) = Cardinality(ones) * 1
    BY <1>3, <1>4, FS_Product
  <1>6. Sum(f) = Cardinality(Units(S, f))
    BY SumCounts
  <1>7. Sum(f) = Cardinality(ones)
    BY <1>2, <1>3, <1>5, <1>6
  <1> QED
    BY <1>3, <1>7 DEF ones

-----------------------------------------------------------------------------
(* What the runs claim is covered by the invoices there are.  The inserts that
   no finished run has claimed yet are the deliveries' that are still to call
   finishRun. *)

Pending == [d \in Deliveries |-> IF work[d].stage = "inserted" THEN work[d].created ELSE 0]

(* The invariant: claimed, or inserted and still to be claimed, is never more
   than there is.  ClaimsCovered alone would not survive finishRun. *)
AllCovered ==
  /\ invoices \in [Pairs -> {0, 1}]
  /\ Sum(Claims) + Sum(Pending) <= Sum(invoices)

LEMMA Finite == IsFiniteSet(Deliveries) /\ IsFiniteSet(Pairs) /\ IsFiniteSet(Runs)
  <1>1. MaxDeliveries \in Nat
    BY InvoiceRunsAssumption DEF InvoiceRunsAssumption, MaxDeliveries
  <1>2. IsFiniteSet(1 .. MaxDeliveries)
    BY <1>1, FS_Interval
  <1>3. IsFiniteSet(Runs) /\ IsFiniteSet(Students) /\ IsFiniteSet(Structures)
    BY InvoiceRunsAssumption DEF InvoiceRunsAssumption
  <1>4. IsFiniteSet(Runs \X (1 .. MaxDeliveries)) /\ IsFiniteSet(Students \X Structures)
    BY <1>2, <1>3, FS_Product
  <1> QED
    BY <1>3, <1>4 DEF Deliveries, Pairs

LEMMA SummandTypes ==
  ASSUME TypeOK
  PROVE  /\ Claims \in [Runs -> Nat] /\ Pending \in [Deliveries -> Nat]
         /\ Sum(Claims) \in Nat /\ Sum(Pending) \in Nat
  <1>1. Claims \in [Runs -> Nat] /\ Pending \in [Deliveries -> Nat]
    BY DEF TypeOK, Claims, Pending
  <1> QED
    BY <1>1, Finite, SumCounts

(* A function that is 0 everywhere adds up to 0. *)
LEMMA SumOfNothing ==
  ASSUME NEW S, IsFiniteSet(S)
  PROVE  Sum([x \in S |-> 0]) = 0
  <1> DEFINE zero == [x \in S |-> 0]
  <1>1. zero \in [S -> Nat]
    OBVIOUS
  <1>2. Units(S, zero) = {}
    BY DEF Units
  <1> HIDE DEF zero
  <1>3. Sum(zero) = Cardinality({})
    BY <1>1, <1>2, SumCounts
  <1> QED
    BY <1>3, FS_EmptySet DEF zero

LEMMA InitCovered == Init => AllCovered
  <1> SUFFICES ASSUME Init PROVE AllCovered
    OBVIOUS
  <1>1. Claims = [r \in Runs |-> 0]
    BY DEF Init, Claims
  <1>2. Pending = [d \in Deliveries |-> 0]
    BY DEF Init, Pending, NoWork
  <1>3. invoices = [p \in Pairs |-> 0]
    BY DEF Init
  <1>4. Sum(Claims) = 0 /\ Sum(Pending) = 0 /\ Sum(invoices) = 0
    BY <1>1, <1>2, <1>3, Finite, SumOfNothing
  <1> QED
    BY <1>3, <1>4 DEF AllCovered

(* A step of one delivery that moves its pending insert to its run's claim,
   or drops it. *)
LEMMA MovedCovered ==
  ASSUME TypeOK, TypeOK', AllCovered, NEW d \in Deliveries, NEW r \in Runs,
         UNCHANGED invoices,
         \A e \in Deliveries \ {d} : Pending'[e] = Pending[e],
         \A q \in Runs \ {r} : Claims'[q] = Claims[q],
         Claims'[r] + Pending'[d] <= Claims[r] + Pending[d]
  PROVE  AllCovered'
  <1>1. /\ Claims \in [Runs -> Nat] /\ Pending \in [Deliveries -> Nat]
        /\ Claims' \in [Runs -> Nat] /\ Pending' \in [Deliveries -> Nat]
    BY DEF TypeOK, Claims, Pending
  <1> DEFINE c0 == Claims
             c1 == Claims'
             p0 == Pending
             p1 == Pending'
  <1>2. c0 \in [Runs -> Nat] /\ c1 \in [Runs -> Nat]
        /\ p0 \in [Deliveries -> Nat] /\ p1 \in [Deliveries -> Nat]
    BY <1>1
  <1>3. /\ \A e \in Deliveries \ {d} : p1[e] = p0[e]
        /\ \A q \in Runs \ {r} : c1[q] = c0[q]
        /\ c1[r] + p1[d] <= c0[r] + p0[d]
    OBVIOUS
  <1>4. Sum(c0) + Sum(p0) <= Sum(invoices)
    BY DEF AllCovered
  <1>5. Sum(invoices) \in Nat
    BY Finite, SumCounts DEF TypeOK
  <1> SUFFICES Sum(c1) + Sum(p1) <= Sum(invoices)
    BY DEF AllCovered
  <1> HIDE DEF c0, c1, p0, p1
  <1>6. Sum(p1) + p0[d] = Sum(p0) + p1[d] /\ Sum(c1) + c0[r] = Sum(c0) + c1[r]
    BY <1>2, <1>3, Finite, SumChange
  <1>7. /\ p0[d] \in Nat /\ p1[d] \in Nat /\ c0[r] \in Nat /\ c1[r] \in Nat
        /\ Sum(p0) \in Nat /\ Sum(p1) \in Nat /\ Sum(c0) \in Nat /\ Sum(c1) \in Nat
    BY <1>2, Finite, SumCounts
  <1> QED
    BY ONLY <1>3, <1>4, <1>5, <1>6, <1>7

(* The insert: the pairs it adds are new, so the sum grows by their number. *)
LEMMA CreateCovered ==
  ASSUME RunsInv, TypeOK', AllCovered, NEW d \in Deliveries, CreateInvoices(d)
  PROVE  AllCovered'
  <1> DEFINE new == NewPairs(d)
             old == {p \in Pairs : invoices[p] = 1}
  <1>1. TypeOK /\ AllCovered
    BY DEF RunsInv
  <1>2. new \in SUBSET Pairs /\ Targets(d) \in SUBSET Pairs
    BY <1>1 DEF NewPairs, Targets, Rows, TypeOK, Pairs
  <1>3. invoices' = [p \in Pairs |-> IF p \in Targets(d) THEN 1 ELSE invoices[p]]
    BY DEF CreateInvoices, Insert
  <1>4. invoices' \in [Pairs -> {0, 1}]
    BY <1>1, <1>3 DEF AllCovered
  <1>5. {p \in Pairs : invoices'[p] = 1} = old \cup new
    BY <1>1, <1>2, <1>3 DEF AllCovered, NewPairs
  <1>6. old \cap new = {}
    BY DEF NewPairs
  <1>7. IsFiniteSet(old) /\ IsFiniteSet(new)
    BY <1>2, Finite, FS_Subset
  <1>8. /\ Sum(invoices) = Cardinality(old)
        /\ Sum(invoices') = Cardinality(old \cup new)
    BY <1>1, <1>4, <1>5, Finite, SumOfOnes DEF AllCovered
  <1>9. run' = run /\ work' = [work EXCEPT ![d] =
           [NoWork EXCEPT !.stage = "inserted", !.created = Cardinality(new),
                          !.skipped = Cardinality(Rows(d)) - Cardinality(new)]]
        /\ work[d].stage = "reading"
    BY DEF CreateInvoices, Insert
  <1> DEFINE c0 == Claims
             p0 == Pending
             p1 == Pending'
  <1>10. c0' = c0
    BY <1>9 DEF Claims
  <1>11. /\ p0 \in [Deliveries -> Nat] /\ p1 \in [Deliveries -> Nat]
         /\ p0[d] = 0 /\ p1[d] = Cardinality(new)
         /\ \A e \in Deliveries \ {d} : p1[e] = p0[e]
    <2>1. /\ work'[d].stage = "inserted" /\ work'[d].created = Cardinality(new)
          /\ \A e \in Deliveries \ {d} : work'[e] = work[e]
      BY <1>1, <1>9 DEF TypeOK, NoWork
    <2> QED
      BY <1>1, <1>9, <2>1 DEF TypeOK, Pending
  <1>12. Sum(c0) + Sum(p0) <= Sum(invoices) /\ Sum(c0) \in Nat
    BY <1>1, SummandTypes DEF AllCovered
  <1> SUFFICES Sum(c0) + Sum(p1) <= Sum(invoices')
    BY <1>4, <1>10 DEF AllCovered
  <1> HIDE DEF c0, p0, p1, new, old
  <1>13. Sum(p1) + p0[d] = Sum(p0) + p1[d] /\ Sum(p1) \in Nat /\ Sum(p0) \in Nat
    BY <1>11, Finite, SumChange, SumCounts
  <1>14. /\ Cardinality(old) \in Nat /\ Cardinality(new) \in Nat
         /\ Cardinality(old \cup new) = Cardinality(old) + Cardinality(new)
    <2>1. Cardinality(old \cup new) = Cardinality(old) + Cardinality(new) - Cardinality({})
      BY <1>6, <1>7, FS_Union
    <2>2. Cardinality(old) \in Nat /\ Cardinality(new) \in Nat /\ Cardinality({}) = 0
      BY <1>7, FS_CardinalityType, FS_EmptySet
    <2> QED
      BY ONLY <2>1, <2>2
  <1> QED
    BY ONLY <1>8, <1>11, <1>12, <1>13, <1>14

(* The other steps of a delivery: only finishRun turns what is pending into a
   claim, and it replaces the run's earlier claim. *)
LEMMA StepsCovered ==
  ASSUME TypeOK, TypeOK', AllCovered, NEW d \in Deliveries,
         Process(d) \/ Fail(d) \/ Throw(d) \/ Die(d), ~ CreateInvoices(d)
  PROVE  AllCovered'
  <1> DEFINE r == d[1]
  <1>1. r \in Runs
    BY DEF Deliveries
  <1>2. UNCHANGED invoices /\ \A e \in Deliveries \ {d} : work'[e] = work[e]
    BY DEF TypeOK, Process, MarkRunning, ListStructures, ReadRoster, FinishCompleted,
           FinishFailed, Acknowledge, Fail, Throw, Die, Goto, Leave
  <1>3. \A q \in Runs \ {r} : run'[q] = run[q]
    BY DEF TypeOK, Process, MarkRunning, ListStructures, ReadRoster, FinishCompleted,
           FinishFailed, Acknowledge, Fail, Throw, Die
  <1>4. \/ run'[r].created = run[r].created /\ work'[d].stage # "inserted"
        \/ run'[r].created = 0 /\ work'[d].stage # "inserted"
        \/ /\ work[d].stage = "inserted" /\ run'[r].created = work[d].created
           /\ work'[d].stage # "inserted"
    <2>1. CASE MarkRunning(d)
      BY <1>1, <2>1 DEF TypeOK, MarkRunning, Goto
    <2>2. CASE ListStructures(d) \/ ReadRoster(d)
      <3>1. run' = run
        BY <2>2 DEF ListStructures, ReadRoster
      <3>2. work'[d].stage = "reading"
        <4>1. CASE ListStructures(d)
          BY <4>1 DEF TypeOK, ListStructures
        <4>2. CASE ReadRoster(d)
          BY <4>2 DEF TypeOK, ReadRoster
        <4> QED
          BY <2>2, <4>1, <4>2
      <3> QED
        BY <3>1, <3>2
    <2>3. CASE FinishCompleted(d)
      BY <1>1, <2>3 DEF TypeOK, FinishCompleted, Goto
    <2>4. CASE FinishFailed(d)
      BY <1>1, <2>4 DEF TypeOK, FinishFailed, Goto
    <2>5. CASE Acknowledge(d) \/ Fail(d) \/ Throw(d) \/ Die(d)
      BY <1>1, <2>5 DEF TypeOK, Acknowledge, Fail, Throw, Die, Leave, NoWork
    <2> QED
      BY <2>1, <2>2, <2>3, <2>4, <2>5 DEF Process
  <1>5. \A e \in Deliveries \ {d} : Pending'[e] = Pending[e]
    BY <1>2 DEF Pending
  <1>6. \A q \in Runs \ {r} : Claims'[q] = Claims[q]
    BY <1>3 DEF Claims
  <1>7. Claims'[r] + Pending'[d] <= Claims[r] + Pending[d]
    BY <1>1, <1>4 DEF TypeOK, Claims, Pending
  <1> QED
    BY <1>1, <1>2, <1>5, <1>6, <1>7, MovedCovered

LEMMA NextCovered == RunsInv /\ AllCovered /\ [Next]_vars => AllCovered'
  <1> SUFFICES ASSUME RunsInv, AllCovered, [Next]_vars
               PROVE  AllCovered'
    OBVIOUS
  <1>1. TypeOK /\ TypeOK'
    BY NextInv DEF RunsInv
  <1>2. ASSUME NEW d \in Deliveries, Process(d) \/ Fail(d) \/ Throw(d) \/ Die(d)
        PROVE  AllCovered'
    BY <1>1, <1>2, CreateCovered, StepsCovered
  <1>3. ASSUME NEW r \in Runs, Deliver(r)
        PROVE  AllCovered'
    <2> DEFINE d == <<r, delivered[r] + 1>>
    <2>1. d \in Deliveries
      BY <1>1, <1>3, InvoiceRunsAssumption
      DEF TypeOK, Deliver, Deliveries, MaxDeliveries, InvoiceRunsAssumption
    <2>2. UNCHANGED <<run, invoices>> /\ Goto(d, "started")
      BY <1>3 DEF Deliver
    <2>3. work'[d].stage = "started" /\ \A e \in Deliveries \ {d} : work'[e] = work[e]
      BY <1>1, <2>1, <2>2 DEF TypeOK, Goto
    <2>4. /\ \A e \in Deliveries \ {d} : Pending'[e] = Pending[e]
          /\ Claims' = Claims /\ Claims[r] \in Nat /\ Pending[d] \in Nat /\ Pending'[d] = 0
      BY <1>1, <2>1, <2>2, <2>3 DEF TypeOK, Pending, Claims
    <2> HIDE DEF d
    <2> QED
      BY <1>1, <2>1, <2>2, <2>4, MovedCovered
  <1>4. ASSUME UNCHANGED <<invoices, work>>, \A r \in Runs : run'[r].created = run[r].created
        PROVE  AllCovered'
    BY <1>4 DEF AllCovered, Claims, Pending
  <1>5. ASSUME NEW r \in Runs, CreateRun(r)
        PROVE  AllCovered'
    BY <1>1, <1>4, <1>5 DEF CreateRun, TypeOK
  <1>6. CASE UNCHANGED <<invoices, work, run>>
    BY <1>4, <1>6
  <1>7. ASSUME NEW r \in Runs, EnqueueRun(r) \/ LoseRequest(r) \/ Stall(r)
        PROVE  AllCovered'
    BY <1>6, <1>7 DEF EnqueueRun, LoseRequest, Stall
  <1>8. CASE ClassChanges
    BY <1>6, <1>8 DEF ClassChanges, Enroll, DefineStructure
  <1>9. CASE UNCHANGED vars
    BY <1>6, <1>9 DEF vars
  <1> QED
    BY <1>2, <1>3, <1>5, <1>7, <1>8, <1>9 DEF Next

-----------------------------------------------------------------------------
(* The theorems. *)

(* The invariant holds in every state, however deliveries overlap. *)
THEOREM Invariance == Spec => []RunsInv
  <1> QED
    BY InitInv, NextInv, PTL DEF Spec

(* The rows, the job and its retry counters keep their ranges: the queue never
   retries more than it may, and the count of skipped invoices, a difference
   of two cardinalities, is never negative (createInvoices). *)
THEOREM TypeCorrect == Spec => []TypeOK
  <1>1. RunsInv => TypeOK
    BY DEF RunsInv
  <1> QED
    BY <1>1, Invariance, PTL

(* A completed delivery has invoiced everyone who stayed in place since it
   began, however many deliveries and runs overlap with it (the processor of
   the generation job). *)
THEOREM CompletedMeansInvoicedAlways == Spec => []CompletedMeansInvoiced
  <1>1. RunsInv => CompletedMeansInvoiced
    BY DEF RunsInv, AllAccounted, Accounted, CompletedMeansInvoiced
  <1> QED
    BY <1>1, Invariance, PTL

(* However runs and deliveries overlap, die and are repeated, what the runs
   claim to have created never adds up to more invoices than there are
   (createInvoices and finishRun). *)
THEOREM ClaimsCoveredAlways == Spec => []ClaimsCovered
  <1>1. Init => RunsInv /\ AllCovered
    BY InitInv, InitCovered
  <1>2. RunsInv /\ AllCovered /\ [Next]_vars => (RunsInv /\ AllCovered)'
    BY NextInv, NextCovered
  <1>3. RunsInv /\ AllCovered => ClaimsCovered
    <2> SUFFICES ASSUME RunsInv, AllCovered
                 PROVE  Sum(Claims) <= Sum(invoices)
      BY DEF ClaimsCovered
    <2>1. Sum(Claims) \in Nat /\ Sum(Pending) \in Nat /\ Sum(invoices) \in Nat
      BY SummandTypes, Finite, SumCounts DEF RunsInv, TypeOK
    <2> QED
      BY <2>1 DEF AllCovered
  <1> QED
    BY <1>1, <1>2, <1>3, PTL DEF Spec
=============================================================================
