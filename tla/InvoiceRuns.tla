---------------------------- MODULE InvoiceRuns -----------------------------
(***************************************************************************)
(* Invoice generation for ONE class and year: the route that creates a run  *)
(* and enqueues its job, the job queue that delivers the job to a worker,   *)
(* and the processor that reads the class's fee structures and rosters and  *)
(* writes the invoices, while students move and structures are defined.     *)
(*                                                                          *)
(* The queue (BullMQ) is external.  It delivers a job again when an attempt *)
(* threw, and once when the worker holding it went silent; a silent worker  *)
(* may still be running.  A delivery <<r, d>> is the d-th of run r's job.   *)
(***************************************************************************)
EXTENDS Integers, FiniteSetsExt

CONSTANTS
  Runs, Students, Structures,
  Sections,       \* the sections of the class
  None,           \* not enrolled in the class
  MaxAttempts,    \* attempts of a job that throws
  MaxStalls       \* deliveries again after a silent worker

ASSUME InvoiceRunsAssumption ==
  /\ IsFiniteSet(Runs)
  /\ IsFiniteSet(Students) /\ IsFiniteSet(Structures) /\ IsFiniteSet(Sections)
  /\ None \notin Sections
  /\ MaxAttempts \in Nat \ {0} /\ MaxStalls \in Nat

MaxDeliveries == MaxAttempts + MaxStalls
Deliveries == Runs \X (1 .. MaxDeliveries)
Pairs      == Students \X Structures

VARIABLES
  section,    \* the section a student is enrolled in
  defined,    \* the fee structures of the class
  invoices,   \* how many invoices there are for a student and a structure
  run,        \* fee_generation_runs
  request,    \* how far the route has come with a run
  job,        \* the job of a run, in the queue
  delivered,  \* how often it was delivered
  failures,   \* how often an attempt threw
  stalls,     \* how often it was taken from a silent worker
  work,       \* what a delivery's processor has done
  present,    \* history: the pairs there were since a delivery began
  moved       \* history: the students moved since

queue       == <<job, delivered, failures, stalls>>
environment == <<section, defined>>
history     == <<present, moved>>
vars        == <<environment, invoices, run, request, queue, work, history>>

RunStatuses == {"absent", "pending", "running", "completed", "failed"}
Reading     == {"marked", "reading"}
Working     == {"started", "inserted", "failing", "completed", "failed"} \cup Reading
WorkStages  == {"idle", "acknowledged", "thrown", "dead"} \cup Working

NoWork == [stage |-> "idle", structures |-> {}, unread |-> {}, students |-> {},
           created |-> 0, skipped |-> 0]

TypeOK ==
  /\ section \in [Students -> Sections \cup {None}]
  /\ defined \in SUBSET Structures
  /\ invoices \in [Pairs -> Nat]
  /\ run \in [Runs -> [status : RunStatuses, created : Nat, skipped : Nat]]
  /\ request \in [Runs -> {"new", "created", "accepted", "lost"}]
  /\ job \in [Runs -> {"absent", "queued", "active", "done", "dead"}]
  /\ delivered \in [Runs -> 0 .. MaxDeliveries]
  /\ failures \in [Runs -> 0 .. MaxAttempts]
  /\ stalls \in [Runs -> 0 .. MaxStalls]
  /\ work \in [Deliveries -> [stage : WorkStages, structures : SUBSET Structures,
                              unread : SUBSET Sections,
                              students : SUBSET (Students \X Sections),
                              created : Nat, skipped : Nat]]
  /\ present \in [Deliveries -> SUBSET Pairs]
  /\ moved \in [Deliveries -> SUBSET Students]

Init ==
  /\ section \in [Students -> Sections \cup {None}]
  /\ defined \in SUBSET Structures
  /\ invoices = [p \in Pairs |-> 0]
  /\ run = [r \in Runs |-> [status |-> "absent", created |-> 0, skipped |-> 0]]
  /\ request = [r \in Runs |-> "new"]
  /\ job = [r \in Runs |-> "absent"]
  /\ delivered = [r \in Runs |-> 0]
  /\ failures = [r \in Runs |-> 0]
  /\ stalls = [r \in Runs |-> 0]
  /\ work = [d \in Deliveries |-> NoWork]
  /\ present = [d \in Deliveries |-> {}]
  /\ moved = [d \in Deliveries |-> {}]

-----------------------------------------------------------------------------
(* The class changes meanwhile: PeopleService.enroll and createStructure. *)

Begun(d) == work[d].stage \in Working \ {"failing", "failed"}

(* A transfer ends one enrollment and opens the next in one transaction;
   a transfer to another class leaves None. *)
Enroll(st, sec) ==
  /\ section[st] # sec
  /\ section' = [section EXCEPT ![st] = sec]
  /\ moved' = [d \in Deliveries |-> IF Begun(d) THEN moved[d] \cup {st} ELSE {}]
  /\ present' = IF sec = None
                THEN [d \in Deliveries |-> {p \in present[d] : p[1] # st}] ELSE present
  /\ UNCHANGED <<defined, invoices, run, request, queue, work>>

DefineStructure(f) ==
  /\ f \notin defined
  /\ defined' = defined \cup {f}
  /\ UNCHANGED <<section, invoices, run, request, queue, work, history>>

-----------------------------------------------------------------------------
(* The route: the run row is committed, then the job is added. *)

CreateRun(r) ==
  /\ request[r] = "new"
  /\ request' = [request EXCEPT ![r] = "created"]
  /\ run' = [run EXCEPT ![r].status = "pending"]
  /\ UNCHANGED <<environment, invoices, queue, work, history>>

EnqueueRun(r) ==
  /\ request[r] = "created"
  /\ request' = [request EXCEPT ![r] = "accepted"]
  /\ job' = [job EXCEPT ![r] = "queued"]
  /\ UNCHANGED <<environment, invoices, run, delivered, failures, stalls, work, history>>

(* A crash, or a queue that cannot be reached: no job for the run. *)
LoseRequest(r) ==
  /\ request[r] = "created"
  /\ request' = [request EXCEPT ![r] = "lost"]
  /\ UNCHANGED <<environment, invoices, run, queue, work, history>>

-----------------------------------------------------------------------------
(* The processor.  d is the delivery; its run is d[1]. *)

Goto(d, stage) == work' = [work EXCEPT ![d].stage = stage]

(* The processor's variables are gone with it. *)
Leave(d, stage) ==
  /\ work' = [work EXCEPT ![d] = [NoWork EXCEPT !.stage = stage]]
  /\ present' = [present EXCEPT ![d] = {}]
  /\ moved' = [moved EXCEPT ![d] = {}]

Deliver(r) ==
  /\ job[r] = "queued" /\ delivered[r] < MaxDeliveries
  /\ delivered' = [delivered EXCEPT ![r] = @ + 1]
  /\ job' = [job EXCEPT ![r] = "active"]
  /\ Goto(<<r, delivered[r] + 1>>, "started")
  /\ present' = [present EXCEPT ![<<r, delivered[r] + 1>>] =
                   {p \in Pairs : section[p[1]] # None /\ p[2] \in defined}]
  /\ UNCHANGED <<environment, invoices, run, request, failures, stalls, moved>>

MarkRunning(d) ==
  /\ work[d].stage = "started"
  /\ run' = [run EXCEPT ![d[1]].status = "running"]
  /\ Goto(d, "marked")
  /\ UNCHANGED <<environment, invoices, request, queue, history>>

ListStructures(d) ==
  /\ work[d].stage = "marked"
  /\ work' = [work EXCEPT ![d].stage = "reading", ![d].structures = defined,
                          ![d].unread = Sections]
  /\ UNCHANGED <<environment, invoices, run, request, queue, history>>

Enrolled(sec) == {st \in Students : section[st] = sec}

(* One roster after the other: a student moved in between is in both, or in
   neither. *)
ReadRoster(d) ==
  /\ work[d].stage = "reading"
  /\ \E sec \in work[d].unread :
       work' = [work EXCEPT ![d].unread = @ \ {sec},
                            ![d].students = @ \cup {<<st, sec>> : st \in Enrolled(sec)}]
  /\ UNCHANGED <<environment, invoices, run, request, queue, history>>

(* The rows of the INSERT, and the pairs they are for. *)
Rows(d)    == work[d].students \X work[d].structures
Targets(d) == {<<x[1][1], x[2]>> : x \in Rows(d)}

NewPairs(d) == {p \in Targets(d) : invoices[p] = 0}

(* One INSERT ... ON CONFLICT DO NOTHING for all rows. *)
Insert(d, created, skipped) ==
  /\ work[d].stage = "reading"
  /\ invoices' = [p \in Pairs |-> IF p \in Targets(d) THEN 1 ELSE invoices[p]]
  /\ work' = [work EXCEPT ![d] = [NoWork EXCEPT !.stage = "inserted", !.created = created,
                                                !.skipped = skipped]]
  /\ UNCHANGED <<environment, run, request, queue, history>>

(* Mutation: rows that were already there are counted as created. *)
InsertCountingAll(d) ==
  work[d].unread = {} /\ Insert(d, Cardinality(Rows(d)), 0)

(* Mutation: the insert starts before the last roster is read. *)
InsertEarly(d) ==
  Insert(d, Cardinality(NewPairs(d)), Cardinality(Rows(d)) - Cardinality(NewPairs(d)))

CreateInvoices(d) ==
  /\ work[d].unread = {}
  /\ Insert(d, Cardinality(NewPairs(d)), Cardinality(Rows(d)) - Cardinality(NewPairs(d)))

FinishCompleted(d) ==
  /\ work[d].stage = "inserted"
  /\ run' = [run EXCEPT ![d[1]] = [status |-> "completed", created |-> work[d].created,
                                   skipped |-> work[d].skipped]]
  /\ Goto(d, "completed")
  /\ UNCHANGED <<environment, invoices, request, queue, history>>

(* A statement of the try block throws. *)
Fail(d) ==
  /\ work[d].stage \in Reading \cup {"inserted"}
  /\ Leave(d, "failing")
  /\ UNCHANGED <<environment, invoices, run, request, queue>>

(* Mutation: the error is swallowed and not recorded. *)
FinishSilently(d) ==
  /\ work[d].stage = "failing"
  /\ Goto(d, "failed")
  /\ UNCHANGED <<environment, invoices, run, request, queue, history>>

(* The error is recorded and swallowed: the queue sees a success. *)
FinishFailed(d) ==
  /\ work[d].stage = "failing"
  /\ run' = [run EXCEPT ![d[1]] = [status |-> "failed", created |-> 0, skipped |-> 0]]
  /\ Goto(d, "failed")
  /\ UNCHANGED <<environment, invoices, request, queue, history>>

-----------------------------------------------------------------------------
(* The queue.  Only the worker that holds the job moves it on. *)

Holds(d) == job[d[1]] = "active" /\ d[2] = delivered[d[1]]

Acknowledge(d) ==
  /\ work[d].stage \in {"completed", "failed"}
  /\ Leave(d, "acknowledged")
  /\ job' = IF Holds(d) THEN [job EXCEPT ![d[1]] = "done"] ELSE job
  /\ UNCHANGED <<environment, invoices, run, request, delivered, failures, stalls>>

(* What is outside the try block throws: getRun, markRunning, and the
   finishRun of the catch block.  The queue tries again, MaxAttempts times. *)
Throw(d) ==
  /\ work[d].stage \in {"started", "failing"}
  /\ Leave(d, "thrown")
  /\ IF Holds(d)
     THEN /\ failures' = [failures EXCEPT ![d[1]] = @ + 1]
          /\ job' = [job EXCEPT ![d[1]] = IF failures[d[1]] + 1 < MaxAttempts
                                          THEN "queued" ELSE "dead"]
     ELSE UNCHANGED <<failures, job>>
  /\ UNCHANGED <<environment, invoices, run, request, delivered, stalls>>

Die(d) ==
  /\ work[d].stage \in Working
  /\ Leave(d, "dead")
  /\ UNCHANGED <<environment, invoices, run, request, queue>>

(* The job's lock expires: its worker died, or was too busy to renew it. *)
Stall(r) ==
  /\ job[r] = "active"
  /\ IF stalls[r] < MaxStalls
     THEN /\ stalls' = [stalls EXCEPT ![r] = @ + 1]
          /\ job' = [job EXCEPT ![r] = "queued"]
     ELSE /\ job' = [job EXCEPT ![r] = "dead"]
          /\ UNCHANGED stalls
  /\ UNCHANGED <<environment, invoices, run, request, delivered, failures, work, history>>
-----------------------------------------------------------------------------
Process(d) ==
  \/ MarkRunning(d) \/ ListStructures(d) \/ ReadRoster(d) \/ CreateInvoices(d)
  \/ FinishCompleted(d) \/ FinishFailed(d) \/ Acknowledge(d)

ClassChanges ==
  \/ \E st \in Students, sec \in Sections \cup {None} : Enroll(st, sec)
  \/ \E f \in Structures : DefineStructure(f)

Next ==
  \/ ClassChanges
  \/ \E r \in Runs : CreateRun(r) \/ EnqueueRun(r) \/ LoseRequest(r) \/ Deliver(r) \/ Stall(r)
  \/ \E d \in Deliveries : Process(d) \/ Fail(d) \/ Throw(d) \/ Die(d)

Spec == Init /\ [][Next]_vars

(* A live worker goes on, the queue hands out what is queued, and it notices
   a job whose worker is dead.  Nothing is assumed of requests, failures and
   deaths. *)
WorkerDead(r) == job[r] = "active" /\ work[<<r, delivered[r]>>].stage = "dead"

Fairness ==
  /\ \A r \in Runs : WF_vars(Deliver(r)) /\ WF_vars(WorkerDead(r) /\ Stall(r))
  /\ \A d \in Deliveries : WF_vars(Process(d))

FairSpec == Spec /\ Fairness
-----------------------------------------------------------------------------
(* Properties *)

(* A delivery that reports completion has invoiced, once and for every
   structure, everyone who stayed in a section of the class since it began:
   only those who moved while it read can be missing (the processor). *)
CompletedMeansInvoiced ==
  \A d \in Deliveries : work[d].stage = "completed" =>
    \A p \in present[d] : p[1] \in moved[d] \/ invoices[p] = 1

Sum(f) == MapThenSumSet(LAMBDA x : f[x], DOMAIN f)
Claims == [r \in Runs |-> run[r].created]

(* The runs never claim more invoices than there are: no invoice is counted
   by two runs or by two deliveries of one (finishRun). *)
ClaimsCovered == Sum(Claims) <= Sum(invoices)

(* Whenever a run's job waits in the queue, the run still reaches an end,
   completed or failed, although attempts throw and workers die, unless the
   queue gives the job up.  It need not stay there: a late worker may mark an
   ended run running again (markRunning), and then die. *)
EnqueuedRunEnds ==
  \A r \in Runs : job[r] = "queued" ~> run[r].status \in {"completed", "failed"}
                                       \/ job[r] = "dead"
=============================================================================
