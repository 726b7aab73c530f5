------------------------------ MODULE Imports ------------------------------
(***************************************************************************)
(* CSV imports of students into one college: the request that stores the    *)
(* file and enqueues a job, and the processor that checks the rows, inserts *)
(* students and enrollments row by row, and records the outcome.  Imports   *)
(* overlap; a delivery <<i, d>> is the d-th of import i's job, which the     *)
(* queue repeats when an attempt threw, died or went silent (and may still  *)
(* run).  InvoiceRuns has the queue's own rules.                            *)
(*                                                                          *)
(* A row is named by its admission number.  The rows of a file are taken in *)
(* any order.  A teacher import is one whose rows ask for no enrollment.    *)
(***************************************************************************)
EXTENDS Integers, FiniteSets

CONSTANTS
  Imports, Numbers,
  Enrolling,      \* the numbers whose rows have the enrollment columns
  Nobody,         \* a student no import created
  MaxDeliveries,  \* bound on the deliveries of an import's job
  MaxFaults       \* bound: throws, deaths and failed enrollments in all

ASSUME ImportsAssumption ==
  /\ Enrolling \subseteq Numbers /\ Nobody \notin Imports
  /\ MaxDeliveries \in [Imports -> Nat \ {0}] /\ MaxFaults \in Nat

Deliveries == UNION {{i} \X (1 .. MaxDeliveries[i]) : i \in Imports}

VARIABLES
  source,     \* the import a student came from; undefined numbers have no student
  enrolled,   \* the students with an enrollment
  file,       \* the rows of an import's file that parse
  dry,        \* the imports that are dry runs
  imp,        \* ppl_imports: status and outcome
  enqueued,   \* the imports whose job is in the queue
  delivered,  \* how often a job was delivered
  work,       \* what a delivery's processor has done
  audits,     \* the completed-import entries in the audit log, per import
  faults

students == <<source, enrolled>>
queue    == <<enqueued, delivered>>
vars     == <<students, file, dry, imp, queue, work, audits, faults>>

Ended   == {"acknowledged", "thrown", "dead"}
Running == {"read", "marked", "rows", "enroll", "progress", "finished", "failing"}
Idle    == [stage |-> "idle", todo |-> {}, row |-> {}, ok |-> {}, errors |-> {}]

Import == [status : {"absent", "pending", "running", "completed", "failed"},
           ok : SUBSET Numbers, errors : SUBSET Numbers, processed : SUBSET Numbers]

Delivery == [stage : {"idle"} \cup Running \cup Ended, todo : SUBSET Numbers,
             row : SUBSET Numbers, ok : SUBSET Numbers, errors : SUBSET Numbers]

ImportsTypeOK ==
  /\ DOMAIN source \subseteq Numbers /\ \A n \in DOMAIN source : source[n] \in Imports \cup {Nobody}
  /\ enrolled \subseteq DOMAIN source
  /\ file \in [Imports -> SUBSET Numbers] /\ dry \subseteq Imports
  /\ imp \in [Imports -> Import]
  /\ enqueued \subseteq Imports
  /\ delivered \in [Imports -> Nat] /\ \A i \in Imports : delivered[i] <= MaxDeliveries[i]
  /\ work \in [Deliveries -> Delivery]
  /\ audits \in [Imports -> Nat] /\ faults \in 0 .. MaxFaults

(* A college with students, and no import yet. *)
Init ==
  /\ source \in UNION {[N -> {Nobody}] : N \in SUBSET Numbers}
  /\ enrolled = DOMAIN source
  /\ file = [i \in Imports |-> {}] /\ dry = {}
  /\ imp = [i \in Imports |-> [status |-> "absent", ok |-> {}, errors |-> {}, processed |-> {}]]
  /\ enqueued = {} /\ delivered = [i \in Imports |-> 0]
  /\ work = [w \in Deliveries |-> Idle]
  /\ audits = [i \in Imports |-> 0] /\ faults = 0

-----------------------------------------------------------------------------
(* The request.  It may die before it enqueues. *)

Create(i) ==
  /\ imp[i].status = "absent"
  /\ imp' = [imp EXCEPT ![i].status = "pending"]
  /\ \E rows \in SUBSET Numbers \ {{}} : file' = [file EXCEPT ![i] = rows]
  /\ dry' \in {dry, dry \cup {i}}
  /\ UNCHANGED <<students, queue, work, audits, faults>>

Enqueue(i) ==
  /\ imp[i].status = "pending" /\ i \notin enqueued
  /\ enqueued' = enqueued \cup {i}
  /\ UNCHANGED <<students, file, dry, imp, delivered, work, audits, faults>>

(* The next delivery, when there was none, or the last one did not finish
   its job: it may be running still. *)
Deliver(i) ==
  LET d == delivered[i] + 1 IN
  /\ i \in enqueued /\ d <= MaxDeliveries[i]
  /\ d > 1 => work[<<i, d - 1>>].stage # "acknowledged"
  /\ delivered' = [delivered EXCEPT ![i] = d]
  /\ work' = [work EXCEPT ![<<i, d>>].stage = IF imp[i].status = "completed" THEN "acknowledged" ELSE "read"]
  /\ UNCHANGED <<students, file, dry, imp, enqueued, audits, faults>>

-----------------------------------------------------------------------------
(* ImportService.run and processStudents *)

At(w, stage) == work[w].stage = stage
To(w, stage) == work' = [work EXCEPT ![w].stage = stage]

MarkRunning(w) ==
  /\ At(w, "read")
  /\ imp' = [imp EXCEPT ![w[1]].status = "running"]
  /\ To(w, "marked")
  /\ UNCHANGED <<students, file, dry, queue, audits, faults>>

(* The numbers that exist are looked up once for the whole file; a dry run
   ends here. *)
Check(w) ==
  LET i == w[1] existing == file[i] \cap DOMAIN source applicable == file[i] \ existing IN
  /\ At(w, "marked")
  /\ work' = [work EXCEPT ![w] = [stage  |-> "rows", row |-> {}, errors |-> existing,
                                  todo   |-> IF i \in dry THEN {} ELSE applicable,
                                  ok     |-> IF i \in dry THEN applicable ELSE {}]]
  /\ UNCHANGED <<students, file, dry, imp, queue, audits, faults>>

(* A row is taken from those to do, and ends up imported, in error, or half
   done. *)
Tried(w, row, stage, ok, errors) ==
  work' = [work EXCEPT ![w] = [stage |-> stage, todo |-> work[w].todo \ row, row |-> row,
                               ok |-> work[w].ok \cup ok, errors |-> work[w].errors \cup errors]]

Add(n, i) == source' = [m \in DOMAIN source \cup {n} |-> IF m = n THEN i ELSE source[m]]

(* Mutation: a number that has come into use meanwhile counts as imported. *)
InsertOrIgnore(w, n) ==
  /\ At(w, "rows") /\ n \in work[w].todo
  /\ IF n \in DOMAIN source THEN UNCHANGED source ELSE Add(n, w[1])
  /\ IF n \in Enrolling \ enrolled THEN Tried(w, {n}, "enroll", {}, {})
                                   ELSE Tried(w, {n}, "progress", {n}, {})
  /\ UNCHANGED <<enrolled, file, dry, imp, queue, audits, faults>>

(* createStudent: the unique index turns a number that has come into use
   meanwhile into a row error. *)
Insert(w, n) ==
  /\ At(w, "rows") /\ n \in work[w].todo
  /\ \/ n \in DOMAIN source /\ UNCHANGED source /\ Tried(w, {n}, "progress", {}, {n})
     \/ /\ n \notin DOMAIN source /\ Add(n, w[1])
        /\ IF n \in Enrolling THEN Tried(w, {n}, "enroll", {}, {})
                              ELSE Tried(w, {n}, "progress", {n}, {})
  /\ UNCHANGED <<enrolled, file, dry, imp, queue, audits, faults>>

(* Any other failure of the insertion is a row error too. *)
InsertFails(w, n) ==
  /\ At(w, "rows") /\ n \in work[w].todo /\ faults < MaxFaults
  /\ faults' = faults + 1
  /\ Tried(w, {n}, "progress", {}, {n})
  /\ UNCHANGED <<students, file, dry, imp, queue, audits>>

Enroll(w) ==
  /\ At(w, "enroll")
  /\ enrolled' = enrolled \cup work[w].row
  /\ Tried(w, work[w].row, "progress", work[w].row, {})
  /\ UNCHANGED <<source, file, dry, imp, queue, audits, faults>>

(* Mutation: the row is counted although its enrollment failed. *)
EnrollFailsCounted(w) ==
  /\ At(w, "enroll") /\ faults < MaxFaults
  /\ faults' = faults + 1
  /\ Tried(w, work[w].row, "progress", work[w].row, work[w].row)
  /\ UNCHANGED <<students, file, dry, imp, queue, audits>>

(* "student created but enrollment failed" *)
EnrollFails(w) ==
  /\ At(w, "enroll") /\ faults < MaxFaults
  /\ faults' = faults + 1
  /\ Tried(w, work[w].row, "progress", {}, work[w].row)
  /\ UNCHANGED <<students, file, dry, imp, queue, audits>>

(* updateProgress counts the rows that were checked or tried. *)
Progress(w) ==
  /\ At(w, "progress")
  /\ imp' = [imp EXCEPT ![w[1]].processed = work[w].ok \cup work[w].errors]
  /\ To(w, "rows")
  /\ UNCHANGED <<students, file, dry, queue, audits, faults>>

Finish(w) ==
  /\ At(w, "rows") /\ work[w].todo = {}
  /\ imp' = [imp EXCEPT ![w[1]] = [status |-> "completed", ok |-> work[w].ok,
                                   errors |-> work[w].errors, processed |-> file[w[1]]]]
  /\ To(w, "finished")
  /\ UNCHANGED <<students, file, dry, queue, audits, faults>>

Audit(w) ==
  /\ At(w, "finished")
  /\ audits' = [audits EXCEPT ![w[1]] = @ + 1]
  /\ To(w, "acknowledged")
  /\ UNCHANGED <<students, file, dry, imp, queue, faults>>

(* Any call of the try block throws, the audit's too; those about a row are
   caught with the row. *)
Throw(w) ==
  /\ \/ work[w].stage \in {"marked", "progress", "finished"}
     \/ At(w, "rows") /\ work[w].todo = {}
  /\ faults < MaxFaults
  /\ faults' = faults + 1
  /\ To(w, "failing")
  /\ UNCHANGED <<students, file, dry, imp, queue, audits>>

(* Mutation: only an import that is still running is marked failed. *)
FailRunning(w) ==
  /\ At(w, "failing")
  /\ imp' = IF imp[w[1]].status # "running" THEN imp ELSE
              [imp EXCEPT ![w[1]] = [status |-> "failed", ok |-> {}, errors |-> {}, processed |-> {}]]
  /\ To(w, "thrown")
  /\ UNCHANGED <<students, file, dry, queue, audits, faults>>

(* The catch block: the counts are zero, whatever was written. *)
FinishFailed(w) ==
  /\ At(w, "failing")
  /\ imp' = [imp EXCEPT ![w[1]] = [status |-> "failed", ok |-> {}, errors |-> {}, processed |-> {}]]
  /\ To(w, "thrown")
  /\ UNCHANGED <<students, file, dry, queue, audits, faults>>

(* A process dies, or a call outside the try block throws. *)
Die(w) ==
  /\ work[w].stage \in Running /\ faults < MaxFaults
  /\ faults' = faults + 1
  /\ To(w, "dead")
  /\ UNCHANGED <<students, file, dry, imp, queue, audits>>

Process(w) ==
  \/ MarkRunning(w) \/ Check(w) \/ (\E n \in Numbers : Insert(w, n)) \/ Enroll(w)
  \/ Progress(w) \/ Finish(w) \/ Audit(w) \/ FinishFailed(w)

Next ==
  \/ \E i \in Imports : Create(i) \/ Enqueue(i) \/ Deliver(i)
  \/ \E w \in Deliveries : Process(w) \/ (\E n \in Numbers : InsertFails(w, n)) \/ EnrollFails(w) \/ Throw(w) \/ Die(w)

Spec == Init /\ [][Next]_vars

-----------------------------------------------------------------------------
(* A completed import accounts for every row once, as imported or as an
   error, and a dry run leaves every student alone. *)
EveryRowAccounted ==
  \A i \in Imports : imp[i].status = "completed" =>
    imp[i].ok \cup imp[i].errors = file[i] /\ imp[i].ok \cap imp[i].errors = {}

DryRunsWriteNothing == \A n \in DOMAIN source : source[n] \notin dry

ImportsInv == ImportsTypeOK /\ EveryRowAccounted /\ DryRunsWriteNothing

(* The rows a completed import reports as imported are students it created,
   with the enrollment their row asked for; a student that two imports raced
   to create is in the report of one of them. *)
ImportedRowsAreThere ==
  \A i \in Imports \ dry : \A n \in imp[i].ok :
    n \in DOMAIN source /\ source[n] = i /\ (n \in Enrolling => n \in enrolled)

(* As long as its job was delivered once, an import's status, its audit entry
   and its report agree with what it did: whatever it created is reported,
   as imported or with the error that the enrollment failed.  A job that is
   delivered again reports its own students as errors, "already exists". *)
SingleDeliveryTellsAll ==
  \A i \in Imports : delivered[i] = 1 =>
    /\ At(<<i, 1>>, "acknowledged") => imp[i].status = "completed" /\ audits[i] = 1
    /\ At(<<i, 1>>, "thrown") => imp[i].status = "failed" /\ audits[i] = 0
    /\ imp[i].status = "completed" =>
         /\ imp[i].processed = file[i]
         /\ \A n \in DOMAIN source : source[n] = i =>
              n \in (IF n \in Enrolling \ enrolled THEN imp[i].errors ELSE imp[i].ok)
=============================================================================
