# Verification of Vidya ERP in TLA+

Vidya ERP is a modular monolith in TypeScript: one web process and one worker
process over PostgreSQL (through Drizzle, at READ COMMITTED), Redis (sessions,
counters, and the BullMQ queue) and an object store. A module owns its tables and
reaches another module only through contracts. So the hard behaviour is seldom
inside one function; it is between two HTTP requests whose statements interleave,
between a row in PostgreSQL and a key in Redis that no transaction covers, and
between a job and the second delivery of the same job.

This directory models that behaviour. It contains state machines checked by TLC,
abstract specifications that detailed ones implement, and theorems proved by
TLAPS for every value of the constants. Everything is translated from the code
under `src/`; `PROJECT.json` names the lines each definition stands for.

Contents: [the system](#the-system) · [how to run](#how-to-run) ·
[fee ledger](#the-fee-ledger) · [sessions](#sessions) ·
[password reset](#password-reset) · [rate limits](#rate-limits) ·
[invoice generation](#invoice-generation) · [imports](#imports) ·
[school terms and results](#school-terms-and-results) · [report cards](#report-cards) ·
[guardians](#guardians) · [derived grants](#derived-grants) ·
[what is proved](#what-is-proved) · [findings](#findings) ·
[what is only checked](#what-is-only-model-checked) · [not modelled](#not-modelled)

## The system

Paths are under `src/packages/` unless they begin with `src/`. "Modelled" names the
module; [not modelled](#not-modelled) gives the reason for the components without one.

| Component | State it keeps | Operations | What is hard | What makes it correct | Modelled |
|---|---|---|---|---|---|
| **Fee ledger**: `modules/fees/src/{repo,handlers,money}.ts` | `fee_invoices.status`, `fee_payments`, `fee_adjustments`, `fee_receipt_counters` | record a payment (idempotent by key), add an adjustment (scholarship, fine, refund, waiver) | two transactions on one invoice or one counter; retries after a lost answer; a unique index that fires late; rollback at any statement | receipts without gap or duplicate, one payment per key, status follows from the rows, no refund beyond what was paid, one audit row per row | `FeesLedger`, `FeesBook` |
| **Invoice generation**: `modules/fees/src/generate-job.ts`, `platform/src/queue/queue.ts` | `fee_generation_runs`, invoices, the job | create a run, enqueue, process, finish | duplicate and overlapping deliveries, a roster that changes while it is read, errors that the queue never sees | a completed run has invoiced everyone, no invoice is claimed twice, every queued run ends | `InvoiceRuns` |
| **Fee administration and reports**: `modules/fees/src/handlers.ts` | heads, structures | create, list, defaulters, collection | none beyond unique constraints | – | structures in `InvoiceRuns` |
| **Login and sessions**: `modules/identity/src/{service/auth-service,core/session-manager}.ts` | `idn:session:*`, `idn:user-sessions:*` in Redis | login (with rehash), logout, change of password, validate and slide, invalidate all | an authority snapshot taken in one store and revoked in another, with no transaction over both | a session holds the account's current authority; invalidation ends every session | `Sessions` |
| **User administration**: `modules/identity/src/{service/users-service,repo/users-repo}.ts` | user row, roles, grants | set roles, add and remove grants, status, password; create; bootstrap the first administrator | each change is followed by an invalidation in another store; cascades | an account's sessions never outlive a change; grants belong to roles held | `Sessions`; creation is not |
| **Password reset tokens**: `modules/identity/src/repo/reset-tokens-repo.ts` | token rows | issue, redeem, clean up | find, mark used and set password are three steps | a dead token sets no password; nobody stays signed in with an old one | `PasswordReset` |
| **Login throttle, rate limits**: `modules/identity/src/service/throttle.ts`, `platform/src/ratelimit/limiter.ts` | counters with an expiry | count, lock, reset | INCR and EXPIRE are two commands | a lock ends; no more than the limit per window | `PasswordReset`, `RateLimits` |
| **Teaching assignments, derived grants**: `modules/people/src/service/assignments-service.ts`, `modules/identity/src/service/derived-grants.ts` | assignment rows in one module, grants in another | create, remove, relink a teacher, reconcile hourly | the second write fails, its compensation fails, reconcile runs against a stale list | a derived grant exists exactly while its assignment does, whoever gains or loses one is logged out | `DerivedGrants` |
| **Role and scope checks**: `modules/identity/src/core/scope-checker.ts` | none (pure) | decide | – | matches the decision table of the access model | no |
| **Guardians**: `modules/people/src/guardians/` | invitations, relationships | invite, claim, verify, revoke | claims race reissue and revocation | a code is claimed once; access is earned; only a code revives what was revoked | `Guardians` |
| **Enrollment, organisation**: `modules/people/src/service/` | enrollments with dates, the org tree | enroll, replace, correct dates | write skew between two corrections | a student's enrollments never overlap | transfers in `InvoiceRuns`, creation in `Imports`, teachers in `DerivedGrants` |
| **CSV imports**: `modules/people/src/service/import-service.ts` | import rows, counters | validate, commit in a job | redelivery after rows were written | a row is imported once | `Imports` |
| **Attendance, marks (college)**: `modules/academics/src/` | sessions, marks | mark, correct, upsert | replace-all under concurrent teachers | the audited "before" is what was replaced | no |
| **School terms and marks**: `modules/school-academics/src/` | terms (open, closed, released), marks | save marks, close, reopen, release | saving races closing; expected scores; compare and set on the calendar version | closed terms do not change; released marks are those that were closed | `SchoolTerms`, `SchoolResults` |
| **School aggregation**: `modules/school-academics/src/aggregation/` | none (pure) | aggregate weighted marks | rounding and missing marks | equals its contract | no |
| **Reports**: `modules/reporting/src/service/report-service.ts` | report rows, stored objects | request, generate in a job, download | retry after the object was stored | a "ready" report has an object | no |
| **Report cards**: `modules/reporting/src/school/` | snapshots, publications | publish, withdraw | an advisory lock per student and term | at most one card is published; families see only published snapshots | `ReportCards`, `PublicationRegister` |
| **Results and grade scales**: `modules/results/src/` | scales, results | publish, edit a scale | "unused" is checked, then changed | a published result keeps its scale | no |
| **Leave**: `modules/leave/src/` | requests | apply, decide, cancel | two deciders | a request is decided once | no |
| **Coursework**: `modules/coursework/src/` | submissions, files, evaluations | submit, resubmit, evaluate | the file is stored before the row is checked | an evaluated submission keeps its file | no |
| **Timetable, exams, syllabus, notices, portal** | own tables | create, read, update, delete | clashes are unique constraints in the database | – | the portal's marks and cards in `SchoolResults`, `ReportCards`; otherwise no |
| **Analytics rollups**: `modules/analytics/src/` | rollup rows | rebuild a year | two builders | the newest build wins | no |
| **System**: `modules/system/src/` | clock watermark, audit rows | observe the clock, write audit rows | read, then unconditional upsert | the mark never moves back | audit of fees in `FeesLedger`; imports in `Imports`; mark no |
| **HTTP pipeline**: `platform/src/http/define-route.ts` | none | guards, handler, audit | the audit follows a mutation already committed | every mutation is audited once | audit step in `FeesLedger`, limiter in `RateLimits` |
| **Platform runtime**: `platform/src/{db/migrator,lifecycle/shutdown,queue,config,license}` | schema history, hooks, jobs | migrate, shut down, enqueue | two runners; a timeout against hooks still running | a migration is applied once; hooks run once, last registered first | queue in `InvoiceRuns` and `Imports`; otherwise no |
| **Web application and UI**: `src/apps/web`, `ui-system` | none | render, post forms | – | – | no |

How the components interact:

* **Calls through contracts.** `fees` asks `people` for sections and rosters;
  `people` gives derived grants to `identity`; `reporting`, `portal` and `analytics`
  read from the others. Every such call is a statement of its own in the caller.
* **The route pipeline.** Each mutation runs: origin guard, rate limit, session,
  authority, validation, handler, audit. The last step runs after the handler's
  transaction, unless the handler says its audit row is already persisted.
* **Redis after PostgreSQL.** Account changes commit first and end sessions after.
* **Jobs.** A route commits a row, then enqueues a job that names it. The worker may
  receive the job more than once, or two workers may hold it at once.

`PROJECT.json` lists every hazard at its line, with the properties that would catch
it, or a note where no property does.

## How to run

    tlc -workers 4 -config FeesLedger.cfg MCFeesLedger
    tlapm FeesLedgerProofs.tla

| Run | Module and cfg | Question | Distinct states |
|---|---|---|---|
| `fees_ledger` | MCFeesLedger, FeesLedger | do the ledger's invariants hold under every interleaving of three requests, and do these look like requests one at a time? | 2 029 376 |
| `fees_ledger_live` | MCFeesLedger, FeesLedgerLive | does every request end? | 31 532 |
| `sessions` | MCSessions, Sessions | where can outdated or orphaned sessions come from? | 2 631 416 |
| `sessions_stale_privilege` | MCSessions, SessionsStalePrivilege | a documented promise, refuted ([findings](#findings)) | – |
| `password_reset` | MCPasswordReset, PasswordReset | what may overlapping redemptions, changes and failures do to a password? | 546 158 |
| `rate_limits` | MCRateLimits, RateLimits | does the budget hold, and does every key go away? | 612 299 |
| `invoice_runs` | MCInvoiceRuns, InvoiceRuns | a run whose job is delivered up to three times: has it invoiced everyone, and does it end? | 925 759 |
| `imports` | MCImports, Imports | do overlapping and repeated imports report what they did? | 1 263 304 |
| `school_results` | MCSchoolResults, SchoolResults | does a closed term stay as it is, and what does a reader see of a term being worked on? | 449 921 |
| `report_cards` | MCReportCards, ReportCards | do racing publications act one at a time, and what is a family given? | 343 056 |
| `guardians` | MCGuardians, Guardians | is access earned when claims, reissues, verifications and revocations race? | 275 680 |
| `derived_grants` | MCDerivedGrants, DerivedGrants | do grants follow assignments, and does the job repair what overlaps and crashes leave? | 674 645 |

With several workers and symmetry the numbers differ a little from run to run.

Operators marked `Mutation:` in the modules are plausible bugs (a lock not taken, a
count swapped, a check forgotten). No specification uses them; for each property
`PROJECT.json` names one that breaks it, so each property is known to be able to fail.

## The fee ledger

| Module | Code |
|---|---|
| `FeesMoney` | `money.ts`: totals, effective paid and due, `computeStatus`, `nextReceiptNo` |
| `FeesRequests` | the request bodies and the conditions of both writers: same key, same request, refund eligibility |
| `FeesBook` | abstract: every request takes effect in one step, or not at all |
| `FeesLedger` | `repo.ts` `recordPayment` and `addAdjustment`, `handlers.ts` around them, the audit step of `define-route.ts` |
| `MCFeesLedger` | instances |

**State.** `ledger`, `receipt`, `status`, `lastIssued` and `audits` are what is
committed. `invoiceLock` and `counterLock` are `SELECT ... FOR UPDATE` row locks.
`draftReceipt` and `draftStatus` are what a transaction computed and has not
committed. `answer` is the row a client is told of. A request's name is also the name
of the row it may write, so `ledger` is a set of requests.

**Actions.** One per statement or decision: `LockInvoice`; for payments
`ReplayPayment`, `RefusePayment`, `AdmitPayment`, `TakeReceiptNo`, `InsertPayment`,
`RefuseDuplicateKey`; for adjustments `AdmitAdjustment`, `RefuseRefund`,
`InsertAdjustment`; then `RecomputeStatus`, `RecordInTransaction`, `Commit`,
`Respond`. `Rollback` can strike at any statement and `LoseAnswer` after the commit.
A retry is another request with the same body. READ COMMITTED appears in the guards:
they read the committed `ledger`, which may change between two statements of one
transaction, wherever a lock does not forbid it.

**What the checks show** (`fees_ledger`):

* `ReceiptsGapFree`: receipt numbers of a college are exactly 1..n, each once.
* `OnePaymentPerKey`: a key buys one payment, also when two requests race with it on
  two invoices, where no lock but only the unique index separates them.
* `AnswersTruthful`: an answer names a recorded row with the asked invoice, amount
  and key; a refused or failed request left no row.
* `StatusMatchesLedger`, `RefundsCovered`: the stored status follows from the committed
  rows, and no refund exceeds what was paid, although both were decided on rows read
  earlier in the transaction.
* `AuditedExactlyOnce`: one audit row for each ledger row, under rollback, replay and
  the pipeline's own audit step.

`NoPaymentOnWaived`, `WaivedIsFinal`, `LocksHeld` and `DraftsSound` are proved and have
no run of their own.

**Refinement.** `ImplementsBook` says `FeesLedger` implements `FeesBook`. A request's
outcome is fixed at its deciding statement (commit, lookup, refusal or rollback); all
other steps stutter. The audit rows are not part of the book.

**Bounds.** Three requests, two invoices of one college, two keys, amounts 1 and 2, an
invoice raised for 2. Conflicts are pairwise: two requests race for a lock, key or
counter, and the third is the retry or the earlier payment that a refund needs. Two
invoices of one college share the counter and the key index while their locks are
distinct. Amounts reach part, full and over-payment. Requests are symmetric.

**Fairness.** Weak fairness on a request's own statements: a running transaction goes
on. Strong fairness on taking a row lock: PostgreSQL grants a row lock in the order it
was asked for, so a waiter is not overtaken for ever. Nothing is assumed of
`Rollback` and `LoseAnswer`. The order of the locks, invoice before counter, makes
waiting acyclic. The live run allows payments and refunds only; the other adjustments
take the same locks and have one guard fewer. `Finished` lets a behaviour end, so
deadlock is checked.

## Sessions

`Sessions` is the life of one account: `account` is its user row, roles and grants in
PostgreSQL, `live` and `index` its session keys and its index set in Redis.

**A login** is: read the user row, verify the (slow) password, perhaps write an
upgraded hash back, read roles and grants (two queries in either order), and issue the
session in one MULTI. **A change** is a write (`SetRoles`, `AddGrant`, `RemoveGrant`,
`Disable`, `SetPassword`, `ChangePassword`), followed by the three Redis commands of
`invalidateAllForUser`: `ListMembers`, `DeleteKeys`, `DeleteIndex`. `Enable` writes and
ends nothing, as in the code. `CrashChange` is a crash, or a Redis failure, between the
write and the last DEL. Any session may be logged out or expire.

The documented promise, that no session outlives a change of authority, is not what
this protocol gives. The modules state both sides:

* what **holds** (`sessions`), and is proved: `SettledSessionsCurrent`, when no change
  is half done and none crashed, a session whose login met no change has exactly the
  account's current roles and grants, and the account is active;
  `PasswordChangeEvicts`, the same for passwords; `OrphansOnlyFromRaces`, a session is
  missing from the index only if it was issued inside an invalidation. The history
  variable `overlapped` collects the logins that met a change or an invalidation.
  Together these say that the races below are the only source of outdated sessions.
* what **does not hold**: see [findings](#findings), and the
  [known limits](#known-limits) that `overlapped` exempts.

**Bounds.** Two logins, two changes, one role, two passwords: two changes are needed
for one invalidation to run into another or to come after the first has dropped an
index entry; two logins to have an orphan next to an ordinary session. One role, held
or not, granted or not, distinguishes every authority the properties compare.
Passwords, logins and changes are symmetric. The
system may stop, so deadlock is not checked.

## Password reset

`PasswordReset` is the password of one account and everything that sets it:
redeeming a token an administrator minted (`confirmReset`), a change by the owner, and a
password set by an administrator. They overlap, and `Crash` ends one between any
two of its steps. The tokens are rows that are minted, expire, are marked used and are
deleted by the hourly clean-up (`Purge`). The address that redeems has a
`FailureThrottle`, one Redis key (`count`, `ttl`) that GET, INCR, EXPIRE and DEL work on
as separate commands, so that overlapping failures read the lock before each other's
INCR.

A password is named by the request that set it, a session by the password it was opened
with. The steps inside a login and inside the end of sessions are in `Sessions`; here
each is one step.

* `DeadStaysDead`: a token that was used, expired, deleted or made up when a redemption
  began sets no password. The look-up and the marking are two statements, so this, and
  not single use, is what holds.
* `SignedInKnowThePassword`: when no request is between its write and the end of the
  sessions, every session was opened with the present password.
* `FewAreTold`: fewer than `MaxAttempts` failures are answered as failures between two
  disappearances of the key, since the answer depends on what INCR returned.
* `SpentBeforeUse` (proved only): no password was set by a token that can still be
  redeemed, wherever requests died.

**Bounds.** Three requests of any kind (two race, the third comes after), one token that
all may hold and one string that is none, a limit of two failures, so that the second is
the one that locks, and one crash. Every further token is independent of the first.

## Rate limits

`RateLimits` is `BackoffLimiter` for one source address, command by command: the
counter of hits in a window, the penalty level, and the block, each a Redis key written by
INCR and EXPIRE. `Tick` is the clock, which ages the keys that have a time to live. A hit
may die between any two commands (`Crash`), and the address comes again (`Again`).
`FixedWindowLimiter` is the first of the three keys alone.

* `RatesInv`: no more hits than the budget pass in one window, and no block is longer
  than the longest, however hits overlap; its first conjunct is the type.
* `NoTrace`: every key that exists is gone some time later, unless a process died. The
  comment of the limiter promises it without that condition.

**Bounds.** Three overlapping hits and two later ones, a budget of one, blocks of one and
two ticks and a memory of three, so that blocks can grow, reach their cap, and be
forgotten; the proof of `RatesInv` covers any values.

**Fairness.** Weak fairness on the clock and on each step of a hit that was
begun. Nothing is assumed of new hits, of which `Rounds` bounds the number.

## Invoice generation

`InvoiceRuns` is one class and one year. The route commits a run (`CreateRun`) and
then adds a job (`EnqueueRun`), or crashes in between (`LoseRequest`). BullMQ is
external, and modelled from how `queue.ts` configures it: it delivers a job
(`Deliver`), again after an attempt threw (`Throw`, up to `MaxAttempts`) and again
after a worker went silent (`Stall`, up to `MaxStalls`). The silent worker may still
run, so two deliveries of one job overlap. The processor marks the run running, lists
the class's structures, reads one roster per section, inserts all invoices in one
`ON CONFLICT DO NOTHING`, and finishes the run; an error is recorded in the run
and swallowed (`FinishFailed`), so the queue sees success. Students move between
sections, and structures are defined, at any moment.

**What the checks show.** `CompletedMeansInvoiced`: a delivery that reports completion
has invoiced everyone who stayed in place since it began, for every structure there
was then. `ClaimsCovered`: the counts reported by runs never add up to more than the
invoices that exist, whatever deliveries and runs overlap. `EnqueuedRunEnds`: a queued
run reaches an end unless the queue gives the job up.

**Bounds.** One student who may move between two sections, two structures, so that a
delivery may see one and miss the other, two attempts and one stall: three deliveries
of one job, of which two or three overlap. The code's third attempt only repeats the
same transition. Two runs overlap as two deliveries do, since only the pair of a student
and a structure is unique in the table; the proofs cover any number of both. A run,
a lost request or a dead job may be the end, so deadlock is not checked.

**Fairness.** Weak fairness on delivering a queued job, on noticing that a dead worker
holds one, and on each step of a live worker. BullMQ's worker loop and its stalled-job
check justify them. Nothing is assumed of requests, failures or deaths.
An "end" reached need not last: a superseded worker may mark an ended run running again
and die. The code has no guard against this; the hazard is listed.

## Imports

`Imports` is CSV imports into one college: the route stores the file and enqueues a job;
each delivery of the job marks the import running, looks up which admission numbers exist,
then inserts students and their enrollments row by row with a progress update after each,
finishes, and writes the audit entry. The queue delivers again after an attempt threw,
died or went silent, and an earlier delivery may still run. Imports race each other for
the same numbers: the unique index turns the loser's row into an error. A teacher import
is one whose rows ask for no enrollment.

* `ImportsInv`: a completed import accounts for each row once, as imported or as an
  error; a dry run creates nobody; and the type.
* `ImportedRowsAreThere`: the rows reported as imported are students this very import
  created, with the enrollment that their row asked for.
* `SingleDeliveryTellsAll`: as long as its job was delivered once, an import's status,
  audit entry and report agree with what it wrote, whatever failed.

**Bounds.** Two imports over two admission numbers, one of which asks for an enrollment,
so that files may overlap in either; one job may be delivered twice; one fault, because
each fault ends or skips what it hits. `InvoiceRuns` has more deliveries of one job; the
proofs cover any number of imports, rows, deliveries and faults.

## School terms and results

`SchoolTerms` is one academic term: its row (open or closed, released, grading scale,
calendar version), its assessment types, the assessments of one class and subject, and
their marks. Every handler reads the term row first (`ReadTerm`) and writes later, in
one UPDATE with a condition or in a transaction that locks the row and checks it again
(`Finish`). The writers are `Close`, `Reopen`, `ReleaseMarks`, `SetCalendar`,
`ReplaceTypes`, `CreateAssessment` and `SaveMarks`. An import of marks carries the
scores it was previewed against. All writers take the row's lock, so a transaction is
one step, and the read before it another.

`SchoolResults` adds readers. `termResultSource` reads the term, the assessments, the
types and the marks in four statements outside any transaction; families are shown a
result if the term row that was read is released, report cards are issued from it.

* `ClosedIsFrozen`: while a term stays closed nothing that a result is computed from
  changes, although writers decided to write when they saw it open.
* `MarksComparable`: every assessment's type is still there, the first assessment
  and nothing else fixes the scale, and each grade was taken from it.
* `NoCalendarLost`: no two saved calendars were based on one version.
* `ImportsSeeTheirPreview`: an import changes no mark that changed after its preview.
* `TypesOfResultKnown`: a reader never holds an assessment of a type it has not read,
  although types can be replaced; the order of its statements is what makes this true.
* `SteadyReadIsExact`: a result read of a term that stays closed is exactly the term, no
  mixture of two moments.

**Bounds.** Two requests, each free to take any action, two of everything else, and one
reader; the initial states are all consistent terms part-way through their year. Each
property relates one earlier decision to one write, or one reader to the writers, and
readers do not affect each other. Everything is symmetric.

## Report cards

`ReportCards` is the issued cards of one pupil and the trail of their publications.
A decision (publish or withdraw) is one transaction: the advisory lock of pupil and
term, a read of the current publication, an event appended and committed; it may fail
and roll back between any of them. The card of the latest event of a term is the one
published. A family's request asks for access and reads the publications in a later
statement, with no lock; meanwhile the guardian may be revoked and linked again.

`PublicationRegister` is what this promises: one register per term, and decisions that
read and write it at one instant or are answered "no".

* `TrailMakesSense`: every event changes what the family sees and is what its decision
  asked for, and a withdrawal follows the publication of that very card.
* `ImplementsRegister`: the interleaved transactions are decisions one after the other
  on the register. A decision takes effect when its event commits, or when it finds that
  there is nothing to change.
* `FamilySeesPublished`: what a family is given was published, all of it at one moment
  of the request, and the guardian was linked at some moment of it.
* `DecisionsEnd`: a decision that was taken up ends.
* `OneEventPerDecision` (proved only): a decision that succeeded is in the trail
  once, and only issued cards are shown.

**Bounds.** Two decisions, two cards of one term and a card of another, so that
decisions meet at one lock or at two; one family request, one new link. **Fairness.**
Weak fairness on a decision's own steps: the advisory lock is released by the end of
any transaction, also a failed one, and there are finitely many decisions.

## Guardians

`Guardians` is the adults of one pupil. Staff issue codes to contacts; an adult activates
a code with a new login or redeems it with an existing one; staff verify and revoke
relationships. Issuing and claiming lock the pupil's row, verifying and revoking do not,
and decide on a relationship they read before. A claim finds its code before the
lock, may create a login in between, then locks, spends the code and counts the live
relationships (`LockAndCount`), and attaches the adult (`Attach`): active while fewer
than `Limit` others are, pending otherwise, pending too for a mere contact whom
staff have not verified.

* `StandingEarned`: at most `Limit` adults have access on their own word, and no mere
  contact has.
* `CodesWorkOnce`: a spent code has one holder, an unspent one has none, and a contact
  never holds two usable codes.
* `OnePrimaryContact`: a pupil has one primary contact among the live relationships.
* `RevivedByCodeOnly`: a revoked relationship becomes live only by a code; a
  verification that was decided before the revocation fails.
* `NeverClaimedTwice` (proved only): a code keeps its holder.

**Bounds.** Two codes, claims, contacts, adults and staff requests, a limit of one: two
claims race for one code or for the last free place, while two staff requests
race each other on either adult. The proofs cover any number.

## Derived grants

`DerivedGrants` is teacher assignments (`people`) and the scope grants derived from them
(`identity`). No transaction spans the two modules. A create inserts the row, then has
the grant written, and deletes the row when that failed (`Undo`); a remove deletes the
grant before the row; linking or deactivating a teacher rewrites the teacher's grants;
an administrator who takes the role away takes the grants with it. Every write of
`DerivedGrantsService` is a step: find the grant, delete it by the id that was found, log
the loser out, add the role, add the grant, log the winner out. The hourly job lists the
assignments, reads the teachers one by one, upserts what is missing, and removes what is
no longer asked for. A process may die between any two steps.

* `GrantsInv`: without overlaps, also after a crash between any two writes, a grant
  belongs to an assignment that is there; and the type.
* `ExactWhenAlone`: without overlaps and crashes, the grants are exactly what the
  assignments ask for whenever nothing runs.
* `JobRepairs`: a run of the job that nothing overlapped leaves the grants exact,
  whatever was there before.
* `EvictedWhenDone`: whoever gained or lost a grant was logged out once the requests
  have ended.

**Bounds.** One assignment of one teacher, two accounts, the job and two requests of any
kind, one crash. Grants of different assignments meet only in the role, which is kept
when a grant goes. The job runs again and again. The proofs cover any number of
assignments, teachers, requests and crashes.

## What is proved

Every safety invariant and every action property that a passing run checks is a theorem;
what stays with TLC is liveness. Each theorem holds for every value of the constants. What
is assumed of these:

| Module | Assumptions |
|---|---|
| `FeesRequests` | `FeesAssumption`: finitely many requests, positive amounts, `None` is no request and no key, each invoice has a college and a positive amount |
| `InvoiceRuns` | `InvoiceRunsAssumption`: finitely many runs, students, sections and structures, at least one attempt, `None` is no section |
| `SchoolTerms` | `NoneAssumption`: `None` is no type, score or scale |
| `ReportCards` | `CardAssumption`, `RelinksAssumption`: each card is of a term, `None` is no card and no decision |
| `Guardians` | `LimitAssumption`, `NobodyAssumption`, `PeopleAssumption`: finitely many adults, at least one contact |
| `Imports` | `ImportsAssumption`: the numbers that ask for an enrollment are numbers, `Nobody` is no import, each job is delivered at least once |
| `DerivedGrants` | `AssignmentAssumption`, `JobAssumption`, `CrashAssumption`: finitely many assignments that could be made, at least one, each of a teacher; finitely many requests, one of which is the job; `None` is no account |
| `RateLimits` | `PolicyAssumption`: a positive window, base, longest block and memory, as the configuration schema demands |
| `PasswordReset` | `NamesAssumption`, `PolicyAssumption`, `CrashAssumption`: a positive limit of attempts |

`Sessions` needs none. TLC evaluates them in every run.

| Module | Theorems |
|---|---|
| `FeesLedgerProofs` | `TypeCorrect`, `Invariance`; from it `ReceiptsGapFreeAlways`, `OnePaymentPerKeyAlways`, `StatusMatchesLedgerAlways`, `RefundsCoveredAlways`, `AnswersTruthfulAlways`, `AuditedExactlyOnceAlways`, `LocksHeldAlways`, `DraftsSoundAlways`; the action properties `NoPaymentOnWaivedEver`, `WaivedIsFinalEver`; `LedgerImplementsBook`: the detailed ledger implements the atomic book |
| `SessionsProofs` | of sessions: `TypeCorrect`, `Invariance`, `SettledSessionsCurrentAlways`, `PasswordChangeEvictsAlways`, `OrphansOnlyFromRacesAlways`; of the rate limiter: `RatesInvAlways` |
| `PasswordResetProofs` | `TypeCorrect`, `Invariance`, `DeadStaysDeadAlways`, `SignedInKnowThePasswordAlways`, `FewAreToldAlways`, `SpentBeforeUseAlways` |
| `InvoiceRunsProofs` | `TypeCorrect`, `Invariance`, `CompletedMeansInvoicedAlways`, `ClaimsCoveredAlways` |
| `SchoolProofs` | of the term: `SchoolInvariance`, `MarksComparableAlways`, `NoCalendarLostAlways`, `ReleasedIsClosedAlways`, and the action properties `ClosedIsFrozenAlways`, `ImportsSeeTheirPreviewAlways`; of the composition with readers: `ReaderInvariance`, `TypesOfResultKnownAlways`, `SteadyReadIsExactAlways`, and `ReadersLeaveTheTerm`: the composition is still a term |
| `ReportCardsProofs` | `TypeCorrect`, `Invariance`, `TrailMakesSenseAlways`, `OneEventPerDecisionAlways`, `FamilySeesPublishedAlways`; `RegisterImplemented`: the transactions implement the atomic register |
| `PeopleProofs` | of guardians: `TypeCorrect`, `Invariance`, `StandingEarnedAlways`, `CodesWorkOnceAlways`, `OnePrimaryContactAlways`, and the action properties `NeverClaimedTwiceAlways`, `RevivedByCodeOnlyAlways`; of imports: `ImportsInvariance`, `ImportsInvAlways`, `ImportedRowsAreThereAlways`, `SingleDeliveryTellsAllAlways` |
| `DerivedGrantsProofs` | `GrantTypesAlways`, `EvictedWhenDoneAlways`, `GrantsInvAlways`, `JobRepairsAlways`, `ExactWhenAloneAlways` |

Where a type invariant is a theorem of its own no run repeats it; in `GrantsInv`,
`RatesInv` and `ImportsInv` it is the first conjunct, in the run and in the theorem.

**Fee ledger.** No safety property is inductive alone: that a commit keeps receipts gap
free depends on the draft number still being the next one, which depends on the counter
lock. `IInv` conjoins the properties with `LocksHeld` (who holds which lock at which
stage) and `DraftsSound` (each thing read or drafted is still true). The argument:
only `Commit` changes committed rows (`OnlyCommitWrites`); by `Exclusion`, no other
transaction is past its lock on the same invoice or counter; by the locality lemmas
(`StatusOfOther`, `RefundEligibleOther`), a commit on one invoice changes nothing that a
draft on another depends on. The key is the exception, and is the reason that
`InsertPayment` has its own check: a commit on another invoice may take it after the
lookup. There is one lemma per conjunct, with a step per action.

A modelling point the proof depends on: the unique index is checked when the row is
inserted, and the row cannot be taken from then on, since PostgreSQL makes a second
inserter wait; within a college the counter lock, held from before the insert to the
end, has that effect already.

`RefundsCovered` compares two sums over the committed rows. The community modules define
such a sum by a fold, and no induction theorem of the library can be used here. So the
module proves that a sum is the number of its units (`SumCounts`), from which the laws of
sums follow by counting; that both satisfy the same recursive equation, hence are equal, is
shown on a smallest subset on which they would differ (`SmallestSubset`).
What remains is that a commit adds one row to one of the sums, and that the draft of a
refund was checked against the present sums under the invoice's lock. `InvoiceRunsProofs`
does the same for the counts of runs.

**Refinement.** A refused request must also be refusable in the book, where the reasons
for refusal are the state's. `RefuseDuplicateKey` happens after the request's own lookup
found nothing, so what it found since was committed on another invoice and cannot be the
same request. `KeysElsewhere` is that strengthening, on top of `IInv`. Then there is one
simulation lemma per kind of step, and `SameVocabulary` identifies the operators of
the instantiated book with those of the ledger.

**Sessions.** `SessionsInv` adds to the type: `InOrder` (the reads a login has made
for its stage), `ReadsFresh` (a login in flight that met no change has read the account
as it is), `Listed` (between SMEMBERS and DEL, every live session outside the members
listed was issued in between, hence overlapped) and `PasswordsFresh`. A change makes
every login in flight overlapped, so it leaves nothing to be fresh; the later
deletion restores the property for sessions already alive.

**Invoice generation.** The type invariant is not inductive alone: that the queue never
counts more failures than it allows needs `AttemptsLeft`, and that the number of skipped
invoices is natural needs that the rows of the insert map onto its pairs (`Counted`).
`AllAccounted` says, stage by stage, what a delivery has made sure of for a pair that was
there when it began and whose student has not moved: while it reads, the structure is in
its list and the section is still to be read or the student already collected; once it
has inserted, the invoice exists. Overlapping deliveries do not interfere, because an
invoice is never taken back (`OthersKept`). `ClaimsCovered` alone would not survive the end
of a run: `AllCovered` says that what runs claim, and what deliveries have inserted and not
claimed yet, is together at most what there is. An insert adds as much to the second sum as
to the third, and `finishRun` moves a summand from the second to the first, or overwrites one.

**Password reset.** That a dead token sets no password depends on two things: a
redemption holds a token that was minted before it began (`Handed`), and a token that is
minted and dead stays dead (`DeadTokens`), also when the clean-up deletes its row, because
a row is only added for a new token. `Begun` and `Spent` carry both from the look-up to
the write. `Counted`, that what was told is at most the counter, makes `FewAreTold`
inductive: a failure is told only when INCR returned less than the limit.

**School.** `SchoolInv` needs little more than the type, because every write
checks the row under its lock. `ClosedIsFrozen` follows from `WritersFindItOpen`: a
step that changes data found the term open at that moment. `ReaderInv` says what a reader
knows after each statement: assessments it read still stand with their type
(`AssessmentsStand`), so types read later include theirs; and for steady readers each
part read is the present one (`SteadyStands`), since the steps of the term preserve it
while it is closed and `TermStep` empties `steady` otherwise.

A request of an import is only ever saved by `SaveMarks` (`SavedBySaving`), which compares
its preview with the marks under the lock: hence `ImportsSeeTheirPreview`.
`ReadersLeaveTheTerm` carries every theorem about the term over to the composition.

**Report cards.** `Locking` (who holds which advisory lock at which stage) and
`StillChanges` (what was read under it is still so) are the core; the append then extends a
sensible trail. `Ordered` says that each set of events has a latest one, and
`PublishedGrows` what an event changes. For families, `Watching` keeps among the views of
a request the present one and one in which the guardian was linked. The refinement maps
the commit of an event to the register's `Accept`, a decision that finds nothing to
change to `Refuse`, and all else to a stutter; in both cases the register is what
`ReadCurrent` saw.

**Guardians.** `Holding` is the strengthening: the claim at the lock has an unspent
code and has counted at least the live relationships there are, since without the lock
these only become fewer. So a place found free is still free when the adult is attached, and
a count of zero means that nobody is primary. Cardinalities are handled by three lemmas on
finite sets of adults.

**Imports.** `AllImports` adds, to what the runs check: `JobsKnown` (a job exists only for
a stored import, a delivery only for a job, and only a stored import has created students),
`Working` (every row of the file is to do, in hand, imported or in error; the imported ones
were created and enrolled by that import, the one in hand created), `OneEnrolls` (no two
deliveries enroll the same row, because only one insert can have succeeded) and `FirstDeliveries`
(as long as there was one delivery, the tables, the report and the audit entry are what
that delivery has got to). A row ends as imported, or as an error, in three ways; `Tried`
is what they have in common, and one lemma treats it.

**Rate limiter.** The strengthening relates `allowed` to the counter of the window. That a
block is at least one tick long needs that powers of two are positive, which is an
induction; it is proved by counting instead: 2^n is the number of subsets of a set of n
elements.

**Derived grants.** `TypeInv` adds `WorkFits`: which stages, and which fields, a request
of each kind can be in. Four arguments rest on it:

* `Owing`: an account that is owed a logout has a request at the step that pays it.
* `QuietWork`: while nothing overlaps, a request in flight is the only one and what it
  read still holds (`Held`). The grants of orphans then cannot arise, for a grant is only
  written for a row that the same request read or wrote.
* `JobPlan` and `JobProgress`: in a run that nothing overlapped, the job's plan is what
  the assignments ask for; the assignments it is done with have their grant, and when it sweeps,
  the grants it has not looked at are all that can be wrong. At the end nothing is left.
* `InOrder`: without overlaps, crashes and role removals, `Drift` says for each stage which
  grants of the request in flight may still differ from what the assignments ask for; a
  request that rests has none left.

That a grant always finds an unused id is a count of those in use (`FreshIdType`).

## Findings

`sessions_stale_privilege` refutes a documented promise: a login reads roles, a change
commits and ends all sessions, and the login then issues a session with the old roles.
ADR 0011 says "no stale-privilege sessions". The run's counterexample shows the three
steps.

### Known limits

The conditions in the properties exclude behaviour that the code does have. A reader
should know it; where a document promises more, it is named:

* A session issued between SMEMBERS and the DEL of the index survives an invalidation
  and is listed nowhere (`OrphansOnlyFromRaces` says only then); the conformance test of
  the session manager says that invalidation "kills every session of that user".
* A login that upgrades an old hash writes back the status and password it read before
  the slow verification, so an account disabled meanwhile is active again.
* Replacing an account's roles deletes all role rows, and with them the grants of
  roles that are kept; `SetRoles` in `Sessions` does the same.
* An authority change whose process dies before the invalidation leaves the sessions.
* Two redemptions that both found a token before either marked it both succeed; the
  route's description (`modules/identity/src/definition.ts:239`) calls tokens single-use.
* A process that dies between INCR and EXPIRE leaves a counter that never expires: an
  address locked for ever in `FailureThrottle`, a trace in the limiter, whose comment says
  that no key can leak forever. Overlapping hits
  beyond the budget each raise the penalty of the next block.
* A student transferred between the reads of two sections may get no invoice from a
  run that reports completion; a late delivery may mark an ended run running again.
* An import delivered again reports the students of its first attempt as errors
  ("already exists"), and may have two audit entries or, after a death between finish and
  audit, none.
* A term reopened between a reader's first and last statement may show a family marks
  being edited.
* A family request granted before a revocation is answered after it, with a card that
  may have been published in between.
* A code issued before a revocation still revives the relationship.
* A create that overlaps the job may lose its grant, and a grant may outlive its
  assignment, until the next run.

## What is only model-checked

Liveness, which is out of reach of the provers: `EveryRequestEnds`, `EnqueuedRunEnds`,
`DecisionsEnd` and `NoTrace` hold in the runs' instances, under the fairness stated with each
module.

## Not modelled

Left out of the modelled components:

* Fees: lists and reports (single reads); amounts beyond integers (the code keeps
  paise as integers); the 4-byte limit of the receipt counter; the replay's comparison
  of payment mode, reference, date and note, for which the amount stands; the invoice
  view read after the commit for the answer.
* Sessions: the idle and absolute windows (any session may expire at any moment);
  lockout (a login may be refused at any moment after it has read the user row, and
  the lock itself is in `PasswordReset`); more than one account, since neither the
  keys nor the rows of two accounts interact; the creation of accounts.
* Invoice runs: a run is for one class, and a class has one year; listing and paging.
* Imports: parsing (a file is the set of its rows that parse); files stored in the
  object store.
* School: the insertion of a term; scopes, rosters and dates, which decide only between an
  action and its refusal; the weighting of marks, decimal arithmetic that TLC has no
  numbers for.
* Report cards: rendering and the contents of a card.
* Guardians: how a code reaches the contact; checks of the contact data.

Whole components:

* Role and scope checks: a pure decision table that the tests enumerate.
* Enrollment dates, leave, coursework, results with grade scales, reports, analytics
  rollups, college attendance and marks: each is a row or a derived table that is read
  and then written by id, and the last writer wins. Where two
  actors can meet, `PROJECT.json` lists the hazard with its line.
* Clock watermark, migrator and shutdown: one actor per deployment or process; what
  could go wrong with two is listed as a hazard.
* Timetable, exams, syllabus, notices, the rest of the portal: single statements under
  unique constraints, and read models.
* Web application and UI, configuration, license, metrics and logging: no state that
  the rules depend on, or pure functions of files.
