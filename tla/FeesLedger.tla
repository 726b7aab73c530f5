----------------------------- MODULE FeesLedger -----------------------------
(***************************************************************************)
(* Recording payments and adjustments against fee invoices: the HTTP        *)
(* handlers, the two repository transactions and the audit decision of the  *)
(* route pipeline.                                                          *)
(*                                                                          *)
(* Every request runs its own transaction at READ COMMITTED, one action per *)
(* statement or decision.  Rows a transaction writes stay in its draft      *)
(* until Commit; what other requests read is the committed ledger.  Any     *)
(* request may crash or fail at any statement (Rollback).  A client's retry *)
(* is another request with the same body.                                   *)
(***************************************************************************)
EXTENDS FeesRequests

VARIABLES
  ledger,        \* committed rows of fee_payments and fee_adjustments
  receipt,       \* receipt_no of a committed payment row, else 0
  status,        \* fee_invoices.status
  lastIssued,    \* fee_receipt_counters.last_issued
  audits,        \* how many committed audit rows name row r
  invoiceLock,   \* the request holding an invoice FOR UPDATE
  counterLock,   \* the request holding a college's counter FOR UPDATE
  stage,         \* how far a request has come
  draftReceipt,  \* the receipt number a transaction is about to write
  draftStatus,   \* the invoice status a transaction is about to write
  answer         \* the row a request is answered with

database == <<ledger, receipt, status, lastIssued, audits>>
locks    == <<invoiceLock, counterLock>>
drafts   == <<draftReceipt, draftStatus>>
vars     == <<body, database, locks, stage, drafts, answer>>

InTransaction == {"locked", "admitted", "numbered", "inserted", "recomputed", "audited"}
Written       == {"inserted", "recomputed", "audited"}
Numbered      == {"numbered"} \cup Written
Decided       == {"committed", "replayed", "answered", "unanswered"}
Ended         == {"answered", "unanswered", "refused", "failed"}
Stages        == {"waiting"} \cup InTransaction \cup Decided \cup Ended

TypeOK ==
  /\ body \in [Requests -> Body]
  /\ ledger \in SUBSET Requests
  /\ receipt \in [Requests -> Nat]
  /\ status \in [Invoices -> Statuses]
  /\ lastIssued \in [Colleges -> Nat]
  /\ audits \in [Requests -> Nat]
  /\ invoiceLock \in [Invoices -> Requests \cup {None}]
  /\ counterLock \in [Colleges -> Requests \cup {None}]
  /\ stage \in [Requests -> Stages]
  /\ draftReceipt \in [Requests -> Nat]
  /\ draftStatus \in [Requests -> Statuses]
  /\ answer \in [Requests -> Requests \cup {None}]

Init ==
  /\ body \in [Requests -> Body]
  /\ ledger = {}
  /\ receipt = [r \in Requests |-> 0]
  /\ status = [i \in Invoices |-> "pending"]
  /\ lastIssued = [c \in Colleges |-> 0]
  /\ audits = [r \in Requests |-> 0]
  /\ invoiceLock = [i \in Invoices |-> None]
  /\ counterLock = [c \in Colleges |-> None]
  /\ stage = [r \in Requests |-> "waiting"]
  /\ draftReceipt = [r \in Requests |-> 0]
  /\ draftStatus = [r \in Requests |-> "pending"]
  /\ answer = [r \in Requests |-> None]

-----------------------------------------------------------------------------
(* Leaving a transaction releases every row lock it holds. *)

ReleaseLocks(r) ==
  /\ invoiceLock' = [i \in Invoices |-> IF invoiceLock[i] = r THEN None ELSE invoiceLock[i]]
  /\ counterLock' = [c \in Colleges |-> IF counterLock[c] = r THEN None ELSE counterLock[c]]

LeaveWith(r, end) ==
  /\ stage' = [stage EXCEPT ![r] = end]
  /\ ReleaseLocks(r)
  /\ UNCHANGED <<body, database, drafts>>

-----------------------------------------------------------------------------
(* Both writers begin by locking the invoice row. *)

(* Mutation: the invoice is read without FOR UPDATE. *)
LockInvoiceUnlocked(r) ==
  /\ stage[r] = "waiting"
  /\ invoiceLock' = [invoiceLock EXCEPT ![InvoiceOf(r)] = r]
  /\ stage' = [stage EXCEPT ![r] = "locked"]
  /\ UNCHANGED <<body, database, counterLock, drafts, answer>>

LockInvoice(r) ==
  /\ stage[r] = "waiting"
  /\ invoiceLock[InvoiceOf(r)] = None
  /\ invoiceLock' = [invoiceLock EXCEPT ![InvoiceOf(r)] = r]
  /\ stage' = [stage EXCEPT ![r] = "locked"]
  /\ UNCHANGED <<body, database, counterLock, drafts, answer>>

-----------------------------------------------------------------------------
(* recordPayment, after the invoice lock *)

(* The lookup finds the payment an identical request made before. *)
ReplayPayment(r) ==
  /\ stage[r] = "locked" /\ IsPayment(r)
  /\ \E e \in SameKey(ledger, r) :
       /\ SameRequest(e, r)
       /\ answer' = [answer EXCEPT ![r] = e]
  /\ LeaveWith(r, "replayed")

(* The lookup finds a different payment under the key, or the invoice is waived. *)
RefusePayment(r) ==
  /\ stage[r] = "locked" /\ IsPayment(r)
  /\ \/ \E e \in SameKey(ledger, r) : ~ SameRequest(e, r)
     \/ SameKey(ledger, r) = {} /\ status[InvoiceOf(r)] = "waived"
  /\ LeaveWith(r, "refused")
  /\ UNCHANGED answer

AdmitPayment(r) ==
  /\ stage[r] = "locked" /\ IsPayment(r)
  /\ SameKey(ledger, r) = {}
  /\ status[InvoiceOf(r)] # "waived"
  /\ stage' = [stage EXCEPT ![r] = "admitted"]
  /\ UNCHANGED <<body, database, locks, drafts, answer>>

(* Mutation: the counter is a raw sequence, advanced outside the transaction. *)
TakeSequenceNo(r) ==
  /\ stage[r] = "admitted" /\ IsPayment(r)
  /\ counterLock[CollegeAt(r)] = None
  /\ counterLock' = [counterLock EXCEPT ![CollegeAt(r)] = r]
  /\ draftReceipt' = [draftReceipt EXCEPT ![r] = NextReceiptNo(lastIssued[CollegeAt(r)])]
  /\ lastIssued' = [lastIssued EXCEPT ![CollegeAt(r)] = NextReceiptNo(@)]
  /\ stage' = [stage EXCEPT ![r] = "numbered"]
  /\ UNCHANGED <<body, ledger, receipt, status, audits, invoiceLock, draftStatus, answer>>

(* The counter row is created if absent, locked, and advanced in the draft. *)
TakeReceiptNo(r) ==
  /\ stage[r] = "admitted" /\ IsPayment(r)
  /\ counterLock[CollegeAt(r)] = None
  /\ counterLock' = [counterLock EXCEPT ![CollegeAt(r)] = r]
  /\ draftReceipt' = [draftReceipt EXCEPT ![r] = NextReceiptNo(lastIssued[CollegeAt(r)])]
  /\ stage' = [stage EXCEPT ![r] = "numbered"]
  /\ UNCHANGED <<body, database, invoiceLock, draftStatus, answer>>

ReceiptTaken(r) ==
  \E e \in ledger : /\ IsPayment(e)
                    /\ CollegeAt(e) = CollegeAt(r)
                    /\ receipt[e] = draftReceipt[r]

(* Mutation: there is no unique index on the idempotency key. *)
InsertAnyKey(r) ==
  /\ stage[r] = "numbered"
  /\ ~ ReceiptTaken(r)
  /\ stage' = [stage EXCEPT ![r] = "inserted"]
  /\ UNCHANGED <<body, database, locks, drafts, answer>>

InsertPayment(r) ==
  /\ stage[r] = "numbered"
  /\ SameKey(ledger, r) = {} /\ ~ ReceiptTaken(r)
  /\ stage' = [stage EXCEPT ![r] = "inserted"]
  /\ UNCHANGED <<body, database, locks, drafts, answer>>

(* Mutation: a unique violation is retried instead of reported. *)
RetryDuplicateKey(r) ==
  /\ stage[r] = "numbered"
  /\ SameKey(ledger, r) # {}
  /\ stage' = [stage EXCEPT ![r] = "admitted"]
  /\ counterLock' = [counterLock EXCEPT ![CollegeAt(r)] = None]
  /\ UNCHANGED <<body, database, invoiceLock, drafts, answer>>

(* fee_payments_idempotency_uq: the key was committed on another invoice
   after the lookup; the violation is reported as a conflict. *)
RefuseDuplicateKey(r) ==
  /\ stage[r] = "numbered"
  /\ SameKey(ledger, r) # {}
  /\ LeaveWith(r, "refused")
  /\ UNCHANGED answer

-----------------------------------------------------------------------------
(* addAdjustment, after the invoice lock *)

AdmitAdjustment(r) ==
  /\ stage[r] = "locked" /\ ~ IsPayment(r)
  /\ body[r].op = "refund" => RefundEligible(ledger, r)
  /\ stage' = [stage EXCEPT ![r] = "admitted"]
  /\ UNCHANGED <<body, database, locks, drafts, answer>>

RefuseRefund(r) ==
  /\ stage[r] = "locked"
  /\ body[r].op = "refund" /\ ~ RefundEligible(ledger, r)
  /\ LeaveWith(r, "refused")
  /\ UNCHANGED answer

InsertAdjustment(r) ==
  /\ stage[r] = "admitted" /\ ~ IsPayment(r)
  /\ stage' = [stage EXCEPT ![r] = "inserted"]
  /\ UNCHANGED <<body, database, locks, drafts, answer>>

-----------------------------------------------------------------------------
(* Both writers end alike: status, audit row, commit. *)

(* Mutation: the status is computed from the rows read before the insert. *)
RecomputeStale(r) ==
  /\ stage[r] = "inserted"
  /\ draftStatus' = [draftStatus EXCEPT ![r] = StatusOf(ledger, InvoiceOf(r))]
  /\ stage' = [stage EXCEPT ![r] = "recomputed"]
  /\ UNCHANGED <<body, database, locks, draftReceipt, answer>>

(* The transaction reads the committed rows and its own. *)
RecomputeStatus(r) ==
  /\ stage[r] = "inserted"
  /\ draftStatus' = [draftStatus EXCEPT ![r] = StatusOf(ledger \cup {r}, InvoiceOf(r))]
  /\ stage' = [stage EXCEPT ![r] = "recomputed"]
  /\ UNCHANGED <<body, database, locks, draftReceipt, answer>>

RecordInTransaction(r) ==
  /\ stage[r] = "recomputed"
  /\ stage' = [stage EXCEPT ![r] = "audited"]
  /\ UNCHANGED <<body, database, locks, drafts, answer>>

Commit(r) ==
  /\ stage[r] = "audited"
  /\ ledger' = ledger \cup {r}
  /\ status' = [status EXCEPT ![InvoiceOf(r)] = draftStatus[r]]
  /\ IF IsPayment(r)
     THEN /\ receipt' = [receipt EXCEPT ![r] = draftReceipt[r]]
          /\ lastIssued' = [lastIssued EXCEPT ![CollegeAt(r)] = draftReceipt[r]]
     ELSE UNCHANGED <<receipt, lastIssued>>
  /\ audits' = [audits EXCEPT ![r] = @ + 1]
  /\ answer' = [answer EXCEPT ![r] = r]
  /\ stage' = [stage EXCEPT ![r] = "committed"]
  /\ ReleaseLocks(r)
  /\ UNCHANGED <<body, drafts>>

(* A crash, a lost connection, a constraint or an audit row that cannot be
   written: the transaction rolls back and the client sees a 5xx at most. *)
Rollback(r) ==
  /\ stage[r] \in InTransaction
  /\ LeaveWith(r, "failed")
  /\ UNCHANGED answer

-----------------------------------------------------------------------------
(* The route pipeline, after the handler returned *)

(* Mutation: only a fresh write is exempt from the pipeline's own audit row. *)
AuditUnlessFresh(r) == stage[r] = "committed"

(* A durable receipt of this request's own audit row, or an idempotent
   replay, whose row was audited when it was first written. *)
AuditAlreadyPersisted(r) == stage[r] \in {"committed", "replayed"}

Respond(r) ==
  /\ stage[r] \in {"committed", "replayed"}
  /\ audits' = IF AuditAlreadyPersisted(r) THEN audits
               ELSE [audits EXCEPT ![answer[r]] = @ + 1]
  /\ stage' = [stage EXCEPT ![r] = "answered"]
  /\ UNCHANGED <<body, ledger, receipt, status, lastIssued, locks, drafts, answer>>

(* A crash or a lost connection after the transaction: the client never
   hears of a row that is recorded, which is what its key is for. *)
LoseAnswer(r) ==
  /\ stage[r] \in {"committed", "replayed"}
  /\ stage' = [stage EXCEPT ![r] = "unanswered"]
  /\ UNCHANGED <<body, database, locks, drafts, answer>>

(* Every request has ended: the behaviour may stop here. *)
Finished ==
  /\ \A r \in Requests : stage[r] \in Ended
  /\ UNCHANGED vars
-----------------------------------------------------------------------------
Statement(r) ==
  \/ ReplayPayment(r) \/ RefusePayment(r) \/ AdmitPayment(r)
  \/ InsertPayment(r) \/ RefuseDuplicateKey(r)
  \/ AdmitAdjustment(r) \/ RefuseRefund(r) \/ InsertAdjustment(r)
  \/ RecomputeStatus(r) \/ RecordInTransaction(r) \/ Commit(r) \/ Respond(r)

Acquire(r) == LockInvoice(r) \/ TakeReceiptNo(r)

Next == (\E r \in Requests : Acquire(r) \/ Statement(r) \/ Rollback(r) \/ LoseAnswer(r)) \/ Finished

Spec == Init /\ [][Next]_vars

(* A transaction that can go on does, and the store grants row locks in the
   order they were asked for, so a request does not wait for ever.  Nothing
   is assumed of Rollback and LoseAnswer. *)
Fairness == \A r \in Requests : WF_vars(Statement(r)) /\ SF_vars(Acquire(r))

FairSpec == Spec /\ Fairness
-----------------------------------------------------------------------------
(* Properties *)

PaymentsAt(c) == {r \in ledger : IsPayment(r) /\ CollegeAt(r) = c}

(* The receipt numbers of a college are exactly 1 .. n, each on one payment,
   whatever transactions overlapped, were refused or rolled back
   (recordPayment's counter row). *)
ReceiptsGapFree ==
  \A c \in Colleges :
    /\ {receipt[r] : r \in PaymentsAt(c)} = 1 .. lastIssued[c]
    /\ \A p, q \in PaymentsAt(c) : receipt[p] = receipt[q] => p = q

(* An idempotency key buys at most one payment per college, also when two
   requests race with it on different invoices (recordPayment's lookup and
   the unique index behind it). *)
OnePaymentPerKey ==
  \A c \in Colleges : \A p, q \in PaymentsAt(c) :
    body[p].key = body[q].key => p = q

(* A client is only ever answered with a recorded row that says what the
   client asked for: same invoice, same amount, same key; and a request that
   was refused or failed left no row (recordPayment's replay of a retried
   request, and the rollbacks). *)
AnswersTruthful ==
  \A r \in Requests :
    /\ answer[r] # None <=> stage[r] \in Decided
    /\ answer[r] = r <=> r \in ledger
    /\ answer[r] # None =>
         /\ answer[r] \in ledger
         /\ body[answer[r]].invoice = body[r].invoice
         /\ body[answer[r]].amount = body[r].amount
         /\ body[answer[r]].key = body[r].key

(* The stored status always follows from the committed rows of the invoice,
   though it is computed in a transaction that commits later
   (recomputeStatus under the invoice lock). *)
StatusMatchesLedger ==
  \A i \in Invoices : status[i] = StatusOf(ledger, i)

(* No invoice ever gives back more than was paid on it, whatever refunds
   race (addAdjustment's eligibility check under the invoice lock). *)
RefundsCovered ==
  \A i \in Invoices :
    Total(RowsOf(ledger, i), body, "refund") <= Total(RowsOf(ledger, i), body, "payment")

(* Every recorded row has exactly one audit row and nothing else has any:
   neither a rollback, a replay nor the route pipeline adds or loses one
   (recordInTransaction and auditAlreadyPersisted). *)
AuditedExactlyOnce ==
  \A r \in Requests : audits[r] = IF r \in ledger THEN 1 ELSE 0

(* Row locks are held exactly while they protect something: an invoice from
   the first statement to the end of the transaction, a college's counter
   from the number taken to the end (SELECT ... FOR UPDATE in both writers). *)
LocksHeld ==
  /\ \A i \in Invoices : invoiceLock[i] # None => InvoiceOf(invoiceLock[i]) = i
  /\ \A c \in Colleges : counterLock[c] # None =>
       IsPayment(counterLock[c]) /\ CollegeAt(counterLock[c]) = c
  /\ \A r \in Requests :
       /\ stage[r] \in InTransaction <=> invoiceLock[InvoiceOf(r)] = r
       /\ IsPayment(r) /\ stage[r] \in Numbered <=> counterLock[CollegeAt(r)] = r
       /\ stage[r] = "numbered" => IsPayment(r)

(* What a transaction read or drafted stays true until it commits, though
   other requests commit in between. *)
DraftsSound ==
  \A r \in Requests :
    /\ IsPayment(r) /\ stage[r] \in Numbered =>
         draftReceipt[r] = NextReceiptNo(lastIssued[CollegeAt(r)])
    /\ IsPayment(r) /\ stage[r] \in Written => SameKey(ledger, r) = {}
    /\ IsPayment(r) /\ stage[r] \in InTransaction \ {"locked"} =>
         status[InvoiceOf(r)] # "waived"
    /\ stage[r] \in {"recomputed", "audited"} =>
         draftStatus[r] = StatusOf(ledger \cup {r}, InvoiceOf(r))
    /\ body[r].op = "refund" /\ stage[r] \in InTransaction \ {"locked"} =>
         RefundEligible(ledger, r)

(* A step that records a payment finds its invoice not waived at the moment
   it commits, not only when it looked (recordPayment's waived check). *)
NoPaymentOnWaived ==
  [][\A r \in Requests : r \in ledger' \ ledger /\ IsPayment(r)
                           => status[InvoiceOf(r)] # "waived"]_vars

(* Once waived, an invoice stays waived: later fines, refunds or payments in
   flight never reopen it (computeStatus). *)
WaivedIsFinal ==
  [][\A i \in Invoices : status[i] = "waived" => status'[i] = "waived"]_vars

(* Every request comes to an end: no lock is kept for ever and no two
   transactions wait for each other. *)
EveryRequestEnds == \A r \in Requests : <>(stage[r] \in Ended)

-----------------------------------------------------------------------------
(* Refinement: the ledger implements FeesBook.  A request has its outcome in
   the book from the statement that decides it: the commit, the lookup that
   finds the first payment, the refusal, the rollback. *)

Outcome ==
  [r \in Requests |->
    IF stage[r] \in {"refused", "failed"} THEN stage[r]
    ELSE IF answer[r] = None THEN "open"
    ELSE IF answer[r] = r THEN "recorded" ELSE "replayed"]

Book == INSTANCE FeesBook WITH outcome <- Outcome

(* Requests run as overlapping transactions look like requests run one at a
   time. *)
ImplementsBook == Book!BookSpec
=============================================================================
