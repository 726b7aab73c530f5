------------------------------ MODULE FeesBook ------------------------------
(***************************************************************************)
(* What the fees module promises its callers: every request against an      *)
(* invoice takes effect in ONE atomic step, or not at all.  FeesLedger,     *)
(* whose requests are transactions of many statements, implements this      *)
(* module.                                                                  *)
(***************************************************************************)
EXTENDS FeesRequests

VARIABLES
  ledger,      \* the requests whose row is recorded
  receipt,     \* the receipt number of a recorded payment
  status,      \* the stored status of an invoice
  lastIssued,  \* the receipt counter of a college
  outcome,     \* what became of a request
  answer       \* the row a request was answered with

bookVars == <<body, ledger, receipt, status, lastIssued, outcome, answer>>

Admissible(r) ==
  IF IsPayment(r)
  THEN SameKey(ledger, r) = {} /\ status[InvoiceOf(r)] # "waived"
  ELSE body[r].op = "refund" => RefundEligible(ledger, r)

BookInit ==
  /\ body \in [Requests -> Body]
  /\ ledger = {}
  /\ receipt = [r \in Requests |-> 0]
  /\ status = [i \in Invoices |-> "pending"]
  /\ lastIssued = [c \in Colleges |-> 0]
  /\ outcome = [r \in Requests |-> "open"]
  /\ answer = [r \in Requests |-> None]

(* The row is recorded, a payment takes the college's next receipt number,
   and the invoice's status follows, all at once. *)
Record(r) ==
  /\ outcome[r] = "open"
  /\ Admissible(r)
  /\ ledger' = ledger \cup {r}
  /\ status' = [status EXCEPT ![InvoiceOf(r)] = StatusOf(ledger \cup {r}, InvoiceOf(r))]
  /\ IF IsPayment(r)
     THEN /\ receipt' = [receipt EXCEPT ![r] = NextReceiptNo(lastIssued[CollegeAt(r)])]
          /\ lastIssued' = [lastIssued EXCEPT ![CollegeAt(r)] = NextReceiptNo(@)]
     ELSE UNCHANGED <<receipt, lastIssued>>
  /\ outcome' = [outcome EXCEPT ![r] = "recorded"]
  /\ answer' = [answer EXCEPT ![r] = r]
  /\ UNCHANGED body

(* A retry is answered with the payment already recorded and changes nothing. *)
Replay(r) ==
  /\ outcome[r] = "open" /\ IsPayment(r)
  /\ \E e \in SameKey(ledger, r) : /\ SameRequest(e, r)
                           /\ answer' = [answer EXCEPT ![r] = e]
  /\ outcome' = [outcome EXCEPT ![r] = "replayed"]
  /\ UNCHANGED <<body, ledger, receipt, status, lastIssued>>

(* A request that may not be recorded is refused and changes nothing. *)
Refuse(r) ==
  /\ outcome[r] = "open"
  /\ ~ Admissible(r)
  /\ ~ \E e \in SameKey(ledger, r) : IsPayment(r) /\ SameRequest(e, r)
  /\ outcome' = [outcome EXCEPT ![r] = "refused"]
  /\ UNCHANGED <<body, ledger, receipt, status, lastIssued, answer>>

(* A crash or an error of the store loses the request, without a trace. *)
Fail(r) ==
  /\ outcome[r] = "open"
  /\ outcome' = [outcome EXCEPT ![r] = "failed"]
  /\ UNCHANGED <<body, ledger, receipt, status, lastIssued, answer>>

BookNext == \E r \in Requests : Record(r) \/ Replay(r) \/ Refuse(r) \/ Fail(r)

BookSpec == BookInit /\ [][BookNext]_bookVars
=============================================================================
