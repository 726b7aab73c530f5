----------------------------- MODULE FeesRequests ---------------------------
(***************************************************************************)
(* The requests of the fees module and the conditions its two writers,      *)
(* recordPayment and addAdjustment, decide them by.  Shared by the abstract *)
(* FeesBook and by FeesLedger, which implements it.  A request's id is the  *)
(* id of the row it may write, so a set of requests is a set of ledger rows.*)
(***************************************************************************)
EXTENDS FeesMoney, FiniteSets

CONSTANTS
  Requests,       \* HTTP requests
  Invoices,
  Colleges,
  Keys,           \* idempotency keys the clients use
  Amounts,        \* amounts (paise) the clients send
  CollegeOf,      \* the college an invoice belongs to
  InvoiceAmount,  \* the amount an invoice was raised for
  None            \* "no request": a free lock, a request not answered

ASSUME FeesAssumption ==
  /\ IsFiniteSet(Requests)
  /\ None \notin Requests \cup Keys
  /\ Amounts \subseteq Nat \ {0}
  /\ CollegeOf \in [Invoices -> Colleges]
  /\ InvoiceAmount \in [Invoices -> Nat \ {0}]

PaymentBody    == [op : {"payment"}, invoice : Invoices, amount : Amounts, key : Keys]
AdjustmentBody == [op : Kinds, invoice : Invoices, amount : Amounts, key : {None}]
Body           == PaymentBody \cup AdjustmentBody

VARIABLE body     \* what each request asks for (never changes)

IsPayment(r) == body[r].op = "payment"
InvoiceOf(r) == body[r].invoice
CollegeAt(r) == CollegeOf[body[r].invoice]

RowsOf(rows, i) == {r \in rows : body[r].invoice = i}

(* The status that follows from the rows of an invoice. *)
StatusOf(rows, i) == ComputeStatus(InvoiceAmount[i], RowsOf(rows, i), body)

(* The payments among rows under r's idempotency key, in r's college. *)
SameKey(rows, r) ==
  {e \in rows : /\ IsPayment(e)
                /\ CollegeAt(e) = CollegeAt(r)
                /\ body[e].key = body[r].key}

(* Mutation: a retry is recognised by its invoice alone. *)
SameInvoice(e, r) == body[e].invoice = body[r].invoice

(* The amount stands for the four fields the code compares besides the invoice. *)
SameRequest(e, r) ==
  /\ body[e].invoice = body[r].invoice
  /\ body[e].amount = body[r].amount

(* Mutation: earlier refunds are not subtracted. *)
RefundWithinPayments(rows, r) ==
  body[r].amount <= Total(RowsOf(rows, InvoiceOf(r)), body, "payment")

RefundEligible(rows, r) ==
  body[r].amount <= EffectivePaid(RowsOf(rows, InvoiceOf(r)), body)
=============================================================================
