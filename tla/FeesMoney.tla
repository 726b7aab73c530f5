----------------------------- MODULE FeesMoney -----------------------------
(***************************************************************************)
(* The pure money arithmetic of the fees module.  A ledger row is a payment *)
(* or an adjustment; rows is the finite set of row identifiers of ONE       *)
(* invoice and body[r] the request that wrote row r.  Amounts are integer   *)
(* paise, as in the code, so no rounding is modelled.                       *)
(***************************************************************************)
EXTENDS Integers, FiniteSetsExt

Kinds    == {"scholarship", "fine", "refund", "waiver"}
Ops      == {"payment"} \cup Kinds
Statuses == {"pending", "part", "paid", "waived"}

OfKind(rows, body, op) == {r \in rows : body[r].op = op}

Total(rows, body, op) ==
  MapThenSumSet(LAMBDA r : body[r].amount, OfKind(rows, body, op))

(* payments - refunds *)
EffectivePaid(rows, body) ==
  Total(rows, body, "payment") - Total(rows, body, "refund")

(* invoice amount + fines - scholarships - waivers *)
EffectiveDue(amount, rows, body) ==
  amount + Total(rows, body, "fine")
         - Total(rows, body, "scholarship") - Total(rows, body, "waiver")

Dues(amount, rows, body) ==
  EffectiveDue(amount, rows, body) - EffectivePaid(rows, body)

HasWaiver(rows, body) == OfKind(rows, body, "waiver") # {}

ComputeStatus(amount, rows, body) ==
  CASE HasWaiver(rows, body)                                -> "waived"
    [] ~ HasWaiver(rows, body) /\ Dues(amount, rows, body) <= 0 -> "paid"
    [] ~ HasWaiver(rows, body) /\ Dues(amount, rows, body) > 0
         /\ EffectivePaid(rows, body) > 0                   -> "part"
    [] OTHER                                                -> "pending"

NextReceiptNo(lastIssued) == lastIssued + 1
=============================================================================
