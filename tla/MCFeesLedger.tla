---------------------------- MODULE MCFeesLedger ----------------------------
(***************************************************************************)
(* Small instances of FeesLedger.                                           *)
(***************************************************************************)
EXTENDS FeesLedger, TLC

CONSTANTS cA

(* Two invoices of one college: one receipt counter, keys that may collide. *)
OneCollege == [i \in Invoices |-> cA]

(* Every invoice is raised for 2 paise: amounts 1 and 2 make part payments,
   full payments and overpayments. *)
RaisedForTwo == [i \in Invoices |-> 2]

(* For liveness, payments and refunds only: the other adjustments take the
   same locks and have no guard to fail. *)
LockingOpsInit == Init /\ \A r \in Requests : body[r].op \in {"payment", "refund"}

LockingOpsSpec == LockingOpsInit /\ [][Next]_vars /\ Fairness

RequestSymmetry == Permutations(Requests)
=============================================================================
