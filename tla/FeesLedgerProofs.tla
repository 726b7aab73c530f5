-------------------------- MODULE FeesLedgerProofs --------------------------
(***************************************************************************)
(* Proofs about FeesLedger, for any number of requests, invoices, colleges, *)
(* keys and amounts, and that it implements FeesBook.  ComputeStatus stays  *)
(* unexpanded wherever only its arguments matter.                           *)
(***************************************************************************)
EXTENDS FeesLedger, FiniteSetTheorems, TLAPS

(* The status that follows from a set of rows is one of the four statuses. *)
LEMMA StatusOfType ==
  ASSUME NEW rows, NEW i
  PROVE  StatusOf(rows, i) \in Statuses
  BY DEF StatusOf, ComputeStatus, Statuses

(* A body names an existing invoice, and an invoice an existing college. *)
LEMMA BodyType ==
  ASSUME body \in [Requests -> Body], NEW r \in Requests
  PROVE  /\ InvoiceOf(r) \in Invoices
         /\ CollegeAt(r) \in Colleges
         /\ body[r].op \in Ops
         /\ IsPayment(r) \in BOOLEAN
  <1>1. body[r] \in Body
    OBVIOUS
  <1>2. body[r].invoice \in Invoices /\ body[r].op \in Ops
    BY <1>1 DEF Body, PaymentBody, AdjustmentBody, Ops
  <1> QED
    BY <1>2, FeesAssumption DEF InvoiceOf, CollegeAt, IsPayment

LEMMA InitType == Init => TypeOK
  BY DEF Init, TypeOK, Statuses, Stages

(* Releasing the locks leaves every lock with a request or with nobody. *)
LEMMA ReleaseType ==
  ASSUME TypeOK, NEW r \in Requests, ReleaseLocks(r)
  PROVE  /\ invoiceLock' \in [Invoices -> Requests \cup {None}]
         /\ counterLock' \in [Colleges -> Requests \cup {None}]
  BY DEF TypeOK, ReleaseLocks

LEMMA LeaveType ==
  ASSUME TypeOK, NEW r \in Requests, NEW end \in Stages, LeaveWith(r, end),
         answer' \in [Requests -> Requests \cup {None}]
  PROVE  TypeOK'
  BY ReleaseType DEF TypeOK, LeaveWith, database, drafts

(* Every step keeps every variable in its type. *)
LEMMA NextType == TypeOK /\ [Next]_vars => TypeOK'
  <1> SUFFICES ASSUME TypeOK, [Next]_vars PROVE TypeOK'
    OBVIOUS
  <1> USE DEF database, locks, drafts
  <1>1. ASSUME NEW r \in Requests, LockInvoice(r) PROVE TypeOK'
    BY <1>1, BodyType DEF TypeOK, LockInvoice, Stages, InTransaction
  <1>2. ASSUME NEW r \in Requests, TakeReceiptNo(r) PROVE TypeOK'
    BY <1>2, BodyType
    DEF TypeOK, TakeReceiptNo, NextReceiptNo, Stages, InTransaction
  <1>3. ASSUME NEW r \in Requests, ReplayPayment(r) PROVE TypeOK'
    <2>1. SameKey(ledger, r) \subseteq Requests
      BY DEF SameKey, TypeOK
    <2>2. answer' \in [Requests -> Requests \cup {None}]
      BY <1>3, <2>1 DEF ReplayPayment, TypeOK
    <2> QED
      BY <1>3, <2>2, LeaveType DEF ReplayPayment, Stages, Decided
  <1>4. ASSUME NEW r \in Requests,
               RefusePayment(r) \/ RefuseDuplicateKey(r) \/ RefuseRefund(r) \/ Rollback(r)
        PROVE  TypeOK'
    BY <1>4, LeaveType
    DEF RefusePayment, RefuseDuplicateKey, RefuseRefund, Rollback, TypeOK, Stages, Ended
  <1>5. ASSUME NEW r \in Requests,
               \/ AdmitPayment(r) \/ InsertPayment(r) \/ AdmitAdjustment(r)
               \/ InsertAdjustment(r) \/ RecordInTransaction(r) \/ LoseAnswer(r)
        PROVE  TypeOK'
    BY <1>5
    DEF AdmitPayment, InsertPayment, AdmitAdjustment, InsertAdjustment,
        RecordInTransaction, LoseAnswer, TypeOK, Stages, InTransaction, Decided
  <1>6. ASSUME NEW r \in Requests, RecomputeStatus(r) PROVE TypeOK'
    BY <1>6, StatusOfType DEF RecomputeStatus, TypeOK, Stages, InTransaction
  <1>7. ASSUME NEW r \in Requests, Commit(r) PROVE TypeOK'
    <2>1. InvoiceOf(r) \in Invoices /\ CollegeAt(r) \in Colleges
      BY BodyType DEF TypeOK
    <2>2. ReleaseLocks(r)
      BY <1>7 DEF Commit
    <2> QED
      BY <1>7, <2>1, <2>2, ReleaseType DEF Commit, TypeOK, Stages, Decided
  <1>8. ASSUME NEW r \in Requests, Respond(r) PROVE TypeOK'
    BY <1>8 DEF Respond, AuditAlreadyPersisted, TypeOK, Stages, Decided
  <1>9. CASE UNCHANGED vars
    BY <1>9 DEF vars, TypeOK
  <1> QED
    BY <1>1, <1>2, <1>3, <1>4, <1>5, <1>6, <1>7, <1>8, <1>9
    DEF Next, Acquire, Statement, Finished

(* Every variable keeps its type, in every behaviour. *)
THEOREM TypeCorrect == Spec => []TypeOK
  BY InitType, NextType, PTL DEF Spec
-----------------------------------------------------------------------------
(* The inductive invariant.  The properties of the committed rows are not
   inductive alone: that a commit keeps them needs what a transaction knows
   (DraftsSound) to have survived the commits of others, which is what the
   row locks are for (LocksHeld). *)
IInv ==
  /\ TypeOK
  /\ LocksHeld
  /\ DraftsSound
  /\ AnswersTruthful
  /\ ReceiptsGapFree
  /\ OnePaymentPerKey
  /\ StatusMatchesLedger
  /\ RefundsCovered
  /\ AuditedExactlyOnce

-----------------------------------------------------------------------------
(* Rows of other invoices do not count for an invoice. *)

LEMMA RowsOfOther ==
  ASSUME NEW rows, NEW r, NEW i, InvoiceOf(r) # i
  PROVE  RowsOf(rows \cup {r}, i) = RowsOf(rows, i)
  BY DEF RowsOf, InvoiceOf

LEMMA StatusOfOther ==
  ASSUME NEW rows, NEW r, NEW i, InvoiceOf(r) # i
  PROVE  StatusOf(rows \cup {r}, i) = StatusOf(rows, i)
  BY RowsOfOther DEF StatusOf

LEMMA RefundEligibleOther ==
  ASSUME NEW rows, NEW r, NEW s, InvoiceOf(r) # InvoiceOf(s)
  PROVE  RefundEligible(rows \cup {r}, s) = RefundEligible(rows, s)
  BY RowsOfOther DEF RefundEligible

(* Nothing adds up to zero, whatever the rows would have said. *)
LEMMA TotalOfNone ==
  ASSUME NEW op
  PROVE  Total({}, body, op) = 0
  <1> DEFINE Amount(r) == body[r].amount
             Pick(s) == CHOOSE x \in s : TRUE
             Sums(g) == g = [s \in SUBSET {} |->
                               IF s = {} THEN 0
                               ELSE Amount(Pick(s)) + g[s \ {Pick(s)}]]
  <1>1. Sums([s \in SUBSET {} |-> 0])
    OBVIOUS
  <1>2. Sums(CHOOSE g : Sums(g))
    BY <1>1
  <1>3. (CHOOSE g : Sums(g))[{}] = 0
    BY <1>2
  <1>4. OfKind({}, body, op) = {}
    BY DEF OfKind
  <1>5. MapThenSumSet(LAMBDA r : body[r].amount, {}) = (CHOOSE g : Sums(g))[{}]
    BY DEF MapThenSumSet, MapThenFoldSet
  <1> QED
    BY <1>3, <1>4, <1>5 DEF Total

(* An invoice without rows is pending: it was raised for a positive amount. *)
LEMMA StatusOfNoRows ==
  ASSUME NEW i \in Invoices
  PROVE  StatusOf({}, i) = "pending"
  <1>1. RowsOf({}, i) = {}
    BY DEF RowsOf
  <1>2. ~ HasWaiver({}, body)
    BY DEF HasWaiver, OfKind
  <1>3. EffectivePaid({}, body) = 0
    BY TotalOfNone DEF EffectivePaid
  <1>4. InvoiceAmount[i] \in Nat \ {0}
    BY FeesAssumption
  <1>5. Dues(InvoiceAmount[i], {}, body) = InvoiceAmount[i]
    BY <1>3, <1>4, TotalOfNone DEF Dues, EffectiveDue
  <1>6. /\ ~ (Dues(InvoiceAmount[i], {}, body) <= 0)
        /\ ~ (EffectivePaid({}, body) > 0)
    BY <1>3, <1>4, <1>5
  <1>7. ComputeStatus(InvoiceAmount[i], {}, body) = "pending"
    BY <1>2, <1>6, Zenon DEF ComputeStatus
  <1> QED
    BY <1>1, <1>7 DEF StatusOf

-----------------------------------------------------------------------------
(* What totals add up to. *)

(* Induction over finite sets, in a form the provers can use: among the
   subsets of a finite set that have a property, one has no smaller one. *)
LEMMA SmallestSubset ==
  ASSUME NEW S, IsFiniteSet(S), NEW C, C \subseteq SUBSET S, C # {}
  PROVE  \E T \in C : \A U \in C : U \subseteq T => U = T
  <1>1. IsWellFoundedOn(StrictSubsetOrdering(S), FiniteSubsetsOf(S))
    BY FS_StrictSubsetOrderingWellFounded
  <1>2. FiniteSubsetsOf(S) = SUBSET S
    BY FS_FiniteSubsetsOfFinite
  <1>3. PICK T \in C : \A U \in C : ~ (<<U, T>> \in StrictSubsetOrdering(S))
    BY <1>1, <1>2, WFMin
  <1> QED
    BY <1>3 DEF StrictSubsetOrdering

(* The amounts of some rows, counted paisa by paisa. *)
Units(rows) == {u \in rows \X Nat : u[2] \in 1 .. body[u[1]].amount}

LEMMA AmountType ==
  ASSUME body \in [Requests -> Body], NEW r \in Requests
  PROVE  body[r].amount \in Nat \ {0}
  BY FeesAssumption DEF Body, PaymentBody, AdjustmentBody

LEMMA UnitsOfOneMore ==
  ASSUME body \in [Requests -> Body], NEW rows \in SUBSET Requests, IsFiniteSet(Units(rows)),
         NEW r \in Requests \ rows
  PROVE  /\ IsFiniteSet(Units(rows \cup {r}))
         /\ Cardinality(Units(rows \cup {r})) = Cardinality(Units(rows)) + body[r].amount
  <1> DEFINE n == body[r].amount
             own == {r} \X (1 .. n)
  <1>1. n \in Nat \ {0}
    BY AmountType
  <1>2. IsFiniteSet(1 .. n) /\ Cardinality(1 .. n) = n
    BY <1>1, FS_Interval
  <1>3. IsFiniteSet(own) /\ Cardinality(own) = n
    <2>1. IsFiniteSet({r}) /\ Cardinality({r}) = 1
      BY FS_Singleton
    <2>2. IsFiniteSet(own) /\ Cardinality(own) = 1 * n
      BY <1>2, <2>1, FS_Product
    <2> QED
      BY <1>1, <2>2
  <1>4. Units(rows \cup {r}) = Units(rows) \cup own
    BY <1>1 DEF Units
  <1>5. Units(rows) \cap own = {}
    BY DEF Units
  <1> QED
    <2> HIDE DEF own, n
    <2>1. /\ IsFiniteSet(Units(rows) \cup own)
          /\ Cardinality(Units(rows) \cup own) = Cardinality(Units(rows)) + n - Cardinality({})
      BY <1>3, <1>5, FS_Union
    <2>2. Cardinality({}) = 0 /\ Cardinality(Units(rows)) \in Nat
      BY FS_EmptySet, FS_CardinalityType
    <2>3. Cardinality(Units(rows) \cup own) = Cardinality(Units(rows)) + n
      BY ONLY <1>1, <2>1, <2>2
    <2> QED
      BY <1>4, <2>1, <2>3 DEF n

LEMMA UnitsFinite ==
  ASSUME body \in [Requests -> Body], NEW rows \in SUBSET Requests
  PROVE  IsFiniteSet(Units(rows))
  <1> DEFINE C == {s \in SUBSET rows : ~ IsFiniteSet(Units(s))}
  <1> SUFFICES ASSUME C # {} PROVE FALSE
    BY Zenon
  <1>1. IsFiniteSet(rows)
    BY FeesAssumption, FS_Subset
  <1>2. PICK T \in C : \A U \in C : U \subseteq T => U = T
    <2>1. C \subseteq SUBSET rows
      OBVIOUS
    <2> HIDE DEF C
    <2> QED
      BY <1>1, <2>1, SmallestSubset
  <1>3. T # {}
    BY FS_EmptySet DEF Units
  <1>4. PICK x \in T : TRUE
    BY <1>3
  <1>5. T \ {x} \notin C
    BY <1>2, <1>4
  <1>6. IsFiniteSet(Units(T \ {x}))
    BY <1>5
  <1>7. T = (T \ {x}) \cup {x}
    BY <1>4
  <1>8. IsFiniteSet(Units((T \ {x}) \cup {x}))
    BY <1>4, <1>6, UnitsOfOneMore
  <1> QED
    BY <1>2, <1>7, <1>8

(* The fold of MapThenSumSet counts those units: the count satisfies the
   equation that defines the fold, and no other function does. *)
LEMMA SumCounts ==
  ASSUME body \in [Requests -> Body], NEW rows \in SUBSET Requests
  PROVE  MapThenSumSet(LAMBDA r : body[r].amount, rows) = Cardinality(Units(rows))
  <1> DEFINE Amount(r) == body[r].amount
             Pick(s) == CHOOSE x \in s : TRUE
             Sums(g) == g = [s \in SUBSET rows |->
                               IF s = {} THEN 0
                               ELSE Amount(Pick(s)) + g[s \ {Pick(s)}]]
             count == [s \in SUBSET rows |-> Cardinality(Units(s))]
             sum == CHOOSE g : Sums(g)
  <1>1. MapThenSumSet(LAMBDA r : body[r].amount, rows) = sum[rows]
    BY DEF MapThenSumSet, MapThenFoldSet
  <1>2. Cardinality(Units({})) = 0
    BY FS_EmptySet DEF Units
  <1>3. ASSUME NEW s \in SUBSET rows, s # {}
        PROVE  /\ Pick(s) \in s
               /\ Cardinality(Units(s)) = Amount(Pick(s)) + Cardinality(Units(s \ {Pick(s)}))
    <2>1. Pick(s) \in s
      BY <1>3
    <2> DEFINE p == Pick(s)
    <2> HIDE DEF p
    <2>2. s = (s \ {p}) \cup {p} /\ p \in s
      BY <2>1 DEF p
    <2>3. IsFiniteSet(Units(s \ {p}))
      BY UnitsFinite
    <2>4. Cardinality(Units((s \ {p}) \cup {p})) = Cardinality(Units(s \ {p})) + body[p].amount
      BY <2>2, <2>3, UnitsOfOneMore
    <2>5. Cardinality(Units(s \ {p})) \in Nat /\ body[p].amount \in Nat
      BY <2>2, <2>3, FS_CardinalityType, AmountType
    <2>6. Cardinality(Units(s)) = body[p].amount + Cardinality(Units(s \ {p}))
      <3>1. Cardinality(Units(s)) = Cardinality(Units(s \ {p})) + body[p].amount
        BY ONLY <2>2, <2>4
      <3> QED
        BY ONLY <2>5, <3>1
    <2> QED
      BY <2>1, <2>6 DEF p
  <1>4. Sums(count)
    BY <1>2, <1>3
  <1>5. Sums(sum)
    BY <1>4
  <1> DEFINE C == {s \in SUBSET rows : sum[s] # count[s]}
  <1>6. C = {}
    <2> SUFFICES ASSUME C # {} PROVE FALSE
      OBVIOUS
    <2>1. IsFiniteSet(rows)
      BY FeesAssumption, FS_Subset
    <2>2. PICK T \in C : \A U \in C : U \subseteq T => U = T
      <3>1. C \subseteq SUBSET rows
        OBVIOUS
      <3> HIDE DEF C
      <3> QED
        BY <2>1, <3>1, SmallestSubset
    <2>3. T # {}
      BY <1>2, <1>5
    <2>4. Pick(T) \in T
      BY <2>3
    <2>5. T \ {Pick(T)} \notin C
      BY <2>2, <2>4
    <2>6. sum[T \ {Pick(T)}] = count[T \ {Pick(T)}]
      BY <2>5
    <2>7. sum[T] = Amount(Pick(T)) + sum[T \ {Pick(T)}]
      BY <1>5, <2>3
    <2>8. count[T] = Amount(Pick(T)) + count[T \ {Pick(T)}]
      BY <1>4, <2>3
    <2> QED
      BY <2>6, <2>7, <2>8
  <1>7. sum[rows] = count[rows]
    BY <1>6
  <1> QED
    BY <1>1, <1>7

LEMMA TotalCounts ==
  ASSUME body \in [Requests -> Body], NEW rows \in SUBSET Requests, NEW op
  PROVE  /\ Total(rows, body, op) = Cardinality(Units(OfKind(rows, body, op)))
         /\ Total(rows, body, op) \in Nat
  <1>1. OfKind(rows, body, op) \in SUBSET Requests
    BY DEF OfKind
  <1>2. Total(rows, body, op) = Cardinality(Units(OfKind(rows, body, op)))
    BY <1>1, SumCounts DEF Total
  <1> QED
    BY <1>1, <1>2, UnitsFinite, FS_CardinalityType

(* One row more adds its amount to the total of its kind and to no other. *)
LEMMA TotalAdds ==
  ASSUME body \in [Requests -> Body], NEW rows \in SUBSET Requests, NEW r \in Requests \ rows, NEW op
  PROVE  Total(rows \cup {r}, body, op) =
           Total(rows, body, op) + (IF body[r].op = op THEN body[r].amount ELSE 0)
  <1> DEFINE some == OfKind(rows, body, op)
  <1>1. Total(rows, body, op) = Cardinality(Units(some)) /\ Total(rows, body, op) \in Nat
    BY TotalCounts
  <1>2. rows \cup {r} \in SUBSET Requests
    OBVIOUS
  <1>3. Total(rows \cup {r}, body, op) = Cardinality(Units(OfKind(rows \cup {r}, body, op)))
    BY <1>2, TotalCounts
  <1>4. CASE body[r].op = op
    <2>1. OfKind(rows \cup {r}, body, op) = some \cup {r}
      BY <1>4 DEF OfKind
    <2>2. some \in SUBSET Requests /\ r \in Requests \ some
      BY DEF OfKind
    <2>3. Cardinality(Units(some \cup {r})) = Cardinality(Units(some)) + body[r].amount
      BY <2>2, UnitsFinite, UnitsOfOneMore
    <2> QED
      BY <1>1, <1>3, <1>4, <2>1, <2>3
  <1>5. CASE body[r].op # op
    <2>1. OfKind(rows \cup {r}, body, op) = some
      BY <1>5 DEF OfKind
    <2> QED
      BY <1>1, <1>3, <1>5, <2>1
  <1> QED
    BY <1>4, <1>5

-----------------------------------------------------------------------------
(* Only a commit changes what is stored; every other step works on stages,
   locks, drafts and answers. *)
LEMMA OnlyCommitWrites ==
  ASSUME [Next]_vars
  PROVE  \/ \E r \in Requests : Commit(r)
         \/ UNCHANGED <<body, database>>
  <1>1. ASSUME NEW r \in Requests, Acquire(r) \/ Statement(r), ~ Commit(r)
        PROVE  UNCHANGED <<body, database>>
    <2>1. CASE Acquire(r)
      BY <2>1 DEF Acquire, LockInvoice, TakeReceiptNo
    <2>2. CASE \/ ReplayPayment(r) \/ RefusePayment(r) \/ RefuseDuplicateKey(r)
               \/ RefuseRefund(r)
      BY <2>2 DEF ReplayPayment, RefusePayment, RefuseDuplicateKey, RefuseRefund, LeaveWith
    <2>3. CASE \/ AdmitPayment(r) \/ InsertPayment(r) \/ AdmitAdjustment(r)
               \/ InsertAdjustment(r) \/ RecomputeStatus(r) \/ RecordInTransaction(r)
      BY <2>3 DEF AdmitPayment, InsertPayment, AdmitAdjustment, InsertAdjustment,
                  RecomputeStatus, RecordInTransaction
    <2>4. CASE Respond(r)
      BY <2>4 DEF Respond, AuditAlreadyPersisted, database
    <2> QED
      BY <1>1, <2>1, <2>2, <2>3, <2>4 DEF Statement
  <1>2. ASSUME NEW r \in Requests, Rollback(r) \/ LoseAnswer(r)
        PROVE  UNCHANGED <<body, database>>
    BY <1>2 DEF Rollback, LoseAnswer, LeaveWith
  <1>3. CASE Finished \/ UNCHANGED vars
    BY <1>3 DEF Finished, vars
  <1> QED
    BY <1>1, <1>2, <1>3 DEF Next
-----------------------------------------------------------------------------
(* What a commit may count on, and what it does to the rows. *)

(* A request about to commit has no row yet. *)
LEMMA FreshRow ==
  ASSUME IInv, NEW r \in Requests, stage[r] \in InTransaction
  PROVE  r \notin ledger /\ answer[r] = None
  <1>1. answer[r] = None
    BY DEF IInv, AnswersTruthful, InTransaction, Decided
  <1>2. None # r
    BY FeesAssumption
  <1> QED
    BY <1>1, <1>2 DEF IInv, AnswersTruthful

(* Two transactions under way never share an invoice, nor do two that hold
   receipt numbers share a college. *)
LEMMA Exclusion ==
  ASSUME IInv, NEW r \in Requests, NEW s \in Requests, r # s,
         stage[r] \in InTransaction, stage[s] \in InTransaction
  PROVE  /\ InvoiceOf(r) # InvoiceOf(s)
         /\ IsPayment(r) /\ stage[r] \in Numbered /\ IsPayment(s) /\ stage[s] \in Numbered
              => CollegeAt(r) # CollegeAt(s)
  BY DEF IInv, LocksHeld

LEMMA ReceiptsGapFreeNext ==
  ASSUME IInv, [Next]_vars
  PROVE  ReceiptsGapFree'
  <1>1. ASSUME NEW r \in Requests, Commit(r), ~ IsPayment(r) PROVE ReceiptsGapFree'
    <2>1. UNCHANGED <<receipt, lastIssued, body>>
      BY <1>1 DEF Commit
    <2>2. \A c : PaymentsAt(c)' = PaymentsAt(c)
      BY <1>1, <2>1 DEF Commit, PaymentsAt, IsPayment, CollegeAt
    <2> QED
      BY <2>1, <2>2 DEF IInv, ReceiptsGapFree
  <1>2. ASSUME NEW r \in Requests, Commit(r), IsPayment(r) PROVE ReceiptsGapFree'
    <2>c. PICK c \in Colleges : c = CollegeAt(r)
      BY BodyType DEF IInv, TypeOK
    <2>n. PICK n \in Nat : n = lastIssued[c]
      BY DEF IInv, TypeOK
    <2>1. r \notin ledger
      BY <1>2, FreshRow DEF Commit, InTransaction
    <2>2. draftReceipt[r] = n + 1
      BY <1>2, <2>c, <2>n DEF IInv, DraftsSound, Commit, Numbered, Written, NextReceiptNo
    <2>3. /\ body' = body
          /\ receipt' = [receipt EXCEPT ![r] = n + 1]
          /\ lastIssued' = [lastIssued EXCEPT ![c] = n + 1]
          /\ ledger' = ledger \cup {r}
      BY <1>2, <2>c, <2>n, <2>2 DEF Commit
    <2>4. ASSUME NEW d \in Colleges, d # c
          PROVE  PaymentsAt(d)' = PaymentsAt(d) /\ lastIssued'[d] = lastIssued[d]
      BY <2>c, <2>3, <2>4 DEF PaymentsAt, IsPayment, CollegeAt, IInv, TypeOK
    <2>5. PaymentsAt(c)' = PaymentsAt(c) \cup {r} /\ r \notin PaymentsAt(c)
      BY <1>2, <2>c, <2>1, <2>3 DEF PaymentsAt, IsPayment, CollegeAt
    <2>6. \A p \in ledger : receipt'[p] = receipt[p]
      BY <2>1, <2>3 DEF IInv, TypeOK
    <2>7. receipt'[r] = n + 1 /\ lastIssued'[c] = n + 1
      BY <2>1, <2>3 DEF IInv, TypeOK
    <2>8. \A p \in PaymentsAt(c) : receipt[p] \in 1 .. n
      BY <2>n DEF IInv, ReceiptsGapFree
    <2>9. {receipt'[p] : p \in PaymentsAt(c)'} = 1 .. (n + 1)
      <3>1. {receipt'[p] : p \in PaymentsAt(c)'} = {receipt[p] : p \in PaymentsAt(c)} \cup {n + 1}
        BY <2>5, <2>6, <2>7 DEF PaymentsAt
      <3>2. {receipt[p] : p \in PaymentsAt(c)} = 1 .. n
        BY <2>n DEF IInv, ReceiptsGapFree
      <3>3. (1 .. n) \cup {n + 1} = 1 .. (n + 1)
        OBVIOUS
      <3> QED
        BY <3>1, <3>2, <3>3
    <2>10. \A p, q \in PaymentsAt(c)' : receipt'[p] = receipt'[q] => p = q
      <3>1. \A p, q \in PaymentsAt(c) : receipt[p] = receipt[q] => p = q
        BY DEF IInv, ReceiptsGapFree
      <3>2. \A p \in PaymentsAt(c) : receipt'[p] = receipt[p] /\ receipt[p] # n + 1
        BY <2>1, <2>6, <2>8 DEF PaymentsAt
      <3> QED
        BY <2>5, <2>7, <3>1, <3>2
    <2>11. ASSUME NEW d \in Colleges, d # c
           PROVE  /\ {receipt'[p] : p \in PaymentsAt(d)'} = 1 .. lastIssued'[d]
                  /\ \A p, q \in PaymentsAt(d)' : receipt'[p] = receipt'[q] => p = q
      <3>1. \A p \in PaymentsAt(d) : receipt'[p] = receipt[p]
        BY <2>6 DEF PaymentsAt
      <3>2. {receipt'[p] : p \in PaymentsAt(d)} = {receipt[p] : p \in PaymentsAt(d)}
        BY <3>1
      <3> QED
        BY <2>4, <2>11, <3>1, <3>2 DEF IInv, ReceiptsGapFree
    <2> QED
      BY <2>7, <2>9, <2>10, <2>11 DEF ReceiptsGapFree
  <1>3. CASE UNCHANGED <<body, database>>
    BY <1>3 DEF IInv, ReceiptsGapFree, PaymentsAt, IsPayment, CollegeAt, database
  <1> QED
    BY <1>1, <1>2, <1>3, OnlyCommitWrites

LEMMA OnePaymentPerKeyNext ==
  ASSUME IInv, [Next]_vars
  PROVE  OnePaymentPerKey'
  <1>1. ASSUME NEW r \in Requests, Commit(r) PROVE OnePaymentPerKey'
    <2>1. IsPayment(r) => SameKey(ledger, r) = {}
      BY <1>1 DEF IInv, DraftsSound, Commit, Written
    <2>2. body' = body /\ ledger' = ledger \cup {r}
      BY <1>1 DEF Commit
    <2>3. ASSUME NEW c \in Colleges, NEW p \in PaymentsAt(c)', NEW q \in PaymentsAt(c)',
                 body[p].key = body[q].key
          PROVE  p = q
      <3>1. /\ p \in PaymentsAt(c) \/ p = r
            /\ q \in PaymentsAt(c) \/ q = r
            /\ IsPayment(p) /\ IsPayment(q) /\ CollegeAt(p) = c /\ CollegeAt(q) = c
        BY <2>2 DEF PaymentsAt, IsPayment, CollegeAt
      <3>2. ASSUME IsPayment(r), NEW e \in ledger, IsPayment(e),
                   CollegeAt(e) = CollegeAt(r), body[e].key = body[r].key
            PROVE  FALSE
        BY <2>1, <3>2 DEF SameKey
      <3> QED
        BY <2>3, <3>1, <3>2 DEF IInv, OnePaymentPerKey, PaymentsAt
    <2> QED
      BY <2>2, <2>3 DEF OnePaymentPerKey
  <1>2. CASE UNCHANGED <<body, database>>
    BY <1>2 DEF IInv, OnePaymentPerKey, PaymentsAt, IsPayment, CollegeAt, database
  <1> QED
    BY <1>1, <1>2, OnlyCommitWrites

LEMMA StatusMatchesLedgerNext ==
  ASSUME IInv, [Next]_vars
  PROVE  StatusMatchesLedger'
  <1>1. ASSUME NEW r \in Requests, Commit(r) PROVE StatusMatchesLedger'
    <2>1. /\ body' = body /\ ledger' = ledger \cup {r}
          /\ status' = [status EXCEPT ![InvoiceOf(r)] = draftStatus[r]]
      BY <1>1 DEF Commit
    <2>2. draftStatus[r] = StatusOf(ledger \cup {r}, InvoiceOf(r))
      BY <1>1 DEF IInv, DraftsSound, Commit
    <2>3. ASSUME NEW i \in Invoices
          PROVE  status'[i] = StatusOf(ledger \cup {r}, i)
      <3>1. CASE i = InvoiceOf(r)
        BY <2>1, <2>2, <3>1 DEF IInv, TypeOK
      <3>2. CASE i # InvoiceOf(r)
        BY <2>1, <3>2, StatusOfOther DEF IInv, TypeOK, StatusMatchesLedger
      <3> QED
        BY <3>1, <3>2
    <2> QED
      BY <2>1, <2>3 DEF StatusMatchesLedger, StatusOf, RowsOf
  <1>2. CASE UNCHANGED <<body, database>>
    BY <1>2 DEF IInv, StatusMatchesLedger, StatusOf, RowsOf, database
  <1> QED
    BY <1>1, <1>2, OnlyCommitWrites

(* A refund that commits still fits into what was paid less what was given
   back: no refund of the same invoice can have committed since it looked. *)
LEMMA RefundsCoveredNext ==
  ASSUME IInv, [Next]_vars
  PROVE  RefundsCovered'
  <1>1. ASSUME NEW r \in Requests, Commit(r) PROVE RefundsCovered'
    <2>1. body' = body /\ ledger' = ledger \cup {r} /\ body \in [Requests -> Body]
      BY <1>1 DEF Commit, IInv, TypeOK
    <2> SUFFICES ASSUME NEW i \in Invoices
                 PROVE  Total(RowsOf(ledger', i), body, "refund")
                          <= Total(RowsOf(ledger', i), body, "payment")
      BY <2>1 DEF RefundsCovered, RowsOf
    <2> DEFINE own == RowsOf(ledger, i)
    <2>2. own \in SUBSET Requests /\ r \notin own
      BY <1>1, FreshRow DEF RowsOf, IInv, TypeOK, Commit, InTransaction
    <2>3. Total(own, body, "refund") <= Total(own, body, "payment")
      BY DEF IInv, RefundsCovered
    <2>4. CASE InvoiceOf(r) # i
      BY <2>1, <2>3, <2>4, RowsOfOther
    <2>5. CASE InvoiceOf(r) = i
      <3>1. RowsOf(ledger', i) = own \cup {r}
        BY <2>1, <2>5 DEF RowsOf, InvoiceOf
      <3>2. body[r].amount \in Nat \ {0}
        BY <2>1, AmountType
      <3>3. Total(own, body, "refund") \in Nat /\ Total(own, body, "payment") \in Nat
        BY <2>1, <2>2, TotalCounts
      <3>4. Total(own \cup {r}, body, "payment") =
              Total(own, body, "payment") + (IF body[r].op = "payment" THEN body[r].amount ELSE 0)
        BY <2>1, <2>2, TotalAdds
      <3>5. Total(own \cup {r}, body, "refund") =
              Total(own, body, "refund") + (IF body[r].op = "refund" THEN body[r].amount ELSE 0)
        BY <2>1, <2>2, TotalAdds
      <3>6. body[r].op = "refund" =>
              body[r].amount <= Total(own, body, "payment") - Total(own, body, "refund")
        BY <1>1, <2>5
        DEF Commit, IInv, DraftsSound, InTransaction, RefundEligible, EffectivePaid
      <3> HIDE DEF own
      <3>7. CASE body[r].op = "refund"
        BY <3>1, <3>2, <3>3, <3>4, <3>5, <3>6, <3>7
      <3>8. CASE body[r].op # "refund"
        BY <2>3, <3>1, <3>2, <3>3, <3>4, <3>5, <3>8
      <3> QED
        BY <3>7, <3>8
    <2> QED
      BY <2>4, <2>5
  <1>2. CASE UNCHANGED <<body, database>>
    BY <1>2 DEF IInv, RefundsCovered, RowsOf, database
  <1> QED
    BY <1>1, <1>2, OnlyCommitWrites

LEMMA AuditedExactlyOnceNext ==
  ASSUME IInv, [Next]_vars
  PROVE  AuditedExactlyOnce'
  <1>1. ASSUME NEW r \in Requests, Commit(r) PROVE AuditedExactlyOnce'
    <2>1. r \notin ledger
      BY <1>1, FreshRow DEF Commit, InTransaction
    <2> QED
      BY <1>1, <2>1 DEF Commit, IInv, TypeOK, AuditedExactlyOnce
  <1>2. CASE UNCHANGED <<body, database>>
    BY <1>2 DEF IInv, AuditedExactlyOnce, database
  <1> QED
    BY <1>1, <1>2, OnlyCommitWrites

-----------------------------------------------------------------------------
(* The steps that only move a request on, within its transaction or after it. *)

Advance(r) ==
  \/ AdmitPayment(r) \/ InsertPayment(r) \/ AdmitAdjustment(r) \/ InsertAdjustment(r)
  \/ RecomputeStatus(r) \/ RecordInTransaction(r) \/ Respond(r) \/ LoseAnswer(r)

(* The steps that end a transaction without writing. *)
Abandon(r) ==
  RefusePayment(r) \/ RefuseDuplicateKey(r) \/ RefuseRefund(r) \/ Rollback(r)

LEMMA StepCases ==
  ASSUME [Next]_vars
  PROVE  \/ UNCHANGED vars
         \/ \E r \in Requests :
              \/ LockInvoice(r) \/ TakeReceiptNo(r) \/ Advance(r)
              \/ Abandon(r) \/ ReplayPayment(r) \/ Commit(r)
  BY DEF Next, Acquire, Statement, Finished, Advance, Abandon

LEMMA AnswersTruthfulNext ==
  ASSUME IInv, [Next]_vars
  PROVE  AnswersTruthful'
  <1> USE DEF IInv, TypeOK, AnswersTruthful
  <1>1. ASSUME NEW r \in Requests, LockInvoice(r) \/ TakeReceiptNo(r) \/ Advance(r)
        PROVE  AnswersTruthful'
    BY <1>1
    DEF LockInvoice, TakeReceiptNo, Advance, AdmitPayment, InsertPayment, AdmitAdjustment,
        InsertAdjustment, RecomputeStatus, RecordInTransaction, Respond, LoseAnswer,
        AuditAlreadyPersisted, Decided, database
  <1>2. ASSUME NEW r \in Requests, Abandon(r) PROVE AnswersTruthful'
    BY <1>2
    DEF Abandon, RefusePayment, RefuseDuplicateKey, RefuseRefund, Rollback, LeaveWith,
        InTransaction, Decided, database
  <1>3. ASSUME NEW r \in Requests, ReplayPayment(r) PROVE AnswersTruthful'
    <2>1. r \notin ledger /\ answer[r] = None
      BY <1>3, FreshRow DEF ReplayPayment, InTransaction
    <2>2. PICK e \in SameKey(ledger, r) :
            SameRequest(e, r) /\ answer' = [answer EXCEPT ![r] = e]
      BY <1>3 DEF ReplayPayment
    <2>3. /\ e \in ledger /\ e \in Requests /\ e # r /\ e # None
          /\ body[e].invoice = body[r].invoice
          /\ body[e].amount = body[r].amount
          /\ body[e].key = body[r].key
      BY <2>1, <2>2, FeesAssumption DEF SameKey, SameRequest
    <2>4. /\ stage' = [stage EXCEPT ![r] = "replayed"]
          /\ UNCHANGED <<body, ledger>>
      BY <1>3 DEF ReplayPayment, LeaveWith, database
    <2> QED
      BY <2>1, <2>2, <2>3, <2>4 DEF Decided
  <1>4. ASSUME NEW r \in Requests, Commit(r) PROVE AnswersTruthful'
    <2>1. r # None
      BY FeesAssumption
    <2> QED
      BY <1>4, <2>1 DEF Commit, Decided
  <1>5. CASE UNCHANGED vars
    BY <1>5 DEF vars, database
  <1> QED
    BY <1>1, <1>2, <1>3, <1>4, <1>5, StepCases

-----------------------------------------------------------------------------
(* Two transactions never hold the same lock: each lock names one holder, and
   it is taken only when free. *)

LEMMA LocksHeldNext ==
  ASSUME IInv, [Next]_vars
  PROVE  LocksHeld'
  <1> USE DEF IInv, TypeOK, LocksHeld
  <1>0. \A r \in Requests : /\ InvoiceOf(r) \in Invoices /\ CollegeAt(r) \in Colleges
                            /\ r # None
    BY BodyType, FeesAssumption
  <1>1. ASSUME NEW r \in Requests, LockInvoice(r) PROVE LocksHeld'
    BY <1>0, <1>1
    DEF LockInvoice, InvoiceOf, CollegeAt, IsPayment, InTransaction, Numbered, Written
  <1>2. ASSUME NEW r \in Requests, TakeReceiptNo(r) PROVE LocksHeld'
    BY <1>0, <1>2
    DEF TakeReceiptNo, InvoiceOf, CollegeAt, IsPayment, InTransaction, Numbered, Written
  <1>3. ASSUME NEW r \in Requests, Advance(r) PROVE LocksHeld'
    BY <1>0, <1>3
    DEF Advance, AdmitPayment, InsertPayment, AdmitAdjustment,
        InsertAdjustment, RecomputeStatus, RecordInTransaction, Respond, LoseAnswer,
        locks, InvoiceOf, CollegeAt, IsPayment, InTransaction, Numbered, Written
  <1>4. ASSUME NEW r \in Requests, NEW end \in Decided \cup Ended,
               body' = body, stage' = [stage EXCEPT ![r] = end], ReleaseLocks(r)
        PROVE  LocksHeld'
    BY <1>0, <1>4
    DEF ReleaseLocks, InvoiceOf, CollegeAt, IsPayment, InTransaction, Numbered, Written,
        Decided, Ended
  <1>5. ASSUME NEW r \in Requests, Abandon(r) PROVE LocksHeld'
    BY <1>4, <1>5
    DEF Abandon, RefusePayment, RefuseDuplicateKey, RefuseRefund, Rollback, LeaveWith, Ended
  <1>6. ASSUME NEW r \in Requests, ReplayPayment(r) \/ Commit(r) PROVE LocksHeld'
    BY <1>4, <1>6 DEF ReplayPayment, Commit, LeaveWith, Decided
  <1>7. CASE UNCHANGED vars
    BY <1>7 DEF vars, locks, InvoiceOf, CollegeAt, IsPayment
  <1> QED
    BY <1>1, <1>2, <1>3, <1>5, <1>6, <1>7, StepCases

-----------------------------------------------------------------------------
(* What a transaction knows survives the steps of others: a commit that could
   disturb it would need a lock the transaction holds. *)

(* DraftsSound, for one request. *)
DraftSound(r) ==
  /\ IsPayment(r) /\ stage[r] \in Numbered =>
       draftReceipt[r] = NextReceiptNo(lastIssued[CollegeAt(r)])
  /\ IsPayment(r) /\ stage[r] \in Written => SameKey(ledger, r) = {}
  /\ IsPayment(r) /\ stage[r] \in InTransaction \ {"locked"} =>
       status[InvoiceOf(r)] # "waived"
  /\ stage[r] \in {"recomputed", "audited"} =>
       draftStatus[r] = StatusOf(ledger \cup {r}, InvoiceOf(r))
  /\ body[r].op = "refund" /\ stage[r] \in InTransaction \ {"locked"} =>
       RefundEligible(ledger, r)

(* A request whose own stage and draft are left alone keeps a sound draft
   when nothing is written. *)
LEMMA DraftKept ==
  ASSUME NEW s, DraftSound(s), UNCHANGED <<body, database>>,
         stage'[s] = stage[s], draftReceipt'[s] = draftReceipt[s],
         draftStatus'[s] = draftStatus[s]
  PROVE  DraftSound(s)'
  BY DEF DraftSound, database, IsPayment, CollegeAt, InvoiceOf, SameKey, StatusOf,
         RowsOf, RefundEligible

(* A request that is in no transaction has nothing to be sound about. *)
LEMMA DraftGone ==
  ASSUME NEW s, stage'[s] \notin InTransaction \/ stage'[s] = "locked"
  PROVE  DraftSound(s)'
  BY DEF DraftSound, InTransaction, Numbered, Written

(* The commit of one request keeps the draft of another sound. *)
LEMMA DraftOfOther ==
  ASSUME IInv, NEW r \in Requests, Commit(r), NEW s \in Requests, s # r
  PROVE  DraftSound(s)'
  <1>1. /\ body' = body /\ ledger' = ledger \cup {r}
        /\ status' = [status EXCEPT ![InvoiceOf(r)] = draftStatus[r]]
        /\ IF IsPayment(r)
           THEN lastIssued' = [lastIssued EXCEPT ![CollegeAt(r)] = draftReceipt[r]]
           ELSE lastIssued' = lastIssued
        /\ stage'[s] = stage[s] /\ UNCHANGED <<draftReceipt, draftStatus>>
    BY DEF Commit, drafts, IInv, TypeOK
  <1>2. stage[r] \in InTransaction /\ stage[r] \in Numbered
    BY DEF Commit, InTransaction, Numbered, Written
  <1>3. DraftSound(s)
    BY DEF DraftSound, IInv, DraftsSound
  <1>4. CASE stage[s] \notin InTransaction
    BY <1>1, <1>4, DraftGone
  <1>5. CASE stage[s] \in InTransaction
    <2>1. InvoiceOf(r) # InvoiceOf(s)
      BY <1>2, <1>5, Exclusion
    <2>2. IsPayment(r) /\ IsPayment(s) /\ stage[s] \in Numbered => CollegeAt(r) # CollegeAt(s)
      BY <1>2, <1>5, Exclusion
    <2>3. InvoiceOf(s) \in Invoices /\ CollegeAt(s) \in Colleges
      BY BodyType DEF IInv, TypeOK
    <2>4. IsPayment(s) /\ stage[s] \in Numbered =>
            lastIssued'[CollegeAt(s)] = lastIssued[CollegeAt(s)]
      BY <1>1, <2>2, <2>3 DEF IInv, TypeOK
    <2>5. IsPayment(s) /\ stage[s] \in Numbered => SameKey(ledger', s) = SameKey(ledger, s)
      <3>1. ASSUME IsPayment(s), stage[s] \in Numbered
            PROVE  ~ (IsPayment(r) /\ CollegeAt(r) = CollegeAt(s))
        BY <2>2, <3>1
      <3> QED
        BY <1>1, <3>1 DEF SameKey
    <2>6. status'[InvoiceOf(s)] = status[InvoiceOf(s)]
      BY <1>1, <2>1, <2>3 DEF IInv, TypeOK
    <2>7. StatusOf(ledger' \cup {s}, InvoiceOf(s)) = StatusOf(ledger \cup {s}, InvoiceOf(s))
      <3>1. ledger' \cup {s} = (ledger \cup {s}) \cup {r}
        BY <1>1
      <3> QED
        BY <2>1, <3>1, StatusOfOther
    <2>8. RefundEligible(ledger', s) = RefundEligible(ledger, s)
      BY <1>1, <2>1, RefundEligibleOther
    <2>9. /\ IsPayment(s)' = IsPayment(s) /\ InvoiceOf(s)' = InvoiceOf(s)
          /\ CollegeAt(s)' = CollegeAt(s)
          /\ SameKey(ledger, s)' = SameKey(ledger', s)
          /\ StatusOf(ledger \cup {s}, InvoiceOf(s))' = StatusOf(ledger' \cup {s}, InvoiceOf(s))
          /\ RefundEligible(ledger, s)' = RefundEligible(ledger', s)
      BY <1>1 DEF IsPayment, InvoiceOf, CollegeAt, SameKey, StatusOf, RowsOf, RefundEligible
    <2>10. Written \subseteq Numbered
      BY DEF Numbered
    <2> QED
      BY <1>1, <1>3, <2>4, <2>5, <2>6, <2>7, <2>8, <2>9, <2>10 DEF DraftSound
  <1> QED
    BY <1>4, <1>5

LEMMA DraftsSoundNext ==
  ASSUME IInv, [Next]_vars
  PROVE  DraftsSound'
  <1>1. \A s \in Requests : DraftSound(s)
    BY DEF IInv, DraftsSound, DraftSound
  <1>2. SUFFICES ASSUME NEW s \in Requests PROVE DraftSound(s)'
    BY DEF DraftsSound, DraftSound
  <1> USE DEF IInv, TypeOK
  <1>3. ASSUME NEW r \in Requests, LockInvoice(r) PROVE DraftSound(s)'
    BY <1>1, <1>3, DraftKept, DraftGone DEF LockInvoice, drafts
  <1>4. ASSUME NEW r \in Requests, Abandon(r) \/ ReplayPayment(r) PROVE DraftSound(s)'
    <2>1. UNCHANGED <<body, database, drafts>> /\ stage'[r] \notin InTransaction
      BY <1>4
      DEF Abandon, RefusePayment, RefuseDuplicateKey, RefuseRefund, Rollback,
          ReplayPayment, LeaveWith, InTransaction
    <2>2. s # r => stage'[s] = stage[s]
      BY <1>4
      DEF Abandon, RefusePayment, RefuseDuplicateKey, RefuseRefund, Rollback,
          ReplayPayment, LeaveWith
    <2> QED
      BY <1>1, <2>1, <2>2, DraftKept, DraftGone DEF drafts
  <1>5. ASSUME NEW r \in Requests, TakeReceiptNo(r) PROVE DraftSound(s)'
    <2>1. CASE s # r
      BY <1>1, <1>5, <2>1, DraftKept DEF TakeReceiptNo
    <2>2. CASE s = r
      <3>1. /\ draftReceipt'[r] = NextReceiptNo(lastIssued[CollegeAt(r)])
            /\ stage'[r] = "numbered" /\ stage[r] = "admitted"
            /\ UNCHANGED <<body, database>>
        BY <1>5 DEF TakeReceiptNo
      <3> QED
        BY <1>1, <2>2, <3>1
        DEF DraftSound, database, IsPayment, CollegeAt, InvoiceOf, StatusOf, RowsOf,
            RefundEligible, Numbered, Written, InTransaction
    <2> QED
      BY <2>1, <2>2
  <1>6. ASSUME NEW r \in Requests, Advance(r) PROVE DraftSound(s)'
    <2>1. CASE s # r
      <3>1. CASE Respond(r)
        BY <1>1, <2>1, <3>1
        DEF Respond, AuditAlreadyPersisted, DraftSound, drafts, IsPayment, CollegeAt,
            InvoiceOf, SameKey, StatusOf, RowsOf, RefundEligible
      <3>2. CASE ~ Respond(r)
        BY <1>1, <1>6, <2>1, <3>2, DraftKept
        DEF Advance, AdmitPayment, InsertPayment, AdmitAdjustment, InsertAdjustment,
            RecomputeStatus, RecordInTransaction, LoseAnswer, drafts
      <3> QED
        BY <3>1, <3>2
    <2>2. CASE s = r
      <3> USE <2>2 DEF Numbered, Written, InTransaction, drafts, database, IsPayment,
                       CollegeAt, InvoiceOf, SameKey, StatusOf, RowsOf, RefundEligible
      <3>1. CASE AdmitPayment(r)
        BY <1>1, <3>1 DEF AdmitPayment, DraftSound
      <3>2. CASE InsertPayment(r)
        BY <1>1, <3>2 DEF InsertPayment, DraftSound
      <3>3. CASE AdmitAdjustment(r)
        BY <1>1, <3>3 DEF AdmitAdjustment, DraftSound
      <3>4. CASE InsertAdjustment(r)
        BY <1>1, <3>4 DEF InsertAdjustment, DraftSound
      <3>5. CASE RecomputeStatus(r)
        BY <1>1, <3>5 DEF RecomputeStatus, DraftSound
      <3>6. CASE RecordInTransaction(r)
        BY <1>1, <3>6 DEF RecordInTransaction, DraftSound
      <3>7. CASE Respond(r) \/ LoseAnswer(r)
        BY <3>7, DraftGone DEF Respond, LoseAnswer
      <3> QED
        BY <1>6, <3>1, <3>2, <3>3, <3>4, <3>5, <3>6, <3>7 DEF Advance
    <2> QED
      BY <2>1, <2>2
  <1>7. ASSUME NEW r \in Requests, Commit(r) PROVE DraftSound(s)'
    <2>1. CASE s = r
      BY <1>7, <2>1, DraftGone DEF Commit, InTransaction
    <2>2. CASE s # r
      BY <1>7, <2>2, DraftOfOther
    <2> QED
      BY <2>1, <2>2
  <1>8. CASE UNCHANGED vars
    BY <1>1, <1>8, DraftKept DEF vars, drafts
  <1> QED
    BY <1>3, <1>4, <1>5, <1>6, <1>7, <1>8, StepCases

-----------------------------------------------------------------------------
(* The invariant holds at first, and every step keeps it. *)

LEMMA InitInv == Init => IInv
  <1> SUFFICES ASSUME Init PROVE IInv
    OBVIOUS
  <1>1. TypeOK
    BY InitType
  <1>2. LocksHeld /\ DraftsSound
    <2>1. \A r \in Requests : stage[r] = "waiting" /\ r # None
      BY FeesAssumption DEF Init
    <2>2. \A r \in Requests : InvoiceOf(r) \in Invoices /\ CollegeAt(r) \in Colleges
      BY BodyType DEF Init
    <2> QED
      BY <2>1, <2>2
      DEF Init, LocksHeld, DraftsSound, InTransaction, Numbered, Written
  <1>3. AnswersTruthful /\ OnePaymentPerKey /\ AuditedExactlyOnce
    BY FeesAssumption
    DEF Init, AnswersTruthful, OnePaymentPerKey, AuditedExactlyOnce, PaymentsAt, Decided
  <1>4. ReceiptsGapFree
    <2>1. \A c \in Colleges : PaymentsAt(c) = {} /\ lastIssued[c] = 0
      BY DEF Init, PaymentsAt
    <2> QED
      BY <2>1 DEF ReceiptsGapFree
  <1>5. StatusMatchesLedger
    BY StatusOfNoRows DEF Init, StatusMatchesLedger
  <1>6. RefundsCovered
    <2>1. \A i \in Invoices : RowsOf(ledger, i) = {}
      BY DEF Init, RowsOf
    <2> QED
      BY <2>1, TotalOfNone DEF RefundsCovered
  <1> QED
    BY <1>1, <1>2, <1>3, <1>4, <1>5, <1>6 DEF IInv

LEMMA NextInv == IInv /\ [Next]_vars => IInv'
  <1> SUFFICES ASSUME IInv, [Next]_vars PROVE IInv'
    OBVIOUS
  <1>1. TypeOK'
    BY NextType DEF IInv
  <1> QED
    BY <1>1, LocksHeldNext, DraftsSoundNext, AnswersTruthfulNext, ReceiptsGapFreeNext,
       OnePaymentPerKeyNext, StatusMatchesLedgerNext, RefundsCoveredNext,
       AuditedExactlyOnceNext
    DEF IInv

THEOREM Invariance == Spec => []IInv
  BY InitInv, NextInv, PTL DEF Spec

-----------------------------------------------------------------------------
(* The receipt numbers of every college are 1 .. n without gap or repetition,
   however the transactions of recordPayment overlap, fail or roll back. *)
THEOREM ReceiptsGapFreeAlways == Spec => []ReceiptsGapFree
  <1>1. IInv => ReceiptsGapFree
    BY DEF IInv
  <1> QED
    BY <1>1, Invariance, PTL

(* No two payments of a college share an idempotency key: the lookup of
   recordPayment may miss a concurrent payment, its insert does not. *)
THEOREM OnePaymentPerKeyAlways == Spec => []OnePaymentPerKey
  <1>1. IInv => OnePaymentPerKey
    BY DEF IInv
  <1> QED
    BY <1>1, Invariance, PTL

(* The stored status of an invoice follows from its committed rows, whatever
   the amounts are and whatever else commits (recomputeStatus). *)
THEOREM StatusMatchesLedgerAlways == Spec => []StatusMatchesLedger
  <1>1. IInv => StatusMatchesLedger
    BY DEF IInv
  <1> QED
    BY <1>1, Invariance, PTL

(* No invoice ever gives back more than was paid on it, for any amounts and
   however refunds race: what a refund was checked against still holds when
   it commits (addAdjustment). *)
THEOREM RefundsCoveredAlways == Spec => []RefundsCovered
  <1>1. IInv => RefundsCovered
    BY DEF IInv
  <1> QED
    BY <1>1, Invariance, PTL

(* A client is answered with a recorded row that says what it asked for, and
   a refused or failed request leaves no row. *)
THEOREM AnswersTruthfulAlways == Spec => []AnswersTruthful
  <1>1. IInv => AnswersTruthful
    BY DEF IInv
  <1> QED
    BY <1>1, Invariance, PTL

(* Every recorded row has exactly one audit row, and no audit row is without
   its recorded row. *)
THEOREM AuditedExactlyOnceAlways == Spec => []AuditedExactlyOnce
  <1>1. IInv => AuditedExactlyOnce
    BY DEF IInv
  <1> QED
    BY <1>1, Invariance, PTL

(* Row locks are held exactly while they protect something. *)
THEOREM LocksHeldAlways == Spec => []LocksHeld
  <1>1. IInv => LocksHeld
    BY DEF IInv
  <1> QED
    BY <1>1, Invariance, PTL

(* What a transaction read or drafted stays true until it commits. *)
THEOREM DraftsSoundAlways == Spec => []DraftsSound
  <1>1. IInv => DraftsSound
    BY DEF IInv
  <1> QED
    BY <1>1, Invariance, PTL

-----------------------------------------------------------------------------
(* Action properties *)

(* A row enters the ledger only by its own request's commit. *)
LEMMA RowsEnterByCommit ==
  ASSUME [Next]_vars, NEW r, r \in ledger' \ ledger
  PROVE  r \in Requests /\ Commit(r)
  <1>1. CASE \E s \in Requests : Commit(s)
    BY <1>1 DEF Commit
  <1>2. CASE UNCHANGED <<body, database>>
    BY <1>2 DEF database
  <1> QED
    BY <1>1, <1>2, OnlyCommitWrites

(* A payment is recorded only on an invoice that is not waived at that
   moment: no waiver can commit between the check and the commit. *)
THEOREM NoPaymentOnWaivedEver == Spec => NoPaymentOnWaived
  <1>1. ASSUME IInv, [Next]_vars
        PROVE  [\A r \in Requests : r \in ledger' \ ledger /\ IsPayment(r)
                                    => status[InvoiceOf(r)] # "waived"]_vars
    <2> SUFFICES ASSUME NEW r \in Requests, r \in ledger' \ ledger, IsPayment(r)
                 PROVE  status[InvoiceOf(r)] # "waived"
      OBVIOUS
    <2>1. Commit(r)
      BY <1>1, RowsEnterByCommit
    <2> QED
      BY <1>1, <2>1 DEF IInv, DraftsSound, Commit, InTransaction
  <1> QED
    BY <1>1, Invariance, PTL DEF Spec, NoPaymentOnWaived

(* computeStatus says "waived" exactly when there is a waiver. *)
LEMMA WaivedMeansWaiver ==
  ASSUME NEW rows, NEW i
  PROVE  StatusOf(rows, i) = "waived" <=> HasWaiver(RowsOf(rows, i), body)
  <1> DEFINE own == RowsOf(rows, i)
             amount == InvoiceAmount[i]
  <1>1. HasWaiver(own, body) => ComputeStatus(amount, own, body) = "waived"
    BY Zenon DEF ComputeStatus
  <1>2. ~ HasWaiver(own, body) => ComputeStatus(amount, own, body) \in {"paid", "part", "pending"}
    BY Zenon DEF ComputeStatus
  <1> QED
    BY <1>1, <1>2 DEF StatusOf

(* A waived invoice stays waived: rows are never taken away, and one waiver
   decides the status whatever else is recorded. *)
THEOREM WaivedIsFinalEver == Spec => WaivedIsFinal
  <1>1. ASSUME IInv, IInv', [Next]_vars
        PROVE  [\A i \in Invoices : status[i] = "waived" => status'[i] = "waived"]_vars
    <2> SUFFICES ASSUME NEW i \in Invoices, status[i] = "waived"
                 PROVE  status'[i] = "waived"
      OBVIOUS
    <2>1. body' = body /\ ledger \subseteq ledger'
      BY <1>1, OnlyCommitWrites DEF Commit, database
    <2>2. HasWaiver(RowsOf(ledger, i), body)
      BY <1>1, WaivedMeansWaiver DEF IInv, StatusMatchesLedger
    <2>3. HasWaiver(RowsOf(ledger', i), body)
      BY <2>1, <2>2 DEF HasWaiver, OfKind, RowsOf
    <2>4. StatusOf(ledger', i) = "waived"
      BY <2>3, WaivedMeansWaiver
    <2>5. status'[i] = StatusOf(ledger', i)
      BY <1>1, <2>1 DEF IInv, StatusMatchesLedger, StatusOf, RowsOf
    <2> QED
      BY <2>4, <2>5
  <1> QED
    BY <1>1, Invariance, PTL DEF Spec, WaivedIsFinal
-----------------------------------------------------------------------------
(* FeesLedger implements FeesBook. *)

(* A key that turns up after the lookup was committed on another invoice:
   the request holds the lock of its own. *)
KeyElsewhere(r) ==
  IsPayment(r) /\ stage[r] \in InTransaction \ {"locked"} =>
    \A e \in SameKey(ledger, r) : InvoiceOf(e) # InvoiceOf(r)

KeysElsewhere == \A r \in Requests : KeyElsewhere(r)

LEMMA KeysElsewhereInit == Init => KeysElsewhere
  BY DEF Init, KeysElsewhere, KeyElsewhere, SameKey

LEMMA KeysElsewhereNext ==
  ASSUME IInv, KeysElsewhere, [Next]_vars
  PROVE  KeysElsewhere'
  <1>1. ASSUME NEW s \in Requests, Commit(s), NEW r \in Requests
        PROVE  KeyElsewhere(r)'
    <2>1. body' = body /\ ledger' = ledger \cup {s} /\ stage[s] \in InTransaction
      BY <1>1 DEF Commit, InTransaction
    <2>2. stage'[s] = "committed" /\ (r # s => stage'[r] = stage[r])
      BY <1>1 DEF Commit, IInv, TypeOK
    <2>3. CASE r = s
      BY <2>2, <2>3 DEF KeyElsewhere, InTransaction
    <2>4. CASE r # s /\ stage[r] \in InTransaction
      <3>1. InvoiceOf(s) # InvoiceOf(r)
        BY <1>1, <2>1, <2>4, Exclusion
      <3>2. KeyElsewhere(r)
        BY DEF KeysElsewhere
      <3> QED
        BY <2>1, <2>2, <2>4, <3>1, <3>2
        DEF KeyElsewhere, SameKey, IsPayment, InvoiceOf, CollegeAt
    <2>5. CASE r # s /\ stage[r] \notin InTransaction
      BY <2>2, <2>5 DEF KeyElsewhere
    <2> QED
      BY <2>3, <2>4, <2>5
  <1>2. ASSUME UNCHANGED <<body, database>>, NEW r \in Requests
        PROVE  KeyElsewhere(r)'
    <2>1. /\ IsPayment(r)' = IsPayment(r) /\ InvoiceOf(r)' = InvoiceOf(r)
          /\ SameKey(ledger, r)' = SameKey(ledger, r)
          /\ \A e : InvoiceOf(e)' = InvoiceOf(e)
      BY <1>2 DEF database, IsPayment, InvoiceOf, CollegeAt, SameKey
    <2>2. KeyElsewhere(r)
      BY DEF KeysElsewhere
    <2>3. CASE stage'[r] \in InTransaction \ {"locked"}
      <3>1. CASE stage[r] \in InTransaction \ {"locked"}
        BY <2>1, <2>2, <3>1 DEF KeyElsewhere
      <3>2. CASE stage[r] \notin InTransaction \ {"locked"}
        <4>1. AdmitPayment(r) \/ AdmitAdjustment(r)
          <5> USE <1>2, <2>3, <3>2 DEF IInv, TypeOK, InTransaction
          <5>1. ASSUME NEW s \in Requests,
                       LockInvoice(s) \/ Abandon(s) \/ ReplayPayment(s) \/ Commit(s)
                PROVE  FALSE
            BY <5>1 DEF LockInvoice, Abandon, RefusePayment, RefuseDuplicateKey,
                        RefuseRefund, Rollback, ReplayPayment, Commit, LeaveWith
          <5>2. ASSUME NEW s \in Requests, TakeReceiptNo(s)
                PROVE  FALSE
            BY <5>2 DEF TakeReceiptNo
          <5>3. ASSUME NEW s \in Requests, Advance(s)
                PROVE  AdmitPayment(r) \/ AdmitAdjustment(r)
            BY <5>3
            DEF Advance, AdmitPayment, InsertPayment, AdmitAdjustment, InsertAdjustment,
                RecomputeStatus, RecordInTransaction, Respond, LoseAnswer
          <5> QED
            BY <5>1, <5>2, <5>3, StepCases DEF vars
        <4>2. IsPayment(r) => SameKey(ledger, r) = {}
          BY <4>1 DEF AdmitPayment, AdmitAdjustment
        <4> QED
          BY <2>1, <4>2 DEF KeyElsewhere
      <3> QED
        BY <3>1, <3>2
    <2>4. CASE stage'[r] \notin InTransaction \ {"locked"}
      BY <2>4 DEF KeyElsewhere
    <2> QED
      BY <2>3, <2>4
  <1>3. \A r \in Requests : KeyElsewhere(r)'
    BY <1>1, <1>2, OnlyCommitWrites
  <1> QED
    BY <1>3 DEF KeysElsewhere
-----------------------------------------------------------------------------
(* The book's copy of the vocabulary means what the ledger's does. *)

LEMMA SameTotal ==
  ASSUME NEW rows, NEW op
  PROVE  Book!Total(rows, body, op) = Total(rows, body, op)
  BY DEF Total, Book!Total, OfKind, Book!OfKind, MapThenSumSet, Book!MapThenSumSet,
         MapThenFoldSet, Book!MapThenFoldSet

LEMMA SameMoney ==
  ASSUME NEW rows, NEW amount
  PROVE  /\ Book!EffectivePaid(rows, body) = EffectivePaid(rows, body)
         /\ Book!ComputeStatus(amount, rows, body) = ComputeStatus(amount, rows, body)
  <1>1. Book!EffectivePaid(rows, body) = EffectivePaid(rows, body)
    BY SameTotal DEF EffectivePaid, Book!EffectivePaid
  <1>2. Book!Dues(amount, rows, body) = Dues(amount, rows, body)
    BY <1>1, SameTotal DEF Dues, Book!Dues, EffectiveDue, Book!EffectiveDue
  <1>3. Book!HasWaiver(rows, body) = HasWaiver(rows, body)
    BY DEF HasWaiver, Book!HasWaiver, OfKind, Book!OfKind
  <1> QED
    BY <1>1, <1>2, <1>3, Zenon DEF ComputeStatus, Book!ComputeStatus

LEMMA SameVocabulary ==
  ASSUME NEW rows, NEW r, NEW e, NEW i, NEW n
  PROVE  /\ Book!IsPayment(r) = IsPayment(r)
         /\ Book!InvoiceOf(r) = InvoiceOf(r)
         /\ Book!CollegeAt(r) = CollegeAt(r)
         /\ Book!SameKey(rows, r) = SameKey(rows, r)
         /\ Book!SameRequest(e, r) = SameRequest(e, r)
         /\ Book!StatusOf(rows, i) = StatusOf(rows, i)
         /\ Book!RefundEligible(rows, r) = RefundEligible(rows, r)
         /\ Book!NextReceiptNo(n) = NextReceiptNo(n)
  <1>1. Book!RowsOf(rows, i) = RowsOf(rows, i)
    BY DEF RowsOf, Book!RowsOf
  <1>2. Book!StatusOf(rows, i) = StatusOf(rows, i)
    BY <1>1, SameMoney DEF StatusOf, Book!StatusOf
  <1>3. Book!RefundEligible(rows, r) = RefundEligible(rows, r)
    BY SameMoney
    DEF RefundEligible, Book!RefundEligible, RowsOf, Book!RowsOf, InvoiceOf, Book!InvoiceOf
  <1> QED
    BY <1>2, <1>3
    DEF IsPayment, Book!IsPayment, InvoiceOf, Book!InvoiceOf, CollegeAt, Book!CollegeAt,
        SameKey, Book!SameKey, SameRequest, Book!SameRequest, NextReceiptNo, Book!NextReceiptNo

LEMMA BookInitial == Init => Book!BookInit
  <1> SUFFICES ASSUME Init PROVE Book!BookInit
    OBVIOUS
  <1>1. Outcome = [r \in Requests |-> "open"]
    BY DEF Init, Outcome
  <1> QED
    BY <1>1 DEF Init, Book!BookInit, Body, PaymentBody, AdjustmentBody, Kinds,
                Book!Body, Book!PaymentBody, Book!AdjustmentBody, Book!Kinds

(* A request in a transaction is open in the book. *)
LEMMA OpenInTransaction ==
  ASSUME IInv, NEW r \in Requests, stage[r] \in InTransaction
  PROVE  Outcome[r] = "open"
  BY FreshRow DEF Outcome, InTransaction

(* A step of one request that leaves its answer alone and keeps clear of
   failing leaves every outcome alone. *)
LEMMA OutcomeKept ==
  ASSUME NEW r \in Requests, NEW stg \in Stages \ {"refused", "failed"},
         stage[r] \notin {"refused", "failed"}, stage \in [Requests -> Stages],
         stage' = [stage EXCEPT ![r] = stg], answer' = answer
  PROVE  Outcome' = Outcome
  BY DEF Outcome

LEMMA OutcomeSet ==
  ASSUME TypeOK, NEW r \in Requests, NEW stg \in Stages, NEW row \in Requests \cup {None},
         stage' = [stage EXCEPT ![r] = stg], answer' = [answer EXCEPT ![r] = row]
  PROVE  Outcome' = [Outcome EXCEPT ![r] =
                       IF stg \in {"refused", "failed"} THEN stg
                       ELSE IF row = None THEN "open"
                       ELSE IF row = r THEN "recorded" ELSE "replayed"]
  BY DEF Outcome, TypeOK
-----------------------------------------------------------------------------
(* What the book sees of each step. *)

LEMMA AdvanceStutters ==
  ASSUME IInv, NEW r \in Requests, LockInvoice(r) \/ TakeReceiptNo(r) \/ Advance(r)
  PROVE  UNCHANGED Book!bookVars
  <1>1. UNCHANGED <<body, ledger, receipt, status, lastIssued, answer>>
    BY DEF LockInvoice, TakeReceiptNo, Advance, AdmitPayment, InsertPayment, AdmitAdjustment,
           InsertAdjustment, RecomputeStatus, RecordInTransaction, Respond, LoseAnswer, database
  <1>2. \E stg \in Stages \ {"refused", "failed"} :
          stage' = [stage EXCEPT ![r] = stg] /\ stage[r] \notin {"refused", "failed"}
    BY DEF LockInvoice, TakeReceiptNo, Advance, AdmitPayment, InsertPayment, AdmitAdjustment,
           InsertAdjustment, RecomputeStatus, RecordInTransaction, Respond, LoseAnswer,
           Stages, InTransaction, Decided, Ended
  <1>3. Outcome' = Outcome
    BY <1>1, <1>2, OutcomeKept DEF IInv, TypeOK
  <1> QED
    BY <1>1, <1>3 DEF Book!bookVars

LEMMA ReplayReplays ==
  ASSUME IInv, NEW r \in Requests, ReplayPayment(r)
  PROVE  Book!Replay(r)
  <1>1. stage[r] \in InTransaction /\ IsPayment(r)
    BY DEF ReplayPayment, InTransaction
  <1>2. PICK e \in SameKey(ledger, r) : SameRequest(e, r) /\ answer' = [answer EXCEPT ![r] = e]
    BY DEF ReplayPayment
  <1>3. e \in Requests /\ e # r /\ e # None
    BY <1>1, <1>2, FreshRow, FeesAssumption DEF SameKey, IInv, TypeOK
  <1>4. Outcome' = [Outcome EXCEPT ![r] = "replayed"]
    BY <1>2, <1>3, OutcomeSet DEF ReplayPayment, LeaveWith, IInv, Stages, Decided
  <1>5. UNCHANGED <<body, ledger, receipt, status, lastIssued>>
    BY DEF ReplayPayment, LeaveWith, database
  <1> QED
    BY <1>1, <1>2, <1>4, <1>5, OpenInTransaction, SameVocabulary DEF Book!Replay

(* What a refusal or a failure leaves of a request. *)
LEMMA LeaveOutcome ==
  ASSUME IInv, NEW r \in Requests, stage[r] \in InTransaction,
         NEW end \in {"refused", "failed"}, LeaveWith(r, end), answer' = answer
  PROVE  /\ Outcome' = [Outcome EXCEPT ![r] = end]
         /\ UNCHANGED <<body, ledger, receipt, status, lastIssued, answer>>
  <1>1. answer' = [answer EXCEPT ![r] = answer[r]] /\ answer[r] \in Requests \cup {None}
    BY DEF IInv, TypeOK
  <1>2. stage' = [stage EXCEPT ![r] = end] /\ end \in Stages
    BY DEF LeaveWith, Stages, Ended
  <1> QED
    BY <1>1, <1>2, OutcomeSet DEF LeaveWith, database, IInv

LEMMA RollbackFails ==
  ASSUME IInv, NEW r \in Requests, Rollback(r)
  PROVE  Book!Fail(r)
  BY LeaveOutcome, OpenInTransaction DEF Rollback, Book!Fail

LEMMA RefusalRefuses ==
  ASSUME IInv, KeysElsewhere, NEW r \in Requests,
         RefusePayment(r) \/ RefuseDuplicateKey(r) \/ RefuseRefund(r)
  PROVE  Book!Refuse(r)
  <1>1. stage[r] \in InTransaction /\ LeaveWith(r, "refused") /\ answer' = answer
    BY DEF RefusePayment, RefuseDuplicateKey, RefuseRefund, InTransaction
  <1>2. ~ Book!Admissible(r) /\ ~ \E e \in SameKey(ledger, r) : IsPayment(r) /\ SameRequest(e, r)
    <2>1. CASE RefusePayment(r)
      <3>1. \A p, q \in SameKey(ledger, r) : p = q
        <4>1. CollegeAt(r) \in Colleges
          BY BodyType DEF IInv, TypeOK
        <4> QED
          BY <4>1 DEF IInv, OnePaymentPerKey, SameKey, PaymentsAt
      <3> QED
        BY <2>1, <3>1, SameVocabulary DEF RefusePayment, Book!Admissible
    <2>2. CASE RefuseDuplicateKey(r)
      <3>1. IsPayment(r)
        BY <2>2 DEF RefuseDuplicateKey, IInv, LocksHeld
      <3>2. \A e \in SameKey(ledger, r) : InvoiceOf(e) # InvoiceOf(r)
        BY <2>2, <3>1 DEF RefuseDuplicateKey, KeysElsewhere, KeyElsewhere, InTransaction
      <3> QED
        BY <2>2, <3>1, <3>2, SameVocabulary
        DEF RefuseDuplicateKey, Book!Admissible, SameRequest, InvoiceOf
    <2>3. CASE RefuseRefund(r)
      BY <2>3, SameVocabulary DEF RefuseRefund, Book!Admissible, IsPayment
    <2> QED
      BY <2>1, <2>2, <2>3
  <1> QED
    BY <1>1, <1>2, LeaveOutcome, OpenInTransaction, SameVocabulary DEF Book!Refuse

LEMMA CommitRecords ==
  ASSUME IInv, NEW r \in Requests, Commit(r)
  PROVE  Book!Record(r)
  <1>1. stage[r] \in InTransaction \ {"locked"} /\ stage[r] \in Written /\ stage[r] \in Numbered
    BY DEF Commit, InTransaction, Written, Numbered
  <1>2. Book!Admissible(r)
    <2>1. CASE IsPayment(r)
      BY <1>1, <2>1, SameVocabulary DEF IInv, DraftsSound, Book!Admissible
    <2>2. CASE ~ IsPayment(r)
      BY <1>1, <2>2, SameVocabulary DEF IInv, DraftsSound, Book!Admissible
    <2> QED
      BY <2>1, <2>2
  <1>3. /\ ledger' = ledger \cup {r}
        /\ status' = [status EXCEPT ![InvoiceOf(r)] = StatusOf(ledger \cup {r}, InvoiceOf(r))]
    BY DEF Commit, IInv, DraftsSound
  <1>4. IF IsPayment(r)
        THEN /\ receipt' = [receipt EXCEPT ![r] = NextReceiptNo(lastIssued[CollegeAt(r)])]
             /\ lastIssued' = [lastIssued EXCEPT ![CollegeAt(r)] = NextReceiptNo(@)]
        ELSE UNCHANGED <<receipt, lastIssued>>
    BY <1>1 DEF Commit, IInv, DraftsSound
  <1>5. Outcome' = [Outcome EXCEPT ![r] = "recorded"]
    BY OutcomeSet, FeesAssumption DEF Commit, IInv, Stages, Decided
  <1>6. answer' = [answer EXCEPT ![r] = r] /\ body' = body
    BY DEF Commit
  <1> QED
    <2>1. /\ Book!InvoiceOf(r) = InvoiceOf(r)
          /\ Book!CollegeAt(r) = CollegeAt(r)
          /\ Book!IsPayment(r) = IsPayment(r)
      BY SameVocabulary
    <2>2. Book!StatusOf(ledger \cup {r}, InvoiceOf(r)) = StatusOf(ledger \cup {r}, InvoiceOf(r))
      BY SameVocabulary
    <2>3. Book!NextReceiptNo(lastIssued[CollegeAt(r)]) = NextReceiptNo(lastIssued[CollegeAt(r)])
      BY SameVocabulary
    <2>4. Outcome[r] = "open"
      BY <1>1, OpenInTransaction
    <2>5. status' = [status EXCEPT ![Book!InvoiceOf(r)] =
                       Book!StatusOf(ledger \cup {r}, Book!InvoiceOf(r))]
      BY <1>3, <2>1, <2>2
    <2> QED
      BY <1>2, <1>3, <1>4, <1>5, <1>6, <2>1, <2>3, <2>4, <2>5 DEF Book!Record

LEMMA StepSimulation ==
  ASSUME IInv, KeysElsewhere, [Next]_vars
  PROVE  [Book!BookNext]_(Book!bookVars)
  <1>1. CASE UNCHANGED vars
    <2>1. Outcome' = Outcome
      BY <1>1 DEF vars, Outcome
    <2> QED
      BY <1>1, <2>1 DEF vars, database, Book!bookVars
  <1>2. ASSUME NEW r \in Requests, LockInvoice(r) \/ TakeReceiptNo(r) \/ Advance(r)
        PROVE  UNCHANGED Book!bookVars
    BY <1>2, AdvanceStutters
  <1>3. ASSUME NEW r \in Requests, Abandon(r) \/ ReplayPayment(r) \/ Commit(r)
        PROVE  Book!BookNext
    BY <1>3, ReplayReplays, RollbackFails, RefusalRefuses, CommitRecords
    DEF Abandon, Book!BookNext
  <1> QED
    BY <1>1, <1>2, <1>3, StepCases

(* Requests run as overlapping transactions look like requests run one at a
   time: recordPayment and addAdjustment implement the book. *)
THEOREM LedgerImplementsBook == Spec => ImplementsBook
  <1>1. IInv /\ KeysElsewhere /\ [Next]_vars => KeysElsewhere'
    BY KeysElsewhereNext
  <1>2. Spec => []KeysElsewhere
    BY <1>1, KeysElsewhereInit, Invariance, PTL DEF Spec
  <1>3. IInv /\ KeysElsewhere /\ [Next]_vars => [Book!BookNext]_(Book!bookVars)
    BY StepSimulation
  <1> QED
    BY <1>2, <1>3, BookInitial, Invariance, PTL DEF Spec, ImplementsBook, Book!BookSpec
=============================================================================
