SPECIFICATION Spec
CONSTANTS
  cA = cA
  None = None
  Requests = {r1, r2, r3}
  Invoices = {iA, iB}
  Colleges = {cA}
  Keys = {k1, k2}
  Amounts = {1, 2}
  CollegeOf <- OneCollege
  InvoiceAmount <- RaisedForTwo
SYMMETRY RequestSymmetry
INVARIANTS
  ReceiptsGapFree
  OnePaymentPerKey
  AnswersTruthful
  StatusMatchesLedger
  RefundsCovered
  AuditedExactlyOnce
PROPERTIES
  ImplementsBook
