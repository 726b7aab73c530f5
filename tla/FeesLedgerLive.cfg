SPECIFICATION LockingOpsSpec
CONSTANTS
  cA = cA
  None = None
  Requests = {r1, r2, r3}
  Invoices = {iA, iB}
  Colleges = {cA}
  Keys = {k1}
  Amounts = {1}
  CollegeOf <- OneCollege
  InvoiceAmount <- RaisedForTwo
PROPERTIES
  EveryRequestEnds
