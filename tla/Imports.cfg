\* Two imports of overlapping files, one of them delivered twice, one fault.
CONSTANTS
  i1 = i1
  i2 = i2
  n1 = n1
  n2 = n2
  Imports = {i1, i2}
  Numbers = {n1, n2}
  Enrolling = {n1}
  Nobody = Nobody
  MaxDeliveries <- MCMaxDeliveries
  MaxFaults = 1
SPECIFICATION Spec
INVARIANTS ImportsInv ImportedRowsAreThere SingleDeliveryTellsAll
CHECK_DEADLOCK FALSE
