\* One run of two structures and two sections, delivered up to three times.
SPECIFICATION FairSpec
CONSTANTS
  Runs = {r1}
  Students = {s1}
  Structures = {f1, f2}
  Sections = {secA, secB}
  None = None
  MaxAttempts = 2
  MaxStalls = 1
CHECK_DEADLOCK FALSE
INVARIANTS CompletedMeansInvoiced 
PROPERTY EnqueuedRunEnds
