\* Three requests of every kind, one token and any made-up one, one crash.
CONSTANTS
  Requests = {r1, r2, r3}
  Tokens = {t1}
  First = First
  MadeUp = MadeUp
  MaxAttempts = 2
  Crashes = 1
SPECIFICATION Spec
INVARIANTS DeadStaysDead  FewAreTold
CHECK_DEADLOCK FALSE
