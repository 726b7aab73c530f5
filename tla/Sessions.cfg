SPECIFICATION Spec
CONSTANTS
  Logins = {l1, l2}
  Changes = {c1, c2}
  Roles = {teacher}
  Passwords = {p1, p2}
SYMMETRY Symmetry
CHECK_DEADLOCK FALSE
INVARIANTS
  SettledSessionsCurrent
  PasswordChangeEvicts
  OrphansOnlyFromRaces

