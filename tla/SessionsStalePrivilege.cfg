SPECIFICATION Spec
CONSTANTS
  Logins = {l1}
  Changes = {c1}
  Roles = {teacher}
  Passwords = {p1, p2}
CHECK_DEADLOCK FALSE
INVARIANT NoStalePrivilegeSessions
