\* Two codes, two claims and two adults, one of them allowed in on their own
\* word, and two staff requests.
SPECIFICATION GuardiansSpec
CONSTANTS
  None = None
  Codes = {c1, c2}
  Contacts = {k1, k2}
  Adults = {a1, a2}
  Claims = {p1, p2}
  Staff = {s1, s2}
  Limit = 1
SYMMETRY Symmetry
CHECK_DEADLOCK FALSE
INVARIANTS StandingEarned  OnePrimaryContact
PROPERTIES RevivedByCodeOnly
