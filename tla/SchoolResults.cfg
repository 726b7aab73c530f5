\* Two requests of any kind on one term, and one reader of either kind.
SPECIFICATION ResultsSpec
CONSTANTS
  None = None
  Requests = {r1, r2}
  Types = {t1, t2}
  Assessments = {a1, a2}
  Students = {s1, s2}
  Scores = {low, high}
  Scales = {c1, c2}
  Readers = {d1}
SYMMETRY Symmetry
CHECK_DEADLOCK FALSE
INVARIANTS
  TypesOfResultKnown
  SteadyReadIsExact
  MarksComparable
  NoCalendarLost
PROPERTIES
  ClosedIsFrozen
  ImportsSeeTheirPreview
