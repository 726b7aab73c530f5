\* Two decisions on two cards of one term and one of another, and one family.
SPECIFICATION FairSpec
CONSTANTS
  None = None
  k1 = k1
  k2 = k2
  k3 = k3
  t1 = t1
  t2 = t2
  Cards = {k1, k2, k3}
  Terms = {t1, t2}
  TermOf <- MCTermOf
  Decisions = {d1, d2}
  Families = {f1}
  Relinks = 1
CHECK_DEADLOCK FALSE
INVARIANTS TrailMakesSense FamilySeesPublished
PROPERTIES ImplementsRegister DecisionsEnd
