--------------------------- MODULE MCDerivedGrants --------------------------
EXTENDS DerivedGrants, TLC

CONSTANT t1

OneTeacher == [a \in Assignments |-> t1]
Symmetry   == Permutations(Users) \cup Permutations(Workers \ {Job})
=============================================================================
