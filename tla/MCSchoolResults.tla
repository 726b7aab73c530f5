--------------------------- MODULE MCSchoolResults --------------------------
EXTENDS SchoolResults, TLC

Symmetry == UNION {Permutations(S) :
                     S \in {Requests, Types, Assessments, Students, Scales, Scores, Readers}}
=============================================================================
