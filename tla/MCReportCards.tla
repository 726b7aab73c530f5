---------------------------- MODULE MCReportCards ---------------------------
EXTENDS ReportCards, TLC

CONSTANTS k1, k2, k3, t1, t2

Symmetry == Permutations(Decisions)

MCTermOf == [c \in Cards |-> IF c = k3 THEN t2 ELSE t1]
=============================================================================
