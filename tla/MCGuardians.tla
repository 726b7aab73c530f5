----------------------------- MODULE MCGuardians ----------------------------
EXTENDS Guardians, TLC

Symmetry == UNION {Permutations(S) : S \in {Codes, Adults, Claims, Staff}}
=============================================================================
