----------------------------- MODULE MCSessions -----------------------------
(***************************************************************************)
(* Small instances of Sessions.                                             *)
(***************************************************************************)
EXTENDS Sessions, TLC

Symmetry == Permutations(Logins) \cup Permutations(Changes) \cup Permutations(Passwords)
=============================================================================
