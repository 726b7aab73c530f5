---------------------------- MODULE MCInvoiceRuns ----------------------------
(***************************************************************************)
(* Small instances of InvoiceRuns.                                          *)
(***************************************************************************)
EXTENDS InvoiceRuns, TLC

Symmetry == Permutations(Runs) \cup Permutations(Students)
            \cup Permutations(Structures) \cup Permutations(Sections)
=============================================================================
