----------------------------- MODULE MCImports -----------------------------
EXTENDS Imports

CONSTANTS i1, i2, n1, n2

(* The first import's job may be delivered again. *)
MCMaxDeliveries == [i \in Imports |-> IF i = i1 THEN 2 ELSE 1]
=============================================================================
