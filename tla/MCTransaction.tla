--------------------------- MODULE MCTransaction ----------------------------
(* Transaction for TLC: the instances are interchangeable.                 *)
EXTENDS Transaction, TLC

Symmetry == Permutations(Instance)
=============================================================================
