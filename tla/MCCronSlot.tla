----------------------------- MODULE MCCronSlot -----------------------------
(* CronSlot for TLC: the replicas are interchangeable. *)
EXTENDS CronSlot, TLC

Symmetry == Permutations(Replica)
=============================================================================
