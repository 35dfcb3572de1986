------------------------------ MODULE MCLease ------------------------------
\* The lease protocol on a small instance: two claims of one name.
EXTENDS Lease, TLC

Symmetry == Permutations(Holder)
=============================================================================
