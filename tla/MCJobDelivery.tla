--------------------------- MODULE MCJobDelivery ---------------------------
(* Model-checking instance of JobDelivery. *)
EXTENDS JobDelivery, TLC

Symmetry == Permutations(Waiters)
=============================================================================
