--------------------------- MODULE MCDeletionGuard ---------------------------
(* Instances of DeletionGuard for TLC. *)
EXTENDS DeletionGuard, TLC

\* Files are only compared with each other.
Symmetry == Permutations(Files)

=============================================================================
