----------------------------- MODULE MCFirstRun -----------------------------
(* FirstRun on small instances: values for its constants and symmetries. *)
EXTENDS FirstRun, TLC
Identity == [c \in Contents |-> c]
Symmetry == Permutations(Files) \cup Permutations(Contents)
=============================================================================
