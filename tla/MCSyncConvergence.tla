------------------------- MODULE MCSyncConvergence -------------------------
(* SyncConvergence on a small instance; no symmetry, as liveness is checked. *)
EXTENDS SyncConvergence

\* Fingerprints that identify a content.
Identity == [c \in Contents |-> c]

\* Fingerprints that do not: notes of one size, and notes that only differ
\* after their first 4096 bytes.
AllAlike == [c \in Contents |-> CHOOSE d \in Contents : TRUE]
=============================================================================
