---------------------------- MODULE MCSyncCycle ----------------------------
(* SyncCycle on small instances: values for its constants and symmetries.   *)
EXTENDS SyncCycle, TLC

\* Fingerprints that identify a content, the case the engine relies on.
Identity == [c \in Contents |-> c]

\* Paths are interchangeable, and so are contents that their hash and size
\* identify.  Every use of the symmetry is in a run of safety properties.
Symmetry == Permutations(Files) \cup Permutations(Contents)
=============================================================================
