----------------------------- MODULE TwoCopies ------------------------------
(***************************************************************************)
(* What the sync engine of obsisync promises about a vault, without scans, *)
(* rows, cycles or failures: people save and delete files on two sides,    *)
(* and the engine does nothing but copy a file, or its absence, whole from *)
(* the side where it was saved to the other.  A saved file stays one that  *)
(* the engine owes to the other side until both sides hold the same.       *)
(***************************************************************************)
CONSTANTS
  Files,    \* vault-relative paths
  Contents, \* what a file can hold
  Absent    \* "no file here"

VARIABLES
  here,      \* the files on this computer
  there,     \* the files on iCloud Drive
  savedHere, \* those saved or deleted here that the two sides still differ in,
  savedThere \* and those saved or deleted there, as far as the engine knows

vars == <<here, there, savedHere, savedThere>>

File == Contents \cup {Absent}

Init ==
  /\ here = [f \in Files |-> Absent] /\ there = [f \in Files |-> Absent]
  /\ savedHere = {} /\ savedThere = {}

\* People save, rename or delete.
SaveHere(f) ==
  /\ \E c \in File : here' = [here EXCEPT ![f] = c]
  /\ savedHere' = savedHere \cup {f}
  /\ UNCHANGED <<there, savedThere>>

SaveThere(f) ==
  /\ \E c \in File : there' = [there EXCEPT ![f] = c]
  /\ savedThere' = savedThere \cup {f}
  /\ UNCHANGED <<here, savedHere>>

\* Nothing is owed any more for some files that are the same on both sides.
Settle ==
  /\ savedHere' \subseteq savedHere /\ savedThere' \subseteq savedThere
  /\ \A f \in (savedHere \ savedHere') \cup (savedThere \ savedThere') :
       here'[f] = there'[f]

\* The engine copies what was saved, one file at a time.
CopyThere(f) ==
  /\ f \in savedHere
  /\ there' = [there EXCEPT ![f] = here[f]]
  /\ UNCHANGED here
  /\ Settle

CopyHere(f) ==
  /\ f \in savedThere
  /\ here' = [here EXCEPT ![f] = there[f]]
  /\ UNCHANGED there
  /\ Settle

\* It finds files to be the same.
Compare == UNCHANGED <<here, there>> /\ Settle

Next ==
  \/ \E f \in Files : SaveHere(f) \/ SaveThere(f) \/ CopyThere(f) \/ CopyHere(f)
  \/ Compare

Spec == Init /\ [][Next]_vars
=============================================================================
