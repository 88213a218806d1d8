-------------------------- MODULE DeletionQuestion --------------------------
(***************************************************************************)
(* What the deletion guard of obsisync promises, without threads, copies   *)
(* of state or scans: a file leaves this computer either with few others   *)
(* or because the user agreed to a list it was on; a question, once asked, *)
(* stays until it is answered or its files have been seen on iCloud again. *)
(***************************************************************************)
EXTENDS Integers, FiniteSets

CONSTANTS
  Files,            \* vault-relative paths
  DeletionThreshold \* how many files may go without a question

VARIABLES
  here,     \* the files on this computer
  there,    \* the files on iCloud Drive
  question, \* the files the user is being asked about
  proven,   \* those of them that were seen on iCloud since
  doomed    \* the files about to be removed from this computer

vars == <<here, there, question, proven, doomed>>

Init ==
  /\ here \in SUBSET Files /\ there \in SUBSET Files
  /\ question = {} /\ proven = {} /\ doomed = {}

\* The environment: files appear here, and come and go on iCloud.
FilesChange == here \subseteq here' /\ here' \subseteq Files /\ there' \in SUBSET Files

\* A few files are missing: no question.
Notice(S) ==
  /\ question = {} /\ doomed = {}
  /\ Cardinality(S) <= DeletionThreshold
  /\ doomed' = S
  /\ FilesChange
  /\ UNCHANGED <<question, proven>>

\* Many files are missing: ask.
Ask(S) ==
  /\ question = {} /\ doomed = {}
  /\ Cardinality(S) > DeletionThreshold
  /\ question' = S
  /\ UNCHANGED <<here, there, proven, doomed>>

\* A complete listing shows some of them.
See(S) ==
  /\ S \subseteq question \cap there
  /\ proven' = proven \cup S
  /\ UNCHANGED <<here, there, question, doomed>>

Withdraw(S) ==
  /\ S # {} /\ S \subseteq proven
  /\ question' = question \ S /\ proven' = proven \ S
  /\ UNCHANGED <<here, there, doomed>>

\* The user answers: doomed' is the whole question, or nothing.
Answer ==
  /\ question # {}
  /\ question' = {} /\ proven' = {}
  /\ doomed' \in {{}, question}
  /\ UNCHANGED <<here, there>>

Remove(f) ==
  /\ here' = here \ {f}
  /\ doomed' = doomed \ {f}
  /\ UNCHANGED <<there, question, proven>>

\* A removal fails, a file turns out to be on iCloud, or the program stops:
\* what was about to be removed and what was seen is forgotten.  The question
\* is not.
Forget ==
  /\ doomed' \subseteq doomed /\ proven' \subseteq proven
  /\ FilesChange
  /\ UNCHANGED question

Next ==
  \/ \E S \in SUBSET Files : Notice(S) \/ Ask(S) \/ See(S) \/ Withdraw(S)
  \/ Answer
  \/ \E f \in doomed : Remove(f)
  \/ Forget

Spec == Init /\ [][Next]_vars

=============================================================================
