-------------------------- MODULE SyncConvergence --------------------------
(***************************************************************************)
(* What repeated cycles of the sync engine promise: once the user and the  *)
(* other devices stop editing, the two sides become equal and stay equal,  *)
(* unless a bulk deletion is being asked about, or iCloud has lost so many *)
(* of the tracked files that every cycle takes its scan for a truncated    *)
(* one and gives up.                                                       *)
(*                                                                         *)
(* Fairness.  The daemon wakes at every poll_interval                      *)
(* (sync_engine.py:1202-1224) and each step of a cycle, of a bootstrap and *)
(* of a reconciliation is taken once it is possible.  A scan may be served *)
(* from cached data or fail to list a folder any number of times, but the  *)
(* cache expires within one poll (scanner.set_cache_age), so a fresh scan  *)
(* that is possible again and again does happen: it gets strong fairness.  *)
(* A user who is asked about the first run again and again names a side in *)
(* the end.  Nothing is assumed of the edits, which may go on for ever.    *)
(***************************************************************************)
EXTENDS FirstRun

VARIABLE calm   \* TRUE once nobody edits any more

ConvInit == FirstInit /\ calm = FALSE

CalmDown == ~calm /\ calm' = TRUE /\ UNCHANGED firstVars

ConvNext ==
  \/ (DaemonStep \/ FillStep \/ UserStep) /\ UNCHANGED calm
  \/ ~calm /\ (Edit \/ \E f \in Files : KeepBoth(f)) /\ UNCHANGED calm
  \/ CalmDown

ConvVars == <<firstVars, calm>>

NameASide == \E m \in Choices \ {"adopt"} : Answer(m)

Fairness ==
  /\ WF_ConvVars((DaemonStep \/ FillStep) /\ UNCHANGED calm)
  /\ SF_ConvVars(DaemonStep /\ ScanFresh /\ UNCHANGED calm)
  /\ SF_ConvVars(FillScanFresh /\ mode # "adopt" /\ UNCHANGED calm)
  /\ SF_ConvVars(NameASide /\ UNCHANGED calm)

ConvSpec == ConvInit /\ [][ConvNext]_ConvVars /\ Fairness

BothSidesEqual == \A f \in Files : local[f] = remote[f].content

Present == {f \in Files : remote[f] # Missing}

\* Even a fresh and complete scan is too short for the guard of run_sync_cycle:
\* until somebody edits again or resets the database, no cycle gets past it.
HeldBack == TooFew(Present)

\* Once nobody edits, the vaults become and stay equal, or the engine has paused
\* to ask about a bulk deletion, or it is held back by the truncated-scan guard.
Converges == <>[](calm => BothSidesEqual \/ pending # {} \/ HeldBack)

\* What the documentation says and the code does not do (see the README): the
\* vaults become equal or the engine pauses to ask, whatever iCloud has lost.
ConvergesUnlessAsked == <>[](calm => BothSidesEqual \/ pending # {})
=============================================================================
