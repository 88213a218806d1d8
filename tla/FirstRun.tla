------------------------------ MODULE FirstRun ------------------------------
(***************************************************************************)
(* How an empty database is filled when there are files already            *)
(* (sync_engine.reconcile_first_run and bootstrap_vault), around the cycles *)
(* of SyncCycle, and the conflicts the user is left with                   *)
(* (conflict.resolve_manually, called by the conflicts page).              *)
(*                                                                         *)
(* The first cycle that finds files on both sides and no row pauses and    *)
(* asks (AskFirstRun).  The answer runs on a thread of its own: it scans   *)
(* both sides, treats each file that is on both as the answer says, clears *)
(* the question and resumes.  A folder without .obsidian is filled by the  *)
(* daemon itself, without a question.                                      *)
(***************************************************************************)
EXTENDS SyncCycle

CONSTANTS
  Choices,  \* the answers of the banner the user may click
  Wizard    \* first_run_mode of the setup wizard, or "none"

Modes == {"adopt", "prefer-remote", "prefer-local"}

ASSUME FirstRunAssumption == Choices \subseteq Modes /\ Wizard \in Modes \cup {"none"}

VARIABLES
  filling,   \* where the reconciliation or the bootstrap is
  mode,      \* the answer it was started with, or "bootstrap"
  had,       \* its local_files
  offered,   \* its remote_files
  undone,    \* the paths it has not handled
  conflicts, \* table conflicts
  bare,      \* the folder has no .obsidian
  word       \* history: which copy of a file the user has decided to keep

fill      == <<filling, mode, had, offered, undone>>
questions == <<conflicts, word>>
firstVars == <<vars, fill, questions, bare>>

FillTypeOK ==
  /\ filling \in {"no", "begin", "scan", "files"}
  /\ mode \in Modes \cup {"none", "bootstrap"}
  /\ had \in [Files -> File]
  /\ offered \in [Files -> Version]
  /\ undone \subseteq Files
  /\ conflicts \in [Files -> {"none", "open", "resolved"}]
  /\ bare \in BOOLEAN
  /\ word \in [Files -> {"none", "here", "iCloud", "both"}]

Nowhere == [f \in Files |-> Absent]
Nothing == [f \in Files |-> Missing]

\* With a choice of the wizard its thread is started first.
FirstInit ==
  /\ Init
  /\ filling = IF Wizard = "none" THEN "no" ELSE "begin"
  /\ mode = Wizard
  /\ had = Nowhere /\ offered = Nothing /\ undone = {}
  /\ conflicts = [f \in Files |-> "none"]
  /\ bare \in IF Wizard = "none" THEN BOOLEAN ELSE {FALSE}
  /\ word = [f \in Files |-> "none"]

-----------------------------------------------------------------------------
(* Cycles *)

\* What the user said of a file holds until somebody writes it or the two
\* copies are the same.
KeepWord ==
  word' = [f \in Files |->
             IF local'[f] = remote'[f].content THEN "none" ELSE word[f]]

\* keep-both and skip list the conflict, whatever the user said of it before.
NoteConflicts ==
  conflicts' = [f \in Files |->
                  IF /\ pc = "files" /\ pc' = "files" /\ f \in todo \ todo'
                     /\ Conflict(f) /\ Strategy \in {"keep-both", "skip"}
                  THEN "open" ELSE conflicts[f]]

\* The daemon runs a cycle, unless the folder is bare or it is at work on one.
DaemonStep ==
  /\ CycleStep
  /\ pc = "idle" => ~bare /\ mode # "bootstrap"
  /\ KeepWord /\ NoteConflicts
  /\ UNCHANGED <<fill, bare>>

-----------------------------------------------------------------------------
(* Filling the database *)

\* A button of the banner.
Answer(m) ==
  /\ firstRun /\ filling = "no"
  /\ filling' = "begin" /\ mode' = m
  /\ UNCHANGED <<vars, had, offered, undone, questions, bare>>

\* The daemon finds no .obsidian, at its start or instead of a cycle; the local
\* folder is not read.
BeginBootstrap ==
  /\ bare /\ filling = "no"
  /\ pc = "idle" /\ ~paused /\ pending = {}
  /\ filling' = "scan" /\ mode' = "bootstrap"
  /\ UNCHANGED <<vars, had, offered, undone, questions, bare>>

\* scan_local of the reconciliation.
BeginReconcile ==
  /\ filling = "begin"
  /\ had' = local
  /\ filling' = "scan"
  /\ UNCHANGED <<vars, mode, offered, undone, questions, bare>>

\* The files the reconciliation finds to differ are the ones the user decides
\* about; the bootstrap takes what iCloud has.
Differing == {f \in Files : /\ mode # "bootstrap"
                            /\ had[f] # Absent /\ offered'[f].content # Absent
                            /\ SizeOf[had[f]] # SizeOf[offered'[f].content]}

Said == CASE mode = "adopt"         -> "both"
          [] mode = "prefer-remote" -> "iCloud"
          [] mode = "prefer-local"  -> "here"
          [] OTHER                  -> "none"

\* scan_remote has returned: the reconciliation forces a refresh, but, like the
\* bootstrap, does not look whether it succeeded.
Listed ==
  /\ offered' = view'
  /\ undone' = {f \in Files : /\ view'[f].content # Absent
                              /\ mode = "bootstrap" \/ had[f] # Absent}
  /\ word' = [f \in Files |-> IF f \in Differing THEN Said ELSE word[f]]
  /\ filling' = "files"
  /\ UNCHANGED <<files, pc, seen, fresh, loop, asking, mode, had, conflicts, bare>>

FillScanFresh ==
  /\ filling = "scan"
  /\ view' = remote /\ listed' = TRUE
  /\ Listed

FillScanCached ==
  /\ filling = "scan" /\ "cachedScan" \in Faults
  /\ \E current \in SUBSET Files :
       view' = IF listed
               THEN [f \in Files |-> IF f \in current THEN remote[f] ELSE view[f]]
               ELSE view
  /\ UNCHANGED listed
  /\ Listed

\* What is over leaves nothing behind but its effects.
FillOver ==
  /\ filling' = "no" /\ mode' = "none"
  /\ had' = Nowhere /\ offered' = Nothing /\ undone' = {}

\* RemoteScanIncomplete: nothing is changed, and the question stays open.
FillScanIncomplete ==
  /\ filling = "scan" /\ "incompleteScan" \in Faults
  /\ \/ UNCHANGED <<view, listed>>
     \/ view' = remote /\ listed' = TRUE
  /\ FillOver
  /\ UNCHANGED <<files, pc, seen, fresh, loop, asking, questions, bare>>

SameSizeFound(f) == SizeOf[offered[f].content] = SizeOf[had[f]]

\* Mutant: the row carries the stamp the file has by now.
RecordWithNewStamp(f) == SetRow(f, Row(Head(local'[f]), remote'[f].etag))

\* The row is written with the hash of what is on disk now and the stamp of
\* what was listed, whoever has the newer copy, also after an upload.
Record(f) == SetRow(f, Row(Head(local'[f]), offered[f].etag))

\* Equal sizes are taken for equal contents.
AdoptSame(f) ==
  /\ mode # "bootstrap" /\ SameSizeFound(f)
  /\ UNCHANGED <<local, remote, view, conflicts>>
  /\ Record(f)
  /\ NoteAgreement({f})

\* Mutant: the file is tracked, too.
LeaveTracked(f) ==
  /\ mode = "adopt" /\ ~SameSizeFound(f)
  /\ UNCHANGED <<local, remote, view, past>>
  /\ Record(f)
  /\ conflicts' = [conflicts EXCEPT ![f] = IF @ = "none" THEN "open" ELSE @]

\* The conflict is listed; one that was listed and resolved stays resolved.
LeaveToUser(f) ==
  /\ mode = "adopt" /\ ~SameSizeFound(f)
  /\ UNCHANGED <<files, view>>
  /\ conflicts' = [conflicts EXCEPT ![f] = IF @ = "none" THEN "open" ELSE @]

\* The node that the scan has walked is downloaded; when it cannot be opened, the
\* error is counted and the file stays untracked.  The bootstrap passes over a
\* node that has left the tree meanwhile, the answer records the file all the same.
TakeRemote(f) ==
  /\ mode = "bootstrap" \/ (mode = "prefer-remote" /\ ~SameSizeFound(f))
  /\ \/ /\ view[f].content # Absent /\ remote[f] # Missing
        /\ local' = [local EXCEPT ![f] = remote[f].content]
        /\ UNCHANGED remote
        /\ Record(f)
        /\ NoteAgreement({f})
     \/ /\ view[f].content = Absent \/ remote[f] = Missing \/ "downloadFails" \in Faults
        /\ view[f].content = Absent => mode = "bootstrap"
        /\ UNCHANGED <<local, remote, row, past>>
     \/ /\ view[f].content = Absent /\ mode = "prefer-remote"
        /\ UNCHANGED <<local, remote>>
        /\ Record(f)
        /\ NoteAgreement({f})
  /\ UNCHANGED <<view, conflicts>>

TakeLocal(f) ==
  /\ mode = "prefer-local" /\ ~SameSizeFound(f)
  /\ \/ /\ local[f] # Absent
        /\ remote' = [remote EXCEPT ![f] = [content |-> local[f], etag |-> NewEtag(f)]]
        /\ \/ view' = [view EXCEPT ![f] = remote'[f]]
           \/ "uploadUnlisted" \in Faults /\ UNCHANGED view
        /\ UNCHANGED local
        /\ Record(f)
        /\ NoteAgreement({f})
     \/ UploadFailed(f, row[f])
  /\ UNCHANGED conflicts

FillFile(f) ==
  /\ filling = "files" /\ f \in undone
  /\ AdoptSame(f) \/ LeaveToUser(f) \/ TakeRemote(f) \/ TakeLocal(f)
  /\ undone' = undone \ {f}
  /\ KeepWord
  /\ UNCHANGED <<filling, mode, had, offered, pc, seen, listed, fresh, loop, asking, bare>>

\* The question is answered and syncing goes on, with or without errors.
FinishReconcile ==
  /\ filling = "files" /\ undone = {} /\ mode # "bootstrap"
  /\ firstRun' = FALSE /\ paused' = FALSE
  /\ FillOver
  /\ UNCHANGED <<files, pc, scan, loop, pending, questions, bare>>

\* .obsidian is part of the vault: once the vault was listed, it has come with
\* the other files, unless its download failed or shutdown() came before it.
FinishBootstrap ==
  /\ filling = "files" /\ mode = "bootstrap"
  /\ undone = {} \/ "shutdown" \in Faults
  /\ bare' \in {~listed, ~listed \/ undone # {} \/ "downloadFails" \in Faults}
  /\ FillOver
  /\ UNCHANGED <<vars, questions>>

FillStep ==
  \/ BeginBootstrap \/ BeginReconcile
  \/ FillScanFresh \/ FillScanCached \/ FillScanIncomplete
  \/ \E f \in Files : FillFile(f)
  \/ FinishReconcile \/ FinishBootstrap

-----------------------------------------------------------------------------
(* The user *)

\* "Keep local" and "Keep remote" of the conflicts page mark the conflict as
\* resolved and start a cycle.
ResolveConflict(f, copy) ==
  /\ conflicts[f] = "open"
  /\ conflicts' = [conflicts EXCEPT ![f] = "resolved"]
  /\ word' = [word EXCEPT ![f] = copy]
  /\ UNCHANGED <<vars, fill, bare>>

\* "Keep both" renames the local file, to a name that is not followed here.
KeepBoth(f) ==
  /\ conflicts[f] = "open" /\ local[f] # Absent
  /\ EditsDuringCycle \/ (MayEdit /\ filling \in {"no", "begin"})
  /\ local' = [local EXCEPT ![f] = Absent]
  /\ savedHere' = savedHere \cup {f}
  /\ conflicts' = [conflicts EXCEPT ![f] = "resolved"]
  /\ word' = [word EXCEPT ![f] = "none"]
  /\ UNCHANGED <<remote, row, agreed, savedThere, pc, scan, loop, asking, fill, bare>>

Edit ==
  /\ filling \in {"no", "begin"} \/ EditsDuringCycle
  /\ EnvironmentStep
  /\ word' = [f \in Files |->
                IF local'[f] # local[f] \/ remote'[f] # remote[f] THEN "none"
                                                                   ELSE word[f]]
  /\ UNCHANGED <<fill, conflicts, bare>>

UserStep ==
  \/ \E m \in Choices : Answer(m)
  \/ \E f \in Files, copy \in {"here", "iCloud"} : ResolveConflict(f, copy)

FirstNext ==
  \/ DaemonStep \/ FillStep \/ UserStep \/ Edit
  \/ \E f \in Files : KeepBoth(f)

FirstSpec == FirstInit /\ [][FirstNext]_firstVars

-----------------------------------------------------------------------------
(* Properties *)

\* Of all the fillings only "Trust this computer" touches iCloud, and an edit made
\* on another device is overwritten or deleted only when there is an edit of this
\* computer for it.
FillingSparesRemote ==
  [][\A f \in Files :
       FillStep /\ remote'[f] # remote[f] =>
         /\ mode = "prefer-local"
         /\ remote[f].content = agreed[f] \/ f \in savedHere]_firstVars

\* Of the answers only "Trust iCloud" touches the local folder, and an edit of the
\* user is overwritten only when another device has edited the file, too.  (The
\* bootstrap takes every file for a new one.)
FillingSparesLocal ==
  [][\A f \in Files :
       FillStep /\ mode # "bootstrap" /\ local'[f] # local[f] =>
         /\ mode = "prefer-remote"
         /\ local[f] = agreed[f] \/ f \in savedThere]_firstVars

\* A filling spares the edits of either side it was not told to give up.
FillingSparesEdits == FillingSparesRemote /\ FillingSparesLocal

\* What the documentation says and the code does not do (see the README).

\* "Lists the rest as conflicts for you to resolve. This is the only answer
\* that cannot lose data" (README.md:103-104): the program leaves both copies
\* of a file alone that it has left to the user.
AdoptLeavesToUser ==
  [][\A f \in Files :
       word[f] = "both" /\ (DaemonStep \/ FillStep) =>
         local'[f] = local[f] /\ remote'[f] = remote[f]]_firstVars

\* "Keep local", "Keep remote", "Trust iCloud" and "Trust this computer"
\* (gui/pages.py:275-276 and 556-557): the copy that the user wants to keep is
\* not replaced.
WordIsKept ==
  [][\A f \in Files :
       DaemonStep \/ FillStep =>
         /\ word[f] = "here" => local'[f] = local[f]
         /\ word[f] = "iCloud" => remote'[f] = remote[f]]_firstVars

\* "Running it before the daemon matters: otherwise the first cycle hits the
\* first-run guard and pauses, asking a question the user already answered"
\* (gui/app.py:210-211): nothing is asked while the wizard's answer is applied.
AnsweredOnce == Wizard # "none" /\ filling # "no" => ~firstRun

-----------------------------------------------------------------------------
(* Why InSyncMeansEqual holds also of the rows the filling writes, while     *)
(* nobody edits during a cycle or a filling that the daemon started or asked *)
(* for                                                                       *)

\* A question stops the cycles until it is answered, and while the database is
\* being filled no cycle runs.
FillingIsAlone ==
  /\ firstRun => paused /\ pc = "idle"
  /\ filling # "no" => pc = "idle" /\ (mode = "bootstrap" \/ paused)
  /\ filling = "no" <=> mode = "none"

\* Until a file is handled, both its copies are what the filling has found.
FoundIsCurrent ==
  /\ filling = "scan" /\ mode # "bootstrap" => had = local
  /\ filling = "files" =>
       \A f \in undone :
         /\ offered[f] = view[f] /\ offered[f].content # Absent
         /\ mode # "bootstrap" => had[f] = local[f] /\ had[f] # Absent

\* The inductive invariant: what the filling compares can be trusted, and so
\* can every later comparison.
FillingIsSound ==
  FillTypeOK /\ ComparisonsAreSound /\ FillingIsAlone /\ FoundIsCurrent

=============================================================================
