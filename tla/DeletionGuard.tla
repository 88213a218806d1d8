---------------------------- MODULE DeletionGuard ----------------------------
(***************************************************************************)
(* The open question about a bulk deletion (sync_engine.py:154-375, the    *)
(* end of _run_sync_cycle, daemon_loop): when more than a few tracked files *)
(* are missing from a fresh scan of iCloud, the list is parked in memory   *)
(* and in the database and syncing is paused.  The daemon rechecks an open  *)
(* question at every wake, the user answers it on another thread, the      *)
(* process may stop at any point and restores the question when it starts. *)
(*                                                                         *)
(* Each action is one stretch of code between two points where the other   *)
(* thread can get in: a scan, a write to the list, to the database, to the *)
(* pause.  A file is a path; the rest of the cycle is in SyncCycle, and    *)
(* the user leaves the local folder alone, so the files here are exactly   *)
(* the tracked ones.                                                       *)
(***************************************************************************)
EXTENDS Integers, FiniteSets

CONSTANTS
  Files,             \* vault-relative paths
  DeletionThreshold, \* _DELETION_THRESHOLD
  FloorNum, FloorDen,\* the truncated-scan guard: seen < tracked * Num / Den
  Faults,            \* which failures can occur
  Uses,              \* what the user does
  Overlap            \* may an answer and the daemon's work interleave

AllFaults == {"staleScan", "incompleteScan", "transferFails", "stop"}
Answers   == {"confirm", "upload", "cancel"}
AllUses   == Answers \cup {"pause", "once"}

ASSUME GuardAssumption ==
  /\ IsFiniteSet(Files)
  /\ DeletionThreshold \in Nat
  /\ FloorNum \in Nat /\ FloorDen \in Nat \ {0}
  /\ Faults \subseteq AllFaults
  /\ Uses \subseteq AllUses
  /\ Overlap \in BOOLEAN

VARIABLES
  here,   \* the tracked files, all on disk
  there,  \* the files on iCloud Drive
  view,   \* the files in the cached remote tree
  mem,    \* _pending_remote_deletions
  db,     \* the list under _PENDING_DELETIONS_KEY in the database
  flag,   \* _paused_by_deletions
  paused, \* _sync_paused
  pc,     \* where the daemon thread is; "down" when no process runs
  once,   \* the process is `sync.py once`
  list,   \* the daemon's local list: pending, still_missing, _deletion_candidates
  guard,  \* guard_paused
  apc,    \* where the answering thread is
  answer, \* which answer it carries out
  alist,  \* its local list `pending`
  aseen,  \* the remote_files of confirm_pending_deletions
  shown,  \* the list in the banner
  word,   \* history: where each file stands with the user
  hand,   \* history: the last thing the user did to the pause was to set it
  read,   \* history: the list in the banner when the user clicked
  proof   \* history: the scan of confirm_pending_deletions was fresh

vaults == <<here, there, view>>
stored == <<mem, db, flag, paused>>
daemon == <<pc, once, list, guard>>
thread == <<apc, answer, alist, aseen, read, proof>>
window == <<shown, hand>>
vars   == <<vaults, stored, daemon, thread, window, word>>

TypeOK ==
  /\ {here, there, view, mem, db, list, alist, aseen, shown, read} \subseteq SUBSET Files
  /\ {flag, paused, once, guard, hand, proof} \subseteq BOOLEAN
  /\ pc \in {"down", "restore", "restoreMem", "idle", "recheck", "shrinkMem",
             "shrinkDb", "clearMem", "clearDb", "unpause", "honour", "cycle",
             "parkMem", "parkDb", "parkPause", "remove"}
  /\ apc \in {"none", "verify", "take", "clear", "files", "resume"}
  /\ answer \in Answers \cup {"none"}
  /\ word \in [Files -> {"settled", "asked", "delete", "keep"}]

Init ==
  /\ here = Files /\ there = Files /\ view = {}
  /\ mem = {} /\ db = {} /\ flag = FALSE /\ paused = FALSE
  /\ pc = "down" /\ once = FALSE /\ list = {} /\ guard = FALSE
  /\ apc = "none" /\ answer = "none" /\ alist = {} /\ aseen = {}
  /\ read = {} /\ proof = FALSE
  /\ shown = {} /\ hand = FALSE
  /\ word = [f \in Files |-> "settled"]

Running == pc # "down"

\* A note on where the files of S stand.
Note(S, w) == word' = [f \in Files |-> IF f \in S THEN w ELSE word[f]]

-----------------------------------------------------------------------------
(* iCloud Drive *)

\* Another device deletes a file or brings it back.
OthersDelete(f) ==
  /\ f \in there /\ there' = there \ {f}
  /\ UNCHANGED <<here, view, stored, daemon, thread, window, word>>

OthersRestore(f) ==
  /\ f \notin there /\ there' = there \cup {f}
  /\ UNCHANGED <<here, view, stored, daemon, thread, window, word>>

\* What scan_remote returns: the current listing, or one from the cache in
\* which each file is as last listed or as it is now.
ScanShows(r, isFresh) ==
  \/ isFresh /\ r = there
  \/ /\ ~isFresh /\ "staleScan" \in Faults
     /\ view \cap there \subseteq r /\ r \subseteq view \cup there

\* A folder could not be listed: RemoteScanIncomplete.
ScanFails == "incompleteScan" \in Faults /\ view' \in {view, there}

\* Files that a fresh listing shows are no longer in question.
NoteSeen(isFresh) == IF isFresh THEN Note(there, "settled") ELSE UNCHANGED word

-----------------------------------------------------------------------------
(* Start and stop *)

\* Mutant: the guard's hold on the pause is forgotten.
RestoreWithoutFlag(saved) == mem' = saved /\ flag' = flag /\ paused' = TRUE

\* restore_pending_deletions, with something to restore.
Restore(saved) == mem' = saved /\ flag' = TRUE /\ paused' = TRUE

\* The application starts, restores before it connects, then runs the daemon.
\* Nothing of the vault has been listed: until a refresh succeeds, the tree is
\* walked as an empty one.
Start ==
  /\ ~Running
  /\ IF db = {} THEN UNCHANGED <<mem, flag, paused>> ELSE Restore(db)
  /\ Note(db, "asked")
  /\ pc' = "restore"
  /\ UNCHANGED <<vaults, db, once, list, guard, thread, window>>

\* `sync.py once`: a single cycle, nothing restored.
StartOnce ==
  /\ ~Running /\ "once" \in Uses
  /\ pc' = "cycle" /\ once' = TRUE
  /\ UNCHANGED <<vaults, stored, list, guard, thread, window, word>>

\* The process ends: memory is gone, the database and the vaults are not.  A
\* list that was not stored yet was never a question.
Stop ==
  /\ Running
  /\ "stop" \in Faults \/ (once /\ pc = "idle")
  /\ view' = {} /\ mem' = {} /\ flag' = FALSE /\ paused' = FALSE
  /\ pc' = "down" /\ once' = FALSE /\ list' = {} /\ guard' = FALSE
  /\ apc' = "none" /\ answer' = "none" /\ alist' = {} /\ aseen' = {}
  /\ read' = {} /\ proof' = FALSE
  /\ shown' = {} /\ hand' = FALSE
  /\ IF pc = "parkDb" THEN Note(list, "settled") ELSE UNCHANGED word
  /\ UNCHANGED <<here, there, db>>

\* daemon_loop restores again: the list is read from the database, ...
RestoreRead ==
  /\ pc = "restore"
  /\ list' = db
  /\ pc' = IF db = {} THEN "idle" ELSE "restoreMem"
  /\ UNCHANGED <<vaults, stored, once, guard, thread, window, word>>

\* ... and put in place unless it is there already.
RestoreWrite ==
  /\ pc = "restoreMem"
  /\ IF mem = list THEN UNCHANGED <<mem, flag, paused>> ELSE Restore(list)
  /\ list' = {} /\ pc' = "idle"
  /\ UNCHANGED <<vaults, db, once, guard, thread, window, word>>

-----------------------------------------------------------------------------
(* daemon_loop *)

\* Mutant: the pause is honoured before the question is looked at.
WakeHonouring ==
  /\ pc = "idle" /\ ~once
  /\ Overlap \/ apc = "none"
  /\ list' = mem
  /\ pc' = IF mem = {} \/ paused THEN "honour" ELSE "recheck"
  /\ UNCHANGED <<vaults, stored, once, guard, thread, window, word>>

Wake ==
  /\ pc = "idle" /\ ~once
  /\ Overlap \/ apc = "none"
  /\ list' = mem
  /\ pc' = IF mem = {} THEN "honour" ELSE "recheck"
  /\ UNCHANGED <<vaults, stored, once, guard, thread, window, word>>

Honour ==
  /\ pc = "honour"
  /\ pc' = IF paused THEN "idle" ELSE "cycle"
  /\ UNCHANGED <<vaults, stored, once, list, guard, thread, window, word>>

\* recheck_pending_deletions: the scan proves nothing.
RecheckFails ==
  /\ pc = "recheck"
  /\ \/ ScanFails
     \/ \E r \in SUBSET Files : ScanShows(r, FALSE) /\ view' = r
  /\ list' = {} /\ pc' = "idle"
  /\ UNCHANGED <<here, there, stored, once, guard, thread, window, word>>

\* The scan is complete and fresh.
RecheckScan ==
  /\ pc = "recheck"
  /\ view' = there /\ NoteSeen(TRUE)
  /\ LET still == list \ there IN
       \/ still = {} /\ pc' = "clearMem" /\ list' = {}
       \/ still # {} /\ still = list /\ pc' = "idle" /\ list' = {}
       \/ still # {} /\ still # list /\ pc' = "shrinkMem" /\ list' = still
  /\ UNCHANGED <<here, there, stored, once, guard, thread, window>>

ShrinkMem ==
  /\ pc = "shrinkMem"
  /\ mem' = list /\ pc' = "shrinkDb"
  /\ UNCHANGED <<vaults, db, flag, paused, once, list, guard, thread, window, word>>

ShrinkDb ==
  /\ pc = "shrinkDb"
  /\ db' = list
  /\ list' = {} /\ pc' = "idle"
  /\ UNCHANGED <<vaults, mem, flag, paused, once, guard, thread, window, word>>

\* A false alarm: guard_paused is read, _clear_pending_deletions begins.
ClearMem ==
  /\ pc = "clearMem"
  /\ guard' = flag
  /\ mem' = {} /\ pc' = "clearDb"
  /\ UNCHANGED <<vaults, db, flag, paused, once, list, thread, window, word>>

\* Mutant: the guard's claim on the pause outlives its question.
ClearKeepingFlag ==
  /\ pc = "clearDb"
  /\ db' = {}
  /\ pc' = IF guard THEN "unpause" ELSE "honour"
  /\ guard' = FALSE
  /\ UNCHANGED <<vaults, mem, flag, paused, once, list, thread, window, word>>

ClearDb ==
  /\ pc = "clearDb"
  /\ db' = {} /\ flag' = FALSE
  /\ pc' = IF guard THEN "unpause" ELSE "honour"
  /\ guard' = FALSE
  /\ UNCHANGED <<vaults, mem, paused, once, list, thread, window, word>>

\* Mutant: the all-clear leaves the pause in place.
UnpauseNothing ==
  /\ pc = "unpause"
  /\ pc' = "honour"
  /\ UNCHANGED <<vaults, stored, once, list, guard, thread, window, word>>

Unpause ==
  /\ pc = "unpause"
  /\ paused' = FALSE /\ pc' = "honour"
  /\ UNCHANGED <<vaults, mem, db, flag, once, list, guard, thread, window, word>>

-----------------------------------------------------------------------------
(* _run_sync_cycle *)

TruncatedScan(r) ==
  here # {} /\ Cardinality(r) * FloorDen < Cardinality(here) * FloorNum

CycleAborts ==
  /\ pc = "cycle"
  /\ \/ ScanFails
     \/ \E r \in SUBSET Files, isFresh \in BOOLEAN :
          ScanShows(r, isFresh) /\ TruncatedScan(r) /\ view' = r
  /\ pc' = "idle"
  /\ UNCHANGED <<here, there, stored, once, list, guard, thread, window, word>>

\* Mutant: one more file goes without a question.
BulkOffByOne(S) == Cardinality(S) > DeletionThreshold + 1

Bulk(S) == Cardinality(S) > DeletionThreshold

\* The scan and the per-file loop: new files are downloaded if that works,
\* files missing from a fresh listing become candidates.
CycleLoop ==
  /\ pc = "cycle"
  /\ \E r \in SUBSET Files, isFresh \in BOOLEAN :
       /\ ScanShows(r, isFresh) /\ ~TruncatedScan(r)
       /\ view' = r /\ NoteSeen(isFresh)
       /\ \E down \in SUBSET ((r \ here) \cap there) :
            /\ "transferFails" \in Faults \/ down = (r \ here) \cap there
            /\ here' = here \cup down
       /\ list' = IF isFresh THEN here \ r ELSE {}
  /\ pc' = IF list' = {} THEN "idle" ELSE IF Bulk(list') THEN "parkMem" ELSE "remove"
  /\ UNCHANGED <<there, stored, once, guard, thread, window>>

ParkMem ==
  /\ pc = "parkMem"
  /\ mem' = list /\ Note(list, "asked")
  /\ pc' = "parkDb"
  /\ UNCHANGED <<vaults, db, flag, paused, once, list, guard, thread, window>>

\* Mutant: syncing is paused but the list is not stored.
ParkUnsaved ==
  /\ pc = "parkDb"
  /\ flag' = TRUE /\ pc' = "parkPause"
  /\ UNCHANGED <<vaults, mem, db, paused, once, list, guard, thread, window, word>>

ParkDb ==
  /\ pc = "parkDb"
  /\ db' = list /\ flag' = TRUE
  /\ pc' = "parkPause"
  /\ UNCHANGED <<vaults, mem, paused, once, list, guard, thread, window, word>>

ParkPause ==
  /\ pc = "parkPause"
  /\ paused' = TRUE
  /\ list' = {} /\ pc' = "idle"
  /\ UNCHANGED <<vaults, mem, db, flag, once, guard, thread, window, word>>

\* One candidate is removed with its row, or the removal fails.
RemoveCandidate(f) ==
  /\ pc = "remove" /\ f \in list
  /\ \/ here' = here \ {f} /\ Note({f}, "settled")
     \/ "transferFails" \in Faults /\ UNCHANGED <<here, word>>
  /\ list' = list \ {f}
  /\ pc' = IF list' = {} THEN "idle" ELSE pc
  /\ UNCHANGED <<there, view, stored, once, guard, thread, window>>

-----------------------------------------------------------------------------
(* The window and the answers *)

\* EngineBridge._poll_status finds that the list has changed.
Show ==
  /\ Running /\ ~once /\ shown # mem
  /\ shown' = mem
  /\ UNCHANGED <<vaults, stored, daemon, thread, hand, word>>

\* The pause button, or the tray: pause or resume.
TogglePause ==
  /\ Running /\ ~once /\ "pause" \in Uses
  /\ paused' = ~paused /\ hand' = ~paused
  /\ UNCHANGED <<vaults, mem, db, flag, daemon, thread, shown, word>>

\* A button of the banner; the banner is busy until the answer is done.
Click(a) ==
  /\ Running /\ ~once /\ shown # {} /\ apc = "none"
  /\ a \in Uses
  /\ Overlap \/ pc = "idle"
  /\ answer' = a /\ read' = shown
  /\ apc' = IF a = "confirm" THEN "verify" ELSE "take"
  /\ UNCHANGED <<vaults, stored, daemon, alist, aseen, proof, window, word>>

AnswerDone ==
  /\ apc' = "none" /\ answer' = "none"
  /\ alist' = {} /\ aseen' = {} /\ read' = {} /\ proof' = FALSE

\* confirm_pending_deletions: the last check before files are removed.
VerifyFails ==
  /\ apc = "verify" /\ ScanFails
  /\ AnswerDone
  /\ UNCHANGED <<here, there, stored, daemon, window, word>>

Verify ==
  /\ apc = "verify"
  /\ \E r \in SUBSET Files, isFresh \in BOOLEAN :
       /\ ScanShows(r, isFresh)
       /\ view' = r /\ aseen' = r /\ proof' = isFresh
       /\ NoteSeen(isFresh)
  /\ apc' = "take"
  /\ UNCHANGED <<here, there, stored, daemon, answer, alist, read, window>>

\* The list is copied and the list in memory emptied.
Take ==
  /\ apc = "take"
  /\ alist' = IF answer = "cancel" THEN {} ELSE mem
  /\ mem' = {}
  /\ Note(mem, IF answer = "confirm" THEN "delete" ELSE "keep")
  /\ apc' = "clear"
  /\ UNCHANGED <<vaults, db, flag, paused, daemon, answer, aseen, read, proof, window>>

\* The rest of _clear_pending_deletions.
ClearAnswered ==
  /\ apc = "clear"
  /\ db' = {} /\ flag' = FALSE
  /\ apc' = IF alist = {} THEN "resume" ELSE "files"
  /\ UNCHANGED <<vaults, mem, paused, daemon, answer, alist, aseen, read, proof,
                 window, word>>

\* One file of the list is done: removed here if the scan did not show it,
\* downloaded again if it did, uploaded for the other answer, or it failed.
ConfirmFile(f) ==
  /\ answer = "confirm"
  /\ IF f \in aseen
     THEN here' = IF f \in there THEN here \cup {f} ELSE here
     ELSE here' = here \ {f}
  /\ Note({f}, "settled")
  /\ UNCHANGED <<there, view>>

UploadFile(f) ==
  /\ answer = "upload" /\ f \in here
  /\ there' = there \cup {f} /\ view' = view \cup {f}
  /\ Note({f}, "settled")
  /\ UNCHANGED here

FileFails(f) ==
  /\ "transferFails" \in Faults \/ f \notin here
  /\ UNCHANGED <<vaults, word>>

AnswerFile(f) ==
  /\ apc = "files" /\ f \in alist
  /\ ConfirmFile(f) \/ UploadFile(f) \/ FileFails(f)
  /\ alist' = alist \ {f}
  /\ apc' = IF alist' = {} THEN "resume" ELSE apc
  /\ UNCHANGED <<stored, daemon, answer, aseen, read, proof, window>>

\* resume() at the end of each answer.
ResumeAnswered ==
  /\ apc = "resume"
  /\ paused' = FALSE /\ hand' = FALSE
  /\ AnswerDone
  /\ UNCHANGED <<vaults, mem, db, flag, daemon, shown, word>>

-----------------------------------------------------------------------------

Cycle ==
  \/ CycleAborts \/ CycleLoop
  \/ ParkMem \/ ParkDb \/ ParkPause
  \/ \E f \in Files : RemoveCandidate(f)

Recheck ==
  \/ RecheckFails \/ RecheckScan
  \/ ShrinkMem \/ ShrinkDb
  \/ ClearMem \/ ClearDb \/ Unpause

Daemon == RestoreRead \/ RestoreWrite \/ Wake \/ Honour \/ Recheck \/ Cycle

AnswerThread ==
  \/ VerifyFails \/ Verify \/ Take \/ ClearAnswered \/ ResumeAnswered
  \/ \E f \in Files : AnswerFile(f)

User == TogglePause \/ \E a \in Answers : Click(a)

Others == \E f \in Files : OthersDelete(f) \/ OthersRestore(f)

Next ==
  \/ Start \/ StartOnce \/ Stop
  \/ Daemon \/ AnswerThread \/ Show \/ User \/ Others

Spec == Init /\ [][Next]_vars

\* The process is started again when it has stopped, its threads go on, and a
\* refresh that is possible again and again succeeds in the end.
Fairness ==
  /\ WF_vars(Start) /\ WF_vars(Daemon) /\ WF_vars(AnswerThread)
  /\ SF_vars(RecheckScan)

FairSpec == Spec /\ Fairness

-----------------------------------------------------------------------------
(* Properties *)

Asked == {f \in Files : word[f] = "asked"}

Settled(S) == \A f \in S : word[f] = "settled"

\* The invariant that the proofs rest on, without Overlap and `once`.  First:
\* the two threads take turns.
TakeTurns == ~once /\ (apc # "none" => pc = "idle")

\* Which of the copies agree at which point.
CopiesInStep ==
  /\ pc = "down" => mem = {}
  /\ pc \in {"restore", "restoreMem", "recheck", "shrinkMem", "parkPause"} => mem = db
  /\ pc = "idle" /\ apc # "clear" => mem = db
  /\ apc \in {"clear", "files", "resume"} => mem = {}
  /\ apc = "clear" => alist = IF answer = "cancel" THEN {} ELSE db
  /\ pc \in {"restoreMem", "recheck"} => list = db
  /\ pc \in {"shrinkDb", "parkDb"} => mem = list
  /\ pc = "clearDb" => mem = {}
  /\ pc \in {"honour", "unpause", "cycle", "parkMem", "remove"} => mem = {} /\ db = {}
  /\ pc = "parkDb" => db = {}

\* What is asked is stored, and a list shrinks only by what was seen.
AskedIsStored ==
  /\ Asked = IF pc = "parkDb" THEN list ELSE Asked \cap db
  /\ pc \in {"shrinkMem", "shrinkDb"} =>
       list # {} /\ list \subseteq db /\ Settled(db \ list)
  /\ pc \in {"clearMem", "clearDb"} => Settled(db)
  /\ apc \in {"clear", "files"} => Asked = {}
  /\ pc \in {"parkMem", "parkDb"} => Bulk(list)

\* The flag says who holds the pause, and is up only while a list is stored.
FlagHoldsPause ==
  /\ flag => db # {}
  /\ pc = "clearDb" => guard = flag
  /\ pc = "parkPause" => flag
  /\ paused /\ ~hand => flag \/ pc = "unpause" \/ apc \in {"files", "resume"}

\* All of it: at every point the stored list is the question, whole.
QuestionIsKept ==
  TypeOK /\ TakeTurns /\ CopiesInStep /\ AskedIsStored /\ FlagHoldsPause

\* Syncing is never left paused with nothing to say why: the user paused it,
\* a question is open, or somebody is about to lift the pause.
PausedForAReason ==
  paused => hand \/ mem # {} \/ db # {} \/ apc # "none" \/ pc = "unpause"

\* While a file is on a list the user has neither answered nor been shown to
\* be wrong, nothing the program does removes it: not across a restart, not
\* when the rest of the list turned out to be a false alarm.
OpenQuestionsProtect ==
  [][\A f \in here \ here' : word[f] # "asked"]_vars

\* The guard keeps the promise of DeletionQuestion: the stored list is the
\* question, and what is being removed is what may go.
Proven == {f \in db : word[f] = "settled"}

Doomed == IF pc = "remove" THEN list
          ELSE IF apc = "files" /\ answer = "confirm" THEN alist ELSE {}

Question == INSTANCE DeletionQuestion WITH
  question <- db, proven <- Proven, doomed <- Doomed

AsksFirst == Question!Spec

-----------------------------------------------------------------------------
(* Liveness, under FairSpec *)

InDoubt == ~(mem \subseteq there)

\* A false alarm clears by itself: unless a file in question is missing from
\* iCloud again and again, or the process keeps ending, there is no open
\* question again and again.
FalseAlarmClears ==
  []<>InDoubt \/ []<>(~Running \/ once) \/ []<>(mem = {})

\* And syncing goes on by itself, unless the user keeps it paused.
SyncResumes ==
  []<>InDoubt \/ []<>(~Running \/ once) \/ []<>hand \/ []<>(pc = "cycle")

-----------------------------------------------------------------------------
(* What the documentation and the tests say, and the code does not do *)

\* "A pause the user set by hand is never lifted automatically" (CHANGELOG.md).
HandPauseKept == hand => paused

\* An answered question does not come back: the daemon's recheck may take
\* files off a list, never put them on one.
RecheckOnlyDrops ==
  [][(pc \in {"shrinkMem", "shrinkDb", "clearMem", "clearDb"}) /\ pc' # pc
     => mem' \subseteq mem /\ db' \subseteq db]_vars

\* Confirming removes only files that were on the list the user read.
ConfirmsWhatWasRead ==
  [][\A f \in here \ here' : alist' # alist => f \in read]_vars

\* A file that is on iCloud is not removed on the word of cached data, not
\* even after a yes.
NeverFromCache ==
  [][\A f \in here \ here' : alist' # alist => proof \/ f \notin there]_vars

\* Files that the user chose to keep are not removed, unless the user is
\* asked again or they have been seen on iCloud since.
KeptFilesStay ==
  [][\A f \in here \ here' : word[f] # "keep"]_vars

=============================================================================
