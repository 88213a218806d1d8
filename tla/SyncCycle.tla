----------------------------- MODULE SyncCycle -----------------------------
(***************************************************************************)
(* One pass of the sync engine of obsisync over a vault                    *)
(* (sync_engine._run_sync_cycle with conflict.resolve, scanner.scan_local  *)
(* and scanner.scan_remote): the local folder and the iCloud folder are    *)
(* scanned, the scan passes two guards, every path that was seen is        *)
(* compared with its row in file_states and transferred, recorded or       *)
(* proposed for deletion, and the deletions are applied or parked.         *)
(*                                                                         *)
(* A file is abstracted to its content; an etag together with the remote   *)
(* modification time is one opaque stamp; the hash of the first 4096 bytes *)
(* and the size are functions of the content, so that contents they do not *)
(* tell apart can be modelled.  The user and other devices edit both sides.*)
(***************************************************************************)
EXTENDS Integers, FiniteSets

CONSTANTS
  Files,             \* vault-relative paths
  Contents,          \* what a file can hold
  Hashes, HeadOf,    \* HeadOf[c]: the hash of the first 4096 bytes of c
  Sizes, SizeOf,     \* SizeOf[c]: the size of c in bytes
  Etags,             \* version stamps the server hands out
  Absent,            \* "no file here"
  NoHash,            \* the empty string in a hash column
  NoEtag,            \* the empty string in an etag column
  DeletionThreshold, \* _DELETION_THRESHOLD
  FloorNum, FloorDen,\* the truncated-scan guard: seen < tracked * Num / Den
  Strategy,          \* cfg["conflict_strategy"]
  SyncDeletes,       \* cfg["sync_deletes"]
  EditsDuringCycle,  \* may the user and other devices edit while a cycle runs
  Faults             \* which failures can occur

Strategies == {"last-writer-wins", "keep-both", "prefer-local",
               "prefer-remote", "skip"}

AllFaults == {"cachedScan", "incompleteScan", "uploadRefused", "uploadLost",
              "uploadUnlisted", "downloadFails", "trashFails", "removeFails",
              "shutdown"}

ASSUME ConstantsAssumption ==
  /\ IsFiniteSet(Files)
  /\ Absent \notin Contents
  /\ HeadOf \in [Contents -> Hashes] /\ NoHash \notin Hashes
  /\ SizeOf \in [Contents -> Sizes]
  /\ NoEtag \notin Etags
  /\ DeletionThreshold \in Nat
  /\ FloorNum \in Nat /\ FloorDen \in Nat \ {0}
  /\ Strategy \in Strategies
  /\ SyncDeletes \in BOOLEAN
  /\ EditsDuringCycle \in BOOLEAN
  /\ Faults \subseteq AllFaults

\* The server can always produce a stamp that neither of two others equals.
ASSUME EtagSupply ==
  \A a, b \in Etags \cup {NoEtag} : \E e \in Etags : e # a /\ e # b

VARIABLES
  local,      \* the folder on disk
  remote,     \* the vault on iCloud Drive
  row,        \* table file_states
  pc,         \* where the cycle is
  seen,       \* local_files: the content each path had when scanned
  view,       \* remote_files, and between cycles the cached remote tree
  listed,     \* has the remote root ever been listed by this process
  fresh,      \* remote_fresh
  todo,       \* the paths the per-file loop has not visited
  candidates, \* _deletion_candidates
  pending,    \* _pending_remote_deletions, in memory and in the database
  paused,     \* _sync_paused
  firstRun,   \* _pending_first_run is not empty
  agreed,     \* history: what both sides held, as far as the engine could see,
              \* when it last brought them together
  savedHere,  \* history: the files this user has written since then
  savedThere  \* history: the files other devices have written since a row
              \* carried the stamp of the iCloud version

past   == <<agreed, savedHere, savedThere>>
files  == <<local, remote, row, past>>
scan   == <<seen, view, listed, fresh>>
loop   == <<todo, candidates>>
asking == <<pending, paused, firstRun>>
vars   == <<files, pc, scan, loop, asking>>

-----------------------------------------------------------------------------
(* Data *)

File    == Contents \cup {Absent}
Missing == [content |-> Absent, etag |-> NoEtag]
Version == [content : Contents, etag : Etags] \cup {Missing}

Head(c) == IF c = Absent THEN NoHash ELSE HeadOf[c]

Untracked == [tracked |-> FALSE, hash |-> NoHash, etag |-> NoEtag]

Row(h, e) == [tracked |-> TRUE, hash |-> h, etag |-> e]
Rows      == {Untracked} \cup
             [tracked : {TRUE}, hash : Hashes \cup {NoHash}, etag : Etags \cup {NoEtag}]

Tracked == {f \in Files : row[f].tracked}
SeenLocally == {f \in Files : seen[f] # Absent}
SeenRemotely == {f \in Files : view[f].content # Absent}

NewEtag(f) == CHOOSE e \in Etags : e # row[f].etag /\ e # view[f].etag

TypeOK ==
  /\ local \in [Files -> File]
  /\ remote \in [Files -> Version]
  /\ row \in [Files -> Rows]
  /\ agreed \in [Files -> File]
  /\ pc \in {"idle", "remoteScan", "guards", "files", "remove"}
  /\ seen \in [Files -> File]
  /\ view \in [Files -> Version]
  /\ {listed, fresh, paused, firstRun} \subseteq BOOLEAN
  /\ {todo, candidates, pending, savedHere, savedThere} \subseteq SUBSET Files

Init ==
  /\ local = [f \in Files |-> Absent]
  /\ remote = [f \in Files |-> Missing]
  /\ row = [f \in Files |-> Untracked]
  /\ agreed = [f \in Files |-> Absent] /\ savedHere = {} /\ savedThere = {}
  /\ pc = "idle"
  /\ seen = [f \in Files |-> Absent]
  /\ view = [f \in Files |-> Missing]
  /\ listed = FALSE /\ fresh = FALSE
  /\ todo = {} /\ candidates = {} /\ pending = {}
  /\ paused = FALSE /\ firstRun = FALSE

-----------------------------------------------------------------------------
(* The environment: the user of this computer and the other devices. *)

MayEdit == pc = "idle" \/ EditsDuringCycle

\* The user creates, saves or deletes a note in the local folder.
EditLocal(f) ==
  /\ MayEdit
  /\ \E c \in File \ {local[f]} : local' = [local EXCEPT ![f] = c]
  /\ savedHere' = savedHere \cup {f}
  /\ UNCHANGED <<remote, row, agreed, savedThere, pc, scan, loop, asking>>

\* Another device creates, saves, touches or deletes a note on iCloud.
EditRemote(f) ==
  /\ MayEdit
  /\ \/ \E c \in Contents :
          remote' = [remote EXCEPT ![f] = [content |-> c, etag |-> NewEtag(f)]]
     \/ remote[f] # Missing /\ remote' = [remote EXCEPT ![f] = Missing]
  /\ savedThere' = savedThere \cup {f}
  /\ UNCHANGED <<local, row, agreed, savedHere, pc, scan, loop, asking>>

-----------------------------------------------------------------------------
(* Scans and guards *)

\* The daemon starts a cycle when it is not paused; scan_local reads the disk.
StartCycle ==
  /\ pc = "idle" /\ ~paused /\ pending = {}
  /\ seen' = local
  /\ pc' = "remoteScan"
  /\ UNCHANGED <<files, view, listed, fresh, loop, asking>>

\* The root listing was refreshed and every folder could be listed.
ScanFresh ==
  /\ pc = "remoteScan"
  /\ view' = remote /\ listed' = TRUE /\ fresh' = TRUE
  /\ pc' = "guards"
  /\ UNCHANGED <<files, seen, loop, asking>>

\* No refresh was due, or it failed or timed out: the cached tree is walked.
\* Folders listed again since then (after an upload, or not cached yet) show
\* their current state.  A root that was never listed reads as an empty one.
ScanCached ==
  /\ pc = "remoteScan" /\ "cachedScan" \in Faults
  /\ \E current \in SUBSET Files :
       view' = IF listed
               THEN [f \in Files |-> IF f \in current THEN remote[f] ELSE view[f]]
               ELSE view
  /\ fresh' = FALSE
  /\ pc' = "guards"
  /\ UNCHANGED <<files, seen, listed, loop, asking>>

\* A folder could not be listed: RemoteScanIncomplete aborts the cycle.  If
\* the root had been refreshed, later scans list the folders again.
ScanIncomplete ==
  /\ pc = "remoteScan" /\ "incompleteScan" \in Faults
  /\ \/ UNCHANGED <<view, listed>>
     \/ view' = remote /\ listed' = TRUE
  /\ pc' = "idle"
  /\ seen' = [f \in Files |-> Absent]
  /\ UNCHANGED <<files, fresh, loop, asking>>

\* Mutant: it is asked about files that are tracked, too.
OverlapOfAny == SeenLocally \cap SeenRemotely # {}

FirstRunOverlap == Tracked = {} /\ SeenLocally \cap SeenRemotely # {}

\* Fewer files than most of those tracked.
TooFew(G) ==
  /\ Tracked # {}
  /\ Cardinality(G) * FloorDen < Cardinality(Tracked) * FloorNum

TruncatedScan == TooFew(SeenRemotely)

\* The locals of the finished cycle go out of scope.
EndCycle ==
  /\ pc' = "idle"
  /\ seen' = [f \in Files |-> Absent]
  /\ fresh' = FALSE
  /\ todo' = {} /\ candidates' = {}
  /\ UNCHANGED <<view, listed>>

AskFirstRun ==
  /\ pc = "guards" /\ FirstRunOverlap
  /\ firstRun' = TRUE /\ paused' = TRUE
  /\ EndCycle
  /\ UNCHANGED <<files, pending>>

AbortTruncated ==
  /\ pc = "guards" /\ ~FirstRunOverlap /\ TruncatedScan
  /\ EndCycle
  /\ UNCHANGED <<files, asking>>

BeginFiles ==
  /\ pc = "guards" /\ ~FirstRunOverlap /\ ~TruncatedScan
  /\ todo' = SeenLocally \cup SeenRemotely
  /\ candidates' = {}
  /\ pc' = "files"
  /\ UNCHANGED <<files, scan, asking>>

-----------------------------------------------------------------------------
(* What the per-file loop compares *)

OnBoth(f)     == seen[f] # Absent /\ view[f].content # Absent
OnlyLocal(f)  == seen[f] # Absent /\ view[f].content = Absent
OnlyRemote(f) == seen[f] = Absent /\ view[f].content # Absent

\* Mutants: a comparison that never matches, a size check that always does.
LocalAlwaysChanged(f)  == TRUE
RemoteAlwaysChanged(f) == TRUE
AnySize(f)             == TRUE

LocalChanged(f)  == ~row[f].tracked \/ Head(seen[f]) # row[f].hash
RemoteChanged(f) == ~row[f].tracked \/ view[f].etag # row[f].etag
SameSize(f)      == SizeOf[view[f].content] = SizeOf[seen[f]]

Conflict(f) ==
  /\ OnBoth(f) /\ LocalChanged(f) /\ RemoteChanged(f)
  /\ ~(row[f].tracked /\ SameSize(f))

\* Mutant: the two sides of a one-sided strategy are mixed up, skip decides.
VerdictsSwapped ==
  CASE Strategy \in {"prefer-local", "keep-both", "skip"} -> {"download"}
    [] OTHER -> {"upload"}

\* conflict.resolve: who may win.  The two mtimes decide last-writer-wins.
Verdicts ==
  CASE Strategy \in {"prefer-local", "keep-both"} -> {"upload"}
    [] Strategy = "prefer-remote"                 -> {"download"}
    [] Strategy = "last-writer-wins"              -> {"upload", "download"}
    [] Strategy = "skip"                          -> {"skip"}

\* Mutant: _remote_wins records the local hash as synced, as _local_wins does.
ResolverRowKeepsHash(f, verdict) == Row(Head(seen[f]), view[f].etag)

\* The row _local_wins or _remote_wins writes before anything is transferred.
ResolverRow(f, verdict) ==
  Row(IF verdict = "upload" THEN Head(seen[f]) ELSE NoHash, view[f].etag)

-----------------------------------------------------------------------------
(* Transfers.  onFailure is the row a failed transfer leaves behind. *)

Visit(f) == pc = "files" /\ f \in todo

Visited(f) ==
  /\ todo' = todo \ {f}
  /\ UNCHANGED <<pc, seen, listed, fresh, asking>>

\* The history variables, after the engine brought the two sides of G together.
NoteAgreement(G) ==
  LET equal == {f \in G : local'[f] \in {remote'[f].content, view[f].content}}
      known == {f \in equal : \/ remote'[f] = Missing /\ local'[f] = Absent
                              \/ remote'[f] # Missing /\ row'[f].etag = remote'[f].etag}
  IN  /\ agreed' = [f \in Files |-> IF f \in equal THEN local'[f] ELSE agreed[f]]
      /\ savedHere' = savedHere \ equal
      /\ savedThere' = savedThere \ known

SetRow(f, r) == row' = [row EXCEPT ![f] = r]

\* _upload_file: trash the old remote copy, send the file, list the folder
\* again, and record what it shows.
UploadDone(f) ==
  /\ local[f] # Absent
  /\ LET new == [content |-> local[f], etag |-> NewEtag(f)] IN
       /\ remote' = [remote EXCEPT ![f] = new]
       /\ \/ /\ SetRow(f, Row(Head(local[f]), new.etag))
             /\ view' = [view EXCEPT ![f] = new]
          \/ /\ "uploadUnlisted" \in Faults   \* the new node did not show up
             /\ SetRow(f, Row(Head(local[f]), view[f].etag))
             /\ UNCHANGED view
  /\ UNCHANGED local
  /\ NoteAgreement({f})

\* The upload raised: before it changed anything, or after the old copy had
\* been trashed (also when the file has vanished from the disk meanwhile).  A
\* copy the walk did not show is trashed as well when _resolve_node has its
\* folder listed again, and else left alone.
UploadFailed(f, onFailure) ==
  /\ \/ /\ "uploadRefused" \in Faults
        /\ UNCHANGED remote
     \/ /\ "uploadLost" \in Faults \/ local[f] = Absent
        /\ \/ remote' = [remote EXCEPT ![f] = Missing]
           \/ view[f].content = Absent /\ UNCHANGED remote
  /\ SetRow(f, onFailure)
  /\ UNCHANGED <<local, view, past>>

Upload(f, onFailure) ==
  /\ UploadDone(f) \/ UploadFailed(f, onFailure)
  /\ UNCHANGED candidates
  /\ Visited(f)

\* _download_file replaces the local copy in one move; the row keeps the
\* stamp of the scan.
DownloadDone(f) ==
  /\ remote[f] # Missing
  /\ local' = [local EXCEPT ![f] = remote[f].content]
  /\ SetRow(f, Row(Head(remote[f].content), view[f].etag))
  /\ UNCHANGED remote
  /\ NoteAgreement({f})

DownloadFailed(f, onFailure) ==
  /\ remote[f] = Missing \/ "downloadFails" \in Faults
  /\ SetRow(f, onFailure)
  /\ UNCHANGED <<local, remote, past>>

Download(f, onFailure) ==
  /\ DownloadDone(f) \/ DownloadFailed(f, onFailure)
  /\ UNCHANGED <<view, candidates>>
  /\ Visited(f)

-----------------------------------------------------------------------------
(* The branches of the per-file loop *)

SkipUnchanged(f) ==
  /\ Visit(f) /\ OnBoth(f) /\ ~LocalChanged(f) /\ ~RemoteChanged(f)
  /\ UNCHANGED <<files, view, candidates>>
  /\ Visited(f)

\* Equal sizes are taken for equal contents: the row is brought up to date and
\* nothing is transferred.  An untracked pair gets here when iCloud wins.
RecordSameSize(f) ==
  /\ Visit(f) /\ OnBoth(f) /\ SameSize(f)
  /\ \/ row[f].tracked /\ (LocalChanged(f) \/ RemoteChanged(f))
     \/ Conflict(f) /\ "download" \in Verdicts
  /\ SetRow(f, Row(Head(local[f]), view[f].etag))
  /\ UNCHANGED <<local, remote, view, candidates>>
  /\ NoteAgreement({f})
  /\ Visited(f)

ConflictUpload(f) ==
  /\ Visit(f) /\ Conflict(f) /\ "upload" \in Verdicts
  /\ Upload(f, ResolverRow(f, "upload"))

ConflictDownload(f) ==
  /\ Visit(f) /\ Conflict(f) /\ "download" \in Verdicts /\ ~SameSize(f)
  /\ Download(f, ResolverRow(f, "download"))

ConflictSkip(f) ==
  /\ Visit(f) /\ Conflict(f) /\ "skip" \in Verdicts
  /\ UNCHANGED <<files, view, candidates>>
  /\ Visited(f)

UploadChange(f) ==
  /\ Visit(f) /\ OnBoth(f) /\ LocalChanged(f) /\ ~RemoteChanged(f) /\ ~SameSize(f)
  /\ Upload(f, row[f])

DownloadChange(f) ==
  /\ Visit(f) /\ OnBoth(f) /\ RemoteChanged(f) /\ ~LocalChanged(f) /\ ~SameSize(f)
  /\ Download(f, row[f])

UploadNew(f) ==
  /\ Visit(f) /\ OnlyLocal(f) /\ ~row[f].tracked
  /\ Upload(f, row[f])

DownloadNew(f) ==
  /\ Visit(f) /\ OnlyRemote(f) /\ ~row[f].tracked
  /\ Download(f, row[f])

\* Mutant: stale remote data is good enough.
MayDeleteStale == SyncDeletes

MayDelete == fresh /\ SyncDeletes

ProposeRemoval(f) ==
  /\ Visit(f) /\ OnlyLocal(f) /\ row[f].tracked /\ MayDelete
  /\ candidates' = candidates \cup {f}
  /\ UNCHANGED <<files, view>>
  /\ Visited(f)

\* The user deleted f here: the iCloud copy is deleted and f forgotten.
RemoveRemote(f) ==
  /\ Visit(f) /\ OnlyRemote(f) /\ row[f].tracked /\ MayDelete
  /\ UNCHANGED <<local, view, candidates>>
  /\ \/ /\ remote' = [remote EXCEPT ![f] = Missing]
        /\ SetRow(f, Untracked)
        /\ NoteAgreement({f})
     \/ /\ "trashFails" \in Faults \/ remote[f] = Missing
        /\ UNCHANGED <<remote, row, past>>
  /\ Visited(f)

LeaveMissing(f) ==
  /\ Visit(f) /\ ~OnBoth(f) /\ row[f].tracked /\ ~MayDelete
  /\ UNCHANGED <<files, view, candidates>>
  /\ Visited(f)

HandleFile(f) ==
  \/ SkipUnchanged(f) \/ RecordSameSize(f)
  \/ ConflictUpload(f) \/ ConflictDownload(f) \/ ConflictSkip(f)
  \/ UploadChange(f) \/ DownloadChange(f) \/ UploadNew(f) \/ DownloadNew(f)
  \/ ProposeRemoval(f) \/ RemoveRemote(f) \/ LeaveMissing(f)

-----------------------------------------------------------------------------
(* The end of a cycle *)

\* Mutant: off by one.
BulkOffByOne == Cardinality(candidates) > DeletionThreshold + 1

Bulk == Cardinality(candidates) > DeletionThreshold

\* Too many to be believed: keep the question, pause, change nothing.
ParkDeletions ==
  /\ pc = "files" /\ todo = {} /\ Bulk
  /\ pending' = candidates /\ paused' = TRUE
  /\ EndCycle
  /\ UNCHANGED <<files, firstRun>>

BeginRemovals ==
  /\ pc = "files" /\ todo = {} /\ ~Bulk
  /\ pc' = "remove"
  /\ UNCHANGED <<files, scan, loop, asking>>

RemoveLocal(f) ==
  /\ pc = "remove" /\ f \in candidates
  /\ candidates' = candidates \ {f}
  /\ UNCHANGED <<remote, pc, scan, todo, asking>>
  /\ \/ /\ local' = [local EXCEPT ![f] = Absent]
        /\ SetRow(f, Untracked)
        /\ NoteAgreement({f})
     \/ "removeFails" \in Faults /\ UNCHANGED <<local, row, past>>

\* Mutant: only the local scan is consulted.
OrphansLocally == IF MayDelete THEN Tracked \ SeenLocally ELSE {}

\* _purge_orphaned_states: the tracked paths that neither scan saw.
Orphans == IF MayDelete THEN Tracked \ (SeenLocally \cup SeenRemotely) ELSE {}

FinishCycle ==
  /\ pc = "remove" /\ candidates = {}
  /\ row' = [f \in Files |-> IF f \in Orphans THEN Untracked ELSE row[f]]
  /\ UNCHANGED <<local, remote>>
  /\ NoteAgreement(Orphans)
  /\ EndCycle
  /\ UNCHANGED asking

\* shutdown() is noticed between two files: the rest is left for the next run.
AbandonCycle ==
  /\ pc = "files" /\ todo # {} /\ "shutdown" \in Faults
  /\ EndCycle
  /\ UNCHANGED <<files, asking>>

-----------------------------------------------------------------------------

CycleStep ==
  \/ StartCycle \/ ScanFresh \/ ScanCached \/ ScanIncomplete
  \/ AskFirstRun \/ AbortTruncated \/ BeginFiles
  \/ \E f \in Files : HandleFile(f)
  \/ ParkDeletions \/ BeginRemovals
  \/ \E f \in Files : RemoveLocal(f)
  \/ FinishCycle \/ AbandonCycle

EnvironmentStep == \E f \in Files : EditLocal(f) \/ EditRemote(f)

Next == CycleStep \/ EnvironmentStep

Spec == Init /\ [][Next]_vars

-----------------------------------------------------------------------------
(* Properties *)

\* Every step of the engine moves the cycle on; the environment's never do.
EngineActs == <<pc, todo, candidates>>' # <<pc, todo, candidates>>

LooksInSync(f) ==
  /\ local[f] # Absent /\ remote[f] # Missing /\ row[f].tracked
  /\ row[f].hash = Head(local[f]) /\ row[f].etag = remote[f].etag

\* When the next comparison would find that neither side of a tracked file
\* changed (sync_engine.py:849-861), both sides hold the same content: no pair
\* of files is left different and silently skipped for ever.
InSyncMeansEqual ==
  \A f \in Files : LooksInSync(f) => local[f] = remote[f].content

\* The engine replaces or removes a local file that carries an unsynced edit
\* only when the other side was changed too: a one-sided local edit is never
\* lost to a download or to a propagated deletion.
LocalEditsSurvive ==
  [][\A f \in Files :
       EngineActs /\ local'[f] # local[f] =>
         local[f] = agreed[f] \/ f \in savedThere]_vars

\* The same for the iCloud side, in a cycle whose remote listing is fresh: an
\* edit made on another device is overwritten or deleted only when this
\* computer changed the file too.
RemoteEditsSurvive ==
  [][\A f \in Files :
       EngineActs /\ fresh /\ remote'[f] # remote[f] =>
         remote[f].content = agreed[f] \/ f \in savedHere]_vars

\* The cycle implements TwoCopies: whatever it compares, records, retries or
\* gives up, all it ever does to the two sides is to copy a file, or its
\* absence, from the side where it was saved; and it forgets that a file was
\* saved only when the other side holds the same.
Promise == INSTANCE TwoCopies WITH
             here <- local, there <- [f \in Files |-> remote[f].content]
OnlyCopies == Promise!Spec

\* In a real conflict the configured strategy decides who wins, across failed
\* transfers and later cycles: prefer-remote never overwrites the iCloud
\* version, prefer-local and keep-both never the local one, skip neither.
StrategyDecides ==
  [][\A f \in Files :
       /\ EngineActs /\ fresh
       /\ local[f] \notin {agreed[f], Absent}
       /\ remote[f].content \notin {agreed[f], Absent, local[f]}
       =>
       /\ Strategy \in {"prefer-remote", "skip"} => remote'[f] = remote[f]
       /\ Strategy \in {"prefer-local", "keep-both", "skip"} => local'[f] = local[f]]_vars

\* A tracked file is forgotten only in a step after which it exists on neither
\* side: deleting a row while a copy remains would make that copy look new and
\* bring a deleted file back, or delete a live one.
ForgottenOnlyWhenGone ==
  [][\A f \in Files :
       row[f].tracked /\ ~row'[f].tracked =>
         local'[f] = Absent /\ remote'[f] = Missing]_vars

\* A cycle that works from cached remote data takes no file off either side and
\* forgets none (README "Stale data").  The exception is an upload that fails
\* after it has trashed the copy it was to replace: the file stays here.
StaleCycleRemovesNothing ==
  [][EngineActs /\ ~fresh =>
       \A f \in Files :
         /\ local[f] # Absent => local'[f] # Absent
         /\ remote[f] # Missing => \/ remote'[f] # Missing
                                   \/ "uploadLost" \in Faults /\ local'[f] # Absent
         /\ row[f].tracked => row'[f].tracked]_vars

\* The local files a cycle found and that are gone now.
Lost == {f \in Files : seen[f] # Absent /\ local[f] = Absent}

\* One cycle removes at most DeletionThreshold of the local files it found,
\* whatever the listings showed; more is only ever asked about.
BoundedSilentLoss ==
  pc \in {"files", "remove"} => Cardinality(Lost) <= DeletionThreshold

-----------------------------------------------------------------------------
(* What the documentation says and the code does not do (see the README)    *)

\* "A folder listing that fails aborts the cycle. It is never read as an empty
\* folder" (CHANGELOG.md:78-79): no file is handled before the remote root has
\* been listed once.
FailedListingIsNotEmpty == pc = "files" => listed

GoneRemotely == {f \in Tracked : seen[f] # Absent /\ view[f].content = Absent}

\* "If more than 3 tracked files disappear from iCloud in one cycle, obsisync
\* pauses and asks you first" (README.md:124-125): a cycle that saw this on
\* fresh data, and was not shut down, ends with the question asked.
BulkLossIsAsked ==
  [][pc = "guards" /\ pc' = "idle" /\ fresh
       /\ Cardinality(GoneRemotely) > DeletionThreshold
     => paused' /\ pending' # {}]_vars

\* "A change that arrives while a sync is already running waits for it to finish
\* rather than being lost" (README.md:113-114): the cycle leaves alone a file
\* that was written after it was scanned.
MidCycleEditIsKept ==
  [][\A f \in Files :
       EngineActs /\ pc = "files" /\ f \in todo /\ local[f] \notin {seen[f], Absent}
         => local'[f] = local[f]]_vars

-----------------------------------------------------------------------------
(* Why InSyncMeansEqual holds: three facts that every step preserves while   *)
(* nobody edits during a cycle                                               *)

RowFits(f) ==
  row[f].tracked /\ remote[f] # Missing /\ row[f].etag = remote[f].etag
    => row[f].hash \in {NoHash, Head(remote[f].content)}

\* A row that carries the stamp of the present iCloud version carries its hash,
\* or the empty hash of a download that was decided and is still due.
RowsDescribeRemote == \A f \in Files : RowFits(f)

ViewFits(f) ==
  remote[f] # Missing /\ view[f].etag = remote[f].etag => view[f] = remote[f]

\* A stamp identifies a version: what the cache remembers of it is right.
ViewDescribesRemote == \A f \in Files : ViewFits(f)

\* Until a file is handled, it is on disk as it was scanned.
SeenIsCurrent ==
  \A f \in Files :
    \/ pc \in {"remoteScan", "guards"}
    \/ pc = "files" /\ f \in todo
    => seen[f] = local[f]

\* The inductive invariant: with its three parts a comparison can be trusted.
ComparisonsAreSound ==
  TypeOK /\ RowsDescribeRemote /\ ViewDescribesRemote /\ SeenIsCurrent

-----------------------------------------------------------------------------
(* Why ForgottenOnlyWhenGone holds: what the scans still prove, at the three *)
(* places that drop a row, while nobody edits during a cycle                 *)

\* remote_fresh is set by a scan and cleared with the cycle.
FreshOnlyInCycle == pc \in {"idle", "remoteScan"} => ~fresh

\* The fresh listing is still right for the paths not handled yet.
ListingHolds ==
  /\ fresh /\ pc = "guards" => view = remote
  /\ fresh /\ pc = "files" => \A f \in todo : view[f] = remote[f]

\* Only paths that were seen are visited.
VisitsWhatWasSeen ==
  pc = "files" => \A f \in todo : seen[f] # Absent \/ view[f].content # Absent

\* A file proposed for removal is gone from iCloud, and will not be visited.
CandidatesAreGone ==
  pc \in {"files", "remove"} =>
    \A f \in candidates : f \notin todo /\ seen[f] # Absent /\ remote[f] = Missing

\* What a fresh cycle saw on neither side is on neither side.
UnseenIsGone ==
  fresh /\ pc \in {"guards", "files", "remove"} =>
    \A f \in Files : seen[f] = Absent /\ view[f].content = Absent
                       => local[f] = Absent /\ remote[f] = Missing

\* The inductive invariant: what the scans of a cycle still prove later in it.
ScansStillProve ==
  /\ TypeOK /\ SeenIsCurrent
  /\ FreshOnlyInCycle /\ ListingHolds /\ VisitsWhatWasSeen
  /\ CandidatesAreGone /\ UnseenIsGone

=============================================================================
