-------------------------- MODULE SyncCycleProofs --------------------------
(***************************************************************************)
(* What holds of SyncCycle for every set of files, of contents and of      *)
(* stamps and every setting: its type invariant; what the scans of a cycle *)
(* still prove when it comes to forget a file or to remove one; and what   *)
(* the comparisons make of the edits on both sides: what looks in sync is  *)
(* in sync, and an edit is only given up for an edit of the other side.    *)
(*                                                                         *)
(* And of FirstRun and SyncConvergence, whose actions leave those of a     *)
(* cycle as they are: all this stays true when the database is filled by a *)
(* first-run answer or by the bootstrap, for every answer; the rows these  *)
(* write are as sound as those of a cycle, and no cycle runs beside them.  *)
(***************************************************************************)
EXTENDS SyncConvergence, FiniteSetTheorems, TLAPS

-----------------------------------------------------------------------------
(* Lemmas on the data *)

\* The rows the engine writes are rows.
LEMMA RowTypes ==
  ASSUME NEW h \in Hashes \cup {NoHash}, NEW e \in Etags \cup {NoEtag}
  PROVE  Row(h, e) \in Rows
BY DEF Row, Rows

\* Every content, and its absence, has a hash column.
LEMMA HeadType ==
  ASSUME NEW c \in File
  PROVE  Head(c) \in Hashes \cup {NoHash}
BY ConstantsAssumption DEF Head, File

\* The fields of a version, and that exactly the missing one has no content.
LEMMA VersionFields ==
  ASSUME NEW v \in Version
  PROVE  /\ v.content \in File
         /\ v.etag \in Etags \cup {NoEtag}
         /\ v # Missing => v.content \in Contents /\ v.etag \in Etags
         /\ v.content = Absent <=> v = Missing
BY ConstantsAssumption DEF Version, Missing, File

\* The fields of a row.
LEMMA RowFields ==
  ASSUME NEW r \in Rows
  PROVE  /\ r.tracked \in BOOLEAN
         /\ r.hash \in Hashes \cup {NoHash}
         /\ r.etag \in Etags \cup {NoEtag}
         /\ ~r.tracked => r = Untracked
<1>1. CASE r = Untracked
  BY <1>1 DEF Untracked
<1>2. CASE r \in [tracked : {TRUE}, hash : Hashes \cup {NoHash}, etag : Etags \cup {NoEtag}]
  <2>1. r.tracked = TRUE
    BY <1>2
  <2>2. r.hash \in Hashes \cup {NoHash} /\ r.etag \in Etags \cup {NoEtag}
    BY <1>2
  <2> QED
    BY <2>1, <2>2
<1> QED
  BY <1>1, <1>2 DEF Rows

\* A new stamp is neither the one recorded nor the one last listed.
LEMMA NewEtagIsNew ==
  ASSUME TypeOK, NEW f \in Files
  PROVE  NewEtag(f) \in Etags /\ NewEtag(f) # row[f].etag /\ NewEtag(f) # view[f].etag
<1>1. row[f].etag \in Etags \cup {NoEtag}
  BY RowFields DEF TypeOK
<1>2. view[f].etag \in Etags \cup {NoEtag}
  BY VersionFields DEF TypeOK
<1>3. \E e \in Etags : e # row[f].etag /\ e # view[f].etag
  BY <1>1, <1>2, EtagSupply
<1> QED
  BY <1>3 DEF NewEtag

\* Only the row at f changes.
LEMMA SetRowAtOne ==
  ASSUME TypeOK, NEW f \in Files, NEW r, SetRow(f, r)
  PROVE  row'[f] = r /\ \A g \in Files \ {f} : row'[g] = row[g]
BY DEF TypeOK, SetRow

\* The history variables keep their types.
LEMMA NoteAgreementTypes ==
  ASSUME TypeOK, NEW G \in SUBSET Files, local' \in [Files -> File], NoteAgreement(G)
  PROVE  agreed' \in [Files -> File] /\ savedHere' \subseteq Files /\ savedThere' \subseteq Files
BY DEF TypeOK, NoteAgreement

-----------------------------------------------------------------------------
(* The type invariant *)

\* The initial state is well typed.
LEMMA InitTypes == Init => TypeOK
BY DEF Init, TypeOK, File, Version, Missing, Rows, Untracked

\* Edits on either side keep the types.
LEMMA EditTypes ==
  ASSUME TypeOK, NEW f \in Files, EditLocal(f) \/ EditRemote(f)
  PROVE  TypeOK'
<1>1. CASE EditLocal(f)
  BY <1>1 DEF EditLocal, TypeOK, File, scan, loop, asking
<1>2. CASE EditRemote(f)
  <2>1. remote' \in [Files -> Version]
    BY <1>2, NewEtagIsNew DEF EditRemote, TypeOK, Version
  <2> QED
    BY <1>2, <2>1 DEF EditRemote, TypeOK, File, scan, loop, asking
<1> QED
  BY <1>1, <1>2

\* So does ending a cycle.
LEMMA EndCycleTypes ==
  ASSUME TypeOK, EndCycle
  PROVE  /\ pc' = "idle" /\ seen' \in [Files -> File] /\ view' \in [Files -> Version]
         /\ listed' \in BOOLEAN /\ fresh' \in BOOLEAN
         /\ todo' \subseteq Files /\ candidates' \subseteq Files
BY DEF TypeOK, EndCycle, File

\* The scans and the guards keep the types.
LEMMA ScanTypes ==
  ASSUME TypeOK,
         \/ StartCycle \/ ScanFresh \/ ScanCached \/ ScanIncomplete
         \/ AskFirstRun \/ AbortTruncated \/ BeginFiles
  PROVE  TypeOK'
<1>1. CASE StartCycle
  BY <1>1 DEF StartCycle, TypeOK, files, past, loop, asking
<1>2. CASE ScanFresh
  BY <1>2 DEF ScanFresh, TypeOK, files, past, loop, asking
<1>3. CASE ScanCached
  <2>1. view' \in [Files -> Version]
    BY <1>3 DEF ScanCached, TypeOK
  <2> QED
    BY <1>3, <2>1 DEF ScanCached, TypeOK, files, past, loop, asking
<1>4. CASE ScanIncomplete
  BY <1>4 DEF ScanIncomplete, TypeOK, File, files, past, loop, asking
<1>5. CASE AskFirstRun
  BY <1>5, EndCycleTypes DEF AskFirstRun, TypeOK, files, past
<1>6. CASE AbortTruncated
  BY <1>6, EndCycleTypes DEF AbortTruncated, TypeOK, files, past, asking
<1>7. CASE BeginFiles
  BY <1>7 DEF BeginFiles, TypeOK, SeenLocally, SeenRemotely, files, past, scan, asking
<1> QED
  BY <1>1, <1>2, <1>3, <1>4, <1>5, <1>6, <1>7

\* Uploads keep the types.
LEMMA UploadTypes ==
  ASSUME TypeOK, NEW f \in Files, NEW r \in Rows, pc = "files", Upload(f, r)
  PROVE  TypeOK'
<1>1. /\ pc' = pc /\ seen' = seen /\ listed' = listed /\ fresh' = fresh
      /\ pending' = pending /\ paused' = paused /\ firstRun' = firstRun
      /\ candidates' = candidates /\ todo' = todo \ {f} /\ local' = local
  BY DEF Upload, Visited, asking, UploadDone, UploadFailed
<1>2. CASE UploadDone(f)
  <2> DEFINE new == [content |-> local[f], etag |-> NewEtag(f)]
  <2>1. new \in Version /\ new.etag \in Etags \cup {NoEtag}
    BY <1>2, NewEtagIsNew DEF UploadDone, TypeOK, File, Version
  <2>2. remote' \in [Files -> Version] /\ view' \in [Files -> Version]
    BY <1>2, <2>1 DEF UploadDone, TypeOK
  <2>3. Head(local[f]) \in Hashes \cup {NoHash} /\ view[f].etag \in Etags \cup {NoEtag}
    BY HeadType, VersionFields DEF TypeOK
  <2>4. row' = [row EXCEPT ![f] = Row(Head(local[f]), new.etag)] \/
        row' = [row EXCEPT ![f] = Row(Head(local[f]), view[f].etag)]
    BY <1>2 DEF UploadDone, SetRow
  <2>5. row' \in [Files -> Rows]
    <3>1. Row(Head(local[f]), new.etag) \in Rows /\ Row(Head(local[f]), view[f].etag) \in Rows
      BY <2>1, <2>3, RowTypes
    <3> QED
      BY <2>4, <3>1 DEF TypeOK
  <2>6. NoteAgreement({f})
    BY <1>2 DEF UploadDone
  <2>7. agreed' \in [Files -> File] /\ savedHere' \subseteq Files /\ savedThere' \subseteq Files
    BY <1>1, <2>6, NoteAgreementTypes DEF TypeOK
  <2> QED
    BY <1>1, <2>2, <2>5, <2>7 DEF TypeOK
<1>3. CASE UploadFailed(f, r)
  <2>1. remote' \in [Files -> Version]
    BY <1>3 DEF UploadFailed, TypeOK, Version
  <2> QED
    BY <1>1, <1>3, <2>1 DEF UploadFailed, TypeOK, SetRow, past
<1> QED
  BY <1>2, <1>3 DEF Upload

\* Downloads keep the types.
LEMMA DownloadTypes ==
  ASSUME TypeOK, NEW f \in Files, NEW r \in Rows, pc = "files", Download(f, r)
  PROVE  TypeOK'
<1>1. /\ pc' = pc /\ seen' = seen /\ listed' = listed /\ fresh' = fresh
      /\ pending' = pending /\ paused' = paused /\ firstRun' = firstRun
      /\ candidates' = candidates /\ todo' = todo \ {f}
      /\ remote' = remote /\ view' = view
  BY DEF Download, Visited, asking, DownloadDone, DownloadFailed
<1>2. CASE DownloadDone(f)
  <2>1. local' \in [Files -> File]
    BY <1>2, VersionFields DEF DownloadDone, TypeOK
  <2>2. Head(remote[f].content) \in Hashes \cup {NoHash} /\ view[f].etag \in Etags \cup {NoEtag}
    BY HeadType, VersionFields DEF TypeOK
  <2>3. row' \in [Files -> Rows]
    BY <1>2, <2>2, RowTypes DEF DownloadDone, TypeOK, SetRow
  <2>4. NoteAgreement({f})
    BY <1>2 DEF DownloadDone
  <2>5. agreed' \in [Files -> File] /\ savedHere' \subseteq Files /\ savedThere' \subseteq Files
    BY <2>1, <2>4, NoteAgreementTypes
  <2> QED
    BY <1>1, <2>1, <2>3, <2>5 DEF TypeOK
<1>3. CASE DownloadFailed(f, r)
  BY <1>1, <1>3 DEF DownloadFailed, TypeOK, SetRow, past
<1> QED
  BY <1>2, <1>3 DEF Download

\* The row the resolver writes is a row.
LEMMA ResolverRowTypes ==
  ASSUME TypeOK, NEW f \in Files, NEW verdict
  PROVE  ResolverRow(f, verdict) \in Rows
<1>1. Head(seen[f]) \in Hashes \cup {NoHash} /\ view[f].etag \in Etags \cup {NoEtag}
  BY HeadType, VersionFields DEF TypeOK
<1> QED
  BY <1>1, RowTypes DEF ResolverRow

\* Every branch of the per-file loop keeps the types.
LEMMA HandleFileTypes ==
  ASSUME TypeOK, NEW f \in Files, HandleFile(f)
  PROVE  TypeOK'
<1>1. row[f] \in Rows /\ ResolverRow(f, "upload") \in Rows /\ ResolverRow(f, "download") \in Rows
  BY ResolverRowTypes DEF TypeOK
<1>2. CASE SkipUnchanged(f) \/ ConflictSkip(f) \/ LeaveMissing(f) \/ ProposeRemoval(f)
  BY <1>2 DEF SkipUnchanged, ConflictSkip, LeaveMissing, ProposeRemoval, Visited,
              TypeOK, files, past, asking
<1>3. CASE RecordSameSize(f)
  <2>1. Head(local[f]) \in Hashes \cup {NoHash} /\ view[f].etag \in Etags \cup {NoEtag}
    BY HeadType, VersionFields DEF TypeOK
  <2>2. row' \in [Files -> Rows]
    BY <1>3, <2>1, RowTypes DEF RecordSameSize, TypeOK, SetRow
  <2>3. agreed' \in [Files -> File] /\ savedHere' \subseteq Files /\ savedThere' \subseteq Files
    BY <1>3, NoteAgreementTypes DEF RecordSameSize, TypeOK
  <2> QED
    BY <1>3, <2>2, <2>3 DEF RecordSameSize, Visited, TypeOK, asking
<1>4. CASE ConflictUpload(f) \/ UploadChange(f) \/ UploadNew(f)
  BY <1>1, <1>4, UploadTypes DEF ConflictUpload, UploadChange, UploadNew, Visit
<1>5. CASE ConflictDownload(f) \/ DownloadChange(f) \/ DownloadNew(f)
  BY <1>1, <1>5, DownloadTypes DEF ConflictDownload, DownloadChange, DownloadNew, Visit
<1>6. CASE RemoveRemote(f)
  <2>1. remote' \in [Files -> Version] /\ row' \in [Files -> Rows] /\ local' = local
    BY <1>6 DEF RemoveRemote, TypeOK, SetRow, Version, Rows
  <2>2. agreed' \in [Files -> File] /\ savedHere' \subseteq Files /\ savedThere' \subseteq Files
    BY <1>6, <2>1, NoteAgreementTypes DEF RemoveRemote, TypeOK, past
  <2> QED
    BY <1>6, <2>1, <2>2 DEF RemoveRemote, Visited, TypeOK, asking
<1> QED
  BY <1>2, <1>3, <1>4, <1>5, <1>6 DEF HandleFile

\* The end of a cycle keeps the types.
LEMMA EndTypes ==
  ASSUME TypeOK,
         \/ ParkDeletions \/ BeginRemovals \/ \E f \in Files : RemoveLocal(f)
         \/ FinishCycle \/ AbandonCycle
  PROVE  TypeOK'
<1>1. CASE ParkDeletions
  BY <1>1, EndCycleTypes DEF ParkDeletions, TypeOK, files, past
<1>2. CASE BeginRemovals
  BY <1>2 DEF BeginRemovals, TypeOK, files, past, scan, loop, asking
<1>3. ASSUME NEW f \in Files, RemoveLocal(f) PROVE TypeOK'
  <2>1. local' \in [Files -> File] /\ row' \in [Files -> Rows]
    BY <1>3 DEF RemoveLocal, TypeOK, SetRow, File, Rows
  <2>2. agreed' \in [Files -> File] /\ savedHere' \subseteq Files /\ savedThere' \subseteq Files
    BY <1>3, <2>1, NoteAgreementTypes DEF RemoveLocal, TypeOK, past
  <2> QED
    BY <1>3, <2>1, <2>2 DEF RemoveLocal, TypeOK, scan, asking
<1>4. CASE FinishCycle
  <2>1. Orphans \in SUBSET Files
    BY DEF Orphans, Tracked
  <2>2. row' \in [Files -> Rows] /\ local' = local
    BY <1>4 DEF FinishCycle, TypeOK, Rows
  <2>3. agreed' \in [Files -> File] /\ savedHere' \subseteq Files /\ savedThere' \subseteq Files
    BY <1>4, <2>1, <2>2, NoteAgreementTypes DEF FinishCycle, TypeOK
  <2> QED
    BY <1>4, <2>2, <2>3, EndCycleTypes DEF FinishCycle, TypeOK, asking
<1>5. CASE AbandonCycle
  BY <1>5, EndCycleTypes DEF AbandonCycle, TypeOK, files, past, asking
<1> QED
  BY <1>1, <1>2, <1>3, <1>4, <1>5

\* Every step keeps the types.
LEMMA StepTypes == TypeOK /\ [Next]_vars => TypeOK'
<1> SUFFICES ASSUME TypeOK, [Next]_vars PROVE TypeOK'
  OBVIOUS
<1>1. CASE CycleStep
  BY <1>1, ScanTypes, HandleFileTypes, EndTypes DEF CycleStep
<1>2. CASE EnvironmentStep
  BY <1>2, EditTypes DEF EnvironmentStep
<1>3. CASE UNCHANGED vars
  BY <1>3 DEF TypeOK, vars, files, past, scan, loop, asking
<1> QED
  BY <1>1, <1>2, <1>3 DEF Next

\* Every variable keeps to its type in every behaviour of the engine and its
\* environment: rows, versions and stamps never land in each other's place.
THEOREM TypesAreKept == Spec => []TypeOK
BY InitTypes, StepTypes, PTL DEF Spec

-----------------------------------------------------------------------------
(* A file is forgotten only when it is gone, if nobody edits while a cycle *)
(* runs.                                                                   *)
(*                                                                         *)
(* A row is dropped in three places: after the iCloud copy was deleted,    *)
(* after the local copy was deleted, and by the purge at the end of a      *)
(* cycle.  In each the engine relies on what it read earlier, so the       *)
(* invariant ScansStillProve says what the scans still prove by then.      *)

\* The invariant without its type part.
StillProved ==
  SeenIsCurrent /\ FreshOnlyInCycle /\ ListingHolds /\ VisitsWhatWasSeen
    /\ CandidatesAreGone /\ UnseenIsGone

-----------------------------------------------------------------------------
(* Preservation of the invariant *)

\* Nothing has been scanned initially.
LEMMA InitProves == Init => StillProved
BY DEF Init, StillProved, SeenIsCurrent, FreshOnlyInCycle, ListingHolds, VisitsWhatWasSeen,
       CandidatesAreGone, UnseenIsGone

\* Edits happen between cycles, when nothing is claimed.
LEMMA EditProves ==
  ASSUME ~EditsDuringCycle, ScansStillProve, NEW f \in Files, EditLocal(f) \/ EditRemote(f)
  PROVE  StillProved'
<1>1. pc' = "idle" /\ pc = "idle" /\ fresh' = fresh
  BY DEF EditLocal, EditRemote, MayEdit, scan
<1> QED
  BY <1>1 DEF ScansStillProve, StillProved, SeenIsCurrent, FreshOnlyInCycle, ListingHolds,
              VisitsWhatWasSeen, CandidatesAreGone, UnseenIsGone

\* A step that ends the cycle withdraws every claim.
LEMMA EndCycleProves ==
  ASSUME EndCycle
  PROVE  StillProved'
BY DEF EndCycle, StillProved, SeenIsCurrent, FreshOnlyInCycle, ListingHolds,
       VisitsWhatWasSeen, CandidatesAreGone, UnseenIsGone

\* Scans establish the claims: the local one by reading the disk, the remote
\* one, if it is fresh, by listing the vault.
LEMMA ScanProves ==
  ASSUME ScansStillProve,
         \/ StartCycle \/ ScanFresh \/ ScanCached \/ ScanIncomplete
         \/ AskFirstRun \/ AbortTruncated \/ BeginFiles
  PROVE  StillProved'
<1>1. CASE StartCycle
  BY <1>1 DEF StartCycle, files, ScansStillProve, StillProved, SeenIsCurrent, FreshOnlyInCycle,
              ListingHolds, VisitsWhatWasSeen, CandidatesAreGone, UnseenIsGone
<1>2. CASE ScanFresh
  <2>1. /\ pc' = "guards" /\ view' = remote /\ remote' = remote
        /\ local' = local /\ seen' = seen /\ seen = local
    BY <1>2 DEF ScanFresh, files, ScansStillProve, SeenIsCurrent, TypeOK
  <2>2. UnseenIsGone'
    BY <2>1, VersionFields DEF UnseenIsGone, ScansStillProve, TypeOK
  <2> QED
    BY <2>1, <2>2 DEF StillProved, SeenIsCurrent, FreshOnlyInCycle, ListingHolds,
                      VisitsWhatWasSeen, CandidatesAreGone
<1>3. CASE ScanCached
  <2>1. pc' = "guards" /\ ~fresh' /\ pc = "remoteScan" /\ local' = local /\ seen' = seen
    BY <1>3 DEF ScanCached, files
  <2> QED
    BY <2>1 DEF ScansStillProve, StillProved, SeenIsCurrent, FreshOnlyInCycle, ListingHolds,
                VisitsWhatWasSeen, CandidatesAreGone, UnseenIsGone
<1>4. CASE ScanIncomplete
  <2>1. pc' = "idle" /\ pc = "remoteScan" /\ fresh' = fresh
    BY <1>4 DEF ScanIncomplete
  <2> QED
    BY <2>1 DEF ScansStillProve, StillProved, SeenIsCurrent, FreshOnlyInCycle, ListingHolds,
                VisitsWhatWasSeen, CandidatesAreGone, UnseenIsGone
<1>5. CASE AskFirstRun \/ AbortTruncated
  BY <1>5, EndCycleProves DEF AskFirstRun, AbortTruncated
<1>6. CASE BeginFiles
  <2>1. /\ pc' = "files" /\ pc = "guards" /\ candidates' = {} /\ fresh' = fresh
        /\ seen' = seen /\ view' = view /\ local' = local /\ remote' = remote
        /\ todo' \subseteq Files
        /\ \A f \in todo' : seen[f] # Absent \/ view[f].content # Absent
    BY <1>6 DEF BeginFiles, files, scan, SeenLocally, SeenRemotely
  <2> QED
    BY <2>1 DEF ScansStillProve, StillProved, SeenIsCurrent, FreshOnlyInCycle, ListingHolds,
                VisitsWhatWasSeen, CandidatesAreGone, UnseenIsGone
<1> QED
  BY <1>1, <1>2, <1>3, <1>4, <1>5, <1>6

\* A branch of the loop that visits f leaves the claims about other paths
\* alone; of f it must keep that it was seen, and propose it only when gone.
LEMMA VisitProves ==
  ASSUME ScansStillProve, NEW f \in Files, Visit(f), Visited(f),
         \A g \in Files \ {f} : /\ remote'[g] = remote[g] /\ view'[g] = view[g]
                                /\ local'[g] = local[g],
         view[f].content # Absent => view'[f].content # Absent,
         candidates' = candidates \/
           (candidates' = candidates \cup {f} /\ seen[f] # Absent /\ remote'[f] = Missing)
  PROVE  StillProved'
<1>1. /\ pc = "files" /\ pc' = "files" /\ f \in todo /\ todo' = todo \ {f}
      /\ seen' = seen /\ fresh' = fresh
  BY DEF Visit, Visited
<1>2. todo \subseteq Files /\ candidates \subseteq Files /\ f \notin candidates
  BY <1>1 DEF ScansStillProve, TypeOK, CandidatesAreGone
<1>3. SeenIsCurrent' /\ FreshOnlyInCycle' /\ ListingHolds' /\ VisitsWhatWasSeen'
  BY <1>1, <1>2 DEF ScansStillProve, SeenIsCurrent, FreshOnlyInCycle, ListingHolds,
                    VisitsWhatWasSeen
<1>4. CandidatesAreGone'
  BY <1>1, <1>2 DEF ScansStillProve, CandidatesAreGone
<1>5. seen[f] # Absent \/ view'[f].content # Absent
  BY <1>1 DEF ScansStillProve, VisitsWhatWasSeen
<1>6. UnseenIsGone'
  BY <1>1, <1>5 DEF ScansStillProve, UnseenIsGone
<1> QED
  BY <1>3, <1>4, <1>6 DEF StillProved

\* Every branch of the per-file loop.
LEMMA HandleFileProves ==
  ASSUME ScansStillProve, NEW f \in Files, HandleFile(f)
  PROVE  StillProved'
<1>1. TypeOK /\ Visit(f) /\ Visited(f)
  BY DEF ScansStillProve, HandleFile, SkipUnchanged, RecordSameSize, ConflictUpload,
         ConflictDownload, ConflictSkip, UploadChange, DownloadChange, UploadNew, DownloadNew,
         ProposeRemoval, RemoveRemote, LeaveMissing, Upload, Download
<1>2. CASE SkipUnchanged(f) \/ ConflictSkip(f) \/ LeaveMissing(f) \/ RecordSameSize(f)
  <2>1. local' = local /\ remote' = remote /\ view' = view /\ candidates' = candidates
    BY <1>2 DEF SkipUnchanged, ConflictSkip, LeaveMissing, RecordSameSize, files
  <2> QED
    BY <1>1, <2>1, VisitProves
<1>3. ASSUME NEW r, Upload(f, r) PROVE StillProved'
  <2>1. local' = local /\ candidates' = candidates
    BY <1>3 DEF Upload, UploadDone, UploadFailed
  <2>2. \A g \in Files \ {f} : remote'[g] = remote[g] /\ view'[g] = view[g]
    BY <1>1, <1>3 DEF Upload, UploadDone, UploadFailed, TypeOK
  <2>3. view[f].content # Absent => view'[f].content # Absent
    BY <1>1, <1>3 DEF Upload, UploadDone, UploadFailed, TypeOK
  <2> QED
    BY <1>1, <2>1, <2>2, <2>3, VisitProves
<1>4. ASSUME NEW r, Download(f, r) PROVE StillProved'
  <2>1. remote' = remote /\ view' = view /\ candidates' = candidates
    BY <1>4 DEF Download, DownloadDone, DownloadFailed
  <2>2. \A g \in Files \ {f} : local'[g] = local[g]
    BY <1>1, <1>4 DEF Download, DownloadDone, DownloadFailed, TypeOK
  <2> QED
    BY <1>1, <2>1, <2>2, VisitProves
<1>5. CASE ProposeRemoval(f)
  <2>1. /\ local' = local /\ remote' = remote /\ view' = view
        /\ candidates' = candidates \cup {f} /\ seen[f] # Absent
        /\ view[f].content = Absent /\ fresh
    BY <1>5 DEF ProposeRemoval, OnlyLocal, MayDelete, files
  <2>2. view[f] = remote[f]
    BY <1>1, <2>1 DEF Visit, ScansStillProve, ListingHolds
  <2>3. remote'[f] = Missing
    BY <1>1, <2>1, <2>2, VersionFields DEF TypeOK
  <2> QED
    BY <1>1, <2>1, <2>3, VisitProves
<1>6. CASE RemoveRemote(f)
  <2>1. /\ local' = local /\ view' = view /\ candidates' = candidates
        /\ \A g \in Files \ {f} : remote'[g] = remote[g]
    BY <1>1, <1>6 DEF RemoveRemote, TypeOK
  <2> QED
    BY <1>1, <2>1, VisitProves
<1> QED
  BY <1>2, <1>3, <1>4, <1>5, <1>6
     DEF HandleFile, ConflictUpload, ConflictDownload, UploadChange, DownloadChange,
         UploadNew, DownloadNew

\* While removals are applied, paths only disappear from the disk.
LEMMA EndProves ==
  ASSUME ScansStillProve,
         \/ ParkDeletions \/ BeginRemovals \/ \E f \in Files : RemoveLocal(f)
         \/ FinishCycle \/ AbandonCycle
  PROVE  StillProved'
<1>1. CASE ParkDeletions \/ FinishCycle \/ AbandonCycle
  BY <1>1, EndCycleProves DEF ParkDeletions, FinishCycle, AbandonCycle
<1>2. CASE BeginRemovals
  BY <1>2 DEF BeginRemovals, files, scan, loop, ScansStillProve, StillProved, SeenIsCurrent,
              FreshOnlyInCycle, ListingHolds, VisitsWhatWasSeen, CandidatesAreGone, UnseenIsGone
<1>3. ASSUME NEW f \in Files, RemoveLocal(f) PROVE StillProved'
  <2>1. /\ pc = "remove" /\ pc' = pc /\ candidates' \subseteq candidates /\ todo' = todo
        /\ remote' = remote /\ view' = view /\ seen' = seen /\ fresh' = fresh
    BY <1>3 DEF RemoveLocal, scan
  <2>2. \A g \in Files : local'[g] \in {local[g], Absent}
    BY <1>3 DEF RemoveLocal, ScansStillProve, TypeOK
  <2>3. UnseenIsGone'
    BY <2>1, <2>2 DEF ScansStillProve, UnseenIsGone
  <2>4. CandidatesAreGone'
    BY <2>1 DEF ScansStillProve, CandidatesAreGone
  <2> QED
    BY <2>1, <2>3, <2>4 DEF StillProved, SeenIsCurrent, FreshOnlyInCycle, ListingHolds,
                            VisitsWhatWasSeen
<1> QED
  BY <1>1, <1>2, <1>3

\* Every step keeps the invariant.
LEMMA StepProves ==
  ~EditsDuringCycle /\ ScansStillProve /\ [Next]_vars => ScansStillProve'
<1> SUFFICES ASSUME ~EditsDuringCycle, ScansStillProve, [Next]_vars
             PROVE  ScansStillProve'
  OBVIOUS
<1>1. TypeOK'
  BY StepTypes DEF ScansStillProve
<1>2. CASE CycleStep
  <2>1. StillProved'
    BY <1>2, ScanProves, HandleFileProves, EndProves DEF CycleStep
  <2> QED
    BY <1>1, <2>1 DEF ScansStillProve, StillProved
<1>3. CASE EnvironmentStep
  BY <1>1, <1>3, EditProves DEF EnvironmentStep, ScansStillProve, StillProved
<1>4. CASE UNCHANGED vars
  BY <1>1, <1>4 DEF ScansStillProve, SeenIsCurrent, FreshOnlyInCycle, ListingHolds,
                    VisitsWhatWasSeen, CandidatesAreGone, UnseenIsGone,
                    vars, files, past, scan, loop, asking
<1> QED
  BY <1>2, <1>3, <1>4 DEF Next

-----------------------------------------------------------------------------
(* The steps that drop a row *)

ForgottenAreGone ==
  \A f \in Files : row[f].tracked /\ ~row'[f].tracked => local'[f] = Absent /\ remote'[f] = Missing

\* A transfer records the file or leaves its row alone.
LEMMA TransfersKeepTracked ==
  ASSUME TypeOK, NEW f \in Files, NEW r, Upload(f, r) \/ Download(f, r),
         r = row[f] \/ r.tracked
  PROVE  \A g \in Files : row[g].tracked => row'[g].tracked
<1>1. PICK s : SetRow(f, s) /\ (s = row[f] \/ s.tracked)
  BY DEF Upload, UploadDone, UploadFailed, Download, DownloadDone, DownloadFailed, Row
<1> QED
  BY <1>1, SetRowAtOne

\* In the loop only the deletion of the iCloud copy of a file that is gone
\* from the disk drops a row.
LEMMA HandleFileForgets ==
  ASSUME ScansStillProve, NEW f \in Files, HandleFile(f)
  PROVE  ForgottenAreGone
<1>1. CASE RemoveRemote(f)
  <2>1. TypeOK /\ seen[f] = local[f] /\ seen[f] = Absent /\ local' = local
    BY <1>1 DEF RemoveRemote, Visit, OnlyRemote, ScansStillProve, SeenIsCurrent
  <2>2. CASE remote' = [remote EXCEPT ![f] = Missing] /\ SetRow(f, Untracked)
    <3>1. remote'[f] = Missing /\ \A g \in Files \ {f} : row'[g] = row[g]
      BY <2>1, <2>2, SetRowAtOne DEF TypeOK
    <3> QED
      BY <2>1, <3>1 DEF ForgottenAreGone
  <2>3. CASE row' = row
    BY <2>3 DEF ForgottenAreGone
  <2> QED
    BY <1>1, <2>2, <2>3 DEF RemoveRemote
<1>2. CASE SkipUnchanged(f) \/ ConflictSkip(f) \/ LeaveMissing(f) \/ ProposeRemoval(f)
  BY <1>2 DEF SkipUnchanged, ConflictSkip, LeaveMissing, ProposeRemoval, files, ForgottenAreGone
<1>3. CASE RecordSameSize(f)
  <2>1. TypeOK /\ SetRow(f, Row(Head(local[f]), view[f].etag))
    BY <1>3 DEF RecordSameSize, ScansStillProve
  <2>2. Row(Head(local[f]), view[f].etag).tracked
    BY DEF Row
  <2> QED
    BY <2>1, <2>2, SetRowAtOne DEF ForgottenAreGone
<1>4. ASSUME NEW r, Upload(f, r) \/ Download(f, r), r = row[f] \/ r.tracked
      PROVE  ForgottenAreGone
  BY <1>4, TransfersKeepTracked DEF ScansStillProve, ForgottenAreGone
<1>5. ResolverRow(f, "upload").tracked /\ ResolverRow(f, "download").tracked
  BY DEF ResolverRow, Row
<1> QED
  BY <1>1, <1>2, <1>3, <1>4, <1>5
     DEF HandleFile, ConflictUpload, ConflictDownload, UploadChange, DownloadChange,
         UploadNew, DownloadNew

\* A removed local file is gone from iCloud, and an orphan from both sides.
LEMMA EndForgets ==
  ASSUME ScansStillProve,
         \/ ParkDeletions \/ BeginRemovals \/ \E f \in Files : RemoveLocal(f)
         \/ FinishCycle \/ AbandonCycle
  PROVE  ForgottenAreGone
<1>1. CASE ParkDeletions \/ BeginRemovals \/ AbandonCycle
  BY <1>1 DEF ParkDeletions, BeginRemovals, AbandonCycle, files, ForgottenAreGone
<1>2. ASSUME NEW f \in Files, RemoveLocal(f) PROVE ForgottenAreGone
  <2>1. TypeOK /\ remote[f] = Missing /\ remote' = remote
    BY <1>2 DEF RemoveLocal, ScansStillProve, CandidatesAreGone
  <2>2. CASE local' = [local EXCEPT ![f] = Absent] /\ SetRow(f, Untracked)
    <3>1. local'[f] = Absent /\ \A g \in Files \ {f} : row'[g] = row[g]
      BY <2>1, <2>2, SetRowAtOne DEF TypeOK
    <3> QED
      BY <2>1, <3>1 DEF ForgottenAreGone
  <2>3. CASE row' = row
    BY <2>3 DEF ForgottenAreGone
  <2> QED
    BY <1>2, <2>2, <2>3 DEF RemoveLocal
<1>3. CASE FinishCycle
  <2>1. /\ pc = "remove" /\ local' = local /\ remote' = remote
        /\ \A g \in Files \ Orphans : row'[g] = row[g]
    BY <1>3 DEF FinishCycle, ScansStillProve, TypeOK
  <2>2. ASSUME NEW g \in Orphans PROVE g \in Files => local[g] = Absent /\ remote[g] = Missing
    BY <2>1, <2>2 DEF Orphans, MayDelete, SeenLocally, SeenRemotely, ScansStillProve, UnseenIsGone
  <2> QED
    BY <2>1, <2>2 DEF ForgottenAreGone
<1> QED
  BY <1>1, <1>2, <1>3

\* No other step drops a row.
LEMMA StepForgets == ScansStillProve /\ [Next]_vars => ForgottenAreGone
<1> SUFFICES ASSUME ScansStillProve, [Next]_vars PROVE ForgottenAreGone
  OBVIOUS
<1>1. CASE CycleStep
  <2>1. CASE \/ StartCycle \/ ScanFresh \/ ScanCached \/ ScanIncomplete
             \/ AskFirstRun \/ AbortTruncated \/ BeginFiles
    BY <2>1 DEF StartCycle, ScanFresh, ScanCached, ScanIncomplete, AskFirstRun, AbortTruncated,
                BeginFiles, files, ForgottenAreGone
  <2> QED
    BY <1>1, <2>1, HandleFileForgets, EndForgets DEF CycleStep
<1>2. CASE EnvironmentStep
  BY <1>2 DEF EnvironmentStep, EditLocal, EditRemote, ForgottenAreGone
<1>3. CASE UNCHANGED vars
  BY <1>3 DEF vars, files, ForgottenAreGone
<1> QED
  BY <1>1, <1>2, <1>3 DEF Next

\* What the scans of a cycle showed is still true at each place that deletes a
\* file or drops its row, when nobody edits while the cycle runs.
THEOREM ScansAreStillTrue ==
  ASSUME ~EditsDuringCycle
  PROVE  Spec => []ScansStillProve
<1>1. Init => ScansStillProve
  BY InitTypes, InitProves DEF ScansStillProve, StillProved
<1>2. ScansStillProve /\ [Next]_vars => ScansStillProve'
  BY StepProves
<1> QED
  BY <1>1, <1>2, PTL DEF Spec

\* No file is forgotten while a copy of it is left on either side, whatever
\* fails: neither a deleted file comes back nor a live one is taken for deleted.
THEOREM OnlyGoneFilesAreForgotten ==
  ASSUME ~EditsDuringCycle
  PROVE  Spec => ForgottenOnlyWhenGone
<1>1. Spec => []ScansStillProve
  BY ScansAreStillTrue
<1>2. ScansStillProve /\ [Next]_vars => [ForgottenAreGone]_vars
  BY StepForgets
<1> QED
  BY <1>1, <1>2, PTL DEF Spec, ForgottenOnlyWhenGone, ForgottenAreGone

-----------------------------------------------------------------------------
(* What one cycle can remove without asking, for every threshold.          *)
(*                                                                         *)
(* The loop over the files only proposes; the proposals are counted once,  *)
(* when it is done.  So the bound has to be carried through the removals,  *)
(* which fail or not one by one: what is lost and what is still proposed   *)
(* never grows.                                                            *)

LossIsAsked ==
  /\ pc = "files" => Lost = {}
  /\ pc = "remove" => Cardinality(Lost \cup candidates) <= DeletionThreshold

\* What is lost or proposed is counted by a natural number, and less of it by
\* a smaller one.
LEMMA FewerFiles ==
  ASSUME NEW S \in SUBSET Files, NEW T \in SUBSET S
  PROVE  Cardinality(T) \in Nat /\ Cardinality(S) \in Nat /\ Cardinality(T) <= Cardinality(S)
<1>1. IsFiniteSet(S)
  BY ConstantsAssumption, FS_Subset
<1> QED
  BY <1>1, FS_Subset, FS_CardinalityType

\* Every branch of the loop is the visit of a path.
LEMMA HandleFileVisits ==
  ASSUME NEW f \in Files, HandleFile(f)
  PROVE  Visit(f) /\ Visited(f)
BY DEF HandleFile, SkipUnchanged, RecordSameSize, ConflictUpload, ConflictDownload,
       ConflictSkip, UploadChange, DownloadChange, UploadNew, DownloadNew, ProposeRemoval,
       RemoveRemote, LeaveMissing, Upload, Download

\* The loop over the files takes nothing from the disk.
LEMMA LoopKeepsLocal ==
  ASSUME TypeOK, NEW f \in Files, HandleFile(f)
  PROVE  \A g \in Files : local'[g] = local[g] \/ local'[g] # Absent
<1>1. ASSUME NEW r, Download(f, r)
      PROVE  \A g \in Files : local'[g] = local[g] \/ local'[g] # Absent
  <2>1. CASE local' = local
    BY <2>1
  <2>2. CASE DownloadDone(f)
    <3>1. remote[f] \in Version /\ remote[f] # Missing
      BY <2>2 DEF DownloadDone, TypeOK
    <3>2. remote[f].content # Absent
      BY <3>1, VersionFields
    <3> QED
      BY <2>2, <3>2 DEF DownloadDone, TypeOK
  <2> QED
    BY <1>1, <2>1, <2>2 DEF Download, DownloadFailed
<1>2. ASSUME NEW r, Upload(f, r) PROVE local' = local
  BY <1>2 DEF Upload, UploadDone, UploadFailed
<1>3. CASE \/ SkipUnchanged(f) \/ RecordSameSize(f) \/ ConflictSkip(f)
           \/ ProposeRemoval(f) \/ RemoveRemote(f) \/ LeaveMissing(f)
  BY <1>3 DEF SkipUnchanged, RecordSameSize, ConflictSkip, ProposeRemoval, RemoveRemote,
              LeaveMissing, files
<1> QED
  BY <1>1, <1>2, <1>3 DEF HandleFile, ConflictUpload, ConflictDownload, UploadChange,
                          DownloadChange, UploadNew, DownloadNew

\* So it loses nothing the scan has found.
LEMMA HandleFileLosesNothing ==
  ASSUME TypeOK, NEW f \in Files, HandleFile(f), Lost = {}
  PROVE  pc' = "files" /\ Lost' = {}
BY HandleFileVisits, LoopKeepsLocal DEF Visit, Visited, Lost

\* A removal moves a file from the proposals to what is lost, or fails.
LEMMA RemoveLocalMoves ==
  ASSUME TypeOK, NEW f \in Files, RemoveLocal(f)
  PROVE  (Lost \cup candidates)' \subseteq Lost \cup candidates
<1>1. /\ seen' = seen /\ f \in candidates /\ candidates' = candidates \ {f}
      /\ \A g \in Files \ {f} : local'[g] = local[g]
  BY DEF RemoveLocal, scan, TypeOK
<1> QED
  BY <1>1 DEF Lost

LEMMA StepAsks ==
  ~EditsDuringCycle /\ ScansStillProve /\ LossIsAsked /\ [Next]_vars => LossIsAsked'
<1> SUFFICES ASSUME ~EditsDuringCycle, ScansStillProve, LossIsAsked, [Next]_vars
             PROVE  LossIsAsked'
  OBVIOUS
<1> USE DEF LossIsAsked
<1>1. TypeOK
  BY DEF ScansStillProve
<1>2. CASE pc' \notin {"files", "remove"}
  BY <1>2
<1>3. CASE BeginFiles
  BY <1>3 DEF BeginFiles, ScansStillProve, SeenIsCurrent, Lost, files, scan
<1>4. ASSUME NEW f \in Files, HandleFile(f) PROVE LossIsAsked'
  <2>1. pc = "files"
    BY <1>4 DEF HandleFile, SkipUnchanged, RecordSameSize, ConflictUpload, ConflictDownload,
                ConflictSkip, UploadChange, DownloadChange, UploadNew, DownloadNew,
                ProposeRemoval, RemoveRemote, LeaveMissing, Visit
  <2> QED
    BY <1>1, <1>4, <2>1, HandleFileLosesNothing
<1>5. CASE BeginRemovals
  <2>1. /\ pc = "files" /\ pc' = "remove" /\ Lost = {} /\ Lost' = Lost
        /\ candidates' = candidates /\ ~(Cardinality(candidates) > DeletionThreshold)
    BY <1>5 DEF BeginRemovals, Bulk, Lost, files, scan, loop
  <2>2. Cardinality(candidates) \in Nat
    BY <1>1, FewerFiles DEF TypeOK
  <2>3. (Lost \cup candidates)' = candidates
    BY <2>1
  <2> QED
    BY <2>1, <2>2, <2>3, ConstantsAssumption
<1>6. ASSUME NEW f \in Files, RemoveLocal(f) PROVE LossIsAsked'
  <2>1. pc = "remove" /\ pc' = "remove"
    BY <1>6 DEF RemoveLocal
  <2>2. (Lost \cup candidates)' \subseteq Lost \cup candidates
    BY <1>1, <1>6, RemoveLocalMoves
  <2>3. Lost \cup candidates \subseteq Files
    BY <1>1 DEF Lost, TypeOK
  <2>4. /\ Cardinality((Lost \cup candidates)') <= Cardinality(Lost \cup candidates)
        /\ Cardinality((Lost \cup candidates)') \in Nat
        /\ Cardinality(Lost \cup candidates) \in Nat
    BY <2>2, <2>3, FewerFiles
  <2> QED
    BY <2>1, <2>4, ConstantsAssumption
<1>7. CASE EnvironmentStep
  BY <1>7 DEF EnvironmentStep, EditLocal, EditRemote, MayEdit
<1>8. CASE UNCHANGED vars
  BY <1>8 DEF vars, files, scan, loop, Lost
<1> QED
  BY <1>2, <1>3, <1>4, <1>5, <1>6, <1>7, <1>8
     DEF Next, CycleStep, StartCycle, ScanFresh, ScanCached, ScanIncomplete, AskFirstRun,
         AbortTruncated, ParkDeletions, FinishCycle, AbandonCycle, EndCycle

\* A cycle removes at most DeletionThreshold of the files it found, whatever
\* its listings showed and whichever removals fail; more is only asked about.
THEOREM SilentLossIsBounded ==
  ASSUME ~EditsDuringCycle
  PROVE  Spec => []BoundedSilentLoss
<1>1. Init => LossIsAsked
  BY DEF Init, LossIsAsked
<1>2. ScansStillProve /\ LossIsAsked => BoundedSilentLoss
  <2> SUFFICES ASSUME ScansStillProve, LossIsAsked, pc \in {"files", "remove"}
               PROVE  Cardinality(Lost) <= DeletionThreshold
    BY DEF BoundedSilentLoss
  <2>1. CASE pc = "files"
    BY <2>1, FS_EmptySet, ConstantsAssumption DEF LossIsAsked
  <2>2. CASE pc = "remove"
    <3>1. Lost \cup candidates \subseteq Files
      BY DEF Lost, ScansStillProve, TypeOK
    <3> QED
      BY <2>2, <3>1, FewerFiles, ConstantsAssumption DEF LossIsAsked
  <2> QED
    BY <2>1, <2>2
<1> QED
  BY <1>1, <1>2, StepAsks, ScansAreStillTrue, PTL DEF Spec

-----------------------------------------------------------------------------
(* What a cycle does that works from cached remote data                    *)

\* Without a fresh listing nothing is proposed for removal.
StaleProposesNothing == pc \in {"files", "remove"} /\ ~fresh => candidates = {}

\* Candidates come from the loop, in a fresh cycle only.
LEMMA StepProposes == StaleProposesNothing /\ [Next]_vars => StaleProposesNothing'
<1> SUFFICES ASSUME StaleProposesNothing, [Next]_vars PROVE StaleProposesNothing'
  OBVIOUS
<1> USE DEF StaleProposesNothing
<1>1. CASE pc' \notin {"files", "remove"}
  BY <1>1
<1>2. CASE BeginFiles
  BY <1>2 DEF BeginFiles
<1>3. ASSUME NEW f \in Files, HandleFile(f) PROVE StaleProposesNothing'
  <2>1. pc = "files" /\ pc' = "files" /\ fresh' = fresh
    BY <1>3, HandleFileVisits DEF Visit, Visited
  <2>2. candidates' = candidates \/ fresh
    BY <1>3 DEF HandleFile, SkipUnchanged, RecordSameSize, ConflictUpload, ConflictDownload,
                ConflictSkip, UploadChange, DownloadChange, UploadNew, DownloadNew,
                ProposeRemoval, RemoveRemote, LeaveMissing, Upload, Download, MayDelete
  <2> QED
    BY <2>1, <2>2
<1>4. CASE BeginRemovals
  BY <1>4 DEF BeginRemovals, scan, loop
<1>5. CASE \E f \in Files : RemoveLocal(f)
  BY <1>5 DEF RemoveLocal, scan
<1>6. CASE EnvironmentStep \/ UNCHANGED vars
  BY <1>6 DEF EnvironmentStep, EditLocal, EditRemote, vars, scan, loop
<1> QED
  BY <1>1, <1>2, <1>3, <1>4, <1>5, <1>6
     DEF Next, CycleStep, StartCycle, ScanFresh, ScanCached, ScanIncomplete, AskFirstRun,
         AbortTruncated, ParkDeletions, FinishCycle, AbandonCycle, EndCycle

KeptOnBothSides ==
  EngineActs /\ ~fresh =>
    \A f \in Files :
      /\ local[f] # Absent => local'[f] # Absent
      /\ remote[f] # Missing => \/ remote'[f] # Missing
                                \/ "uploadLost" \in Faults /\ local'[f] # Absent
      /\ row[f].tracked => row'[f].tracked

\* An upload is only tried of a file that is on disk; one that fails half-way
\* leaves it there.
LEMMA StaleUploadKeeps ==
  ASSUME TypeOK, NEW f \in Files, NEW r, Upload(f, r), local[f] # Absent,
         r = row[f] \/ r.tracked
  PROVE  KeptOnBothSides
<1>1. local' = local /\ \A g \in Files : row[g].tracked => row'[g].tracked
  BY TransfersKeepTracked DEF Upload, UploadDone, UploadFailed
<1>2. CASE UploadDone(f)
  <2>1. \A g \in Files : remote[g] # Missing => remote'[g] # Missing
    BY <1>2 DEF UploadDone, TypeOK, Missing
  <2> QED
    BY <1>1, <2>1 DEF KeptOnBothSides
<1>3. CASE UploadFailed(f, r)
  <2>1. /\ remote' = remote \/ "uploadLost" \in Faults
        /\ \A g \in Files \ {f} : remote'[g] = remote[g]
    BY <1>3 DEF UploadFailed, TypeOK
  <2> QED
    BY <1>1, <2>1 DEF KeptOnBothSides
<1> QED
  BY <1>2, <1>3 DEF Upload

\* A branch of the loop.
LEMMA StaleVisitKeeps ==
  ASSUME ScansStillProve, NEW f \in Files, HandleFile(f)
  PROVE  KeptOnBothSides
<1>1. /\ TypeOK /\ pc = "files" /\ seen[f] = local[f]
      /\ \A g \in Files : local'[g] = local[g] \/ local'[g] # Absent
  BY HandleFileVisits, LoopKeepsLocal DEF ScansStillProve, SeenIsCurrent, Visit
<1>2. ResolverRow(f, "upload").tracked /\ ResolverRow(f, "download").tracked
  BY DEF ResolverRow, Row
<1>3. CASE ConflictUpload(f) \/ UploadChange(f) \/ UploadNew(f)
  <2>1. local[f] # Absent
    BY <1>1, <1>3 DEF ConflictUpload, UploadChange, UploadNew, Conflict, OnBoth, OnlyLocal
  <2> QED
    BY <1>1, <1>2, <1>3, <2>1, StaleUploadKeeps DEF ConflictUpload, UploadChange, UploadNew
<1>4. CASE ConflictDownload(f) \/ DownloadChange(f) \/ DownloadNew(f)
  <2>1. PICK r : Download(f, r) /\ (r = row[f] \/ r.tracked)
    BY <1>2, <1>4 DEF ConflictDownload, DownloadChange, DownloadNew
  <2>2. remote' = remote /\ \A g \in Files : row[g].tracked => row'[g].tracked
    BY <1>1, <2>1, TransfersKeepTracked DEF Download, DownloadDone, DownloadFailed
  <2> QED
    BY <1>1, <2>2 DEF KeptOnBothSides
<1>5. CASE SkipUnchanged(f) \/ ConflictSkip(f) \/ LeaveMissing(f) \/ ProposeRemoval(f)
  BY <1>5 DEF SkipUnchanged, ConflictSkip, LeaveMissing, ProposeRemoval, files, KeptOnBothSides
<1>6. CASE RecordSameSize(f)
  <2>1. Row(Head(local[f]), view[f].etag).tracked
    BY DEF Row
  <2>2. local' = local /\ remote' = remote /\ \A g \in Files : row[g].tracked => row'[g].tracked
    BY <1>1, <1>6, <2>1, SetRowAtOne DEF RecordSameSize
  <2> QED
    BY <2>2 DEF KeptOnBothSides
<1>7. CASE RemoveRemote(f)
  BY <1>7 DEF RemoveRemote, MayDelete, KeptOnBothSides
<1> QED
  BY <1>3, <1>4, <1>5, <1>6, <1>7 DEF HandleFile

\* No other step takes anything away when there are no candidates.
LEMMA StaleStepKeeps ==
  ScansStillProve /\ StaleProposesNothing /\ [Next]_vars => KeptOnBothSides
<1> SUFFICES ASSUME ScansStillProve, StaleProposesNothing, [Next]_vars, ~fresh
             PROVE  KeptOnBothSides
  BY DEF KeptOnBothSides
<1>1. CASE UNCHANGED <<local, remote, row>>
  BY <1>1 DEF KeptOnBothSides
<1>2. ASSUME NEW f \in Files, HandleFile(f) PROVE KeptOnBothSides
  BY <1>2, StaleVisitKeeps
<1>3. CASE \E f \in Files : RemoveLocal(f)
  BY <1>3 DEF RemoveLocal, StaleProposesNothing
<1>4. CASE FinishCycle
  <2>1. Orphans = {}
    BY DEF Orphans, MayDelete
  <2>2. local' = local /\ remote' = remote /\ \A g \in Files : row'[g] = row[g]
    BY <1>4, <2>1 DEF FinishCycle, ScansStillProve, TypeOK
  <2> QED
    BY <2>2 DEF KeptOnBothSides
<1>5. CASE EnvironmentStep
  BY <1>5 DEF EnvironmentStep, EditLocal, EditRemote, EngineActs, loop, KeptOnBothSides
<1> QED
  BY <1>1, <1>2, <1>3, <1>4, <1>5
     DEF Next, CycleStep, StartCycle, ScanFresh, ScanCached, ScanIncomplete, AskFirstRun,
         AbortTruncated, BeginFiles, ParkDeletions, BeginRemovals, AbandonCycle, vars, files

\* A cycle that works from cached data takes no file off either side, but for
\* the copy an upload was to replace, and forgets none: whatever fails, and
\* however wrong its listing is.
THEOREM StaleCyclesRemoveNothing ==
  ASSUME ~EditsDuringCycle
  PROVE  Spec => StaleCycleRemovesNothing
<1>1. Init => StaleProposesNothing
  BY DEF Init, StaleProposesNothing
<1>2. Spec => []ScansStillProve
  BY ScansAreStillTrue
<1>3. ScansStillProve /\ StaleProposesNothing /\ [Next]_vars => [KeptOnBothSides]_vars
  BY StaleStepKeeps
<1> QED
  BY <1>1, <1>2, <1>3, StepProposes, PTL DEF Spec, StaleCycleRemovesNothing, KeptOnBothSides

-----------------------------------------------------------------------------
(* What looks in sync is in sync.                                          *)
(*                                                                         *)
(* It holds when nobody edits during a cycle, when size and head hash tell *)
(* contents apart, and when no upload is refused after the resolver has    *)
(* recorded this computer as the winner.                                   *)

FingerprintsIdentify ==
  \A c, d \in Contents : HeadOf[c] = HeadOf[d] \/ SizeOf[c] = SizeOf[d] => c = d

NoLostVerdict == "uploadRefused" \notin Faults \/ Strategy \in {"prefer-remote", "skip"}

Reliable == ~EditsDuringCycle /\ FingerprintsIdentify /\ NoLostVerdict

Sound == RowsDescribeRemote /\ ViewDescribesRemote /\ SeenIsCurrent

\* The invariant implies what is wanted of it.
LEMMA SoundComparisonsSuffice == FingerprintsIdentify /\ ComparisonsAreSound => InSyncMeansEqual
<1> SUFFICES ASSUME FingerprintsIdentify, ComparisonsAreSound, NEW f \in Files, LooksInSync(f)
             PROVE  local[f] = remote[f].content
  BY DEF InSyncMeansEqual
<1>1. local[f] \in Contents /\ remote[f].content \in Contents
  BY VersionFields DEF ComparisonsAreSound, TypeOK, LooksInSync, File
<1>2. Head(local[f]) = HeadOf[local[f]] /\ Head(remote[f].content) = HeadOf[remote[f].content]
  BY <1>1, ConstantsAssumption DEF Head
<1>3. Head(local[f]) # NoHash
  BY <1>1, <1>2, ConstantsAssumption
<1>4. Head(local[f]) = Head(remote[f].content)
  BY <1>3 DEF ComparisonsAreSound, RowsDescribeRemote, RowFits, LooksInSync
<1> QED
  BY <1>1, <1>2, <1>4 DEF FingerprintsIdentify

\* It holds initially: there is nothing to compare.
LEMMA InitSound == Init => Sound
BY DEF Init, Sound, RowsDescribeRemote, RowFits, ViewDescribesRemote, ViewFits,
       SeenIsCurrent, Untracked, Missing

\* An edit while no cycle runs disturbs no comparison: a new version has a
\* stamp that is neither recorded nor remembered.
LEMMA EditSound ==
  ASSUME Reliable, ComparisonsAreSound, NEW f \in Files, EditLocal(f) \/ EditRemote(f)
  PROVE  Sound'
<1>1. pc' = "idle" /\ row' = row /\ view' = view
  BY DEF EditLocal, EditRemote, MayEdit, Reliable, scan
<1>2. SeenIsCurrent'
  BY <1>1 DEF SeenIsCurrent
<1>3. ASSUME NEW g \in Files PROVE RowFits(g)' /\ ViewFits(g)'
  <2>1. CASE remote'[g] = remote[g]
    BY <1>1, <2>1 DEF ComparisonsAreSound, RowsDescribeRemote, ViewDescribesRemote, RowFits, ViewFits
  <2>2. CASE remote'[g] = Missing
    BY <2>2 DEF RowFits, ViewFits
  <2>3. CASE g = f /\ remote'[g].etag = NewEtag(f)
    BY <1>1, <2>3, NewEtagIsNew DEF ComparisonsAreSound, RowFits, ViewFits
  <2> QED
    BY <2>1, <2>2, <2>3 DEF EditLocal, EditRemote, ComparisonsAreSound, TypeOK
<1> QED
  BY <1>2, <1>3 DEF Sound, RowsDescribeRemote, ViewDescribesRemote

\* What a scan shows of a path is its present version or what the cache held.
LEMMA ScanSound ==
  ASSUME ComparisonsAreSound,
         \/ StartCycle \/ ScanFresh \/ ScanCached \/ ScanIncomplete
         \/ AskFirstRun \/ AbortTruncated \/ BeginFiles
  PROVE  Sound'
<1>1. row' = row /\ remote' = remote /\ local' = local
  BY DEF StartCycle, ScanFresh, ScanCached, ScanIncomplete, AskFirstRun, AbortTruncated,
         BeginFiles, files
<1>2. \A g \in Files : view'[g] \in {view[g], remote[g]}
  BY DEF StartCycle, ScanFresh, ScanCached, ScanIncomplete, AskFirstRun, AbortTruncated,
         BeginFiles, EndCycle, scan, ComparisonsAreSound, TypeOK
<1>3. RowsDescribeRemote'
  BY <1>1 DEF ComparisonsAreSound, RowsDescribeRemote, RowFits
<1>4. ViewDescribesRemote'
  BY <1>1, <1>2 DEF ComparisonsAreSound, ViewDescribesRemote, ViewFits
<1>5. SeenIsCurrent'
  <2>1. CASE StartCycle
    BY <1>1, <2>1 DEF StartCycle, SeenIsCurrent
  <2>2. CASE ScanFresh \/ ScanCached \/ BeginFiles
    BY <1>1, <2>2 DEF ScanFresh, ScanCached, BeginFiles, scan, SeenIsCurrent, ComparisonsAreSound
  <2>3. CASE ScanIncomplete \/ AskFirstRun \/ AbortTruncated
    BY <2>3 DEF ScanIncomplete, AskFirstRun, AbortTruncated, EndCycle, SeenIsCurrent
  <2> QED
    BY <2>1, <2>2, <2>3
<1> QED
  BY <1>3, <1>4, <1>5 DEF Sound

\* A branch of the loop touches one path: only that path has to be examined.
LEMMA OneFileStep ==
  ASSUME ComparisonsAreSound, NEW f \in Files, pc = "files", Visited(f),
         \A g \in Files \ {f} : /\ row'[g] = row[g] /\ remote'[g] = remote[g]
                                /\ view'[g] = view[g] /\ local'[g] = local[g],
         RowFits(f)', ViewFits(f)'
  PROVE  Sound'
<1>1. RowsDescribeRemote'
  BY DEF ComparisonsAreSound, RowsDescribeRemote, RowFits
<1>2. ViewDescribesRemote'
  BY DEF ComparisonsAreSound, ViewDescribesRemote, ViewFits
<1>3. SeenIsCurrent'
  BY DEF ComparisonsAreSound, SeenIsCurrent, Visited
<1> QED
  BY <1>1, <1>2, <1>3 DEF Sound

\* An upload leaves a row that describes the version it made, or carries a
\* stamp that no present version has.
LEMMA UploadSound ==
  ASSUME ComparisonsAreSound, NEW f \in Files, NEW r, pc = "files", Upload(f, r),
         r = row[f] \/ ("uploadRefused" \notin Faults /\ view[f].content # Absent)
  PROVE  Sound'
<1>1. TypeOK /\ RowFits(f) /\ ViewFits(f) /\ Visited(f) /\ local' = local
  BY DEF ComparisonsAreSound, RowsDescribeRemote, ViewDescribesRemote, Upload,
         UploadDone, UploadFailed
<1>2. CASE UploadDone(f)
  <2> DEFINE new == [content |-> local[f], etag |-> NewEtag(f)]
  <2>1. remote'[f] = new /\ \A g \in Files \ {f} : remote'[g] = remote[g]
    BY <1>1, <1>2 DEF UploadDone, TypeOK
  <2>2. CASE SetRow(f, Row(Head(local[f]), new.etag)) /\ view' = [view EXCEPT ![f] = new]
    <3>1. row'[f] = Row(Head(local[f]), new.etag) /\ \A g \in Files \ {f} : row'[g] = row[g]
      BY <1>1, <2>2, SetRowAtOne
    <3>2. view'[f] = new /\ \A g \in Files \ {f} : view'[g] = view[g]
      BY <1>1, <2>2 DEF TypeOK
    <3>3. RowFits(f)' /\ ViewFits(f)'
      BY <2>1, <3>1, <3>2 DEF RowFits, ViewFits, Row, Head
    <3> QED
      BY <1>1, <2>1, <3>1, <3>2, <3>3, OneFileStep
  <2>3. CASE SetRow(f, Row(Head(local[f]), view[f].etag)) /\ view' = view
    <3>1. /\ row'[f] = Row(Head(local[f]), view[f].etag)
          /\ \A g \in Files \ {f} : row'[g] = row[g]
      BY <1>1, <2>3, SetRowAtOne
    <3>2. remote'[f].etag # view[f].etag
      BY <1>1, <2>1, NewEtagIsNew
    <3>3. RowFits(f)' /\ ViewFits(f)'
      BY <2>3, <3>1, <3>2 DEF RowFits, ViewFits, Row
    <3> QED
      BY <1>1, <2>1, <2>3, <3>1, <3>3, OneFileStep
  <2> QED
    BY <1>2, <2>2, <2>3 DEF UploadDone
<1>3. CASE UploadFailed(f, r)
  <2>1. row'[f] = r /\ (\A g \in Files \ {f} : row'[g] = row[g]) /\ view' = view
    BY <1>1, <1>3, SetRowAtOne DEF UploadFailed
  <2>2. \A g \in Files \ {f} : remote'[g] = remote[g]
    BY <1>1, <1>3 DEF UploadFailed, TypeOK
  <2>3. remote'[f] = Missing \/ (remote'[f] = remote[f] /\ r = row[f])
    BY <1>1, <1>3 DEF UploadFailed, TypeOK
  <2>4. RowFits(f)' /\ ViewFits(f)'
    BY <1>1, <2>1, <2>3 DEF RowFits, ViewFits
  <2> QED
    BY <1>1, <2>1, <2>2, <2>4, OneFileStep
<1> QED
  BY <1>2, <1>3 DEF Upload

\* A download leaves a row that describes what was fetched, or an empty hash.
LEMMA DownloadSound ==
  ASSUME ComparisonsAreSound, NEW f \in Files, NEW r, pc = "files", Download(f, r),
         r = row[f] \/ r.hash = NoHash
  PROVE  Sound'
<1>1. /\ TypeOK /\ RowFits(f) /\ ViewFits(f) /\ Visited(f)
      /\ remote' = remote /\ view' = view
  BY DEF ComparisonsAreSound, RowsDescribeRemote, ViewDescribesRemote, Download,
         DownloadDone, DownloadFailed
<1>2. ViewFits(f)'
  BY <1>1 DEF ViewFits
<1>3. CASE DownloadDone(f)
  <2>1. /\ row'[f] = Row(Head(remote[f].content), view[f].etag)
        /\ \A g \in Files \ {f} : row'[g] = row[g]
    BY <1>1, <1>3, SetRowAtOne DEF DownloadDone
  <2>2. \A g \in Files \ {f} : local'[g] = local[g]
    BY <1>1, <1>3 DEF DownloadDone, TypeOK
  <2>3. RowFits(f)'
    BY <1>1, <2>1 DEF RowFits, Row, Head
  <2> QED
    BY <1>1, <1>2, <2>1, <2>2, <2>3, OneFileStep
<1>4. CASE DownloadFailed(f, r)
  <2>1. row'[f] = r /\ (\A g \in Files \ {f} : row'[g] = row[g]) /\ local' = local
    BY <1>1, <1>4, SetRowAtOne DEF DownloadFailed
  <2>2. RowFits(f)'
    BY <1>1, <2>1 DEF RowFits, Head
  <2> QED
    BY <1>1, <1>2, <2>1, <2>2, OneFileStep
<1> QED
  BY <1>3, <1>4 DEF Download

\* Equal sizes are recorded for contents that are equal indeed.
LEMMA RecordSound ==
  ASSUME Reliable, ComparisonsAreSound, NEW f \in Files, RecordSameSize(f)
  PROVE  Sound'
<1>1. /\ TypeOK /\ RowFits(f) /\ ViewFits(f) /\ Visited(f) /\ pc = "files"
      /\ remote' = remote /\ view' = view /\ local' = local
  BY DEF ComparisonsAreSound, RowsDescribeRemote, ViewDescribesRemote, RecordSameSize, Visit
<1>2. ViewFits(f)'
  BY <1>1 DEF ViewFits
<1>3. /\ row'[f] = Row(Head(local[f]), view[f].etag)
      /\ \A g \in Files \ {f} : row'[g] = row[g]
  BY <1>1, SetRowAtOne DEF RecordSameSize
<1>4. seen[f] = local[f]
  BY DEF RecordSameSize, Visit, ComparisonsAreSound, SeenIsCurrent
<1>5. seen[f] \in Contents /\ view[f].content \in Contents
  BY <1>1, VersionFields DEF RecordSameSize, OnBoth, TypeOK, File
<1>6. view[f].content = local[f]
  BY <1>4, <1>5 DEF RecordSameSize, SameSize, Reliable, FingerprintsIdentify
<1>7. RowFits(f)'
  BY <1>1, <1>3, <1>6 DEF RowFits, ViewFits, Row, Head
<1> QED
  BY <1>1, <1>2, <1>3, <1>7, OneFileStep

\* Every branch of the per-file loop.
LEMMA HandleFileSound ==
  ASSUME Reliable, ComparisonsAreSound, NEW f \in Files, HandleFile(f)
  PROVE  Sound'
<1>1. TypeOK /\ RowFits(f) /\ ViewFits(f)
  BY DEF ComparisonsAreSound, RowsDescribeRemote, ViewDescribesRemote
<1>2. CASE SkipUnchanged(f) \/ ConflictSkip(f) \/ LeaveMissing(f) \/ ProposeRemoval(f)
  <2>1. /\ pc = "files" /\ Visited(f)
        /\ row' = row /\ remote' = remote /\ view' = view /\ local' = local
    BY <1>2 DEF SkipUnchanged, ConflictSkip, LeaveMissing, ProposeRemoval, Visit, files
  <2>2. RowFits(f)' /\ ViewFits(f)'
    BY <1>1, <2>1 DEF RowFits, ViewFits
  <2> QED
    BY <2>1, <2>2, OneFileStep
<1>3. CASE RecordSameSize(f)
  BY <1>3, RecordSound
<1>4. CASE ConflictUpload(f)
  <2>1. "uploadRefused" \notin Faults
    BY <1>4 DEF ConflictUpload, Verdicts, Reliable, NoLostVerdict
  <2>2. view[f].content # Absent
    BY <1>4 DEF ConflictUpload, Conflict, OnBoth
  <2> QED
    BY <1>4, <2>1, <2>2, UploadSound DEF ConflictUpload, Visit
<1>5. CASE UploadChange(f) \/ UploadNew(f)
  BY <1>5, UploadSound DEF UploadChange, UploadNew, Visit
<1>6. CASE ConflictDownload(f)
  <2>1. ResolverRow(f, "download").hash = NoHash
    BY DEF ResolverRow, Row
  <2> QED
    BY <1>6, <2>1, DownloadSound DEF ConflictDownload, Visit
<1>7. CASE DownloadChange(f) \/ DownloadNew(f)
  BY <1>7, DownloadSound DEF DownloadChange, DownloadNew, Visit
<1>8. CASE RemoveRemote(f)
  <2>1. pc = "files" /\ Visited(f) /\ view' = view /\ local' = local
    BY <1>8 DEF RemoveRemote, Visit
  <2>2. /\ remote'[f] = Missing \/ (remote' = remote /\ row' = row)
        /\ \A g \in Files \ {f} : row'[g] = row[g] /\ remote'[g] = remote[g]
    BY <1>1, <1>8 DEF RemoveRemote, TypeOK, SetRow
  <2>3. RowFits(f)' /\ ViewFits(f)'
    BY <1>1, <2>1, <2>2 DEF RowFits, ViewFits
  <2> QED
    BY <2>1, <2>2, <2>3, OneFileStep
<1> QED
  BY <1>2, <1>3, <1>4, <1>5, <1>6, <1>7, <1>8 DEF HandleFile

\* At the end of a cycle rows are only dropped.
LEMMA EndSound ==
  ASSUME ComparisonsAreSound,
         \/ ParkDeletions \/ BeginRemovals \/ \E f \in Files : RemoveLocal(f)
         \/ FinishCycle \/ AbandonCycle
  PROVE  Sound'
<1>1. remote' = remote /\ view' = view /\ pc' \in {"idle", "remove"}
  BY DEF ParkDeletions, BeginRemovals, RemoveLocal, FinishCycle, AbandonCycle, EndCycle,
         files, scan
<1>2. \A g \in Files : row'[g] \in {row[g], Untracked}
  BY DEF ParkDeletions, BeginRemovals, RemoveLocal, FinishCycle, AbandonCycle, files,
         SetRow, ComparisonsAreSound, TypeOK
<1>3. RowsDescribeRemote'
  BY <1>1, <1>2 DEF ComparisonsAreSound, RowsDescribeRemote, RowFits, Untracked
<1>4. ViewDescribesRemote'
  BY <1>1 DEF ComparisonsAreSound, ViewDescribesRemote, ViewFits
<1>5. SeenIsCurrent'
  BY <1>1 DEF SeenIsCurrent
<1> QED
  BY <1>3, <1>4, <1>5 DEF Sound

\* Every step of a reliable system keeps the invariant.
LEMMA StepSound == Reliable /\ ComparisonsAreSound /\ [Next]_vars => ComparisonsAreSound'
<1> SUFFICES ASSUME Reliable, ComparisonsAreSound, [Next]_vars PROVE ComparisonsAreSound'
  OBVIOUS
<1>1. TypeOK'
  BY StepTypes DEF ComparisonsAreSound
<1>2. CASE CycleStep
  <2>1. Sound'
    BY <1>2, ScanSound, HandleFileSound, EndSound DEF CycleStep
  <2> QED
    BY <1>1, <2>1 DEF ComparisonsAreSound, Sound
<1>3. CASE EnvironmentStep
  BY <1>1, <1>3, EditSound DEF EnvironmentStep, ComparisonsAreSound, Sound
<1>4. CASE UNCHANGED vars
  BY <1>1, <1>4 DEF ComparisonsAreSound, RowsDescribeRemote, RowFits, ViewDescribesRemote,
                    ViewFits, SeenIsCurrent, vars, files, past, scan, loop, asking
<1> QED
  BY <1>2, <1>3, <1>4 DEF Next

\* In a reliable system the rows, the cached tree and the local scan can be
\* trusted whenever the engine compares with them.
THEOREM ComparisonsStaySound ==
  ASSUME Reliable
  PROVE  Spec => []ComparisonsAreSound
<1>1. Init => ComparisonsAreSound
  BY InitTypes, InitSound DEF ComparisonsAreSound, Sound
<1>2. ComparisonsAreSound /\ [Next]_vars => ComparisonsAreSound'
  BY StepSound
<1> QED
  BY <1>1, <1>2, PTL DEF Spec

\* A file whose row matches both sides, which the engine will therefore leave
\* alone, is the same on both sides, whatever transfers failed before.
THEOREM InSyncFilesAreEqual ==
  ASSUME Reliable
  PROVE  Spec => []InSyncMeansEqual
<1>1. ComparisonsAreSound => InSyncMeansEqual
  BY SoundComparisonsSuffice DEF Reliable
<1>2. Spec => []ComparisonsAreSound
  BY ComparisonsStaySound
<1> QED
  BY <1>1, <1>2, PTL

-----------------------------------------------------------------------------
(* What a step notes in the history                                        *)

\* A step that brings the sides of f together forgets the edits of f here if
\* they are equal now, as far as the engine can see, and nothing else.
LEMMA AgreementNoted ==
  ASSUME TypeOK, NEW f \in Files, NoteAgreement({f})
  PROVE  /\ \A g \in Files \ {f} : /\ agreed'[g] = agreed[g]
                                   /\ g \in savedHere' <=> g \in savedHere
                                   /\ g \in savedThere' <=> g \in savedThere
         /\ local'[f] \in {remote'[f].content, view[f].content} =>
              agreed'[f] = local'[f] /\ f \notin savedHere'
         /\ local'[f] \notin {remote'[f].content, view[f].content} =>
              agreed'[f] = agreed[f] /\ (f \in savedHere' <=> f \in savedHere)
         /\ savedThere' \subseteq savedThere
BY DEF TypeOK, NoteAgreement

\* What is not about f stays as it was.
OnlyAt(f) ==
  \A g \in Files \ {f} :
    /\ local'[g] = local[g] /\ remote'[g] = remote[g] /\ row'[g] = row[g]
    /\ view'[g] = view[g] /\ agreed'[g] = agreed[g]
    /\ g \in savedHere' <=> g \in savedHere
    /\ g \in savedThere' <=> g \in savedThere

\* An upload, whatever comes of it.
LEMMA UploadTouchesOne ==
  ASSUME TypeOK, NEW f \in Files, NEW r, Upload(f, r)
  PROVE  OnlyAt(f)
<1>1. CASE UploadDone(f)
  <2>1. /\ \A g \in Files \ {f} : row'[g] = row[g]
        /\ \A g \in Files \ {f} : remote'[g] = remote[g] /\ view'[g] = view[g]
        /\ local' = local
    BY <1>1, SetRowAtOne DEF UploadDone, TypeOK
  <2> QED
    BY <1>1, <2>1, AgreementNoted DEF UploadDone, OnlyAt
<1>2. CASE UploadFailed(f, r)
  <2>1. /\ \A g \in Files \ {f} : row'[g] = row[g]
        /\ \A g \in Files \ {f} : remote'[g] = remote[g]
    BY <1>2, SetRowAtOne DEF UploadFailed, TypeOK
  <2> QED
    BY <1>2, <2>1 DEF UploadFailed, OnlyAt, past
<1> QED
  BY <1>1, <1>2 DEF Upload

\* A download, whatever comes of it.
LEMMA DownloadTouchesOne ==
  ASSUME TypeOK, NEW f \in Files, NEW r, Download(f, r)
  PROVE  OnlyAt(f)
<1>1. view' = view
  BY DEF Download
<1>2. CASE DownloadDone(f)
  <2>1. /\ \A g \in Files \ {f} : row'[g] = row[g]
        /\ \A g \in Files \ {f} : local'[g] = local[g]
    BY <1>2, SetRowAtOne DEF DownloadDone, TypeOK
  <2> QED
    BY <1>1, <1>2, <2>1, AgreementNoted DEF DownloadDone, OnlyAt
<1>3. CASE DownloadFailed(f, r)
  <2>1. \A g \in Files \ {f} : row'[g] = row[g]
    BY <1>3, SetRowAtOne DEF DownloadFailed
  <2> QED
    BY <1>1, <1>3, <2>1 DEF DownloadFailed, OnlyAt, past
<1> QED
  BY <1>2, <1>3 DEF Download

\* Every branch of the loop is about one file.
LEMMA HandleFileTouchesOne ==
  ASSUME TypeOK, NEW f \in Files, HandleFile(f)
  PROVE  OnlyAt(f)
<1>1. CASE SkipUnchanged(f) \/ ConflictSkip(f) \/ LeaveMissing(f) \/ ProposeRemoval(f)
  BY <1>1 DEF SkipUnchanged, ConflictSkip, LeaveMissing, ProposeRemoval, files, past, OnlyAt
<1>2. CASE RecordSameSize(f)
  BY <1>2, SetRowAtOne, AgreementNoted DEF RecordSameSize, OnlyAt
<1>3. CASE RemoveRemote(f)
  <2>1. CASE UNCHANGED <<remote, row, past>>
    BY <1>3, <2>1 DEF RemoveRemote, past, OnlyAt
  <2>2. CASE /\ remote' = [remote EXCEPT ![f] = Missing]
             /\ SetRow(f, Untracked) /\ NoteAgreement({f})
    <3>1. \A g \in Files \ {f} : row'[g] = row[g] /\ remote'[g] = remote[g]
      BY <2>2, SetRowAtOne DEF TypeOK
    <3> QED
      BY <1>3, <2>2, <3>1, AgreementNoted DEF RemoveRemote, OnlyAt
  <2> QED
    BY <1>3, <2>1, <2>2 DEF RemoveRemote
<1> QED
  BY <1>1, <1>2, <1>3, UploadTouchesOne, DownloadTouchesOne
     DEF HandleFile, ConflictUpload, ConflictDownload, UploadChange, DownloadChange,
         UploadNew, DownloadNew

\* So is the removal of a local file.
LEMMA RemoveLocalTouchesOne ==
  ASSUME TypeOK, NEW f \in Files, RemoveLocal(f)
  PROVE  OnlyAt(f)
<1>1. remote' = remote /\ view' = view
  BY DEF RemoveLocal, scan
<1>2. CASE UNCHANGED <<local, row, past>>
  BY <1>1, <1>2 DEF past, OnlyAt
<1>3. CASE /\ local' = [local EXCEPT ![f] = Absent]
           /\ SetRow(f, Untracked) /\ NoteAgreement({f})
  <2>1. \A g \in Files \ {f} : row'[g] = row[g] /\ local'[g] = local[g]
    BY <1>3, SetRowAtOne DEF TypeOK
  <2> QED
    BY <1>1, <1>3, <2>1, AgreementNoted DEF OnlyAt
<1> QED
  BY <1>2, <1>3 DEF RemoveLocal

\* The purge brings together what is on neither side.
LEMMA PurgeNotes ==
  ASSUME ScansStillProve, FinishCycle
  PROVE  /\ local' = local /\ remote' = remote
         /\ \A g \in Orphans : /\ g \in Files /\ row'[g] = Untracked
                               /\ local[g] = Absent /\ remote[g] = Missing
                               /\ agreed'[g] = Absent /\ g \notin savedHere'
         /\ \A g \in Files \ Orphans : /\ row'[g] = row[g] /\ agreed'[g] = agreed[g]
                                       /\ g \in savedHere' <=> g \in savedHere
                                       /\ g \in savedThere' <=> g \in savedThere
<1>1. /\ pc = "remove" /\ local' = local /\ remote' = remote /\ NoteAgreement(Orphans)
      /\ row' = [g \in Files |-> IF g \in Orphans THEN Untracked ELSE row[g]]
      /\ TypeOK /\ Orphans \subseteq Files
  BY DEF FinishCycle, ScansStillProve, Orphans, Tracked
<1>2. \A g \in Orphans : local[g] = Absent /\ remote[g] = Missing
  BY <1>1 DEF Orphans, MayDelete, SeenLocally, SeenRemotely, ScansStillProve, UnseenIsGone
<1>3. \A g \in Orphans : local'[g] = remote'[g].content
  BY <1>1, <1>2 DEF Missing
<1>4. NoteAgreement(Orphans) /\ Orphans \subseteq Files
  BY <1>1
<1>5. \A g \in Orphans : agreed'[g] = local'[g] /\ g \notin savedHere'
  BY <1>3, <1>4 DEF NoteAgreement
<1>6. \A g \in Files \ Orphans : agreed'[g] = agreed[g]
  BY <1>4 DEF NoteAgreement
<1>7. \A g \in Files \ Orphans : /\ g \in savedHere' <=> g \in savedHere
                                 /\ g \in savedThere' <=> g \in savedThere
  BY <1>4 DEF NoteAgreement
<1>8. /\ \A g \in Orphans : g \in Files /\ row'[g] = Untracked
      /\ \A g \in Files \ Orphans : row'[g] = row[g]
  BY <1>1, <1>4
<1>9. local' = local /\ remote' = remote /\ \A g \in Orphans : local'[g] = Absent
  BY <1>1, <1>2
<1>10. ASSUME NEW g \in Orphans
       PROVE  /\ g \in Files /\ row'[g] = Untracked /\ local[g] = Absent /\ remote[g] = Missing
              /\ agreed'[g] = Absent /\ g \notin savedHere'
  BY <1>2, <1>5, <1>8, <1>9
<1>11. ASSUME NEW g \in Files \ Orphans
       PROVE  /\ row'[g] = row[g] /\ agreed'[g] = agreed[g]
              /\ g \in savedHere' <=> g \in savedHere
              /\ g \in savedThere' <=> g \in savedThere
  BY <1>6, <1>7, <1>8
<1> QED
  BY <1>9, <1>10, <1>11

\* The scans, the guards and the ends of a cycle touch no file and no row.
LEMMA RestTouchesNothing ==
  ASSUME CycleStep
  PROVE  \/ \E f \in Files : HandleFile(f)
         \/ \E f \in Files : RemoveLocal(f)
         \/ FinishCycle
         \/ UNCHANGED files
BY DEF CycleStep, StartCycle, ScanFresh, ScanCached, ScanIncomplete, AskFirstRun,
       AbortTruncated, BeginFiles, ParkDeletions, BeginRemovals, AbandonCycle

-----------------------------------------------------------------------------
(* The iCloud side follows this computer only where it was edited, if      *)
(* nobody edits while a cycle runs, whatever fails.                        *)

\* A file that this user has not written since it was last in step is on disk
\* as agreed, and its row, if it is there, describes it.
HereKnown(f) ==
  f \notin savedHere =>
    /\ local[f] = agreed[f]
    /\ row[f].tracked <=> local[f] # Absent
    /\ row[f].tracked => row[f].hash = Head(local[f])

LocalSideKnown == \A f \in Files : HereKnown(f)

\* What a visit may rely on.
LEMMA VisitSees ==
  ASSUME ScansStillProve, NEW f \in Files, HandleFile(f)
  PROVE  /\ TypeOK /\ pc = "files" /\ f \in todo /\ seen[f] = local[f]
         /\ fresh => view[f] = remote[f]
BY HandleFileVisits DEF Visit, ScansStillProve, SeenIsCurrent, ListingHolds

\* Where the comparison finds a change on disk, the user has written the file.
LEMMA ChangeIsHere ==
  ASSUME LocalSideKnown, NEW f \in Files, seen[f] = local[f],
         \/ seen[f] # Absent /\ LocalChanged(f)
         \/ seen[f] = Absent /\ row[f].tracked
  PROVE  f \in savedHere
BY DEF LocalSideKnown, HereKnown, LocalChanged

\* A file that is not touched stays known.
LEMMA OtherStaysKnown ==
  ASSUME LocalSideKnown, NEW f \in Files, OnlyAt(f), HereKnown(f)'
  PROVE  LocalSideKnown'
BY DEF LocalSideKnown, HereKnown, OnlyAt

\* An upload records the file as it is on disk.
LEMMA UploadKnown ==
  ASSUME TypeOK, NEW f \in Files, HereKnown(f), local[f] # Absent, NEW r, Upload(f, r),
         r = row[f] \/ (r.tracked /\ r.hash = Head(local[f]))
  PROVE  HereKnown(f)'
<1>1. local' = local
  BY DEF Upload, UploadDone, UploadFailed
<1>2. CASE UploadDone(f)
  <2>1. row'[f].tracked /\ row'[f].hash = Head(local[f])
    BY <1>2, SetRowAtOne DEF UploadDone, Row
  <2>2. local'[f] = remote'[f].content
    BY <1>1, <1>2 DEF UploadDone, TypeOK
  <2>3. agreed'[f] = local'[f]
    BY <1>2, <2>2, AgreementNoted DEF UploadDone
  <2> QED
    BY <1>1, <2>1, <2>3 DEF HereKnown
<1>3. CASE UploadFailed(f, r)
  <2>1. row'[f] = r /\ UNCHANGED past
    BY <1>3, SetRowAtOne DEF UploadFailed
  <2> QED
    BY <1>1, <2>1 DEF HereKnown, past
<1> QED
  BY <1>2, <1>3 DEF Upload

\* A download records what was fetched; a failed one may spoil only the row of
\* a file that was written here.
LEMMA DownloadKnown ==
  ASSUME TypeOK, NEW f \in Files, HereKnown(f), NEW r, Download(f, r),
         r = row[f] \/ f \in savedHere
  PROVE  HereKnown(f)'
<1>1. CASE DownloadDone(f)
  <2>1. remote[f].content # Absent /\ remote' = remote
    BY <1>1, VersionFields DEF DownloadDone, TypeOK
  <2>2. local'[f] = remote'[f].content
    BY <1>1, <2>1 DEF DownloadDone, TypeOK
  <2>3. row'[f].tracked /\ row'[f].hash = Head(local'[f])
    BY <1>1, <2>1, <2>2, SetRowAtOne DEF DownloadDone, Row
  <2>4. agreed'[f] = local'[f]
    BY <1>1, <2>2, AgreementNoted DEF DownloadDone
  <2> QED
    BY <2>1, <2>2, <2>3, <2>4 DEF HereKnown
<1>2. CASE DownloadFailed(f, r)
  <2>1. row'[f] = r /\ local' = local /\ UNCHANGED past
    BY <1>2, SetRowAtOne DEF DownloadFailed
  <2> QED
    BY <2>1 DEF HereKnown, past
<1> QED
  BY <1>1, <1>2 DEF Download

\* A branch of the loop keeps the file known, and changes its iCloud copy only
\* if the user has written it.
LEMMA VisitKnows ==
  ASSUME ScansStillProve, LocalSideKnown, NEW f \in Files, HandleFile(f)
  PROVE  HereKnown(f)' /\ (remote'[f] # remote[f] => f \in savedHere)
<1>1. TypeOK /\ HereKnown(f) /\ seen[f] = local[f]
  BY VisitSees DEF LocalSideKnown
<1>2. CASE SkipUnchanged(f) \/ ConflictSkip(f) \/ LeaveMissing(f) \/ ProposeRemoval(f)
  BY <1>1, <1>2 DEF SkipUnchanged, ConflictSkip, LeaveMissing, ProposeRemoval, files, past,
                    HereKnown
<1>3. CASE RecordSameSize(f)
  <2>1. local' = local /\ remote' = remote /\ local[f] # Absent
    BY <1>1, <1>3 DEF RecordSameSize, OnBoth
  <2>2. row'[f].tracked /\ row'[f].hash = Head(local[f])
    BY <1>1, <1>3, SetRowAtOne DEF RecordSameSize, Row
  <2>3. agreed'[f] = local'[f] \/ (agreed'[f] = agreed[f] /\ (f \in savedHere' <=> f \in savedHere))
    BY <1>1, <1>3, AgreementNoted DEF RecordSameSize
  <2> QED
    BY <1>1, <2>1, <2>2, <2>3 DEF HereKnown
<1>4. CASE ConflictUpload(f) \/ UploadChange(f) \/ UploadNew(f)
  <2>1. PICK r : Upload(f, r) /\ (r = row[f] \/ r = ResolverRow(f, "upload"))
    BY <1>4 DEF ConflictUpload, UploadChange, UploadNew
  <2>2. r = row[f] \/ (r.tracked /\ r.hash = Head(local[f]))
    BY <1>1, <2>1 DEF ResolverRow, Row
  <2>3. local[f] # Absent /\ LocalChanged(f)
    BY <1>1, <1>4 DEF ConflictUpload, UploadChange, UploadNew, Conflict, OnBoth, OnlyLocal,
                      LocalChanged
  <2> QED
    BY <1>1, <2>1, <2>2, <2>3, UploadKnown, ChangeIsHere
<1>5. CASE ConflictDownload(f) \/ DownloadChange(f) \/ DownloadNew(f)
  <2>1. PICK r : Download(f, r) /\ (r = row[f] \/ ConflictDownload(f))
    BY <1>5 DEF ConflictDownload, DownloadChange, DownloadNew
  <2>2. ConflictDownload(f) => f \in savedHere
    BY <1>1, ChangeIsHere DEF ConflictDownload, Conflict, OnBoth
  <2>3. remote' = remote
    BY <2>1 DEF Download, DownloadDone, DownloadFailed
  <2> QED
    BY <1>1, <2>1, <2>2, <2>3, DownloadKnown
<1>6. CASE RemoveRemote(f)
  <2>1. local' = local /\ local[f] = Absent /\ row[f].tracked
    BY <1>1, <1>6 DEF RemoveRemote, OnlyRemote
  <2>2. f \in savedHere
    BY <1>1, <2>1, ChangeIsHere
  <2>3. CASE UNCHANGED <<remote, row, past>>
    BY <1>1, <2>1, <2>3 DEF HereKnown, past
  <2>4. CASE /\ remote' = [remote EXCEPT ![f] = Missing]
             /\ SetRow(f, Untracked) /\ NoteAgreement({f})
    <3>1. local'[f] = remote'[f].content
      BY <1>1, <2>1, <2>4 DEF TypeOK, Missing
    <3>2. agreed'[f] = Absent /\ ~row'[f].tracked
      BY <1>1, <2>1, <2>4, <3>1, AgreementNoted, SetRowAtOne DEF Untracked
    <3> QED
      BY <2>1, <2>2, <3>2 DEF HereKnown
  <2> QED
    BY <1>6, <2>3, <2>4 DEF RemoveRemote
<1> QED
  BY <1>2, <1>3, <1>4, <1>5, <1>6 DEF HandleFile

\* A file that is removed here is gone from iCloud: both sides agree on that.
LEMMA RemovalKnows ==
  ASSUME ScansStillProve, LocalSideKnown, NEW f \in Files, RemoveLocal(f)
  PROVE  HereKnown(f)'
<1>1. TypeOK /\ HereKnown(f) /\ remote' = remote /\ remote[f] = Missing
  BY DEF RemoveLocal, ScansStillProve, CandidatesAreGone, LocalSideKnown
<1>2. CASE UNCHANGED <<local, row, past>>
  BY <1>1, <1>2 DEF HereKnown, past
<1>3. CASE /\ local' = [local EXCEPT ![f] = Absent]
           /\ SetRow(f, Untracked) /\ NoteAgreement({f})
  <2>1. local'[f] = Absent /\ local'[f] = remote'[f].content
    BY <1>1, <1>3 DEF TypeOK, Missing
  <2>2. agreed'[f] = Absent /\ ~row'[f].tracked
    BY <1>1, <1>3, <2>1, AgreementNoted, SetRowAtOne DEF Untracked
  <2> QED
    BY <2>1, <2>2 DEF HereKnown
<1> QED
  BY <1>2, <1>3 DEF RemoveLocal

\* The iCloud copies the engine changes are of files that were written here.
FollowsHere == \A f \in Files : EngineActs /\ remote'[f] # remote[f] => f \in savedHere

RemoteFollowsEdits == [][FollowsHere]_vars

\* A step of a cycle keeps every file known, and touches iCloud for edits only.
LEMMA CycleKnows ==
  ASSUME ScansStillProve, LocalSideKnown, CycleStep
  PROVE  LocalSideKnown' /\ \A f \in Files : remote'[f] # remote[f] => f \in savedHere
<1>1. ASSUME NEW f \in Files, HandleFile(f)
      PROVE  LocalSideKnown' /\ \A g \in Files : remote'[g] # remote[g] => g \in savedHere
  <2>1. OnlyAt(f)
    BY <1>1, HandleFileTouchesOne DEF ScansStillProve
  <2> QED
    BY <1>1, <2>1, VisitKnows, OtherStaysKnown DEF OnlyAt
<1>2. ASSUME NEW f \in Files, RemoveLocal(f)
      PROVE  LocalSideKnown' /\ remote' = remote
  <2>1. OnlyAt(f)
    BY <1>2, RemoveLocalTouchesOne DEF ScansStillProve
  <2> QED
    BY <1>2, <2>1, RemovalKnows, OtherStaysKnown DEF RemoveLocal
<1>3. CASE FinishCycle
  <2>1. ASSUME NEW g \in Files PROVE HereKnown(g)'
    <3>1. CASE g \in Orphans
      BY <1>3, <3>1, PurgeNotes DEF HereKnown, Untracked
    <3>2. CASE g \notin Orphans
      BY <1>3, <3>2, PurgeNotes DEF LocalSideKnown, HereKnown
    <3> QED
      BY <3>1, <3>2
  <2> QED
    BY <1>3, <2>1, PurgeNotes DEF LocalSideKnown
<1>4. CASE UNCHANGED files
  BY <1>4 DEF files, past, LocalSideKnown, HereKnown
<1> QED
  BY <1>1, <1>2, <1>3, <1>4, RestTouchesNothing

\* An edit here is noted, one elsewhere leaves this side alone.
LEMMA EditKnows ==
  ASSUME TypeOK, LocalSideKnown, EnvironmentStep
  PROVE  LocalSideKnown'
<1>1. PICK f \in Files : EditLocal(f) \/ EditRemote(f)
  BY DEF EnvironmentStep
<1>2. CASE EditLocal(f)
  BY <1>2 DEF EditLocal, LocalSideKnown, HereKnown, TypeOK
<1>3. CASE EditRemote(f)
  BY <1>3 DEF EditRemote, LocalSideKnown, HereKnown
<1> QED
  BY <1>1, <1>2, <1>3

\* Every step.
LEMMA StepKnows ==
  ScansStillProve /\ LocalSideKnown /\ [Next]_vars => LocalSideKnown' /\ FollowsHere
<1> SUFFICES ASSUME ScansStillProve, LocalSideKnown, [Next]_vars
             PROVE  LocalSideKnown' /\ FollowsHere
  OBVIOUS
<1>1. CASE CycleStep
  BY <1>1, CycleKnows DEF FollowsHere
<1>2. CASE EnvironmentStep
  <2>1. ~EngineActs
    BY <1>2 DEF EnvironmentStep, EditLocal, EditRemote, EngineActs, loop
  <2> QED
    BY <1>2, <2>1, EditKnows DEF ScansStillProve, FollowsHere
<1>3. CASE UNCHANGED vars
  BY <1>3 DEF vars, files, past, LocalSideKnown, HereKnown, FollowsHere
<1> QED
  BY <1>1, <1>2, <1>3 DEF Next

\* Whatever fails, and however old the listing is: the engine replaces or
\* deletes a file on iCloud only if this user has written or deleted it since
\* the two sides were last in step.
THEOREM RemoteFollowsEditsOnly ==
  ASSUME ~EditsDuringCycle
  PROVE  Spec => RemoteFollowsEdits
<1>1. Init => LocalSideKnown
  BY DEF Init, LocalSideKnown, HereKnown, Untracked
<1>2. Spec => []ScansStillProve
  BY ScansAreStillTrue
<1> QED
  BY <1>1, <1>2, StepKnows, PTL DEF Spec, RemoteFollowsEdits

\* An edit made on another device is overwritten or deleted only when this
\* computer changed the file too.
THEOREM RemoteEditsAreKept ==
  ASSUME ~EditsDuringCycle
  PROVE  Spec => RemoteEditsSurvive
<1> DEFINE Kept == \A f \in Files :
                     EngineActs /\ fresh /\ remote'[f] # remote[f] =>
                       remote[f].content = agreed[f] \/ f \in savedHere
<1>1. Spec => [][FollowsHere]_vars
  BY RemoteFollowsEditsOnly DEF RemoteFollowsEdits
<1>2. [FollowsHere]_vars => [Kept]_vars
  BY DEF FollowsHere
<1> QED
  BY <1>1, <1>2, PTL DEF RemoteEditsSurvive

-----------------------------------------------------------------------------
(* This side follows iCloud only where that was edited, if every cycle     *)
(* works from a fresh listing and what an upload did is seen at once.      *)

RemoteIsSeen ==
  ~EditsDuringCycle /\ Faults \cap {"cachedScan", "uploadLost", "uploadUnlisted"} = {}

\* A file that no other device has written since a row carried the stamp of its
\* iCloud version is tracked with that stamp, or neither tracked nor there.
ThereKnown(f) ==
  f \notin savedThere =>
    /\ row[f].tracked <=> remote[f] # Missing
    /\ row[f].tracked => row[f].etag = remote[f].etag

RemoteSideKnown ==
  /\ \A f \in Files : ThereKnown(f)
  /\ pc \in {"guards", "files", "remove"} => fresh
  /\ pc \in {"files", "remove"} => \A f \in candidates : row[f].tracked

\* Where the comparison finds a change on iCloud, another device has made it.
LEMMA ChangeIsThere ==
  ASSUME NEW f \in Files, ThereKnown(f), view[f] = remote[f],
         \/ remote[f] # Missing /\ RemoteChanged(f)
         \/ remote[f] = Missing /\ row[f].tracked
  PROVE  f \in savedThere
BY DEF ThereKnown, RemoteChanged

\* Whatever the history says, a file is known after a step that leaves a row with
\* the stamp iCloud shows, or no row for a file that is gone.
LEMMA InStepIsKnown ==
  ASSUME NEW f \in Files,
         \/ row'[f].tracked /\ remote'[f] # Missing /\ row'[f].etag = remote'[f].etag
         \/ ~row'[f].tracked /\ remote'[f] = Missing
  PROVE  ThereKnown(f)'
BY DEF ThereKnown

\* An upload that was not refused ends with the stamp it made.
LEMMA UploadKnownThere ==
  ASSUME RemoteIsSeen, TypeOK, NEW f \in Files, ThereKnown(f), local[f] # Absent,
         NEW r, Upload(f, r),
         r = row[f] \/ (r.tracked /\ remote[f] # Missing /\ r.etag = remote[f].etag)
  PROVE  ThereKnown(f)'
<1>1. CASE UploadDone(f)
  <2> DEFINE new == [content |-> local[f], etag |-> NewEtag(f)]
  <2>1. SetRow(f, Row(Head(local[f]), new.etag))
    BY <1>1 DEF UploadDone, RemoteIsSeen
  <2>2. row'[f] = Row(Head(local[f]), new.etag)
    BY <2>1, SetRowAtOne
  <2>3. remote'[f] = new /\ new # Missing
    BY <1>1 DEF UploadDone, TypeOK, Missing
  <2> QED
    BY <2>2, <2>3, InStepIsKnown DEF Row
<1>2. CASE UploadFailed(f, r)
  <2>1. remote' = remote /\ row'[f] = r /\ UNCHANGED past
    BY <1>2, SetRowAtOne DEF UploadFailed, RemoteIsSeen
  <2> QED
    BY <2>1 DEF ThereKnown, past
<1> QED
  BY <1>1, <1>2 DEF Upload

\* A download, done or not, leaves the row as it was or with the stamp it saw.
LEMMA DownloadKnownThere ==
  ASSUME TypeOK, NEW f \in Files, ThereKnown(f), view[f] = remote[f], NEW r, Download(f, r),
         r = row[f] \/ (r.tracked /\ remote[f] # Missing /\ r.etag = remote[f].etag)
  PROVE  ThereKnown(f)'
<1>1. CASE DownloadDone(f)
  <2>1. remote' = remote /\ remote[f] # Missing
    BY <1>1 DEF DownloadDone
  <2>2. row'[f] = Row(Head(remote[f].content), view[f].etag)
    BY <1>1, SetRowAtOne DEF DownloadDone
  <2> QED
    BY <2>1, <2>2, InStepIsKnown DEF Row
<1>2. CASE DownloadFailed(f, r)
  <2>1. remote' = remote /\ row'[f] = r /\ UNCHANGED past
    BY <1>2, SetRowAtOne DEF DownloadFailed
  <2> QED
    BY <2>1 DEF ThereKnown, past
<1> QED
  BY <1>1, <1>2 DEF Download

\* A branch of the loop keeps the file known, and changes it on disk only if
\* another device has written it.
LEMMA VisitKnowsThere ==
  ASSUME RemoteIsSeen, ScansStillProve, RemoteSideKnown, NEW f \in Files, HandleFile(f)
  PROVE  ThereKnown(f)' /\ (local'[f] # local[f] => f \in savedThere)
<1>1. /\ TypeOK /\ ThereKnown(f) /\ seen[f] = local[f] /\ view[f] = remote[f]
      /\ remote[f].content = Absent <=> remote[f] = Missing
  BY VisitSees, VersionFields DEF RemoteSideKnown, TypeOK
<1>2. CASE SkipUnchanged(f) \/ ConflictSkip(f) \/ LeaveMissing(f) \/ ProposeRemoval(f)
  BY <1>1, <1>2 DEF SkipUnchanged, ConflictSkip, LeaveMissing, ProposeRemoval, files, past,
                    ThereKnown
<1>3. CASE RecordSameSize(f)
  <2>1. local' = local /\ remote' = remote /\ remote[f] # Missing
    BY <1>1, <1>3 DEF RecordSameSize, OnBoth
  <2>2. row'[f] = Row(Head(local[f]), view[f].etag)
    BY <1>1, <1>3, SetRowAtOne DEF RecordSameSize
  <2> QED
    BY <1>1, <2>1, <2>2, InStepIsKnown DEF Row
<1>4. CASE ConflictUpload(f) \/ UploadChange(f) \/ UploadNew(f)
  <2>1. PICK r : /\ Upload(f, r)
                 /\ r = row[f] \/ (r = ResolverRow(f, "upload") /\ remote[f] # Missing)
    BY <1>1, <1>4 DEF ConflictUpload, Conflict, OnBoth, UploadChange, UploadNew
  <2>2. r = row[f] \/ (r.tracked /\ remote[f] # Missing /\ r.etag = remote[f].etag)
    BY <1>1, <2>1 DEF ResolverRow, Row
  <2>3. local[f] # Absent /\ local' = local
    BY <1>1, <1>4 DEF ConflictUpload, UploadChange, UploadNew, Conflict, OnBoth, OnlyLocal,
                      Upload, UploadDone, UploadFailed
  <2> QED
    BY <1>1, <2>1, <2>2, <2>3, UploadKnownThere
<1>5. CASE ConflictDownload(f) \/ DownloadChange(f) \/ DownloadNew(f)
  <2>1. remote[f] # Missing /\ RemoteChanged(f)
    BY <1>1, <1>5 DEF ConflictDownload, DownloadChange, DownloadNew, Conflict, OnBoth,
                      OnlyRemote, RemoteChanged
  <2>2. PICK r : Download(f, r) /\ (r = row[f] \/ r = ResolverRow(f, "download"))
    BY <1>5 DEF ConflictDownload, DownloadChange, DownloadNew
  <2>3. r = row[f] \/ (r.tracked /\ r.etag = remote[f].etag)
    BY <1>1, <2>2 DEF ResolverRow, Row
  <2> QED
    BY <1>1, <2>1, <2>2, <2>3, DownloadKnownThere, ChangeIsThere
<1>6. CASE RemoveRemote(f)
  <2>1. CASE UNCHANGED <<remote, row, past>>
    BY <1>1, <1>6, <2>1 DEF RemoveRemote, ThereKnown, past
  <2>2. CASE remote' = [remote EXCEPT ![f] = Missing] /\ SetRow(f, Untracked)
    <3>1. remote'[f] = Missing /\ ~row'[f].tracked /\ local' = local
      BY <1>1, <1>6, <2>2, SetRowAtOne DEF RemoveRemote, TypeOK, Untracked
    <3> QED
      BY <3>1, InStepIsKnown
  <2> QED
    BY <1>6, <2>1, <2>2 DEF RemoveRemote
<1> QED
  BY <1>2, <1>3, <1>4, <1>5, <1>6 DEF HandleFile

\* A file removed here is gone from iCloud, where another device deleted it.
LEMMA RemovalKnowsThere ==
  ASSUME ScansStillProve, RemoteSideKnown, NEW f \in Files, RemoveLocal(f)
  PROVE  ThereKnown(f)' /\ f \in savedThere
<1>1. /\ TypeOK /\ ThereKnown(f) /\ remote' = remote /\ remote[f] = Missing
      /\ row[f].tracked
  BY DEF RemoveLocal, ScansStillProve, CandidatesAreGone, RemoteSideKnown
<1>2. f \in savedThere
  BY <1>1 DEF ThereKnown
<1>3. CASE UNCHANGED <<local, row, past>>
  BY <1>1, <1>2, <1>3 DEF ThereKnown, past
<1>4. CASE SetRow(f, Untracked)
  <2>1. ~row'[f].tracked
    BY <1>1, <1>4, SetRowAtOne DEF Untracked
  <2> QED
    BY <1>1, <1>2, <2>1, InStepIsKnown
<1> QED
  BY <1>2, <1>3, <1>4 DEF RemoveLocal

\* The files the engine changes here are ones that others have written.
FollowsThere == \A f \in Files : EngineActs /\ local'[f] # local[f] => f \in savedThere

LocalFollowsEdits == [][FollowsThere]_vars

\* Candidates are tracked files, in fresh cycles.
LEMMA CandidatesStayTracked ==
  ASSUME RemoteIsSeen, ScansStillProve, RemoteSideKnown, [Next]_vars
  PROVE  /\ pc' \in {"guards", "files", "remove"} => fresh'
         /\ pc' \in {"files", "remove"} => \A f \in candidates' : row'[f].tracked
<1> USE DEF RemoteSideKnown
<1>1. CASE pc' \notin {"guards", "files", "remove"}
  BY <1>1
<1>2. CASE ScanFresh \/ ScanCached
  BY <1>2 DEF ScanFresh, ScanCached, RemoteIsSeen
<1>3. CASE BeginFiles
  BY <1>3 DEF BeginFiles, scan
<1>4. ASSUME NEW f \in Files, HandleFile(f)
      PROVE  fresh' /\ \A g \in candidates' : row'[g].tracked
  <2>1. pc = "files" /\ pc' = "files" /\ fresh' = fresh /\ f \in todo
    BY <1>4, HandleFileVisits DEF Visit, Visited
  <2>2. OnlyAt(f) /\ f \notin candidates /\ candidates \subseteq Files
    BY <1>4, <2>1, HandleFileTouchesOne DEF ScansStillProve, CandidatesAreGone, TypeOK
  <2>3. \/ candidates' = candidates
        \/ candidates' = candidates \cup {f} /\ row[f].tracked /\ row' = row
    BY <1>4 DEF HandleFile, SkipUnchanged, RecordSameSize, ConflictUpload, ConflictDownload,
                ConflictSkip, UploadChange, DownloadChange, UploadNew, DownloadNew,
                ProposeRemoval, RemoveRemote, LeaveMissing, Upload, Download, files
  <2> QED
    BY <2>1, <2>2, <2>3 DEF OnlyAt
<1>5. CASE BeginRemovals
  BY <1>5 DEF BeginRemovals, scan, loop, files
<1>6. ASSUME NEW f \in Files, RemoveLocal(f)
      PROVE  fresh' /\ \A g \in candidates' : row'[g].tracked
  <2>1. OnlyAt(f) /\ candidates' = candidates \ {f} /\ candidates \subseteq Files
    BY <1>6, RemoveLocalTouchesOne DEF RemoveLocal, ScansStillProve, TypeOK
  <2> QED
    BY <1>6, <2>1 DEF RemoveLocal, scan, OnlyAt
<1>7. CASE EnvironmentStep \/ UNCHANGED vars
  BY <1>7 DEF EnvironmentStep, EditLocal, EditRemote, vars, files, scan, loop
<1> QED
  BY <1>1, <1>2, <1>3, <1>4, <1>5, <1>6, <1>7
     DEF Next, CycleStep, StartCycle, ScanIncomplete, AskFirstRun, AbortTruncated,
         ParkDeletions, FinishCycle, AbandonCycle, EndCycle

\* Every step.
LEMMA StepKnowsThere ==
  RemoteIsSeen /\ ScansStillProve /\ RemoteSideKnown /\ [Next]_vars =>
    RemoteSideKnown' /\ FollowsThere
<1> SUFFICES ASSUME RemoteIsSeen, ScansStillProve, RemoteSideKnown, [Next]_vars
             PROVE  /\ \A f \in Files : ThereKnown(f)'
                    /\ FollowsThere
  BY CandidatesStayTracked DEF RemoteSideKnown
<1> USE DEF FollowsThere
<1>1. ASSUME NEW f \in Files, HandleFile(f)
      PROVE  (\A g \in Files : ThereKnown(g)') /\ FollowsThere
  <2>1. OnlyAt(f)
    BY <1>1, HandleFileTouchesOne DEF ScansStillProve
  <2> QED
    BY <1>1, <2>1, VisitKnowsThere DEF OnlyAt, RemoteSideKnown, ThereKnown
<1>2. ASSUME NEW f \in Files, RemoveLocal(f)
      PROVE  (\A g \in Files : ThereKnown(g)') /\ FollowsThere
  <2>1. OnlyAt(f)
    BY <1>2, RemoveLocalTouchesOne DEF ScansStillProve
  <2> QED
    BY <1>2, <2>1, RemovalKnowsThere DEF OnlyAt, RemoteSideKnown, ThereKnown
<1>3. CASE FinishCycle
  <2>1. ASSUME NEW g \in Files PROVE ThereKnown(g)'
    <3>1. CASE g \in Orphans
      BY <1>3, <3>1, PurgeNotes, InStepIsKnown DEF Untracked
    <3>2. CASE g \notin Orphans
      BY <1>3, <3>2, PurgeNotes DEF RemoteSideKnown, ThereKnown
    <3> QED
      BY <3>1, <3>2
  <2> QED
    BY <1>3, <2>1, PurgeNotes
<1>4. CASE UNCHANGED files
  BY <1>4 DEF files, past, RemoteSideKnown, ThereKnown
<1>5. CASE EnvironmentStep
  <2>1. ~EngineActs
    BY <1>5 DEF EnvironmentStep, EditLocal, EditRemote, EngineActs, loop
  <2>2. ASSUME NEW f \in Files, EditLocal(f) PROVE \A g \in Files : ThereKnown(g)'
    BY <2>2 DEF EditLocal, RemoteSideKnown, ThereKnown
  <2>3. ASSUME NEW f \in Files, EditRemote(f) PROVE \A g \in Files : ThereKnown(g)'
    BY <2>3 DEF EditRemote, RemoteSideKnown, ThereKnown, ScansStillProve, TypeOK
  <2> QED
    BY <1>5, <2>1, <2>2, <2>3 DEF EnvironmentStep
<1>6. CASE UNCHANGED vars
  BY <1>4, <1>6 DEF vars
<1> QED
  BY <1>1, <1>2, <1>3, <1>4, <1>5, <1>6, RestTouchesNothing DEF Next

\* The engine replaces or removes a local file only if another device has
\* written or deleted it since the two sides were last in step.
THEOREM LocalFollowsEditsOnly ==
  ASSUME RemoteIsSeen
  PROVE  Spec => LocalFollowsEdits
<1>1. Init => RemoteSideKnown
  BY DEF Init, RemoteSideKnown, ThereKnown, Untracked, Missing
<1>2. Spec => []ScansStillProve
  BY ScansAreStillTrue DEF RemoteIsSeen
<1>3. ScansStillProve /\ RemoteSideKnown /\ [Next]_vars => RemoteSideKnown' /\ FollowsThere
  BY StepKnowsThere
<1> QED
  BY <1>1, <1>2, <1>3, PTL DEF Spec, LocalFollowsEdits

\* A one-sided local edit is never lost to a download or to a deletion.
THEOREM LocalEditsAreKept ==
  ASSUME RemoteIsSeen
  PROVE  Spec => LocalEditsSurvive
<1> DEFINE Kept == \A f \in Files :
                     EngineActs /\ local'[f] # local[f] =>
                       local[f] = agreed[f] \/ f \in savedThere
<1>1. Spec => [][FollowsThere]_vars
  BY LocalFollowsEditsOnly DEF LocalFollowsEdits
<1>2. [FollowsThere]_vars => [Kept]_vars
  BY DEF FollowsThere
<1> QED
  BY <1>1, <1>2, PTL DEF LocalEditsSurvive

-----------------------------------------------------------------------------
(* The cycle implements TwoCopies.                                         *)

\* What a step settles on f, it settles because both sides are the same.
LEMMA AgreementSettles ==
  ASSUME TypeOK, NEW f \in Files, NoteAgreement({f}) \/ UNCHANGED past,
         local'[f] = view[f].content => local'[f] = remote'[f].content
  PROVE  Promise!Settle
<1>1. CASE NoteAgreement({f})
  <2>1. /\ savedHere' \subseteq savedHere /\ savedThere' \subseteq savedThere
        /\ (savedHere \ savedHere') \cup (savedThere \ savedThere') \subseteq {f}
        /\ f \in (savedHere \ savedHere') \cup (savedThere \ savedThere') =>
             local'[f] \in {remote'[f].content, view[f].content}
    BY <1>1 DEF NoteAgreement
  <2> QED
    BY <2>1 DEF Promise!Settle
<1>2. CASE UNCHANGED past
  BY <1>2 DEF past, Promise!Settle
<1> QED
  BY <1>1, <1>2

\* A step that leaves f alone, or gives one side what the other one holds.
Copies(f) ==
  \/ local' = local /\ remote' = remote
  \/ /\ local' = local
     /\ \E v : v.content = local[f] /\ remote' = [remote EXCEPT ![f] = v]
  \/ remote' = remote /\ local' = [local EXCEPT ![f] = remote[f].content]

\* Such a step is one of TwoCopies when it copies only what was saved.
LEMMA CopyingIsPromised ==
  ASSUME TypeOK, NEW f \in Files, Copies(f), NoteAgreement({f}) \/ UNCHANGED past,
         view[f].content = remote[f].content,
         remote'[f] # remote[f] => f \in savedHere,
         local'[f] # local[f] => f \in savedThere
  PROVE  Promise!CopyThere(f) \/ Promise!CopyHere(f) \/ Promise!Compare
<1>1. CASE local' = local /\ remote' = remote
  <2>1. Promise!Settle
    BY <1>1, AgreementSettles
  <2> QED
    BY <1>1, <2>1 DEF Promise!Compare
<1>2. ASSUME NEW v, v.content = local[f], remote' = [remote EXCEPT ![f] = v], local' = local
      PROVE  Promise!CopyThere(f) \/ Promise!Compare
  <2>1. local'[f] = remote'[f].content
    BY <1>2 DEF TypeOK
  <2>2. Promise!Settle
    BY <2>1, AgreementSettles
  <2>3. CASE remote'[f] = remote[f]
    <3>1. remote' = remote
      BY <1>2, <2>3 DEF TypeOK
    <3> QED
      BY <1>2, <2>2, <3>1 DEF Promise!Compare
  <2>4. CASE remote'[f] # remote[f]
    <3>1. [g \in Files |-> remote[g].content]'
            = [[g \in Files |-> remote[g].content] EXCEPT ![f] = local[f]]
      BY <1>2 DEF TypeOK
    <3> QED
      BY <1>2, <2>2, <2>4, <3>1 DEF Promise!CopyThere
  <2> QED
    BY <2>3, <2>4
<1>3. CASE remote' = remote /\ local' = [local EXCEPT ![f] = remote[f].content]
  <2>1. local'[f] = remote'[f].content
    BY <1>3 DEF TypeOK
  <2>2. Promise!Settle
    BY <2>1, AgreementSettles
  <2>3. CASE local'[f] = local[f]
    <3>1. local' = local
      BY <1>3, <2>3 DEF TypeOK
    <3> QED
      BY <1>3, <2>2, <3>1 DEF Promise!Compare
  <2>4. CASE local'[f] # local[f]
    BY <1>3, <2>2, <2>4 DEF Promise!CopyHere
  <2> QED
    BY <2>3, <2>4
<1> QED
  BY <1>1, <1>2, <1>3 DEF Copies

\* A branch of the loop copies, or leaves the file alone.
LEMMA VisitCopies ==
  ASSUME RemoteIsSeen, ScansStillProve, fresh, NEW f \in Files, HandleFile(f)
  PROVE  Copies(f) /\ (NoteAgreement({f}) \/ UNCHANGED past)
<1>1. TypeOK /\ seen[f] = local[f] /\ view[f] = remote[f]
  BY VisitSees
<1>2. CASE SkipUnchanged(f) \/ ConflictSkip(f) \/ LeaveMissing(f) \/ ProposeRemoval(f)
  BY <1>2 DEF SkipUnchanged, ConflictSkip, LeaveMissing, ProposeRemoval, files, Copies
<1>3. CASE RecordSameSize(f)
  BY <1>3 DEF RecordSameSize, Copies
<1>4. CASE ConflictUpload(f) \/ UploadChange(f) \/ UploadNew(f)
  <2>1. local[f] # Absent
    BY <1>1, <1>4 DEF ConflictUpload, UploadChange, UploadNew, Conflict, OnBoth, OnlyLocal
  <2>2. PICK r : UploadDone(f) \/ UploadFailed(f, r)
    BY <1>4 DEF ConflictUpload, UploadChange, UploadNew, Upload
  <2>3. CASE UploadDone(f)
    BY <2>3 DEF UploadDone, Copies
  <2>4. CASE UploadFailed(f, r)
    BY <2>1, <2>4 DEF UploadFailed, RemoteIsSeen, Copies
  <2> QED
    BY <2>2, <2>3, <2>4
<1>5. CASE ConflictDownload(f) \/ DownloadChange(f) \/ DownloadNew(f)
  <2>1. PICK r : DownloadDone(f) \/ DownloadFailed(f, r)
    BY <1>5 DEF ConflictDownload, DownloadChange, DownloadNew, Download
  <2> QED
    BY <2>1 DEF DownloadDone, DownloadFailed, Copies
<1>6. CASE RemoveRemote(f)
  <2>1. local[f] = Absent /\ local' = local
    BY <1>1, <1>6 DEF RemoveRemote, OnlyRemote
  <2>2. CASE UNCHANGED <<remote, row, past>>
    BY <2>1, <2>2 DEF Copies
  <2>3. CASE remote' = [remote EXCEPT ![f] = Missing] /\ NoteAgreement({f})
    BY <2>1, <2>3 DEF Copies, Missing
  <2> QED
    BY <1>6, <2>2, <2>3 DEF RemoveRemote
<1> QED
  BY <1>2, <1>3, <1>4, <1>5, <1>6 DEF HandleFile

LEMMA PromiseInit == Init => Promise!Init
BY DEF Init, Promise!Init, Missing

LEMMA StepKeepsPromise ==
  ASSUME RemoteIsSeen, ScansStillProve, LocalSideKnown, RemoteSideKnown, [Next]_vars
  PROVE  [Promise!Next]_(Promise!vars)
<1>1. ASSUME NEW f \in Files, HandleFile(f)
      PROVE  Promise!Next
  <2>1. pc = "files" /\ fresh /\ TypeOK /\ view[f] = remote[f]
    BY <1>1, VisitSees DEF RemoteSideKnown
  <2>2. Copies(f) /\ (NoteAgreement({f}) \/ UNCHANGED past)
    BY <1>1, <2>1, VisitCopies
  <2>3. /\ remote'[f] # remote[f] => f \in savedHere
        /\ local'[f] # local[f] => f \in savedThere
    BY <1>1, VisitKnows, VisitKnowsThere
  <2> QED
    BY <2>1, <2>2, <2>3, CopyingIsPromised DEF Promise!Next
<1>2. ASSUME NEW f \in Files, RemoveLocal(f)
      PROVE  Promise!Next
  <2>1. /\ TypeOK /\ remote' = remote /\ remote[f] = Missing /\ f \in savedThere
    BY <1>2, RemovalKnowsThere DEF RemoveLocal, ScansStillProve, CandidatesAreGone
  <2>2. CASE UNCHANGED <<local, row, past>>
    BY <2>1, <2>2 DEF past, Promise!Settle, Promise!Compare, Promise!Next
  <2>3. CASE local' = [local EXCEPT ![f] = Absent] /\ NoteAgreement({f})
    <3>1. local'[f] = remote'[f].content /\ remote[f].content = Absent
      BY <2>1, <2>3 DEF TypeOK, Missing
    <3>2. Promise!Settle
      BY <2>1, <2>3, <3>1, AgreementSettles
    <3>3. Promise!CopyHere(f)
      BY <2>1, <2>3, <3>1, <3>2 DEF Promise!CopyHere
    <3> QED
      BY <3>3 DEF Promise!Next
  <2> QED
    BY <1>2, <2>2, <2>3 DEF RemoveLocal
<1>3. CASE FinishCycle
  <2>1. savedHere' \subseteq savedHere /\ savedThere' \subseteq savedThere
    BY <1>3 DEF FinishCycle, NoteAgreement
  <2>2. ASSUME NEW f \in (savedHere \ savedHere') \cup (savedThere \ savedThere')
        PROVE  f \in Files /\ local'[f] = remote'[f].content
    <3>1. f \in Files
      BY <2>2 DEF ScansStillProve, TypeOK
    <3>2. f \in Orphans
      BY <1>3, <2>2, <3>1, PurgeNotes
    <3> QED
      BY <1>3, <3>1, <3>2, PurgeNotes DEF Missing
  <2>3. Promise!Settle
    BY <2>1, <2>2 DEF Promise!Settle
  <2>4. local' = local /\ remote' = remote
    BY <1>3, PurgeNotes
  <2>5. Promise!Next
    BY <2>3, <2>4 DEF Promise!Compare, Promise!Next
  <2> QED
    BY <2>5
<1>4. CASE UNCHANGED files
  BY <1>4 DEF files, past, Promise!vars
<1>5. ASSUME NEW f \in Files, EditLocal(f)
      PROVE  Promise!Next
  <2>1. Promise!SaveHere(f)
    BY <1>5 DEF EditLocal, Promise!SaveHere, Promise!File, File
  <2> QED
    BY <2>1 DEF Promise!Next
<1>6. ASSUME NEW f \in Files, EditRemote(f)
      PROVE  Promise!Next
  <2>1. PICK v \in Version : remote' = [remote EXCEPT ![f] = v]
    BY <1>6, NewEtagIsNew DEF EditRemote, Version, ScansStillProve
  <2>2. v.content \in Promise!File
    BY <2>1, VersionFields DEF Promise!File, File
  <2>3. [g \in Files |-> remote[g].content]'
          = [[g \in Files |-> remote[g].content] EXCEPT ![f] = v.content]
    BY <2>1 DEF ScansStillProve, TypeOK
  <2>4. Promise!SaveThere(f)
    BY <1>6, <2>2, <2>3 DEF EditRemote, Promise!SaveThere
  <2> QED
    BY <2>4 DEF Promise!Next
<1>7. CASE UNCHANGED vars
  BY <1>4, <1>7 DEF vars
<1> QED
  BY <1>1, <1>2, <1>3, <1>4, <1>5, <1>6, <1>7, RestTouchesNothing DEF Next, EnvironmentStep

\* The cycle does nothing to the two sides but copy what was saved, one file at
\* a time, and it forgets that a file was saved only when both sides hold the
\* same: SyncCycle implements TwoCopies.
THEOREM CyclesOnlyCopy ==
  ASSUME RemoteIsSeen
  PROVE  Spec => OnlyCopies
<1>1. Spec => []ScansStillProve
  BY ScansAreStillTrue DEF RemoteIsSeen
<1>2. Init => LocalSideKnown /\ RemoteSideKnown
  BY DEF Init, LocalSideKnown, HereKnown, RemoteSideKnown, ThereKnown, Untracked, Missing
<1>3. /\ ScansStillProve /\ LocalSideKnown /\ [Next]_vars => LocalSideKnown'
      /\ ScansStillProve /\ RemoteSideKnown /\ [Next]_vars => RemoteSideKnown'
  BY StepKnows, StepKnowsThere
<1>4. ScansStillProve /\ LocalSideKnown /\ RemoteSideKnown /\ [Next]_vars
        => [Promise!Next]_(Promise!vars)
  BY StepKeepsPromise
<1> QED
  BY <1>1, <1>2, <1>3, <1>4, PromiseInit, PTL DEF Spec, OnlyCopies, Promise!Spec

-----------------------------------------------------------------------------
(* The strategy decides a conflict, across failed transfers and later      *)
(* cycles.  prefer-remote needs downloads that succeed: a failed one       *)
(* leaves the stamp of the version that should have come, and the next     *)
(* cycle uploads over it.  prefer-local and keep-both need uploads that    *)
(* succeed, for the hash that is recorded before them.                     *)

VerdictsAreCarriedOut ==
  /\ ~EditsDuringCycle /\ FingerprintsIdentify
  /\ Strategy = "prefer-remote" => "downloadFails" \notin Faults
  /\ Strategy \in {"prefer-local", "keep-both"} => {"uploadRefused", "uploadLost"} \cap Faults = {}

\* A row with the stamp of the iCloud version: both sides had that content.
StampFits(f) ==
  row[f].tracked /\ remote[f] # Missing /\ row[f].etag = remote[f].etag
    => remote[f].content = agreed[f]

\* A row with a hash: both sides had a content with that hash.
HashFits(f) == row[f].tracked => row[f].hash \in {NoHash, Head(agreed[f])}

VerdictsStand ==
  \A f \in Files :
    /\ ViewFits(f)
    /\ Strategy \in {"prefer-remote", "skip"} => StampFits(f)
    /\ Strategy \in {"prefer-local", "keep-both", "skip"} => HashFits(f)

\* A file that is not touched keeps what stands of it.
LEMMA OtherStands ==
  ASSUME VerdictsStand, NEW f \in Files, OnlyAt(f), ViewFits(f)',
         Strategy \in {"prefer-remote", "skip"} => StampFits(f)',
         Strategy \in {"prefer-local", "keep-both", "skip"} => HashFits(f)'
  PROVE  VerdictsStand'
BY DEF VerdictsStand, ViewFits, StampFits, HashFits, OnlyAt

\* A step that leaves both sides of f equal under a row with their hash.
LEMMA AgreedStands ==
  ASSUME NEW f \in Files, agreed'[f] = local'[f], local'[f] = remote'[f].content,
         row'[f].hash = Head(local'[f])
  PROVE  StampFits(f)' /\ HashFits(f)'
BY DEF StampFits, HashFits, Head

\* An upload.
LEMMA UploadStands ==
  ASSUME VerdictsAreCarriedOut, TypeOK, VerdictsStand, NEW f \in Files, local[f] # Absent,
         NEW r, Upload(f, r), r = row[f] \/ ConflictUpload(f)
  PROVE  /\ ViewFits(f)'
         /\ Strategy \in {"prefer-remote", "skip"} => StampFits(f)'
         /\ Strategy \in {"prefer-local", "keep-both", "skip"} => HashFits(f)'
<1>1. CASE UploadDone(f)
  <2> DEFINE new == [content |-> local[f], etag |-> NewEtag(f)]
  <2>1. remote'[f] = new /\ view'[f] \in {view[f], new} /\ local' = local
    BY <1>1 DEF UploadDone, TypeOK
  <2>2. ViewFits(f)'
    BY <2>1, NewEtagIsNew DEF ViewFits
  <2>3. row'[f].hash = Head(local'[f])
    BY <1>1, <2>1, SetRowAtOne DEF UploadDone, Row
  <2>4. agreed'[f] = local'[f]
    BY <1>1, <2>1, AgreementNoted DEF UploadDone
  <2> QED
    BY <2>1, <2>2, <2>3, <2>4, AgreedStands
<1>2. CASE UploadFailed(f, r)
  <2>1. /\ view' = view /\ remote'[f] \in {remote[f], Missing} /\ row'[f] = r
        /\ agreed' = agreed
    BY <1>2, SetRowAtOne DEF UploadFailed, TypeOK, past
  <2>2. ViewFits(f)'
    BY <2>1 DEF VerdictsStand, ViewFits
  <2>3. r = row[f] \/ Strategy = "last-writer-wins"
    <3>1. "uploadRefused" \in Faults \/ "uploadLost" \in Faults
      BY <1>2 DEF UploadFailed
    <3>2. ConflictUpload(f) => Strategy \in {"prefer-local", "keep-both", "last-writer-wins"}
      BY ConstantsAssumption DEF ConflictUpload, Verdicts, Strategies
    <3> QED
      BY <3>1, <3>2 DEF VerdictsAreCarriedOut
  <2> QED
    BY <2>1, <2>2, <2>3 DEF VerdictsStand, StampFits, HashFits
<1> QED
  BY <1>1, <1>2 DEF Upload

\* A download.
LEMMA DownloadStands ==
  ASSUME VerdictsAreCarriedOut, TypeOK, VerdictsStand, NEW f \in Files,
         NEW r, Download(f, r), r = row[f] \/ (ConflictDownload(f) /\ r.hash = NoHash)
  PROVE  /\ ViewFits(f)'
         /\ Strategy \in {"prefer-remote", "skip"} => StampFits(f)'
         /\ Strategy \in {"prefer-local", "keep-both", "skip"} => HashFits(f)'
<1>1. remote' = remote /\ view' = view
  BY DEF Download, DownloadDone, DownloadFailed
<1>2. ViewFits(f)'
  BY <1>1 DEF VerdictsStand, ViewFits
<1>3. CASE DownloadDone(f)
  <2>1. local'[f] = remote'[f].content
    BY <1>1, <1>3 DEF DownloadDone, TypeOK
  <2>2. row'[f].hash = Head(local'[f])
    BY <1>1, <1>3, <2>1, SetRowAtOne DEF DownloadDone, Row
  <2>3. agreed'[f] = local'[f]
    BY <1>3, <2>1, AgreementNoted DEF DownloadDone
  <2> QED
    BY <1>2, <2>1, <2>2, <2>3, AgreedStands
<1>4. CASE DownloadFailed(f, r)
  <2>1. row'[f] = r /\ agreed' = agreed
    BY <1>4, SetRowAtOne DEF DownloadFailed, past
  <2>2. \/ r = row[f] \/ Strategy = "last-writer-wins"
        \/ Strategy = "prefer-remote" /\ remote[f] = Missing
    <3>1. ConflictDownload(f) => Strategy \in {"prefer-remote", "last-writer-wins"}
      BY ConstantsAssumption DEF ConflictDownload, Verdicts, Strategies
    <3> QED
      BY <1>4, <3>1 DEF DownloadFailed, VerdictsAreCarriedOut
  <2> QED
    BY <1>1, <1>2, <2>1, <2>2 DEF VerdictsStand, StampFits, HashFits
<1> QED
  BY <1>3, <1>4 DEF Download

\* Equal sizes are equal contents, so what is recorded is an agreement.
LEMMA RecordStands ==
  ASSUME VerdictsAreCarriedOut, ScansStillProve, VerdictsStand, NEW f \in Files,
         RecordSameSize(f)
  PROVE  ViewFits(f)' /\ StampFits(f)' /\ HashFits(f)'
<1>1. TypeOK /\ seen[f] = local[f] /\ remote' = remote /\ view' = view /\ local' = local
  BY VisitSees DEF RecordSameSize, HandleFile
<1>2. ViewFits(f) /\ ViewFits(f)'
  BY <1>1 DEF VerdictsStand, ViewFits
<1>3. seen[f] \in Contents /\ view[f].content \in Contents
  BY <1>1, VersionFields DEF RecordSameSize, OnBoth, TypeOK, File
<1>4. view[f].content = local[f]
  BY <1>1, <1>3 DEF RecordSameSize, SameSize, VerdictsAreCarriedOut, FingerprintsIdentify
<1>5. agreed'[f] = local'[f]
  BY <1>1, <1>4, AgreementNoted DEF RecordSameSize
<1>6. row'[f] = Row(Head(local[f]), view[f].etag)
  BY <1>1, SetRowAtOne DEF RecordSameSize
<1>7. HashFits(f)'
  BY <1>1, <1>5, <1>6 DEF HashFits, Row
<1>8. StampFits(f)'
  BY <1>1, <1>2, <1>4, <1>5, <1>6 DEF StampFits, ViewFits, Row
<1> QED
  BY <1>2, <1>7, <1>8

\* Every branch of the loop.
LEMMA VisitStands ==
  ASSUME VerdictsAreCarriedOut, ScansStillProve, VerdictsStand, NEW f \in Files, HandleFile(f)
  PROVE  VerdictsStand'
<1>1. TypeOK /\ seen[f] = local[f] /\ OnlyAt(f)
  BY VisitSees, HandleFileTouchesOne DEF ScansStillProve
<1>2. CASE SkipUnchanged(f) \/ ConflictSkip(f) \/ LeaveMissing(f) \/ ProposeRemoval(f)
  BY <1>2 DEF SkipUnchanged, ConflictSkip, LeaveMissing, ProposeRemoval, files, past,
              VerdictsStand, ViewFits, StampFits, HashFits
<1>3. CASE RecordSameSize(f)
  BY <1>1, <1>3, RecordStands, OtherStands
<1>4. CASE ConflictUpload(f) \/ UploadChange(f) \/ UploadNew(f)
  <2>1. PICK r : Upload(f, r) /\ (r = row[f] \/ ConflictUpload(f))
    BY <1>4 DEF ConflictUpload, UploadChange, UploadNew
  <2>2. local[f] # Absent
    BY <1>1, <1>4 DEF ConflictUpload, UploadChange, UploadNew, Conflict, OnBoth, OnlyLocal
  <2> QED
    BY <1>1, <2>1, <2>2, UploadStands, OtherStands
<1>5. CASE ConflictDownload(f) \/ DownloadChange(f) \/ DownloadNew(f)
  <2>1. PICK r : Download(f, r) /\ (r = row[f] \/ (ConflictDownload(f) /\ r.hash = NoHash))
    BY <1>5 DEF ConflictDownload, DownloadChange, DownloadNew, ResolverRow, Row
  <2> QED
    BY <1>1, <2>1, DownloadStands, OtherStands
<1>6. CASE RemoveRemote(f)
  <2>1. CASE UNCHANGED <<remote, row, past>>
    BY <1>6, <2>1 DEF RemoveRemote, past, VerdictsStand, ViewFits, StampFits, HashFits
  <2>2. CASE remote' = [remote EXCEPT ![f] = Missing] /\ SetRow(f, Untracked)
    <3>1. remote'[f] = Missing /\ ~row'[f].tracked
      BY <1>1, <2>2, SetRowAtOne DEF TypeOK, Untracked
    <3> QED
      BY <1>1, <3>1, OtherStands DEF ViewFits, StampFits, HashFits
  <2> QED
    BY <1>6, <2>1, <2>2 DEF RemoveRemote
<1> QED
  BY <1>2, <1>3, <1>4, <1>5, <1>6 DEF HandleFile

\* Every step.
LEMMA StepStands ==
  VerdictsAreCarriedOut /\ ScansStillProve /\ VerdictsStand /\ [Next]_vars => VerdictsStand'
<1> SUFFICES ASSUME VerdictsAreCarriedOut, ScansStillProve, VerdictsStand, [Next]_vars
             PROVE  VerdictsStand'
  OBVIOUS
<1>1. TypeOK
  BY DEF ScansStillProve
<1>2. ASSUME NEW f \in Files, HandleFile(f) PROVE VerdictsStand'
  BY <1>2, VisitStands
<1>3. ASSUME NEW f \in Files, RemoveLocal(f) PROVE VerdictsStand'
  <2>1. OnlyAt(f) /\ remote' = remote /\ view' = view
    BY <1>1, <1>3, RemoveLocalTouchesOne DEF RemoveLocal, scan
  <2>2. CASE UNCHANGED <<local, row, past>>
    BY <2>1, <2>2 DEF past, VerdictsStand, ViewFits, StampFits, HashFits
  <2>3. CASE SetRow(f, Untracked)
    <3>1. ~row'[f].tracked
      BY <1>1, <2>3, SetRowAtOne DEF Untracked
    <3>2. ViewFits(f)'
      BY <2>1 DEF VerdictsStand, ViewFits
    <3> QED
      BY <2>1, <3>1, <3>2, OtherStands DEF StampFits, HashFits
  <2> QED
    BY <1>3, <2>2, <2>3 DEF RemoveLocal
<1>4. CASE FinishCycle
  <2>1. view' = view
    BY <1>4 DEF FinishCycle, EndCycle
  <2>2. ASSUME NEW g \in Files
        PROVE  /\ ViewFits(g)' /\ (StampFits(g) => StampFits(g)')
               /\ HashFits(g) => HashFits(g)'
    <3>1. CASE g \in Orphans
      BY <1>4, <2>1, <3>1, PurgeNotes DEF ViewFits, StampFits, HashFits, Untracked
    <3>2. CASE g \notin Orphans
      BY <1>4, <2>1, <3>2, PurgeNotes DEF VerdictsStand, ViewFits, StampFits, HashFits
    <3> QED
      BY <3>1, <3>2
  <2> QED
    BY <2>2 DEF VerdictsStand
<1>5. CASE UNCHANGED files /\ \A g \in Files : view'[g] \in {view[g], remote[g]}
  BY <1>5 DEF files, past, VerdictsStand, ViewFits, StampFits, HashFits
<1>6. CASE CycleStep
  <2>1. CASE UNCHANGED files
    <3>1. \/ \E f \in Files : HandleFile(f)
          \/ \E f \in Files : RemoveLocal(f)
          \/ FinishCycle
          \/ \A g \in Files : view'[g] \in {view[g], remote[g]}
      BY <1>1, <1>6 DEF CycleStep, StartCycle, ScanFresh, ScanCached, ScanIncomplete,
         AskFirstRun, AbortTruncated, BeginFiles, ParkDeletions, BeginRemovals, AbandonCycle,
         EndCycle, scan, TypeOK
    <3> QED
      BY <1>2, <1>3, <1>4, <1>5, <2>1, <3>1
  <2> QED
    BY <1>2, <1>3, <1>4, <1>6, <2>1, RestTouchesNothing
<1>7. ASSUME NEW f \in Files, EditLocal(f) PROVE VerdictsStand'
  BY <1>7 DEF EditLocal, scan, VerdictsStand, ViewFits, StampFits, HashFits
<1>8. ASSUME NEW f \in Files, EditRemote(f) PROVE VerdictsStand'
  <2>1. OnlyAt(f) /\ row' = row /\ view' = view /\ agreed' = agreed
    BY <1>1, <1>8 DEF EditRemote, scan, OnlyAt, TypeOK
  <2>2. remote'[f] = Missing \/ remote'[f].etag = NewEtag(f)
    BY <1>1, <1>8 DEF EditRemote, TypeOK
  <2>3. ViewFits(f)' /\ StampFits(f)'
    BY <1>1, <2>1, <2>2, NewEtagIsNew DEF ViewFits, StampFits
  <2>4. HashFits(f) => HashFits(f)'
    BY <2>1 DEF HashFits
  <2> QED
    BY <2>1, <2>3, <2>4, OtherStands DEF VerdictsStand
<1>9. CASE UNCHANGED vars
  BY <1>5, <1>9 DEF vars, scan
<1> QED
  BY <1>6, <1>7, <1>8, <1>9 DEF Next, EnvironmentStep

\* In a conflict that a fresh cycle sees, only the verdict moves a file.
Decides ==
  \A f \in Files :
    /\ EngineActs /\ fresh
    /\ local[f] \notin {agreed[f], Absent}
    /\ remote[f].content \notin {agreed[f], Absent, local[f]}
    =>
    /\ Strategy \in {"prefer-remote", "skip"} => remote'[f] = remote[f]
    /\ Strategy \in {"prefer-local", "keep-both", "skip"} => local'[f] = local[f]

\* Two contents with one hash are one.
LEMMA HeadIdentifies ==
  ASSUME FingerprintsIdentify, NEW c \in File, NEW d \in File, c # Absent,
         Head(c) \in {NoHash, Head(d)}
  PROVE  c = d
BY ConstantsAssumption DEF File, Head, FingerprintsIdentify

\* The visit of a file that was changed on both sides.
LEMMA VisitDecides ==
  ASSUME VerdictsAreCarriedOut, ScansStillProve, VerdictsStand, NEW f \in Files, HandleFile(f),
         fresh, local[f] \notin {agreed[f], Absent},
         remote[f].content \notin {agreed[f], Absent, local[f]}
  PROVE  /\ Strategy \in {"prefer-remote", "skip"} => remote'[f] = remote[f]
         /\ Strategy \in {"prefer-local", "keep-both", "skip"} => local'[f] = local[f]
<1>1. /\ TypeOK /\ seen[f] = local[f] /\ view[f] = remote[f] /\ OnBoth(f)
      /\ remote[f] # Missing
  BY VisitSees DEF OnBoth, Missing
<1>2. CASE \/ SkipUnchanged(f) \/ RecordSameSize(f) \/ ConflictSkip(f)
           \/ ProposeRemoval(f) \/ LeaveMissing(f)
  BY <1>2 DEF SkipUnchanged, RecordSameSize, ConflictSkip, ProposeRemoval, LeaveMissing, files
<1>3. CASE ConflictUpload(f) \/ ConflictDownload(f)
  BY <1>3 DEF ConflictUpload, ConflictDownload, Verdicts, Upload, UploadDone, UploadFailed,
              Download, DownloadDone, DownloadFailed
<1>4. CASE UploadChange(f)
  <2>1. local' = local
    BY <1>4 DEF UploadChange, Upload, UploadDone, UploadFailed
  <2>2. ~StampFits(f)
    BY <1>1, <1>4 DEF UploadChange, RemoteChanged, StampFits
  <2> QED
    BY <2>1, <2>2 DEF VerdictsStand
<1>5. CASE DownloadChange(f)
  <2>1. remote' = remote
    BY <1>5 DEF DownloadChange, Download, DownloadDone, DownloadFailed
  <2>2. ~HashFits(f)
    <3>1. local[f] \in File /\ agreed[f] \in File
      BY <1>1 DEF TypeOK
    <3> QED
      BY <1>1, <1>5, <3>1, HeadIdentifies
         DEF DownloadChange, LocalChanged, HashFits, VerdictsAreCarriedOut
  <2> QED
    BY <2>1, <2>2 DEF VerdictsStand
<1>6. CASE UploadNew(f) \/ DownloadNew(f) \/ RemoveRemote(f)
  BY <1>1, <1>6 DEF UploadNew, DownloadNew, RemoveRemote, OnBoth, OnlyLocal, OnlyRemote
<1> QED
  BY <1>2, <1>3, <1>4, <1>5, <1>6 DEF HandleFile

\* Every step.
LEMMA StepDecides ==
  VerdictsAreCarriedOut /\ ScansStillProve /\ VerdictsStand /\ [Next]_vars => Decides
<1> SUFFICES ASSUME VerdictsAreCarriedOut, ScansStillProve, VerdictsStand, [Next]_vars
             PROVE  Decides
  OBVIOUS
<1>1. ASSUME NEW f \in Files, HandleFile(f) PROVE Decides
  <2>1. OnlyAt(f)
    BY <1>1, HandleFileTouchesOne DEF ScansStillProve
  <2> QED
    BY <1>1, <2>1, VisitDecides DEF OnlyAt, Decides
<1>2. ASSUME NEW f \in Files, RemoveLocal(f) PROVE Decides
  <2>1. OnlyAt(f) /\ remote' = remote /\ remote[f].content = Absent
    BY <1>2, RemoveLocalTouchesOne DEF RemoveLocal, ScansStillProve, CandidatesAreGone, Missing
  <2> QED
    BY <2>1 DEF OnlyAt, Decides
<1>3. CASE FinishCycle
  BY <1>3 DEF FinishCycle, Decides
<1>4. CASE UNCHANGED files \/ UNCHANGED vars
  BY <1>4 DEF vars, files, Decides
<1>5. CASE EnvironmentStep
  BY <1>5 DEF EnvironmentStep, EditLocal, EditRemote, EngineActs, loop, Decides
<1> QED
  BY <1>1, <1>2, <1>3, <1>4, <1>5, RestTouchesNothing DEF Next

\* In a real conflict the configured strategy decides who wins: prefer-remote
\* never overwrites the iCloud version, prefer-local and keep-both never the
\* local one, and skip neither, whatever fails.
THEOREM ConflictsAreDecided ==
  ASSUME VerdictsAreCarriedOut
  PROVE  Spec => StrategyDecides
<1>1. Init => VerdictsStand
  BY DEF Init, VerdictsStand, ViewFits, StampFits, HashFits, Untracked, Missing
<1>2. Spec => []ScansStillProve
  BY ScansAreStillTrue DEF VerdictsAreCarriedOut
<1>3. VerdictsStand /\ ScansStillProve /\ [Next]_vars => VerdictsStand'
  BY StepStands
<1>4. VerdictsStand /\ ScansStillProve /\ [Next]_vars => [Decides]_vars
  BY StepDecides
<1> QED
  BY <1>1, <1>2, <1>3, <1>4, PTL DEF Spec, StrategyDecides, Decides

-----------------------------------------------------------------------------
(* What is equal stays equal, and a cycle that is not hindered makes        *)
(* everything equal: the two halves of convergence that need no fairness.   *)

\* No step of the engine takes two equal copies apart.
EqualStay ==
  \A f \in Files :
    EngineActs /\ local[f] = remote[f].content => local'[f] = remote'[f].content

EqualFilesStayEqual == [][EqualStay]_vars

\* The visit of a file that is the same on both sides.
LEMMA VisitKeepsEqual ==
  ASSUME "uploadLost" \notin Faults, ScansStillProve, NEW f \in Files, HandleFile(f),
         local[f] = remote[f].content
  PROVE  local'[f] = remote'[f].content
<1>1. /\ TypeOK /\ seen[f] = local[f]
      /\ fresh => view[f] = remote[f]
  BY VisitSees
<1>2. CASE \/ SkipUnchanged(f) \/ RecordSameSize(f) \/ ConflictSkip(f)
           \/ ProposeRemoval(f) \/ LeaveMissing(f)
  BY <1>2 DEF SkipUnchanged, RecordSameSize, ConflictSkip, ProposeRemoval, LeaveMissing, files
<1>3. CASE ConflictUpload(f) \/ UploadChange(f) \/ UploadNew(f)
  <2>1. PICK r : Upload(f, r)
    BY <1>3 DEF ConflictUpload, UploadChange, UploadNew
  <2>2. local[f] # Absent
    BY <1>1, <1>3 DEF ConflictUpload, UploadChange, UploadNew, Conflict, OnBoth, OnlyLocal
  <2> QED
    BY <1>1, <2>1, <2>2 DEF Upload, UploadDone, UploadFailed, TypeOK
<1>4. CASE ConflictDownload(f) \/ DownloadChange(f) \/ DownloadNew(f)
  <2>1. PICK r : Download(f, r)
    BY <1>4 DEF ConflictDownload, DownloadChange, DownloadNew
  <2> QED
    BY <1>1, <2>1 DEF Download, DownloadDone, DownloadFailed, TypeOK
<1>5. ~RemoveRemote(f)
  BY <1>1 DEF RemoveRemote, MayDelete, OnlyRemote
<1> QED
  BY <1>2, <1>3, <1>4, <1>5 DEF HandleFile

\* Every step.
LEMMA StepKeepsEqual ==
  "uploadLost" \notin Faults /\ ScansStillProve /\ [Next]_vars => EqualStay
<1> SUFFICES ASSUME "uploadLost" \notin Faults, ScansStillProve, [Next]_vars
             PROVE  EqualStay
  OBVIOUS
<1>1. ASSUME NEW f \in Files, HandleFile(f) PROVE EqualStay
  <2>1. OnlyAt(f)
    BY <1>1, HandleFileTouchesOne DEF ScansStillProve
  <2> QED
    BY <1>1, <2>1, VisitKeepsEqual DEF OnlyAt, EqualStay
<1>2. ASSUME NEW f \in Files, RemoveLocal(f) PROVE EqualStay
  <2>1. OnlyAt(f) /\ remote' = remote /\ remote[f] = Missing
    BY <1>2, RemoveLocalTouchesOne DEF RemoveLocal, ScansStillProve, CandidatesAreGone
  <2>2. local'[f] \in {local[f], Absent}
    BY <1>2 DEF RemoveLocal, ScansStillProve, TypeOK
  <2> QED
    BY <2>1, <2>2 DEF OnlyAt, EqualStay, Missing
<1>3. CASE FinishCycle
  BY <1>3 DEF FinishCycle, EqualStay
<1>4. CASE UNCHANGED files \/ UNCHANGED vars
  BY <1>4 DEF vars, files, EqualStay
<1>5. CASE EnvironmentStep
  BY <1>5 DEF EnvironmentStep, EditLocal, EditRemote, EngineActs, loop, EqualStay
<1> QED
  BY <1>1, <1>2, <1>3, <1>4, <1>5, RestTouchesNothing DEF Next

\* Two equal copies are never taken apart by the engine, whatever its rows and
\* its cached listing say of them and whatever fails, save an upload that is
\* lost after it has trashed the copy it was to replace.
THEOREM EqualFilesAreLeftEqual ==
  ASSUME ~EditsDuringCycle, "uploadLost" \notin Faults
  PROVE  Spec => EqualFilesStayEqual
<1>1. Spec => []ScansStillProve
  BY ScansAreStillTrue
<1>2. ScansStillProve /\ [Next]_vars => [EqualStay]_vars
  BY StepKeepsEqual
<1> QED
  BY <1>1, <1>2, PTL DEF Spec, EqualFilesStayEqual

\* No transfer and no deletion fails, deletions are synced, and no conflict is
\* skipped.  Scans may still be stale, fail or be interrupted.
Unhindered ==
  /\ Reliable /\ SyncDeletes /\ Strategy # "skip"
  /\ Faults \cap {"uploadRefused", "uploadLost", "downloadFails", "trashFails",
                  "removeFails"} = {}

\* A fresh cycle has made equal what it need not look at any more.
HandledAreEqual ==
  /\ fresh /\ pc \in {"files", "remove"} =>
       \A f \in Files \ (todo \cup candidates) : local[f] = remote[f].content
  /\ pc = "remove" => todo = {}

\* A visit makes the two copies equal, or proposes to remove the local one.
LEMMA VisitMakesEqual ==
  ASSUME Unhindered, ScansStillProve, InSyncMeansEqual, NEW f \in Files, HandleFile(f), fresh
  PROVE  local'[f] = remote'[f].content \/ f \in candidates'
<1>1. TypeOK /\ seen[f] = local[f] /\ view[f] = remote[f]
  BY VisitSees
<1>2. CASE SkipUnchanged(f)
  <2>1. LooksInSync(f) /\ local' = local /\ remote' = remote
    BY <1>1, <1>2 DEF SkipUnchanged, OnBoth, LocalChanged, RemoteChanged, LooksInSync,
                      Missing, files
  <2> QED
    BY <2>1 DEF InSyncMeansEqual
<1>3. CASE RecordSameSize(f)
  <2>1. local[f] \in Contents /\ remote[f].content \in Contents
    BY <1>1, <1>3, VersionFields DEF RecordSameSize, OnBoth, TypeOK, File
  <2>2. local[f] = remote[f].content
    BY <1>1, <1>3, <2>1
       DEF RecordSameSize, SameSize, Unhindered, Reliable, FingerprintsIdentify
  <2> QED
    BY <1>3, <2>2 DEF RecordSameSize
<1>4. CASE ConflictUpload(f) \/ UploadChange(f) \/ UploadNew(f)
  <2>1. PICK r : Upload(f, r)
    BY <1>4 DEF ConflictUpload, UploadChange, UploadNew
  <2>2. local[f] # Absent
    BY <1>1, <1>4 DEF ConflictUpload, UploadChange, UploadNew, Conflict, OnBoth, OnlyLocal
  <2>3. UploadDone(f)
    BY <2>1, <2>2 DEF Upload, UploadFailed, Unhindered
  <2> QED
    BY <1>1, <2>3 DEF UploadDone, TypeOK
<1>5. CASE ConflictDownload(f) \/ DownloadChange(f) \/ DownloadNew(f)
  <2>1. PICK r : Download(f, r)
    BY <1>5 DEF ConflictDownload, DownloadChange, DownloadNew
  <2>2. remote[f] # Missing
    BY <1>1, <1>5 DEF ConflictDownload, DownloadChange, DownloadNew, Conflict, OnBoth,
                      OnlyRemote, Missing
  <2>3. DownloadDone(f)
    BY <2>1, <2>2 DEF Download, DownloadFailed, Unhindered
  <2> QED
    BY <1>1, <2>3 DEF DownloadDone, TypeOK
<1>6. ~ConflictSkip(f) /\ ~LeaveMissing(f)
  BY ConstantsAssumption
     DEF ConflictSkip, Verdicts, Strategies, LeaveMissing, MayDelete, Unhindered
<1>7. CASE ProposeRemoval(f)
  BY <1>7 DEF ProposeRemoval
<1>8. CASE RemoveRemote(f)
  <2>1. local[f] = Absent /\ remote[f] # Missing /\ local' = local
    BY <1>1, <1>8 DEF RemoveRemote, OnlyRemote, Missing
  <2>2. remote' = [remote EXCEPT ![f] = Missing]
    BY <1>8, <2>1 DEF RemoveRemote, Unhindered
  <2> QED
    BY <1>1, <2>1, <2>2 DEF TypeOK, Missing
<1> QED
  BY <1>2, <1>3, <1>4, <1>5, <1>6, <1>7, <1>8 DEF HandleFile

\* Every step keeps what is handled equal.
LEMMA StepMakesEqual ==
  Unhindered /\ ScansStillProve /\ InSyncMeansEqual /\ HandledAreEqual /\ [Next]_vars =>
    HandledAreEqual'
<1> SUFFICES ASSUME Unhindered, ScansStillProve, InSyncMeansEqual, HandledAreEqual, [Next]_vars
             PROVE  HandledAreEqual'
  OBVIOUS
<1>1. CASE pc' \notin {"files", "remove"}
  BY <1>1 DEF HandledAreEqual
<1>2. CASE BeginFiles
  <2>1. /\ local' = local /\ remote' = remote /\ fresh' = fresh /\ pc' = "files"
        /\ todo' = SeenLocally \cup SeenRemotely /\ pc = "guards"
    BY <1>2 DEF BeginFiles, files, scan
  <2>2. ASSUME NEW f \in Files, f \notin todo', fresh PROVE local[f] = remote[f].content
    BY <2>1, <2>2 DEF SeenLocally, SeenRemotely, ScansStillProve, UnseenIsGone, Missing
  <2> QED
    BY <2>1, <2>2 DEF HandledAreEqual
<1>3. ASSUME NEW f \in Files, HandleFile(f) PROVE HandledAreEqual'
  <2>1. /\ pc = "files" /\ pc' = "files" /\ fresh' = fresh /\ todo' = todo \ {f}
        /\ OnlyAt(f)
    BY <1>3, HandleFileVisits, HandleFileTouchesOne DEF Visit, Visited, ScansStillProve
  <2>2. candidates \subseteq candidates'
    BY <1>3 DEF HandleFile, SkipUnchanged, RecordSameSize, ConflictUpload, ConflictDownload,
                ConflictSkip, UploadChange, DownloadChange, UploadNew, DownloadNew,
                ProposeRemoval, RemoveRemote, LeaveMissing, Upload, Download
  <2>3. ASSUME NEW g \in Files, g \notin todo', g \notin candidates', fresh
        PROVE  local'[g] = remote'[g].content
    <3>1. CASE g = f
      BY <1>3, <2>3, <3>1, VisitMakesEqual
    <3>2. CASE g # f
      BY <2>1, <2>2, <2>3, <3>2 DEF HandledAreEqual, OnlyAt
    <3> QED
      BY <3>1, <3>2
  <2> QED
    BY <2>1, <2>3 DEF HandledAreEqual
<1>4. CASE BeginRemovals
  BY <1>4 DEF BeginRemovals, HandledAreEqual, files, scan, loop
<1>5. ASSUME NEW f \in Files, RemoveLocal(f) PROVE HandledAreEqual'
  <2>1. /\ pc = "remove" /\ fresh' = fresh /\ todo' = todo /\ candidates' = candidates \ {f}
        /\ OnlyAt(f) /\ remote' = remote /\ remote[f] = Missing
    BY <1>5, RemoveLocalTouchesOne DEF RemoveLocal, scan, ScansStillProve, CandidatesAreGone
  <2>2. local'[f] = Absent
    BY <1>5 DEF RemoveLocal, Unhindered, ScansStillProve, TypeOK
  <2>3. local'[f] = remote'[f].content
    BY <2>1, <2>2 DEF Missing
  <2> QED
    BY <2>1, <2>3 DEF HandledAreEqual, OnlyAt
<1>6. CASE EnvironmentStep
  BY <1>1, <1>6 DEF EnvironmentStep, EditLocal, EditRemote, MayEdit, Unhindered, Reliable
<1>7. CASE UNCHANGED vars
  BY <1>7 DEF vars, files, scan, loop, HandledAreEqual
<1> QED
  BY <1>1, <1>2, <1>3, <1>4, <1>5, <1>6, <1>7
     DEF Next, CycleStep, StartCycle, ScanFresh, ScanCached, ScanIncomplete, AskFirstRun,
         AbortTruncated, ParkDeletions, FinishCycle, AbandonCycle, EndCycle

\* A fresh cycle that comes to its end leaves the two sides equal.
FinishedIsEqual ==
  fresh /\ FinishCycle => \A f \in Files : local'[f] = remote'[f].content

FreshCyclesMakeEqual == [][FinishedIsEqual]_vars

\* One fresh cycle that nothing hinders, and that asks no question, is enough:
\* when it ends, every path holds the same on both sides, from whatever rows,
\* cached listing and half-finished cycles went before.
THEOREM OneFreshCycleSuffices ==
  ASSUME Unhindered
  PROVE  Spec => FreshCyclesMakeEqual
<1>1. Spec => []ScansStillProve
  BY ScansAreStillTrue DEF Unhindered, Reliable
<1>2. Spec => []InSyncMeansEqual
  BY InSyncFilesAreEqual DEF Unhindered
<1>3. Init => HandledAreEqual
  BY DEF Init, HandledAreEqual
<1>4. ScansStillProve /\ InSyncMeansEqual /\ HandledAreEqual /\ [Next]_vars => HandledAreEqual'
  BY StepMakesEqual
<1>5. HandledAreEqual /\ [Next]_vars => [FinishedIsEqual]_vars
  BY DEF HandledAreEqual, FinishedIsEqual, FinishCycle
<1> QED
  BY <1>1, <1>2, <1>3, <1>4, <1>5, PTL DEF Spec, FreshCyclesMakeEqual

-----------------------------------------------------------------------------
(* The first run *)

\* Nobody edits while a cycle or a filling runs, and the wizard starts no thread
\* beside the daemon.
Undisturbed == ~EditsDuringCycle /\ Wizard = "none"

\* Fingerprints identify, too, and no verdict is lost.
FillsAlone == Undisturbed /\ Reliable

\* Where a filling is, and what it has found.
FillingIsKnown == TypeOK /\ FillTypeOK /\ FillingIsAlone /\ FoundIsCurrent

-----------------------------------------------------------------------------
(* What does not fill the database *)

\* Initially nothing is being filled.
LEMMA FirstInitKnown == Wizard = "none" /\ FirstInit => FillingIsKnown
<1> SUFFICES ASSUME Wizard = "none", FirstInit PROVE FillingIsKnown
  OBVIOUS
<1>1. TypeOK
  BY InitTypes DEF FirstInit
<1>2. FillTypeOK
  BY DEF FirstInit, FillTypeOK, Nowhere, Nothing, File, Version
<1>3. FillingIsAlone
  BY DEF FirstInit, Init, FillingIsAlone
<1>4. FoundIsCurrent
  BY DEF FirstInit, FoundIsCurrent
<1> QED
  BY <1>1, <1>2, <1>3, <1>4 DEF FillingIsKnown

\* A cycle asks only when it ends, and after asking no cycle starts.
LEMMA CycleAsks ==
  ASSUME CycleStep, firstRun => paused /\ pc = "idle"
  PROVE  firstRun' => paused' /\ pc' = "idle"
<1>1. CASE StartCycle
  BY <1>1 DEF StartCycle, asking
<1>2. CASE ScanFresh \/ ScanCached \/ ScanIncomplete
  BY <1>2 DEF ScanFresh, ScanCached, ScanIncomplete, asking
<1>3. CASE AskFirstRun \/ AbortTruncated \/ BeginFiles
  BY <1>3 DEF AskFirstRun, AbortTruncated, BeginFiles, EndCycle, asking
<1>4. ASSUME NEW f \in Files, HandleFile(f) PROVE firstRun' => paused' /\ pc' = "idle"
  <2>1. pc = "files" /\ Visited(f)
    BY <1>4 DEF HandleFile, SkipUnchanged, RecordSameSize, ConflictUpload, ConflictDownload,
                ConflictSkip, UploadChange, DownloadChange, UploadNew, DownloadNew,
                ProposeRemoval, RemoveRemote, LeaveMissing, Visit, Upload, Download
  <2> QED
    BY <2>1 DEF Visited, asking
<1>5. CASE ParkDeletions \/ BeginRemovals
  BY <1>5 DEF ParkDeletions, BeginRemovals, EndCycle, asking
<1>6. CASE \E f \in Files : RemoveLocal(f)
  BY <1>6 DEF RemoveLocal, asking
<1>7. CASE FinishCycle \/ AbandonCycle
  BY <1>7 DEF FinishCycle, AbandonCycle, EndCycle, asking
<1> QED
  BY <1>1, <1>2, <1>3, <1>4, <1>5, <1>6, <1>7 DEF CycleStep

\* The word of a file is always one of four.
LEMMA KeepWordTypes ==
  ASSUME FillTypeOK, KeepWord
  PROVE  word' \in [Files -> {"none", "here", "iCloud", "both"}]
BY DEF FillTypeOK, KeepWord

\* From a resting cycle the daemon only starts one.
LEMMA OnlyStartsWhenIdle == CycleStep /\ pc = "idle" => StartCycle
<1> SUFFICES ASSUME CycleStep, pc = "idle" PROVE StartCycle
  OBVIOUS
<1>1. ~\E f \in Files : HandleFile(f)
  BY DEF HandleFile, SkipUnchanged, RecordSameSize, ConflictUpload, ConflictDownload,
         ConflictSkip, UploadChange, DownloadChange, UploadNew, DownloadNew,
         ProposeRemoval, RemoveRemote, LeaveMissing, Visit
<1> QED
  BY <1>1 DEF CycleStep, ScanFresh, ScanCached, ScanIncomplete, AskFirstRun, AbortTruncated,
              BeginFiles, ParkDeletions, BeginRemovals, RemoveLocal, FinishCycle, AbandonCycle

\* A cycle runs only when nothing is being filled or asked.
LEMMA CyclesRunAlone ==
  ASSUME FillingIsKnown, DaemonStep
  PROVE  filling = "no" /\ ~firstRun
<1> SUFFICES ASSUME filling # "no" \/ firstRun PROVE FALSE
  OBVIOUS
<1>1. pc = "idle" /\ (mode = "bootstrap" \/ paused)
  BY DEF FillingIsKnown, FillingIsAlone
<1>2. StartCycle /\ mode # "bootstrap"
  BY <1>1, OnlyStartsWhenIdle DEF DaemonStep
<1> QED
  BY <1>1, <1>2 DEF StartCycle

\* So it knows where a filling is.
LEMMA DaemonStepKnown ==
  ASSUME FillingIsKnown, DaemonStep
  PROVE  FillingIsKnown'
<1>1. TypeOK'
  BY StepTypes DEF DaemonStep, Next, FillingIsKnown
<1>2. FillTypeOK'
  <2>1. conflicts' \in [Files -> {"none", "open", "resolved"}]
    BY DEF DaemonStep, NoteConflicts, FillingIsKnown, FillTypeOK
  <2> QED
    BY <2>1, KeepWordTypes DEF DaemonStep, FillingIsKnown, FillTypeOK, fill
<1>3. filling = "no"
  BY CyclesRunAlone
<1>4. filling' = "no" /\ mode' = mode
  BY <1>3 DEF DaemonStep, fill
<1>5. FillingIsAlone'
  BY <1>3, <1>4, CycleAsks DEF DaemonStep, FillingIsKnown, FillingIsAlone
<1>6. FoundIsCurrent'
  BY <1>4 DEF FoundIsCurrent
<1> QED
  BY <1>1, <1>2, <1>5, <1>6 DEF FillingIsKnown

\* Edits do not come in between.
LEMMA EditKeepsKnown ==
  ASSUME Undisturbed, FillingIsKnown, Edit
  PROVE  FillingIsKnown'
<1>1. TypeOK'
  BY StepTypes DEF Edit, Next, FillingIsKnown
<1>2. FillTypeOK'
  BY DEF Edit, FillingIsKnown, FillTypeOK, fill
<1>3. /\ pc' = pc /\ filling' = filling /\ mode' = mode
      /\ paused' = paused /\ firstRun' = firstRun
  BY DEF Edit, EnvironmentStep, EditLocal, EditRemote, fill, asking
<1>4. filling \in {"no", "begin"}
  BY DEF Edit, Undisturbed
<1>5. FillingIsAlone'
  BY <1>3 DEF FillingIsKnown, FillingIsAlone
<1>6. FoundIsCurrent'
  BY <1>3, <1>4 DEF FoundIsCurrent
<1> QED
  BY <1>1, <1>2, <1>5, <1>6 DEF FillingIsKnown

\* Renaming the local copy is an edit of it.
LEMMA KeepBothIsAnEdit ==
  ASSUME Undisturbed, NEW f \in Files, KeepBoth(f)
  PROVE  EditLocal(f)
BY DEF KeepBoth, Undisturbed, MayEdit, EditLocal, File

\* It does not come in between, either.
LEMMA KeepBothKnown ==
  ASSUME Undisturbed, FillingIsKnown, NEW f \in Files, KeepBoth(f)
  PROVE  FillingIsKnown'
<1>1. filling \in {"no", "begin"}
  BY DEF KeepBoth, Undisturbed
<1>2. TypeOK'
  BY KeepBothIsAnEdit, StepTypes DEF Next, EnvironmentStep, FillingIsKnown
<1>3. FillTypeOK'
  BY DEF KeepBoth, FillingIsKnown, FillTypeOK, fill
<1>4. FillingIsAlone'
  BY DEF KeepBoth, FillingIsKnown, FillingIsAlone, fill, asking
<1>5. FoundIsCurrent'
  BY <1>1 DEF KeepBoth, FoundIsCurrent, fill
<1> QED
  BY <1>2, <1>3, <1>4, <1>5 DEF FillingIsKnown

\* A click changes neither side, nor the database.
LEMMA UserStepKnown ==
  ASSUME FillingIsKnown, UserStep
  PROVE  FillingIsKnown' /\ UNCHANGED vars
<1>1. UNCHANGED vars
  BY DEF UserStep, Answer, ResolveConflict
<1>2. TypeOK'
  BY <1>1, StepTypes DEF FillingIsKnown
<1>3. ASSUME NEW m \in Choices, Answer(m) PROVE FillTypeOK' /\ FillingIsAlone' /\ FoundIsCurrent'
  <2>1. m \in Modes
    BY FirstRunAssumption
  <2>2. FillTypeOK'
    BY <1>3, <2>1 DEF Answer, FillingIsKnown, FillTypeOK, questions
  <2>3. FillingIsAlone'
    BY <1>1, <1>3, <2>1 DEF Answer, FillingIsKnown, FillingIsAlone, Modes, vars, asking
  <2>4. FoundIsCurrent'
    BY <1>3 DEF Answer, FoundIsCurrent
  <2> QED
    BY <2>2, <2>3, <2>4
<1>4. ASSUME NEW f \in Files, NEW copy \in {"here", "iCloud"}, ResolveConflict(f, copy)
      PROVE  FillTypeOK' /\ FillingIsAlone' /\ FoundIsCurrent'
  <2>1. FillTypeOK'
    BY <1>4 DEF ResolveConflict, FillingIsKnown, FillTypeOK, fill
  <2>2. FillingIsAlone' /\ FoundIsCurrent'
    BY <1>1, <1>4 DEF ResolveConflict, FillingIsKnown, FillingIsAlone, FoundIsCurrent,
                      fill, vars, files, scan, asking
  <2> QED
    BY <2>1, <2>2
<1> QED
  BY <1>1, <1>2, <1>3, <1>4 DEF UserStep, FillingIsKnown

-----------------------------------------------------------------------------
(* Filling: the beginning, the listing and the end *)

\* No cycle runs meanwhile, and none is moved on.
LEMMA FillIsQuiet ==
  ASSUME FillingIsKnown, FillStep
  PROVE  /\ pc = "idle" /\ pc' = "idle" /\ seen' = seen /\ fresh' = fresh
         /\ UNCHANGED loop /\ ~EngineActs
<1>1. pc = "idle"
  BY DEF FillStep, BeginBootstrap, BeginReconcile, FillScanFresh, FillScanCached,
         FillScanIncomplete, FillFile, FinishReconcile, FinishBootstrap, FillingIsKnown,
         FillingIsAlone
<1>2. pc' = pc /\ seen' = seen /\ fresh' = fresh /\ UNCHANGED loop
  BY DEF FillStep, BeginBootstrap, BeginReconcile, FillScanFresh, FillScanCached, Listed,
         FillScanIncomplete, FillFile, FinishReconcile, FinishBootstrap, vars, scan
<1> QED
  BY <1>1, <1>2 DEF EngineActs, loop

\* The steps of a filling that are not about one file.
FillsNoFile ==
  \/ BeginBootstrap \/ BeginReconcile
  \/ FillScanFresh \/ FillScanCached \/ FillScanIncomplete
  \/ FinishReconcile \/ FinishBootstrap

\* They change no file and no row; a scan shows of each path its present version
\* or what the cache held.
LEMMA FillReads ==
  ASSUME TypeOK, FillsNoFile
  PROVE  /\ UNCHANGED files
         /\ \A g \in Files : view'[g] \in {view[g], remote[g]}
<1>1. UNCHANGED files
  BY DEF FillsNoFile, BeginBootstrap, BeginReconcile, FillScanFresh, FillScanCached, Listed,
         FillScanIncomplete, FinishReconcile, FinishBootstrap, vars
<1>2. CASE view' = view
  BY <1>1, <1>2
<1>3. CASE FillScanFresh \/ FillScanCached \/ FillScanIncomplete
  BY <1>1, <1>3 DEF FillScanFresh, FillScanCached, FillScanIncomplete, TypeOK
<1> QED
  BY <1>1, <1>2, <1>3 DEF FillsNoFile, BeginBootstrap, BeginReconcile, FinishReconcile,
     FinishBootstrap, vars, scan

\* The bootstrap begins between cycles, the reconciliation reads the folder.
LEMMA BeginKnown ==
  ASSUME FillingIsKnown, BeginBootstrap \/ BeginReconcile
  PROVE  FillingIsKnown'
<1>1. UNCHANGED vars
  BY DEF BeginBootstrap, BeginReconcile
<1>2. TypeOK'
  BY <1>1, StepTypes DEF FillingIsKnown
<1>3. FillTypeOK'
  BY DEF BeginBootstrap, BeginReconcile, FillingIsKnown, FillTypeOK, TypeOK, questions
<1>4. FillingIsAlone'
  BY <1>1 DEF BeginBootstrap, BeginReconcile, FillingIsKnown, FillingIsAlone, vars, asking
<1>5. FoundIsCurrent'
  BY <1>1 DEF BeginBootstrap, BeginReconcile, FoundIsCurrent, vars, files
<1> QED
  BY <1>2, <1>3, <1>4, <1>5 DEF FillingIsKnown

\* What was listed is what the files are compared with.
LEMMA ScanKnown ==
  ASSUME FillingIsKnown, FillScanFresh \/ FillScanCached
  PROVE  FillingIsKnown'
<1>1. filling = "scan" /\ Listed /\ FillTypeOK /\ TypeOK
  BY DEF FillScanFresh, FillScanCached, FillingIsKnown
<1>2. view' \in [Files -> Version] /\ listed' \in BOOLEAN
  BY <1>1 DEF FillScanFresh, FillScanCached, TypeOK
<1>3. TypeOK'
  BY <1>1, <1>2 DEF Listed, TypeOK, files, past, loop, asking
<1>4. FillTypeOK'
  <2>1. Said \in {"none", "here", "iCloud", "both"}
    BY DEF Said
  <2>2. word' \in [Files -> {"none", "here", "iCloud", "both"}]
    BY <1>1, <2>1 DEF Listed, FillTypeOK
  <2> QED
    BY <1>1, <1>2, <2>2 DEF Listed, FillTypeOK
<1>5. FillingIsAlone'
  BY <1>1 DEF Listed, FillingIsKnown, FillingIsAlone, asking
<1>6. FoundIsCurrent'
  BY <1>1 DEF Listed, FillingIsKnown, FoundIsCurrent, files
<1> QED
  BY <1>3, <1>4, <1>5, <1>6 DEF FillingIsKnown

\* Nothing is left behind.
LEMMA FillOverKnown ==
  ASSUME FillTypeOK, FillOver, word' \in [Files -> {"none", "here", "iCloud", "both"}],
         conflicts' = conflicts, bare' \in BOOLEAN
  PROVE  FillTypeOK' /\ FoundIsCurrent'
BY DEF FillTypeOK, FillOver, FoundIsCurrent, Nowhere, Nothing, File, Version

\* A scan that fails, and the end of a filling.
LEMMA OverKnown ==
  ASSUME FillingIsKnown, FillScanIncomplete \/ FinishReconcile \/ FinishBootstrap
  PROVE  FillingIsKnown'
<1>1. FillOver /\ word' = word /\ conflicts' = conflicts /\ TypeOK /\ FillTypeOK
  BY DEF FillScanIncomplete, FinishReconcile, FinishBootstrap, questions, FillingIsKnown
<1>2. bare' \in BOOLEAN
  BY <1>1 DEF FillScanIncomplete, FinishReconcile, FinishBootstrap, FillTypeOK, TypeOK
<1>3. FillTypeOK' /\ FoundIsCurrent'
  BY <1>1, <1>2, FillOverKnown DEF FillTypeOK
<1>4. pc = "idle" /\ pc' = "idle" /\ (firstRun' => paused')
  <2>1. pc = "idle" /\ (firstRun => paused)
    BY DEF FillScanIncomplete, FinishReconcile, FinishBootstrap, FillingIsKnown, FillingIsAlone
  <2>2. CASE FillScanIncomplete
    BY <2>1, <2>2 DEF FillScanIncomplete, asking
  <2>3. CASE FinishReconcile
    BY <2>1, <2>3 DEF FinishReconcile
  <2>4. CASE FinishBootstrap
    BY <2>1, <2>4 DEF FinishBootstrap, vars, asking
  <2> QED
    BY <2>2, <2>3, <2>4
<1>5. FillingIsAlone'
  BY <1>1, <1>4 DEF FillOver, FillingIsAlone
<1>6. TypeOK'
  <2>1. CASE FillScanIncomplete
    <3>1. view' \in [Files -> Version] /\ listed' \in BOOLEAN
      BY <1>1, <2>1 DEF FillScanIncomplete, TypeOK
    <3> QED
      BY <1>1, <2>1, <3>1 DEF FillScanIncomplete, TypeOK, files, past, loop, asking
  <2>2. CASE FinishReconcile
    BY <1>1, <2>2 DEF FinishReconcile, TypeOK, files, past, scan, loop
  <2>3. CASE FinishBootstrap
    BY <1>1, <2>3, StepTypes DEF FinishBootstrap
  <2> QED
    BY <2>1, <2>2, <2>3
<1> QED
  BY <1>3, <1>5, <1>6 DEF FillingIsKnown

-----------------------------------------------------------------------------
(* Filling: what it makes of one file *)

Recorded(f) == row'[f] = Row(Head(local'[f]), view[f].etag) /\ NoteAgreement({f})

\* It is left to the user, or could not be downloaded.
LeftAlone == UNCHANGED <<local, remote, row, view, past>>

\* Both copies have one size.
Adopted(f) ==
  /\ UNCHANGED <<local, remote, view>>
  /\ local[f] \in Contents /\ view[f].content \in Contents
  /\ SizeOf[view[f].content] = SizeOf[local[f]]
  /\ Recorded(f)

\* It was downloaded.
Taken(f) ==
  /\ UNCHANGED <<remote, view>>
  /\ remote[f] # Missing /\ local'[f] = remote[f].content /\ local'[f] # Absent
  /\ Recorded(f)

\* It was uploaded; the row carries the stamp of the version that was replaced.
Given(f) ==
  /\ local' = local /\ local[f] # Absent
  /\ remote'[f] = [content |-> local[f], etag |-> NewEtag(f)]
  /\ view'[f] \in {view[f], remote'[f]}
  /\ Recorded(f)

\* The upload failed.
NotGiven(f) ==
  /\ UNCHANGED <<local, view, past>>
  /\ remote'[f] \in {remote[f], Missing} /\ row'[f] = row[f]

FileFilled(f) ==
  /\ TypeOK' /\ OnlyAt(f) /\ conflicts' \in [Files -> {"none", "open", "resolved"}]
  /\ LeftAlone \/ Adopted(f) \/ Taken(f) \/ Given(f) \/ NotGiven(f)

\* What is known of the file when its turn comes.
LEMMA FoundAtTurn ==
  ASSUME FillingIsKnown, NEW f \in Files, FillFile(f)
  PROVE  /\ TypeOK /\ FillTypeOK
         /\ offered[f] = view[f] /\ offered[f].content \in Contents
         /\ mode # "bootstrap" => had[f] = local[f] /\ local[f] \in Contents
         /\ Head(local[f]) \in Hashes \cup {NoHash}
         /\ view[f].etag \in Etags \cup {NoEtag}
<1>1. /\ TypeOK /\ FillTypeOK
      /\ offered[f] = view[f] /\ offered[f].content # Absent
      /\ mode # "bootstrap" => had[f] = local[f] /\ had[f] # Absent
  BY DEF FillFile, FillingIsKnown, FoundIsCurrent
<1>2. view[f] \in Version /\ local[f] \in File
  BY <1>1 DEF TypeOK
<1> QED
  BY <1>1, <1>2, HeadType, VersionFields DEF File

\* What nothing but the row and the history of one file changes, and the files
\* of one side, is well typed afterwards.
LEMMA FilledTypes ==
  ASSUME TypeOK, NEW f \in Files, FillFile(f), NEW r \in Rows, SetRow(f, r),
         NoteAgreement({f}), UNCHANGED asking,
         local' \in [Files -> File], remote' \in [Files -> Version], view' \in [Files -> Version]
  PROVE  TypeOK'
<1>1. row' \in [Files -> Rows]
  BY DEF TypeOK, SetRow
<1>2. agreed' \in [Files -> File] /\ savedHere' \subseteq Files /\ savedThere' \subseteq Files
  BY NoteAgreementTypes
<1> QED
  BY <1>1, <1>2 DEF FillFile, TypeOK, loop, asking

\* Equal sizes are recorded.
LEMMA AdoptFills ==
  ASSUME FillingIsKnown, NEW f \in Files, FillFile(f), AdoptSame(f)
  PROVE  FileFilled(f)
<1>1. /\ TypeOK /\ FillTypeOK /\ offered[f] = view[f] /\ had[f] = local[f]
      /\ local' = local /\ remote' = remote /\ view' = view /\ conflicts' = conflicts
      /\ view[f].content \in Contents /\ local[f] \in Contents
  BY FoundAtTurn DEF AdoptSame
<1>2. Row(Head(local'[f]), offered[f].etag) \in Rows
  BY <1>1, FoundAtTurn, RowTypes
<1>3. TypeOK'
  BY <1>1, <1>2, FilledTypes DEF AdoptSame, Record, TypeOK, FillFile, asking
<1>4. /\ row'[f] = Row(Head(local'[f]), view[f].etag)
      /\ \A g \in Files \ {f} : row'[g] = row[g]
  BY <1>1, SetRowAtOne DEF AdoptSame, Record
<1>5. Adopted(f)
  BY <1>1, <1>4 DEF Adopted, Recorded, AdoptSame, SameSizeFound
<1>6. OnlyAt(f)
  BY <1>1, <1>4, AgreementNoted DEF AdoptSame, OnlyAt
<1> QED
  BY <1>1, <1>3, <1>5, <1>6 DEF FileFilled, FillTypeOK

\* What is not touched.
LEMMA LeftAloneFills ==
  ASSUME TypeOK, NEW f \in Files, FillFile(f), LeftAlone,
         conflicts' \in [Files -> {"none", "open", "resolved"}]
  PROVE  FileFilled(f)
<1>1. UNCHANGED vars
  BY DEF FillFile, LeftAlone, vars, files, scan
<1>2. TypeOK'
  BY <1>1, StepTypes
<1>3. OnlyAt(f)
  BY DEF LeftAlone, past, OnlyAt
<1> QED
  BY <1>2, <1>3 DEF FileFilled

\* A conflict is listed, and nothing is done about it.
LEMMA LeaveFills ==
  ASSUME FillingIsKnown, NEW f \in Files, FillFile(f), LeaveToUser(f)
  PROVE  FileFilled(f)
<1>1. conflicts' \in [Files -> {"none", "open", "resolved"}]
  BY DEF LeaveToUser, FillingIsKnown, FillTypeOK
<1>2. LeftAlone
  BY DEF LeaveToUser, LeftAlone, files
<1> QED
  BY <1>1, <1>2, LeftAloneFills DEF FillingIsKnown

\* A download is recorded, a failed one is not.
LEMMA TakeRemoteFills ==
  ASSUME FillingIsKnown, NEW f \in Files, FillFile(f), TakeRemote(f)
  PROVE  FileFilled(f)
<1>1. /\ TypeOK /\ FillTypeOK /\ offered[f] = view[f]
      /\ view' = view /\ remote' = remote /\ conflicts' = conflicts
      /\ view[f].etag \in Etags \cup {NoEtag} /\ view[f].content # Absent
  BY FoundAtTurn, ConstantsAssumption DEF TakeRemote
<1>2. conflicts' \in [Files -> {"none", "open", "resolved"}]
  BY <1>1 DEF FillTypeOK
<1>3. CASE UNCHANGED <<local, remote, row, past>>
  BY <1>1, <1>2, <1>3, LeftAloneFills DEF LeftAlone
<1>4. CASE /\ remote[f] # Missing
           /\ local' = [local EXCEPT ![f] = remote[f].content]
           /\ Record(f) /\ NoteAgreement({f})
  <2>1. remote[f].content \in File /\ remote[f].content # Absent
    BY <1>1, <1>4, VersionFields DEF TypeOK
  <2>2. /\ local' \in [Files -> File] /\ local'[f] = remote[f].content
        /\ \A g \in Files \ {f} : local'[g] = local[g]
    BY <1>1, <1>4, <2>1 DEF TypeOK
  <2>3. Row(Head(local'[f]), offered[f].etag) \in Rows
    BY <1>1, <2>1, <2>2, HeadType, RowTypes
  <2>4. TypeOK'
    BY <1>1, <1>4, <2>2, <2>3, FilledTypes DEF Record, TypeOK, FillFile, asking
  <2>5. /\ row'[f] = Row(Head(local'[f]), view[f].etag)
        /\ \A g \in Files \ {f} : row'[g] = row[g]
    BY <1>1, <1>4, SetRowAtOne DEF Record
  <2>6. Taken(f)
    BY <1>1, <1>4, <2>1, <2>2, <2>5 DEF Taken, Recorded
  <2>7. OnlyAt(f)
    BY <1>1, <1>4, <2>2, <2>5, AgreementNoted DEF OnlyAt
  <2> QED
    BY <1>2, <2>4, <2>6, <2>7 DEF FileFilled
<1> QED
  BY <1>1, <1>3, <1>4 DEF TakeRemote

\* An upload is recorded, a failed one is not.
LEMMA TakeLocalFills ==
  ASSUME FillingIsKnown, NEW f \in Files, FillFile(f), TakeLocal(f)
  PROVE  FileFilled(f)
<1>1. /\ TypeOK /\ FillTypeOK /\ offered[f] = view[f] /\ local' = local
      /\ view[f].etag \in Etags \cup {NoEtag} /\ Head(local[f]) \in Hashes \cup {NoHash}
  BY FoundAtTurn DEF TakeLocal, UploadFailed
<1>2. conflicts' \in [Files -> {"none", "open", "resolved"}]
  BY <1>1 DEF TakeLocal, FillTypeOK
<1>3. /\ seen' = seen /\ listed' = listed /\ fresh' = fresh /\ pc' = pc
      /\ UNCHANGED loop /\ UNCHANGED asking
  BY DEF FillFile
<1>4. CASE UploadFailed(f, row[f])
  <2>1. row'[f] = row[f] /\ (\A g \in Files \ {f} : row'[g] = row[g]) /\ view' = view
    BY <1>1, <1>4, SetRowAtOne DEF UploadFailed
  <2>2. /\ remote' \in [Files -> Version] /\ remote'[f] \in {Missing, remote[f]}
        /\ \A g \in Files \ {f} : remote'[g] = remote[g]
    BY <1>1, <1>4 DEF UploadFailed, TypeOK, Version
  <2>3. row' \in [Files -> Rows]
    BY <1>1, <1>4 DEF UploadFailed, SetRow, TypeOK
  <2>4. TypeOK'
    BY <1>1, <1>3, <1>4, <2>2, <2>3 DEF UploadFailed, TypeOK, past, loop, asking
  <2>5. NotGiven(f)
    BY <1>4, <2>1, <2>2 DEF NotGiven, UploadFailed
  <2>6. OnlyAt(f)
    BY <1>4, <2>1, <2>2 DEF UploadFailed, OnlyAt, past
  <2> QED
    BY <1>2, <2>4, <2>5, <2>6 DEF FileFilled
<1>5. CASE /\ local[f] # Absent
           /\ remote' = [remote EXCEPT ![f] = [content |-> local[f], etag |-> NewEtag(f)]]
           /\ \/ view' = [view EXCEPT ![f] = remote'[f]]
              \/ "uploadUnlisted" \in Faults /\ UNCHANGED view
           /\ Record(f) /\ NoteAgreement({f})
  <2> DEFINE new == [content |-> local[f], etag |-> NewEtag(f)]
  <2>1. new \in Version
    BY <1>1, <1>5, NewEtagIsNew DEF TypeOK, File, Version
  <2>2. /\ remote' \in [Files -> Version] /\ remote'[f] = new
        /\ \A g \in Files \ {f} : remote'[g] = remote[g]
    BY <1>1, <1>5, <2>1 DEF TypeOK
  <2>3. /\ view' \in [Files -> Version] /\ view'[f] \in {view[f], new}
        /\ \A g \in Files \ {f} : view'[g] = view[g]
    BY <1>1, <1>5, <2>1, <2>2 DEF TypeOK
  <2>4. Row(Head(local'[f]), offered[f].etag) \in Rows
    BY <1>1, RowTypes
  <2>5. TypeOK'
    BY <1>1, <1>3, <1>5, <2>2, <2>3, <2>4, FilledTypes DEF Record, TypeOK
  <2>6. /\ row'[f] = Row(Head(local'[f]), view[f].etag)
        /\ \A g \in Files \ {f} : row'[g] = row[g]
    BY <1>1, <1>5, SetRowAtOne DEF Record
  <2>7. Given(f)
    BY <1>1, <1>5, <2>2, <2>3, <2>6 DEF Given, Recorded
  <2>8. OnlyAt(f)
    BY <1>1, <1>5, <2>2, <2>3, <2>6, AgreementNoted DEF OnlyAt
  <2> QED
    BY <1>2, <2>5, <2>7, <2>8 DEF FileFilled
<1> QED
  BY <1>1, <1>4, <1>5 DEF TakeLocal

\* Every branch of the filling.
LEMMA FillFileFills ==
  ASSUME FillingIsKnown, NEW f \in Files, FillFile(f)
  PROVE  FileFilled(f)
BY AdoptFills, LeaveFills, TakeRemoteFills, TakeLocalFills DEF FillFile

\* Only the file that is handled can have moved, and it is not looked at again.
LEMMA FillFileKnown ==
  ASSUME FillingIsKnown, NEW f \in Files, FillFile(f)
  PROVE  FillingIsKnown'
<1>1. /\ filling = "files" /\ pc' = pc /\ undone' = undone \ {f}
      /\ filling' = filling /\ mode' = mode /\ had' = had /\ offered' = offered
      /\ bare' = bare /\ paused' = paused /\ firstRun' = firstRun
  BY DEF FillFile, asking
<1>2. TypeOK' /\ OnlyAt(f) /\ conflicts' \in [Files -> {"none", "open", "resolved"}]
  BY FillFileFills DEF FileFilled
<1>3. FillTypeOK'
  BY <1>1, <1>2, KeepWordTypes DEF FillFile, FillingIsKnown, FillTypeOK
<1>4. FillingIsAlone'
  BY <1>1 DEF FillingIsKnown, FillingIsAlone
<1>5. FoundIsCurrent'
  BY <1>1, <1>2 DEF FillingIsKnown, FoundIsCurrent, FillTypeOK, OnlyAt
<1> QED
  BY <1>2, <1>3, <1>4, <1>5 DEF FillingIsKnown

-----------------------------------------------------------------------------
(* Every step *)

\* Every step knows where the filling is.
LEMMA FirstStepKnown ==
  Undisturbed /\ FillingIsKnown /\ [FirstNext]_firstVars => FillingIsKnown'
<1> SUFFICES ASSUME Undisturbed, FillingIsKnown, [FirstNext]_firstVars PROVE FillingIsKnown'
  OBVIOUS
<1>1. CASE DaemonStep \/ Edit \/ UserStep \/ \E f \in Files : KeepBoth(f)
  BY <1>1, DaemonStepKnown, EditKeepsKnown, UserStepKnown, KeepBothKnown
<1>2. CASE FillStep
  BY <1>2, BeginKnown, ScanKnown, OverKnown, FillFileKnown DEF FillStep
<1>3. CASE UNCHANGED firstVars
  <2>1. TypeOK'
    BY <1>3, StepTypes DEF firstVars, FillingIsKnown
  <2>2. FillTypeOK' /\ FillingIsAlone' /\ FoundIsCurrent'
    BY <1>3 DEF FillingIsKnown, FillTypeOK, FillingIsAlone, FoundIsCurrent, firstVars, fill,
                questions, vars, files, scan, asking
  <2> QED
    BY <2>1, <2>2 DEF FillingIsKnown
<1> QED
  BY <1>1, <1>2, <1>3 DEF FirstNext

\* Whatever does not fill the database is a step of the cycles or changes
\* nothing of theirs.
LEMMA FirstStepIs ==
  Undisturbed /\ FillingIsKnown /\ [FirstNext]_firstVars => [Next]_vars \/ FillStep
BY UserStepKnown, KeepBothIsAnEdit DEF FirstNext, DaemonStep, Edit, Next, EnvironmentStep, firstVars

\* No cycle runs beside a filling, and both copies of a file that it has not
\* handled are what it has found: whatever is answered, and whatever fails.
THEOREM FillingStaysKnown ==
  ASSUME Undisturbed
  PROVE  FirstSpec => []FillingIsKnown
<1>1. FirstInit => FillingIsKnown
  BY FirstInitKnown DEF Undisturbed
<1> QED
  BY <1>1, FirstStepKnown, PTL DEF FirstSpec

-----------------------------------------------------------------------------
(* What looks in sync is in sync *)

\* A filling writes rows that the next comparison can trust.
LEMMA FillSound ==
  ASSUME FillsAlone, FillingIsKnown, ComparisonsAreSound, FillStep, TypeOK'
  PROVE  ComparisonsAreSound'
<1>1. SeenIsCurrent'
  BY FillIsQuiet DEF SeenIsCurrent
<1>2. CASE FillsNoFile
  <2>1. UNCHANGED files /\ \A g \in Files : view'[g] \in {view[g], remote[g]}
    BY <1>2, FillReads DEF FillingIsKnown
  <2>2. RowsDescribeRemote' /\ ViewDescribesRemote'
    BY <2>1 DEF ComparisonsAreSound, RowsDescribeRemote, RowFits, ViewDescribesRemote,
                ViewFits, files
  <2> QED
    BY <1>1, <2>2 DEF ComparisonsAreSound
<1>3. ASSUME NEW f \in Files, FillFile(f) PROVE ComparisonsAreSound'
  <2>1. FileFilled(f) /\ TypeOK /\ RowFits(f) /\ ViewFits(f)
    BY <1>3, FillFileFills
       DEF FillingIsKnown, ComparisonsAreSound, RowsDescribeRemote, ViewDescribesRemote
  <2>2. RowFits(f)' /\ ViewFits(f)'
    <3>1. CASE LeftAlone
      BY <2>1, <3>1 DEF LeftAlone, RowFits, ViewFits
    <3>2. CASE Adopted(f)
      <4>1. view[f].content = local[f]
        BY <3>2 DEF Adopted, FillsAlone, Reliable, FingerprintsIdentify
      <4> QED
        BY <2>1, <3>2, <4>1 DEF Adopted, Recorded, RowFits, ViewFits, Row, Head
    <3>3. CASE Taken(f)
      BY <2>1, <3>3 DEF Taken, Recorded, RowFits, ViewFits, Row, Head
    <3>4. CASE Given(f)
      BY <2>1, <3>4, NewEtagIsNew DEF Given, Recorded, RowFits, ViewFits, Row
    <3>5. CASE NotGiven(f)
      BY <2>1, <3>5 DEF NotGiven, RowFits, ViewFits
    <3> QED
      BY <2>1, <3>1, <3>2, <3>3, <3>4, <3>5 DEF FileFilled
  <2>3. RowsDescribeRemote' /\ ViewDescribesRemote'
    BY <2>1, <2>2 DEF FileFilled, OnlyAt, ComparisonsAreSound, RowsDescribeRemote, RowFits,
                      ViewDescribesRemote, ViewFits
  <2> QED
    BY <1>1, <2>3 DEF ComparisonsAreSound
<1> QED
  BY <1>2, <1>3 DEF FillStep, FillsNoFile

\* Whatever answer is given, whenever the bootstrap runs and however its scans
\* and transfers fail: what it and every later cycle compare can be trusted.
THEOREM FillingStaysSound ==
  ASSUME FillsAlone
  PROVE  FirstSpec => []FillingIsSound
<1>1. FirstInit => ComparisonsAreSound
  BY InitTypes, InitSound DEF FirstInit, ComparisonsAreSound, Sound
<1>2. FirstSpec => []FillingIsKnown
  BY FillingStaysKnown DEF FillsAlone
<1>3. FillingIsKnown /\ FillingIsKnown' /\ ComparisonsAreSound /\ [FirstNext]_firstVars =>
        ComparisonsAreSound'
  BY FirstStepIs, StepSound, FillSound DEF FillsAlone, FillingIsKnown
<1>4. FillingIsKnown /\ ComparisonsAreSound => FillingIsSound
  BY DEF FillingIsKnown, FillingIsSound
<1> QED
  BY <1>1, <1>2, <1>3, <1>4, PTL DEF FirstSpec

\* A file that the engine will leave alone because its row matches both sides is
\* the same on both sides, also when the row was written by a first-run answer
\* or by the bootstrap.
THEOREM FilledFilesAreEqual ==
  ASSUME FillsAlone
  PROVE  FirstSpec => []InSyncMeansEqual
<1>1. FillingIsSound => InSyncMeansEqual
  BY SoundComparisonsSuffice DEF FillsAlone, Reliable, FillingIsSound
<1>2. FirstSpec => []FillingIsSound
  BY FillingStaysSound
<1> QED
  BY <1>1, <1>2, PTL

-----------------------------------------------------------------------------
(* What the scans of a cycle prove, around fillings *)

\* A filling claims nothing of scans: no cycle runs.
LEMMA FillProves ==
  ASSUME FillingIsKnown, ScansStillProve, FillStep, TypeOK'
  PROVE  ScansStillProve'
<1>1. pc = "idle" /\ pc' = "idle" /\ fresh' = fresh
  BY FillIsQuiet
<1> QED
  BY <1>1 DEF ScansStillProve, SeenIsCurrent, FreshOnlyInCycle, ListingHolds,
              VisitsWhatWasSeen, CandidatesAreGone, UnseenIsGone

\* Files a filling handles become tracked or stay as they were.
LEMMA FillForgets ==
  ASSUME FillingIsKnown, FillStep
  PROVE  \A g \in Files : row[g].tracked => row'[g].tracked
<1>1. CASE FillsNoFile
  BY <1>1, FillReads DEF FillingIsKnown, files
<1>2. ASSUME NEW f \in Files, FillFile(f)
      PROVE  \A g \in Files : row[g].tracked => row'[g].tracked
  <2>1. FileFilled(f)
    BY <1>2, FillFileFills
  <2>2. row'[f] = row[f] \/ row'[f].tracked
    <3>1. Recorded(f) => row'[f].tracked
      BY DEF Recorded, Row
    <3> QED
      BY <2>1, <3>1 DEF FileFilled, LeftAlone, Adopted, Taken, Given, NotGiven
  <2> QED
    BY <2>1, <2>2 DEF FileFilled, OnlyAt
<1> QED
  BY <1>1, <1>2 DEF FillStep, FillsNoFile

\* What the scans of a cycle showed is still true at each place that deletes a
\* file or drops its row, also after fillings.
THEOREM ScansStayTrueAroundFillings ==
  ASSUME Undisturbed
  PROVE  FirstSpec => []ScansStillProve
<1>1. FirstInit => ScansStillProve
  BY InitTypes, InitProves DEF FirstInit, ScansStillProve, StillProved
<1>2. FirstSpec => []FillingIsKnown
  BY FillingStaysKnown
<1>3. FillingIsKnown /\ FillingIsKnown' /\ ScansStillProve /\ [FirstNext]_firstVars =>
        ScansStillProve'
  BY FirstStepIs, StepProves, FillProves DEF Undisturbed, FillingIsKnown
<1> QED
  BY <1>1, <1>2, <1>3, PTL DEF FirstSpec

\* No file is forgotten while a copy of it is left on either side, whether its
\* row was written by a cycle, a first-run answer or the bootstrap.
THEOREM FilledFilesAreNotForgotten ==
  ASSUME Undisturbed
  PROVE  FirstSpec => ForgottenOnlyWhenGone
<1>1. FirstSpec => []FillingIsKnown
  BY FillingStaysKnown
<1>2. FirstSpec => []ScansStillProve
  BY ScansStayTrueAroundFillings
<1>3. FillingIsKnown /\ ScansStillProve /\ [FirstNext]_firstVars => [ForgottenAreGone]_vars
  BY FirstStepIs, StepForgets, FillForgets DEF Undisturbed, ForgottenAreGone
<1> QED
  BY <1>1, <1>2, <1>3, PTL DEF FirstSpec, ForgottenOnlyWhenGone, ForgottenAreGone

-----------------------------------------------------------------------------
(* The answer is about files that are not tracked *)

\* The question is asked of an empty database only, and no file is tracked until
\* the filling handles it.
EmptyWhenAsked ==
  /\ filling # "no" => (firstRun <=> mode # "bootstrap")
  /\ firstRun /\ filling # "files" => Tracked = {}
  /\ filling = "files" => \A f \in undone : firstRun => ~row[f].tracked

\* What a filling has listed is still there when its turn comes.
FillingSeesRemote == filling = "files" => \A f \in undone : offered[f] = remote[f]

\* A cycle asks only when there is no row.
LEMMA CycleAsksFirst ==
  ASSUME FillingIsKnown, DaemonStep
  PROVE  EmptyWhenAsked' /\ FillingSeesRemote'
<1>1. filling' = "no" /\ ~firstRun
  BY CyclesRunAlone DEF DaemonStep, fill
<1>2. firstRun' => AskFirstRun
  <2>1. ASSUME NEW f \in Files, HandleFile(f) PROVE firstRun' = firstRun
    BY <2>1, HandleFileVisits DEF Visited, asking
  <2> QED
    BY <1>1, <2>1 DEF DaemonStep, CycleStep, StartCycle, ScanFresh, ScanCached, ScanIncomplete,
       AbortTruncated, BeginFiles, ParkDeletions, BeginRemovals, RemoveLocal, FinishCycle,
       AbandonCycle, asking
<1>3. AskFirstRun => Tracked' = {}
  BY DEF AskFirstRun, FirstRunOverlap, Tracked, files
<1> QED
  BY <1>1, <1>2, <1>3 DEF EmptyWhenAsked, FillingSeesRemote

\* Neither an edit nor a click touches a row or what is being filled.
LEMMA UserKeepsFirst ==
  ASSUME Undisturbed, FillingIsKnown, EmptyWhenAsked,
         Edit \/ UserStep \/ \E f \in Files : KeepBoth(f)
  PROVE  EmptyWhenAsked' /\ (FillingSeesRemote => FillingSeesRemote')
<1>1. CASE Edit \/ \E f \in Files : KeepBoth(f)
  <2>1. /\ filling \in {"no", "begin"} /\ filling' = filling /\ mode' = mode
        /\ row' = row /\ firstRun' = firstRun
    BY <1>1 DEF Edit, KeepBoth, EnvironmentStep, EditLocal, EditRemote, fill, asking, Undisturbed
  <2> QED
    BY <2>1 DEF EmptyWhenAsked, FillingSeesRemote, Tracked
<1>2. ASSUME NEW m \in Choices, Answer(m)
             PROVE EmptyWhenAsked' /\ (FillingSeesRemote => FillingSeesRemote')
  <2>1. m \in Modes
    BY FirstRunAssumption
  <2> QED
    BY <1>2, <2>1 DEF Answer, EmptyWhenAsked, FillingSeesRemote, Modes, Tracked, vars, files, asking
<1>3. ASSUME NEW f \in Files, NEW copy \in {"here", "iCloud"}, ResolveConflict(f, copy)
      PROVE  EmptyWhenAsked' /\ (FillingSeesRemote => FillingSeesRemote')
  BY <1>3 DEF ResolveConflict, EmptyWhenAsked, FillingSeesRemote, Tracked, vars, files, asking, fill
<1> QED
  BY <1>1, <1>2, <1>3 DEF UserStep

\* A filling keeps it to itself.
LEMMA FillKeepsFirst ==
  ASSUME FillingIsKnown, EmptyWhenAsked, FillStep
  PROVE  EmptyWhenAsked' /\ (RemoteIsSeen /\ FillingSeesRemote => FillingSeesRemote')
<1> USE DEF EmptyWhenAsked, FillingSeesRemote
<1>1. CASE BeginBootstrap \/ BeginReconcile
  BY <1>1 DEF BeginBootstrap, BeginReconcile, FillingIsKnown, FillingIsAlone, Tracked, vars,
              files, asking
<1>2. CASE FillScanFresh
  BY <1>2 DEF FillScanFresh, Listed, Tracked, files, asking
<1>3. CASE FillScanCached
  <2>1. ~RemoteIsSeen
    BY <1>3 DEF FillScanCached, RemoteIsSeen
  <2> QED
    BY <1>3, <2>1 DEF FillScanCached, Listed, Tracked, files, asking
<1>4. CASE FillScanIncomplete \/ FinishReconcile \/ FinishBootstrap
  BY <1>4 DEF FillScanIncomplete, FinishReconcile, FinishBootstrap, FillOver, Tracked, vars,
              files, asking
<1>5. ASSUME NEW f \in Files, FillFile(f)
             PROVE EmptyWhenAsked' /\ (FillingSeesRemote => FillingSeesRemote')
  <2>1. OnlyAt(f) /\ undone \subseteq Files
    BY <1>5, FillFileFills DEF FileFilled, FillingIsKnown, FillTypeOK
  <2>2. /\ filling = "files" /\ filling' = "files" /\ mode' = mode /\ firstRun' = firstRun
        /\ undone' = undone \ {f} /\ offered' = offered
    BY <1>5 DEF FillFile, asking
  <2> QED
    BY <2>1, <2>2 DEF OnlyAt
<1> QED
  BY <1>1, <1>2, <1>3, <1>4, <1>5 DEF FillStep

\* Neither an edit nor a click, neither a cycle nor a filling asks about a file
\* that is tracked.
LEMMA FirstStepAsksFirst ==
  ASSUME Undisturbed, FillingIsKnown, EmptyWhenAsked, [FirstNext]_firstVars
  PROVE  EmptyWhenAsked' /\ (RemoteIsSeen /\ FillingSeesRemote => FillingSeesRemote')
<1>1. CASE UNCHANGED firstVars
  BY <1>1 DEF EmptyWhenAsked, FillingSeesRemote, Tracked, firstVars, vars, files, asking, fill
<1> QED
  BY <1>1, CycleAsksFirst, UserKeepsFirst, FillKeepsFirst DEF FirstNext

\* Which side a filling changes, and that it changes files it was asked about.
LEMMA FillTakesSides ==
  ASSUME FillingIsKnown, EmptyWhenAsked, FillStep, NEW f \in Files
  PROVE  /\ remote'[f] # remote[f] =>
              mode = "prefer-local" /\ local[f] # Absent /\ ~row[f].tracked
         /\ local'[f] # local[f] /\ mode # "bootstrap" =>
              mode = "prefer-remote" /\ remote[f] # Missing /\ ~row[f].tracked
<1>1. CASE FillsNoFile
  BY <1>1, FillReads DEF FillingIsKnown, files
<1>2. ASSUME NEW g \in Files, FillFile(g), g # f
      PROVE  remote'[f] = remote[f] /\ local'[f] = local[f]
  BY <1>2, FillFileFills DEF FileFilled, OnlyAt
<1>3. CASE FillFile(f)
  <2>1. filling = "files" /\ f \in undone
    BY <1>3 DEF FillFile
  <2>2. mode # "bootstrap" => ~row[f].tracked /\ local[f] # Absent
    BY <1>3, <2>1, FoundAtTurn, ConstantsAssumption DEF EmptyWhenAsked
  <2>3. remote'[f] # remote[f] => mode = "prefer-local"
    BY <1>3 DEF FillFile, AdoptSame, LeaveToUser, TakeRemote, TakeLocal, files
  <2>4. local'[f] # local[f] => TakeRemote(f) /\ remote[f] # Missing
    BY <1>3 DEF FillFile, AdoptSame, LeaveToUser, TakeRemote, TakeLocal, UploadFailed, files
  <2>5. TakeRemote(f) => mode \in {"bootstrap", "prefer-remote"}
    BY DEF TakeRemote
  <2> QED
    BY <2>2, <2>3, <2>4, <2>5
<1> QED
  BY <1>1, <1>2, <1>3 DEF FillStep, FillsNoFile

-----------------------------------------------------------------------------
(* Edits of the other devices, after fillings *)

\* A filling knows, of what it records, what is on disk.
LEMMA FillKnowsHere ==
  ASSUME FillingIsKnown, LocalSideKnown, FillStep
  PROVE  LocalSideKnown'
<1>1. CASE FillsNoFile
  BY <1>1, FillReads DEF FillingIsKnown, files, past, LocalSideKnown, HereKnown
<1>2. ASSUME NEW f \in Files, FillFile(f) PROVE LocalSideKnown'
  <2>1. FileFilled(f) /\ TypeOK /\ HereKnown(f)
    BY <1>2, FillFileFills DEF FillingIsKnown, LocalSideKnown
  <2>2. HereKnown(f)'
    <3>1. CASE LeftAlone \/ NotGiven(f)
      BY <2>1, <3>1 DEF LeftAlone, NotGiven, past, HereKnown
    <3>2. CASE Adopted(f)
      <4>1. /\ local' = local /\ local[f] # Absent
            /\ row'[f].tracked /\ row'[f].hash = Head(local'[f])
        BY <3>2, ConstantsAssumption DEF Adopted, Recorded, Row
      <4>2. CASE local'[f] \in {remote'[f].content, view[f].content}
        BY <2>1, <3>2, <4>1, <4>2, AgreementNoted DEF Adopted, Recorded, HereKnown, Head
      <4>3. CASE local'[f] \notin {remote'[f].content, view[f].content}
        <5>1. agreed'[f] = agreed[f] /\ (f \in savedHere' <=> f \in savedHere)
          BY <2>1, <3>2, <4>3, AgreementNoted DEF Adopted, Recorded
        <5> QED
          BY <2>1, <4>1, <5>1 DEF HereKnown, Head
      <4> QED
        BY <4>2, <4>3
    <3>3. CASE Taken(f) \/ Given(f)
      <4>1. /\ local'[f] = remote'[f].content /\ local'[f] # Absent
            /\ row'[f].tracked /\ row'[f].hash = Head(local'[f]) /\ NoteAgreement({f})
        BY <3>3 DEF Taken, Given, Recorded, Row
      <4>2. agreed'[f] = local'[f]
        BY <2>1, <4>1, AgreementNoted
      <4> QED
        BY <4>1, <4>2 DEF HereKnown, Head
    <3> QED
      BY <2>1, <3>1, <3>2, <3>3 DEF FileFilled
  <2> QED
    BY <2>1, <2>2, OtherStaysKnown DEF FileFilled
<1> QED
  BY <1>1, <1>2 DEF FillStep, FillsNoFile

\* An edit made on another device is overwritten or deleted only when this computer
\* changed the file too: in every cycle, before and after a filling, and by the
\* filling itself, of which only the answer "Trust this computer" touches iCloud.
THEOREM RemoteEditsAreKeptAfterFillings ==
  ASSUME Undisturbed
  PROVE  FirstSpec => RemoteEditsSurvive /\ FillingSparesRemote
<1> DEFINE Kept == \A f \in Files :
                     EngineActs /\ fresh /\ remote'[f] # remote[f] =>
                       remote[f].content = agreed[f] \/ f \in savedHere
           Spared == \A f \in Files :
                       FillStep /\ remote'[f] # remote[f] =>
                         /\ mode = "prefer-local"
                         /\ remote[f].content = agreed[f] \/ f \in savedHere
<1>1. FirstInit => LocalSideKnown /\ EmptyWhenAsked
  <2>1. FirstInit => LocalSideKnown
    BY DEF FirstInit, Init, LocalSideKnown, HereKnown, Untracked
  <2>2. FirstInit => EmptyWhenAsked
    BY DEF FirstInit, Init, EmptyWhenAsked, Undisturbed
  <2> QED
    BY <2>1, <2>2
<1>2. FirstSpec => []FillingIsKnown
  BY FillingStaysKnown
<1>3. FirstSpec => []ScansStillProve
  BY ScansStayTrueAroundFillings
<1>4. FillingIsKnown /\ EmptyWhenAsked /\ [FirstNext]_firstVars => EmptyWhenAsked'
  BY FirstStepAsksFirst
<1>5. FillingIsKnown /\ ScansStillProve /\ LocalSideKnown /\ [FirstNext]_firstVars =>
        LocalSideKnown' /\ FollowsHere
  BY FirstStepIs, StepKnows, FillKnowsHere, FillIsQuiet DEF FollowsHere
<1>6. FollowsHere => [Kept]_vars
  BY DEF FollowsHere
<1>7. FillingIsKnown /\ EmptyWhenAsked /\ LocalSideKnown => [Spared]_firstVars
  BY FillTakesSides DEF LocalSideKnown, HereKnown
<1> QED
  BY <1>1, <1>2, <1>3, <1>4, <1>5, <1>6, <1>7, PTL
     DEF FirstSpec, RemoteEditsSurvive, FillingSparesRemote

-----------------------------------------------------------------------------
(* Edits of this user, after fillings *)

\* A filling knows, of what it records, which version is on iCloud.
LEMMA FillKnowsThere ==
  ASSUME FillingIsKnown, EmptyWhenAsked, FillingSeesRemote, RemoteSideKnown, FillStep
  PROVE  RemoteSideKnown'
<1>1. pc' = "idle"
  BY FillIsQuiet
<1>2. CASE FillsNoFile
  BY <1>1, <1>2, FillReads DEF FillingIsKnown, files, past, RemoteSideKnown, ThereKnown
<1>3. ASSUME NEW f \in Files, FillFile(f) PROVE RemoteSideKnown'
  <2>1. FileFilled(f) /\ TypeOK /\ ThereKnown(f) /\ f \in undone /\ filling = "files"
    BY <1>3, FillFileFills DEF FillingIsKnown, RemoteSideKnown, FillFile
  <2>2. view[f] = remote[f] /\ remote[f] # Missing
    BY <1>3, <2>1, FoundAtTurn, ConstantsAssumption DEF FillingSeesRemote, Missing
  <2>3. remote'[f] # remote[f] => f \in savedThere
    <3>1. remote'[f] # remote[f] => mode = "prefer-local"
      BY <1>3 DEF FillFile, AdoptSame, LeaveToUser, TakeRemote, TakeLocal, files
    <3>2. mode = "prefer-local" => ~row[f].tracked
      BY <2>1 DEF EmptyWhenAsked
    <3> QED
      BY <2>1, <2>2, <3>1, <3>2 DEF ThereKnown
  <2>4. ThereKnown(f)'
    <3>1. CASE LeftAlone
      BY <2>1, <3>1 DEF LeftAlone, past, ThereKnown
    <3>2. CASE Adopted(f) \/ Taken(f)
      BY <2>2, <3>2 DEF Adopted, Taken, Recorded, ThereKnown, Row
    <3>3. CASE Given(f)
      <4>1. /\ remote'[f] # Missing /\ remote'[f].etag # view[f].etag
            /\ row'[f].etag = view[f].etag /\ remote'[f] # remote[f]
        BY <2>1, <2>2, <3>3, NewEtagIsNew, ConstantsAssumption
           DEF Given, Recorded, Row, Missing, TypeOK
      <4>2. f \in savedThere'
        BY <2>3, <3>3, <4>1 DEF Given, Recorded, NoteAgreement
      <4> QED
        BY <4>2 DEF ThereKnown
    <3>4. CASE NotGiven(f)
      BY <2>1, <2>3, <3>4 DEF NotGiven, past, ThereKnown
    <3> QED
      BY <2>1, <3>1, <3>2, <3>3, <3>4 DEF FileFilled
  <2> QED
    BY <1>1, <2>1, <2>4 DEF FileFilled, OnlyAt, RemoteSideKnown, ThereKnown
<1> QED
  BY <1>2, <1>3 DEF FillStep, FillsNoFile

\* A local edit is replaced or removed only when another device changed the file
\* too: in every cycle, before and after a filling, and by the answer to the
\* question of the first run, of which only "Trust iCloud" touches the folder.
THEOREM LocalEditsAreKeptAfterFillings ==
  ASSUME Undisturbed, RemoteIsSeen
  PROVE  FirstSpec => LocalEditsSurvive /\ FillingSparesLocal
<1> DEFINE Kept == \A f \in Files :
                     EngineActs /\ local'[f] # local[f] =>
                       local[f] = agreed[f] \/ f \in savedThere
           Spared == \A f \in Files :
                       FillStep /\ mode # "bootstrap" /\ local'[f] # local[f] =>
                         /\ mode = "prefer-remote"
                         /\ local[f] = agreed[f] \/ f \in savedThere
<1>1. FirstInit => RemoteSideKnown /\ EmptyWhenAsked /\ FillingSeesRemote
  <2>1. FirstInit => RemoteSideKnown
    BY DEF FirstInit, Init, RemoteSideKnown, ThereKnown, Untracked, Missing
  <2>2. FirstInit => EmptyWhenAsked /\ FillingSeesRemote
    BY DEF FirstInit, Init, EmptyWhenAsked, FillingSeesRemote, Undisturbed
  <2> QED
    BY <2>1, <2>2
<1>2. FirstSpec => []FillingIsKnown
  BY FillingStaysKnown
<1>3. FirstSpec => []ScansStillProve
  BY ScansStayTrueAroundFillings
<1>4. FillingIsKnown /\ EmptyWhenAsked /\ FillingSeesRemote /\ [FirstNext]_firstVars =>
        EmptyWhenAsked' /\ FillingSeesRemote'
  BY FirstStepAsksFirst
<1>5. /\ FillingIsKnown /\ EmptyWhenAsked /\ FillingSeesRemote /\ ScansStillProve
      /\ RemoteSideKnown /\ [FirstNext]_firstVars
      => RemoteSideKnown' /\ FollowsThere
  BY FirstStepIs, StepKnowsThere, FillKnowsThere, FillIsQuiet DEF FollowsThere
<1>6. FollowsThere => [Kept]_vars
  BY DEF FollowsThere
<1>7. FillingIsKnown /\ EmptyWhenAsked /\ RemoteSideKnown => [Spared]_firstVars
  BY FillTakesSides DEF RemoteSideKnown, ThereKnown
<1> QED
  BY <1>1, <1>2, <1>3, <1>4, <1>5, <1>6, <1>7, PTL
     DEF FirstSpec, LocalEditsSurvive, FillingSparesLocal

-----------------------------------------------------------------------------
(* Conflicts after fillings *)

\* A row a filling writes decides no later conflict against the strategy.
LEMMA FillStands ==
  ASSUME VerdictsAreCarriedOut, FillingIsKnown, VerdictsStand, FillStep
  PROVE  VerdictsStand'
<1>1. CASE FillsNoFile
  BY <1>1, FillReads DEF FillingIsKnown, files, past, VerdictsStand, ViewFits, StampFits, HashFits
<1>2. ASSUME NEW f \in Files, FillFile(f) PROVE VerdictsStand'
  <2>1. FileFilled(f) /\ TypeOK /\ ViewFits(f)
    BY <1>2, FillFileFills DEF FillingIsKnown, VerdictsStand
  <2>2. CASE LeftAlone \/ NotGiven(f)
    <3>1. /\ ViewFits(f)' /\ (StampFits(f) => StampFits(f)')
          /\ HashFits(f) => HashFits(f)'
      BY <2>1, <2>2 DEF LeftAlone, NotGiven, past, ViewFits, StampFits, HashFits
    <3> QED
      BY <2>1, <3>1, OtherStands DEF VerdictsStand, FileFilled
  <2>3. CASE Adopted(f)
    <3>1. view[f].content = local[f]
      BY <2>3 DEF Adopted, VerdictsAreCarriedOut, FingerprintsIdentify
    <3>2. agreed'[f] = local'[f]
      BY <2>1, <2>3, <3>1, AgreementNoted DEF Adopted, Recorded
    <3>3. ViewFits(f)' /\ StampFits(f)' /\ HashFits(f)'
      BY <2>1, <2>3, <3>1, <3>2 DEF Adopted, Recorded, ViewFits, StampFits, HashFits, Row, Head
    <3> QED
      BY <2>1, <3>3, OtherStands DEF FileFilled
  <2>4. CASE Taken(f) \/ Given(f)
    <3>1. /\ local'[f] = remote'[f].content /\ NoteAgreement({f})
          /\ row'[f].hash = Head(local'[f])
      BY <2>4 DEF Taken, Given, Recorded, Row
    <3>2. agreed'[f] = local'[f]
      BY <2>1, <3>1, AgreementNoted
    <3>3. StampFits(f)' /\ HashFits(f)'
      BY <3>1, <3>2, AgreedStands
    <3>4. ViewFits(f)'
      BY <2>1, <2>4, NewEtagIsNew DEF Taken, Given, ViewFits
    <3> QED
      BY <2>1, <3>3, <3>4, OtherStands DEF FileFilled
  <2> QED
    BY <2>1, <2>2, <2>3, <2>4 DEF FileFilled
<1> QED
  BY <1>1, <1>2 DEF FillStep, FillsNoFile

\* In every cycle, before and after a filling, the configured strategy decides a
\* real conflict.
THEOREM ConflictsAreDecidedAfterFillings ==
  ASSUME Undisturbed, VerdictsAreCarriedOut
  PROVE  FirstSpec => StrategyDecides
<1>1. FirstInit => VerdictsStand
  BY DEF FirstInit, Init, VerdictsStand, ViewFits, StampFits, HashFits, Untracked, Missing
<1>2. FirstSpec => []FillingIsKnown
  BY FillingStaysKnown
<1>3. FirstSpec => []ScansStillProve
  BY ScansStayTrueAroundFillings
<1>4. FillingIsKnown /\ ScansStillProve /\ VerdictsStand /\ [FirstNext]_firstVars =>
        VerdictsStand'
  BY FirstStepIs, StepStands, FillStands
<1>5. FillingIsKnown /\ ScansStillProve /\ VerdictsStand /\ [FirstNext]_firstVars =>
        [Decides]_vars
  <2>1. FillingIsKnown /\ FillStep => Decides
    BY FillIsQuiet DEF Decides
  <2> QED
    BY <2>1, FirstStepIs, StepDecides
<1> QED
  BY <1>1, <1>2, <1>3, <1>4, <1>5, PTL DEF FirstSpec, StrategyDecides, Decides

-----------------------------------------------------------------------------
(* A cycle that nothing hinders, after a filling *)

\* Whatever a first-run answer or the bootstrap has left, one fresh cycle makes
\* the two sides equal.
THEOREM OneFreshCycleSufficesAfterFillings ==
  ASSUME Undisturbed, Unhindered
  PROVE  FirstSpec => FreshCyclesMakeEqual
<1>1. FirstSpec => []FillingIsKnown
  BY FillingStaysKnown
<1>2. FirstSpec => []ScansStillProve
  BY ScansStayTrueAroundFillings
<1>3. FirstSpec => []InSyncMeansEqual
  BY FilledFilesAreEqual DEF FillsAlone, Unhindered
<1>4. FirstInit => HandledAreEqual
  BY DEF FirstInit, Init, HandledAreEqual
<1>5. FillingIsKnown /\ FillStep => HandledAreEqual' /\ FinishedIsEqual
  BY FillIsQuiet DEF HandledAreEqual, FinishedIsEqual, FinishCycle
<1>6. /\ FillingIsKnown /\ ScansStillProve /\ InSyncMeansEqual /\ HandledAreEqual
      /\ [FirstNext]_firstVars
      => HandledAreEqual'
  BY <1>5, FirstStepIs, StepMakesEqual
<1>7. HandledAreEqual => [FinishedIsEqual]_vars
  BY DEF HandledAreEqual, FinishedIsEqual, FinishCycle
<1> QED
  BY <1>1, <1>2, <1>3, <1>4, <1>6, <1>7, PTL DEF FirstSpec, FreshCyclesMakeEqual

-----------------------------------------------------------------------------
(* The system that converges is the same one *)

\* Calming down only restrains the edits: all of the above holds of ConvSpec,
\* about which liveness is checked.
THEOREM ConvergingIsAFirstRun == ConvSpec => FirstSpec
<1>1. ConvInit => FirstInit
  BY DEF ConvInit
<1>2. [ConvNext]_ConvVars => [FirstNext]_firstVars
  BY DEF ConvNext, ConvVars, CalmDown, FirstNext
<1> QED
  BY <1>1, <1>2, PTL DEF ConvSpec, FirstSpec

=============================================================================
