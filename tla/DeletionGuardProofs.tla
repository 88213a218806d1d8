------------------------- MODULE DeletionGuardProofs -------------------------
(***************************************************************************)
(* Proofs about DeletionGuard, for every set of files, every threshold and *)
(* all failures, as long as an answer and the daemon's work on the same    *)
(* question take turns and `sync.py once` is not run.                      *)
(***************************************************************************)
EXTENDS DeletionGuard, FiniteSetTheorems, TLAPS

InTurns == ~Overlap /\ "once" \notin Uses

\* A list that calls for a question is not empty.
LEMMA BulkIsSome == ~Bulk({})
  BY FS_EmptySet, GuardAssumption DEF Bulk

-----------------------------------------------------------------------------
(* Types.  TypeOK as one fact per variable, for the provers. *)

LEMMA InitTypes == Init => TypeOK
  BY GuardAssumption DEF Init, TypeOK, Answers

LEMMA StepTypes == TypeOK /\ [Next]_vars => TypeOK'
  <1> SUFFICES ASSUME TypeOK, [Next]_vars PROVE TypeOK'
    OBVIOUS
  <1> USE GuardAssumption DEF TypeOK, Note, vaults, stored, daemon, thread, window
  <1>1. CASE Start
    BY <1>1 DEF Start, Restore
  <1>2. CASE StartOnce
    BY <1>2 DEF StartOnce
  <1>3. CASE Stop
    BY <1>3 DEF Stop
  <1>4. CASE RestoreRead \/ RestoreWrite
    BY <1>4 DEF RestoreRead, RestoreWrite, Restore
  <1>5. CASE Wake \/ Honour
    BY <1>5 DEF Wake, Honour
  <1>6. CASE RecheckFails
    BY <1>6 DEF RecheckFails, ScanFails, ScanShows
  <1>7. CASE RecheckScan
    BY <1>7 DEF RecheckScan, NoteSeen
  <1>8. CASE ShrinkMem \/ ShrinkDb \/ ClearMem \/ ClearDb \/ Unpause
    BY <1>8 DEF ShrinkMem, ShrinkDb, ClearMem, ClearDb, Unpause
  <1>9. CASE CycleAborts
    BY <1>9 DEF CycleAborts, ScanFails, ScanShows
  <1>10. CASE CycleLoop
    BY <1>10 DEF CycleLoop, ScanShows, NoteSeen
  <1>11. CASE ParkMem \/ ParkDb \/ ParkPause
    BY <1>11 DEF ParkMem, ParkDb, ParkPause
  <1>12. CASE \E f \in Files : RemoveCandidate(f)
    BY <1>12 DEF RemoveCandidate
  <1>13. CASE VerifyFails
    BY <1>13 DEF VerifyFails, ScanFails, AnswerDone
  <1>14. CASE Verify
    BY <1>14 DEF Verify, ScanShows, NoteSeen
  <1>15. CASE Take
    BY <1>15 DEF Take
  <1>16. CASE ClearAnswered \/ ResumeAnswered
    BY <1>16 DEF ClearAnswered, ResumeAnswered, AnswerDone
  <1>17. CASE \E f \in Files : AnswerFile(f)
    BY <1>17 DEF AnswerFile, ConfirmFile, UploadFile, FileFails
  <1>18. CASE Show \/ TogglePause
    BY <1>18 DEF Show, TogglePause
  <1>19. CASE \E a \in Answers : Click(a)
    BY <1>19 DEF Click
  <1>20. CASE Others
    BY <1>20 DEF Others, OthersDelete, OthersRestore
  <1>21. CASE UNCHANGED vars
    BY <1>21 DEF vars
  <1>22. QED
    BY <1>1, <1>2, <1>3, <1>4, <1>5, <1>6, <1>7, <1>8, <1>9, <1>10, <1>11, <1>12,
       <1>13, <1>14, <1>15, <1>16, <1>17, <1>18, <1>19, <1>20, <1>21
       DEF Next, Daemon, Recheck, Cycle, AnswerThread, User

\* Every variable keeps its type, whatever fails and however the threads
\* interleave.
THEOREM GuardTypes == Spec => []TypeOK
  BY InitTypes, StepTypes, PTL DEF Spec

-----------------------------------------------------------------------------
(* The invariant *)

LEMMA InitKept == Init => QuestionIsKept
  <1> SUFFICES ASSUME Init PROVE QuestionIsKept
    OBVIOUS
  <1>1. TypeOK
    BY InitTypes
  <1>2. Asked = {}
    BY DEF Init, Asked
  <1> QED
    BY <1>1, <1>2 DEF QuestionIsKept, Init, TakeTurns, CopiesInStep, AskedIsStored,
                      FlagHoldsPause

LEMMA StepKept == InTurns /\ QuestionIsKept /\ [Next]_vars => QuestionIsKept'
  <1> SUFFICES ASSUME InTurns, QuestionIsKept, [Next]_vars PROVE QuestionIsKept'
    OBVIOUS
  <1>0. TypeOK'
    BY StepTypes DEF QuestionIsKept
  <1> USE <1>0, BulkIsSome, GuardAssumption DEF InTurns, QuestionIsKept, TakeTurns,
      CopiesInStep, AskedIsStored, FlagHoldsPause, Asked, Settled, TypeOK, Note,
      vaults, stored, daemon, thread, window
  <1>1. CASE Start
    BY <1>1 DEF Start, Restore, Running
  <1>2. CASE StartOnce
    BY <1>2 DEF StartOnce
  <1>3. CASE Stop
    BY <1>3 DEF Stop, Running
  <1>4. CASE RestoreRead
    BY <1>4 DEF RestoreRead
  <1>5. CASE RestoreWrite
    BY <1>5 DEF RestoreWrite, Restore
  <1>6. CASE Wake
    BY <1>6 DEF Wake
  <1>7. CASE Honour
    BY <1>7 DEF Honour
  <1>8. CASE RecheckFails
    BY <1>8 DEF RecheckFails
  <1>9. CASE RecheckScan
    BY <1>9 DEF RecheckScan, NoteSeen
  <1>10. CASE ShrinkMem
    BY <1>10 DEF ShrinkMem
  <1>11. CASE ShrinkDb
    BY <1>11 DEF ShrinkDb
  <1>12. CASE ClearMem
    BY <1>12 DEF ClearMem
  <1>13. CASE ClearDb
    BY <1>13 DEF ClearDb
  <1>14. CASE Unpause
    BY <1>14 DEF Unpause
  <1>15. CASE CycleAborts
    BY <1>15 DEF CycleAborts
  <1>16. CASE CycleLoop
    BY <1>16 DEF CycleLoop, NoteSeen
  <1>17. CASE ParkMem
    BY <1>17 DEF ParkMem
  <1>18. CASE ParkDb
    BY <1>18 DEF ParkDb
  <1>19. CASE ParkPause
    BY <1>19 DEF ParkPause
  <1>20. CASE \E f \in Files : RemoveCandidate(f)
    BY <1>20 DEF RemoveCandidate
  <1>21. CASE VerifyFails
    BY <1>21 DEF VerifyFails, AnswerDone
  <1>22. CASE Verify
    BY <1>22 DEF Verify, NoteSeen
  <1>23. CASE Take
    BY <1>23 DEF Take
  <1>24. CASE ClearAnswered
    BY <1>24 DEF ClearAnswered
  <1>25. CASE ResumeAnswered
    BY <1>25 DEF ResumeAnswered, AnswerDone
  <1>26. CASE \E f \in Files : AnswerFile(f)
    BY <1>26 DEF AnswerFile, ConfirmFile, UploadFile, FileFails
  <1>27. CASE Show
    BY <1>27 DEF Show
  <1>28. CASE TogglePause
    BY <1>28 DEF TogglePause
  <1>29. CASE \E a \in Answers : Click(a)
    BY <1>29 DEF Click, Answers
  <1>30. CASE Others
    BY <1>30 DEF Others, OthersDelete, OthersRestore
  <1>31. CASE UNCHANGED vars
    BY <1>31 DEF vars
  <1>32. QED
    BY <1>1, <1>2, <1>3, <1>4, <1>5, <1>6, <1>7, <1>8, <1>9, <1>10, <1>11, <1>12,
       <1>13, <1>14, <1>15, <1>16, <1>17, <1>18, <1>19, <1>20, <1>21, <1>22, <1>23,
       <1>24, <1>25, <1>26, <1>27, <1>28, <1>29, <1>30, <1>31
       DEF Next, Daemon, Recheck, Cycle, AnswerThread, User

\* The stored list is the question at every point, in memory and in the
\* database, across stops and starts.
THEOREM QuestionStaysKept ==
  ASSUME InTurns
  PROVE  Spec => []QuestionIsKept
  <1>1. Init => QuestionIsKept
    BY InitKept
  <1>2. QuestionIsKept /\ [Next]_vars => QuestionIsKept'
    BY StepKept
  <1> QED
    BY <1>1, <1>2, PTL DEF Spec

\* Syncing is never left paused without a reason.
THEOREM PausesHaveReasons ==
  ASSUME InTurns
  PROVE  Spec => []PausedForAReason
  <1>1. QuestionIsKept => PausedForAReason
    BY DEF QuestionIsKept, FlagHoldsPause, PausedForAReason
  <1> QED
    BY <1>1, QuestionStaysKept, PTL

-----------------------------------------------------------------------------
(* Files in an open question *)

AskedFilesLeft == \A f \in here \ here' : word[f] # "asked"

\* A file leaves this computer in two places only, and in neither is it asked
\* about: no candidate is, and the answered list is not any more.
LEMMA StepProtects == QuestionIsKept /\ [Next]_vars => AskedFilesLeft
  <1> SUFFICES ASSUME QuestionIsKept, [Next]_vars, NEW f \in here \ here'
               PROVE  word[f] # "asked"
    BY DEF AskedFilesLeft
  <1> USE DEF QuestionIsKept, TypeOK
  <1>1. CASE \E g \in Files : RemoveCandidate(g)
    BY <1>1 DEF RemoveCandidate, AskedIsStored, CopiesInStep, Asked
  <1>2. CASE \E g \in Files : AnswerFile(g)
    BY <1>2 DEF AnswerFile, ConfirmFile, UploadFile, FileFails, vaults, AskedIsStored, Asked
  <1>3. CASE CycleLoop
    BY <1>3 DEF CycleLoop
  <1>4. CASE Others \/ User \/ Show \/ Start \/ StartOnce \/ Stop
    BY <1>4 DEF Others, OthersDelete, OthersRestore, User, TogglePause, Click, Show, Start,
                StartOnce, Stop, vaults
  <1>5. CASE RestoreRead \/ RestoreWrite \/ Wake \/ Honour \/ Recheck
    BY <1>5 DEF RestoreRead, RestoreWrite, Wake, Honour, Recheck, RecheckFails, RecheckScan,
                ShrinkMem, ShrinkDb, ClearMem, ClearDb, Unpause, vaults
  <1>6. CASE CycleAborts \/ ParkMem \/ ParkDb \/ ParkPause
    BY <1>6 DEF CycleAborts, ParkMem, ParkDb, ParkPause, vaults
  <1>7. CASE VerifyFails \/ Verify \/ Take \/ ClearAnswered \/ ResumeAnswered
    BY <1>7 DEF VerifyFails, Verify, Take, ClearAnswered, ResumeAnswered, vaults
  <1>8. CASE UNCHANGED vars
    BY <1>8 DEF vars, vaults
  <1> QED
    BY <1>1, <1>2, <1>3, <1>4, <1>5, <1>6, <1>7, <1>8 DEF Next, Daemon, Cycle, AnswerThread

\* A file on a list that is neither answered nor disproved is removed by
\* nothing the program does, whatever fails and whenever it is stopped.
THEOREM AskedFilesAreSafe ==
  ASSUME InTurns
  PROVE  Spec => OpenQuestionsProtect
  <1>1. Spec => []QuestionIsKept
    BY QuestionStaysKept
  <1>2. QuestionIsKept /\ [Next]_vars => [AskedFilesLeft]_vars
    BY StepProtects
  <1> QED
    BY <1>1, <1>2, PTL DEF Spec, OpenQuestionsProtect, AskedFilesLeft

-----------------------------------------------------------------------------
(* The guard implements DeletionQuestion *)

LEMMA InitRefines == Init => Question!Init
  BY GuardAssumption DEF Init, Question!Init, Proven, Doomed

\* The instance counts as the model does.
LEMMA SameCount == \A S \in SUBSET Files : Question!Cardinality(S) = Cardinality(S)
  BY DEF Cardinality, Question!Cardinality

\* Each step by the step of DeletionQuestion it carries out.
LEMMA StepRefines ==
  QuestionIsKept /\ QuestionIsKept' /\ [Next]_vars => [Question!Next]_(Question!vars)
  <1> SUFFICES ASSUME QuestionIsKept, QuestionIsKept', [Next]_vars
               PROVE  Question!Next \/ UNCHANGED Question!vars
    OBVIOUS
  <1> USE DEF Proven, Doomed, Note, vaults, stored, daemon, thread, window,
      TypeOK, QuestionIsKept, TakeTurns, CopiesInStep
  <1>1. CASE Start \/ StartOnce \/ Stop
    <2>1. Question!Forget
      BY <1>1 DEF Start, StartOnce, Stop, Running, Question!Forget, Question!FilesChange
    <2> QED
      BY <2>1 DEF Question!Next
  <1>2. CASE RestoreRead \/ RestoreWrite \/ Wake \/ Honour
    BY <1>2 DEF RestoreRead, RestoreWrite, Wake, Honour, Question!vars
  <1>3. CASE RecheckFails \/ ShrinkMem \/ ClearMem \/ Unpause
    BY <1>3 DEF RecheckFails, ShrinkMem, ClearMem, Unpause, Question!vars
  <1>4. CASE RecheckScan
    <2>1. PICK S \in SUBSET Files : S = db \cap there
      OBVIOUS
    <2>2. Question!See(S)
      BY <1>4, <2>1 DEF RecheckScan, NoteSeen, Question!See
    <2> QED
      BY <2>2 DEF Question!Next
  <1>5. CASE ShrinkDb
    <2>1. CASE db \ list = {}
      BY <1>5, <2>1 DEF ShrinkDb, AskedIsStored, Question!vars
    <2>2. CASE db \ list # {}
      <3>1. PICK S \in SUBSET Files : S = db \ list
        OBVIOUS
      <3>2. Question!Withdraw(S)
        BY <1>5, <2>2, <3>1 DEF ShrinkDb, AskedIsStored, Settled, Question!Withdraw
      <3> QED
        BY <3>2 DEF Question!Next
    <2> QED
      BY <2>1, <2>2
  <1>6. CASE ClearDb
    <2>1. CASE db = {}
      BY <1>6, <2>1 DEF ClearDb, Question!vars
    <2>2. CASE db # {}
      <3>1. PICK S \in SUBSET Files : S = db
        OBVIOUS
      <3>2. Question!Withdraw(S)
        BY <1>6, <2>2, <3>1 DEF ClearDb, AskedIsStored, Settled, Question!Withdraw
      <3> QED
        BY <3>2 DEF Question!Next
    <2> QED
      BY <2>1, <2>2
  <1>7. CASE CycleAborts \/ ParkMem \/ ParkPause
    BY <1>7 DEF CycleAborts, ParkMem, ParkPause, Question!vars
  <1>8. CASE CycleLoop
    <2>1. CASE pc' = "remove"
      <3>1. PICK S \in SUBSET Files : S = list' /\ ~Bulk(S)
        BY <1>8, <2>1 DEF CycleLoop
      <3>2. Cardinality(S) <= DeletionThreshold
        BY <3>1, GuardAssumption, FS_Subset, FS_CardinalityType DEF Bulk
      <3>3. Question!FilesChange /\ Proven' = Proven
        BY <1>8 DEF CycleLoop, Question!FilesChange
      <3>4. Doomed = {} /\ Doomed' = S /\ db = {} /\ db' = db
        BY <1>8, <2>1, <3>1 DEF CycleLoop
      <3>5. Question!Notice(S)
        BY <3>2, <3>3, <3>4, SameCount DEF Question!Notice
      <3> QED
        BY <3>5 DEF Question!Next
    <2>2. CASE pc' # "remove"
      <3>1. Question!Forget
        BY <1>8, <2>2 DEF CycleLoop, Question!Forget, Question!FilesChange
      <3> QED
        BY <3>1 DEF Question!Next
    <2> QED
      BY <2>1, <2>2
  <1>9. CASE ParkDb
    <2>1. Cardinality(list) > DeletionThreshold
      BY <1>9 DEF ParkDb, AskedIsStored, Bulk
    <2>2. Asked = list
      BY <1>9 DEF ParkDb, AskedIsStored
    <2>3. db = {} /\ db' = list /\ word' = word /\ Doomed = {} /\ Doomed' = {}
      BY <1>9 DEF ParkDb
    <2>4. Proven = {} /\ Proven' = {}
      BY <2>2, <2>3 DEF Asked
    <2>5. PICK S \in SUBSET Files : S = list
      OBVIOUS
    <2>6. Question!Ask(S)
      BY <1>9, <2>1, <2>3, <2>4, <2>5, SameCount DEF ParkDb, Question!Ask
    <2> QED
      BY <2>6 DEF Question!Next
  <1>10. ASSUME NEW f \in Files, RemoveCandidate(f)
         PROVE  Question!Next
    <2>1. Question!Remove(f) \/ Question!Forget
      BY <1>10 DEF RemoveCandidate, Question!Remove, Question!Forget, Question!FilesChange
    <2>2. f \in Doomed
      BY <1>10 DEF RemoveCandidate
    <2> QED
      BY <2>1, <2>2 DEF Question!Next
  <1>11. CASE VerifyFails \/ ResumeAnswered \/ Show \/ TogglePause
    BY <1>11 DEF VerifyFails, ResumeAnswered, Show, TogglePause, AnswerDone, Question!vars
  <1>12. CASE \E a \in Answers : Click(a)
    BY <1>12 DEF Click, Question!vars
  <1>13. CASE Verify
    <2>1. CASE proof'
      <3>1. PICK S \in SUBSET Files : S = db \cap there
        OBVIOUS
      <3>2. Question!See(S)
        BY <1>13, <2>1, <3>1 DEF Verify, ScanShows, NoteSeen, Question!See
      <3> QED
        BY <3>2 DEF Question!Next
    <2>2. CASE ~proof'
      BY <1>13, <2>2 DEF Verify, NoteSeen, Question!vars
    <2> QED
      BY <2>1, <2>2
  <1>14. CASE Take
    <2>1. Question!Forget
      BY <1>14 DEF Take, Question!Forget, Question!FilesChange
    <2> QED
      BY <2>1 DEF Question!Next
  <1>15. CASE ClearAnswered
    <2>1. CASE db = {}
      BY <1>15, <2>1 DEF ClearAnswered, Question!vars
    <2>2. CASE db # {}
      <3>1. Question!Answer
        BY <1>15, <2>2 DEF ClearAnswered, Question!Answer
      <3> QED
        BY <3>1 DEF Question!Next
    <2> QED
      BY <2>1, <2>2
  <1>16. ASSUME NEW f \in Files, AnswerFile(f)
         PROVE  Question!Next \/ UNCHANGED Question!vars
    <2>1. db = {} /\ f \in alist /\ apc = "files"
      BY <1>16 DEF AnswerFile
    <2>2. CASE ConfirmFile(f)
      <3>1. f \in Doomed /\ (Question!Remove(f) \/ Question!Forget)
        BY <1>16, <2>1, <2>2 DEF AnswerFile, ConfirmFile, Question!Remove, Question!Forget,
                                 Question!FilesChange
      <3> QED
        BY <3>1 DEF Question!Next
    <2>3. CASE UploadFile(f) \/ FileFails(f)
      <3>1. Question!Forget
        BY <1>16, <2>1, <2>3 DEF AnswerFile, UploadFile, FileFails, Question!Forget,
                                 Question!FilesChange
      <3> QED
        BY <3>1 DEF Question!Next
    <2> QED
      BY <1>16, <2>2, <2>3 DEF AnswerFile
  <1>17. CASE Others
    <2>1. Question!Forget
      BY <1>17 DEF Others, OthersDelete, OthersRestore, Question!Forget, Question!FilesChange
    <2> QED
      BY <2>1 DEF Question!Next
  <1>18. CASE UNCHANGED vars
    BY <1>18 DEF vars, Question!vars
  <1> QED
    BY <1>1, <1>2, <1>3, <1>4, <1>5, <1>6, <1>7, <1>8, <1>9, <1>10, <1>11, <1>12, <1>13,
       <1>14, <1>15, <1>16, <1>17, <1>18
       DEF Next, Daemon, Recheck, Cycle, AnswerThread, User

\* Whatever fails and whenever the program stops, a file leaves this computer
\* only with few others or by the user's yes to a list it was on, and a
\* question ends only with an answer or with the proof that it was not one.
THEOREM GuardAsksFirst ==
  ASSUME InTurns
  PROVE  Spec => AsksFirst
  <1>1. Spec => []QuestionIsKept
    BY QuestionStaysKept
  <1> QED
    BY <1>1, InitRefines, StepRefines, PTL DEF Spec, AsksFirst, Question!Spec

=============================================================================
