------------------------ MODULE TrustedBridgeProofs ------------------------
(***************************************************************************)
(* Proofs about TrustedBridge: what is left open, posted, believed and     *)
(* answered, whatever fails and whatever Apple's push server sends, and    *)
(* that callers can rely on BridgeContract.                                *)
(***************************************************************************)
EXTENDS TrustedBridge, TLAPS

-----------------------------------------------------------------------------
(* What a session's state can be. *)

LEMMA NoStateIsAState == NoState \in State
  BY DEF NoState, State

\* A push leaves a state with the session, the step and the salt it named.
LEMMA AppliedIsAState ==
    ASSUME NEW p \in Payload
    PROVE  Applied(p) \in State
  BY DEF Payload, Applied, State

(* The two ways most steps end. *)

\* A call that ends with an error leaves a sound conversation behind, if it had
\* a websocket and posted at most what was due.
LEMMA LeaveWithError ==
    ASSUME ConversationIsSound, pc \in Starting \cup Verifying, pc # "connect",
           NEW o \in {"PromptError", "VerifyError", "APIError", "raw"},
           Leave(o), UNCHANGED <<beat, attempt, prover, codeRight>>,
           late' \in BOOLEAN,
           apple' \in {"unasked", "accepted", "refused"},
           posted' \in Seq({"step0", "step2", "step4", "code", "done"}),
           StepsInOrder'
    PROVE  ConversationIsSound'
  BY NoStateIsAState
     DEF ConversationIsSound, TypeOK, NoConnectionLeft, VerdictIsHonest, Leave,
         PostedSoFar, Starting, Verifying

\* One more post, in its place.
LEMMA PostIsNext ==
    ASSUME ConversationIsSound,
           NEW n \in 1..5, n = Len(posted) + 1,
           posted' = Append(posted, Protocol[n])
    PROVE  /\ StepsInOrder'
           /\ posted' \in Seq({"step0", "step2", "step4", "code", "done"})
           /\ Len(posted') = n
  BY DEF ConversationIsSound, TypeOK, StepsInOrder, Protocol

\* The provers do not mix Booleans and arithmetic: a deadline just set.
LEMMA GoWaitTypes ==
    ASSUME NEW w, GoWait(w)
    PROVE  late' \in BOOLEAN /\ pc' = w
  BY DEF GoWait

LEMMA NothingPosted ==
    /\ <<>> \in Seq({"step0", "step2", "step4", "code", "done"})
    /\ Len(<<>>) = 0
    /\ Len(Protocol) = 5
  BY DEF Protocol

-----------------------------------------------------------------------------
(* The invariant *)

LEMMA InitConversation == Init => ConversationIsSound
  <1>1. Init => late \in BOOLEAN /\ codeRight \in BOOLEAN /\ (prover = "verified" => codeRight)
    BY Zenon DEF Init
  <1>2. QED
  BY <1>1, NoStateIsAState, NothingPosted
     DEF Init, ConversationIsSound, TypeOK, NoConnectionLeft, StepsInOrder,
         VerdictIsHonest, PostedSoFar, Starting, Verifying, Attempts

LEMMA CallKeeps ==
    ASSUME ConversationIsSound, Call \/ DeadlinePasses \/ UNCHANGED vars
    PROVE  ConversationIsSound'
  <1> USE DEF ConversationIsSound, TypeOK, NoConnectionLeft, VerdictIsHonest,
              StepsInOrder, Starting, Verifying, Attempts
  <1>1. CASE Start \/ StartRefused
    <2>1. /\ codeRight' \in BOOLEAN
          /\ prover' # "verified"
      BY <1>1, Zenon DEF Start, StartRefused
    <2>2. CASE Start
      BY <2>1, <2>2, NothingPosted DEF Start, PostedSoFar
    <2>3. CASE StartRefused
      BY <2>1, <2>3, NothingPosted DEF StartRefused, PostedSoFar
    <2>4. QED
      BY <1>1, <2>2, <2>3
  <1>2. CASE Validate
    BY <1>2 DEF Validate, PostedSoFar
  <1>3. CASE ValidateRefused
    BY <1>3 DEF ValidateRefused, PostedSoFar
  <1>4. CASE Close
    BY <1>4, NoStateIsAState DEF Close, PostedSoFar
  <1>5. CASE DeadlinePasses
    BY <1>5 DEF DeadlinePasses, PostedSoFar
  <1>6. CASE UNCHANGED vars
    BY <1>6 DEF vars, PostedSoFar
  <1>7. QED
    BY <1>1, <1>2, <1>3, <1>4, <1>5, <1>6 DEF Call

\* The way to a prompt.
LEMMA StartingKeeps ==
    ASSUME ConversationIsSound,
           \/ Connect \/ ConnectFails \/ GotToken \/ InvalidNonce \/ SendFilter
           \/ PostStep0 \/ \E p \in Payload : PromptPush(p)
    PROVE  ConversationIsSound'
  <1> USE DEF Starting, Verifying, Attempts
  <1>0. CASE ConnectFails
    BY <1>0 DEF ConnectFails, PostedSoFar, ConversationIsSound, TypeOK,
       NoConnectionLeft, VerdictIsHonest, StepsInOrder
  <1>1. CASE Connect
    BY <1>1, GoWaitTypes DEF Connect, PostedSoFar, ConversationIsSound, TypeOK,
       NoConnectionLeft, VerdictIsHonest, StepsInOrder
  <1>2. CASE GotToken
    BY <1>2 DEF GotToken, PostedSoFar, ConversationIsSound, TypeOK, NoConnectionLeft,
       VerdictIsHonest, StepsInOrder
  <1>3. CASE InvalidNonce
    BY <1>3, NoStateIsAState DEF InvalidNonce, Leave, PostedSoFar, ConversationIsSound, TypeOK,
       NoConnectionLeft, VerdictIsHonest, StepsInOrder
  <1>4. CASE SendFilter
    BY <1>4, NoStateIsAState DEF SendFilter, Leave, PostedSoFar, ConversationIsSound, TypeOK,
       NoConnectionLeft, VerdictIsHonest, StepsInOrder
  <1>5. CASE PostStep0
    <2>1. /\ posted = <<>> \/ Len(posted) = 0
          /\ Protocol[1] = "step0"
      BY <1>5 DEF PostStep0, ConversationIsSound, PostedSoFar, Protocol
    <2>2. ASSUME posted' = Append(posted, "step0")
          PROVE  /\ StepsInOrder'
                 /\ posted' \in Seq({"step0", "step2", "step4", "code", "done"})
                 /\ Len(posted') = 1
      BY <2>1, <2>2, PostIsNext
    <2>3. CASE PostFails("step0") /\ UNCHANGED <<late, beat, attempt, prover, codeRight, apple>>
      BY <1>5, <2>2, <2>3, LeaveWithError
         DEF PostFails, PostStep0, ErrorHere, ConversationIsSound, TypeOK, StepsInOrder
    <2>4. CASE posted' = Append(posted, "step0") /\ GoWait("prompt")
               /\ UNCHANGED <<sockets, state, outcome, beat, attempt, prover, codeRight, apple>>
      BY <1>5, <2>2, <2>4, GoWaitTypes DEF PostStep0, PostedSoFar, ConversationIsSound, TypeOK,
         NoConnectionLeft, VerdictIsHonest
    <2>5. QED
      BY <1>5, <2>3, <2>4 DEF PostStep0
  <1>6. ASSUME NEW p \in Payload, PromptPush(p) PROVE ConversationIsSound'
    BY <1>6, NoStateIsAState, AppliedIsAState DEF PromptPush, Leave, PostedSoFar,
       ConversationIsSound, TypeOK, NoConnectionLeft, VerdictIsHonest, StepsInOrder
  <1>7. QED
    BY <1>0, <1>1, <1>2, <1>3, <1>4, <1>5, <1>6

\* The waits.
LEMMA WaitKeeps ==
    ASSUME ConversationIsSound, TestDeadline \/ ReadOn \/ SkipMessage \/ ReadFails
    PROVE  ConversationIsSound'
  <1> USE DEF Starting, Verifying, ReadOf, TestOf
  <1>1. CASE TestDeadline
    <2>1. CASE late
      BY <1>1, <2>1, LeaveWithError DEF TestDeadline, ErrorHere, ConversationIsSound,
         TypeOK, StepsInOrder
    <2>2. CASE ~late
      BY <1>1, <2>2 DEF TestDeadline, PostedSoFar, ConversationIsSound, TypeOK,
         NoConnectionLeft, VerdictIsHonest, StepsInOrder
    <2>3. QED
      BY <2>1, <2>2
  <1>2. CASE SkipMessage
    BY <1>2 DEF SkipMessage, PostedSoFar, ConversationIsSound, TypeOK, NoConnectionLeft,
       VerdictIsHonest, StepsInOrder
  <1>3. CASE ReadFails
    BY <1>3, LeaveWithError DEF ReadFails, ErrorHere, ConversationIsSound, TypeOK,
       StepsInOrder
  <1>4. CASE ReadOn
    BY <1>4 DEF ReadOn, PostedSoFar, ConversationIsSound, TypeOK, NoConnectionLeft,
       VerdictIsHonest, StepsInOrder
  <1>5. QED
    BY <1>1, <1>2, <1>3, <1>4

\* The way from a code to a verdict: the pushes.
LEMMA PushKeeps ==
    ASSUME ConversationIsSound, NEW p \in Payload, Step4Push(p) \/ FinalPush(p)
    PROVE  ConversationIsSound'
  <1> USE DEF Starting, Verifying
  <1>1. CASE Step4Push(p)
    <2> DEFINE Bad     == ~ExpectedStep4(p) \/ p.data = "malformed"
               Refutes == ExpectedStep4(p) /\ p.data = "refutes"
    <2>1. CASE Bad
      <3>1. Leave("VerifyError") /\ UNCHANGED prover
        BY <1>1, <2>1 DEF Step4Push
      <3>2. QED
        BY <1>1, <3>1, LeaveWithError DEF Step4Push, ConversationIsSound, TypeOK,
           StepsInOrder
    <2>2. CASE ~Bad /\ Refutes
      <3>1. Leave("false") /\ UNCHANGED prover
        BY <1>1, <2>2 DEF Step4Push
      <3>2. ~codeRight
        BY <1>1, <2>2 DEF Step4Push, AppleCanSend, ExpectedStep4, SameChallenge
      <3>3. QED
        BY <1>1, <3>1, <3>2, NoStateIsAState DEF Step4Push, Leave, PostedSoFar,
           ConversationIsSound, TypeOK, NoConnectionLeft, VerdictIsHonest, StepsInOrder
    <2>3. CASE ~Bad /\ ~Refutes
      <3>1. /\ pc' = "step4"
            /\ state' = Applied(p)
            /\ prover' = "verified"
            /\ UNCHANGED <<sockets, outcome>>
        BY <1>1, <2>3 DEF Step4Push
      <3>2. codeRight
        <4>1. p.data = "confirms"
          BY <2>3 DEF Payload, ExpectedStep4
        <4>2. QED
          BY <1>1, <4>1 DEF Step4Push, AppleCanSend
      <3>3. QED
        BY <1>1, <3>1, <3>2, AppliedIsAState DEF Step4Push, PostedSoFar,
           ConversationIsSound, TypeOK, NoConnectionLeft, VerdictIsHonest, StepsInOrder
    <2>4. QED
      BY <2>1, <2>2, <2>3
  <1>2. CASE FinalPush(p)
    BY <1>2, NoStateIsAState, AppliedIsAState DEF FinalPush, Leave, PostedSoFar,
       ConversationIsSound, TypeOK, NoConnectionLeft, VerdictIsHonest, StepsInOrder
  <1>3. QED
    BY <1>1, <1>2

\* The way from a code to a verdict: the posts.
LEMMA PostKeeps ==
    ASSUME ConversationIsSound, PostStep2 \/ PostStep4 \/ PostCode \/ PostDone
    PROVE  ConversationIsSound'
  <1> USE DEF Starting, Verifying
  <1>1. ASSUME NEW n \in 1..5, Len(posted) = n - 1, posted' = Append(posted, Protocol[n])
        PROVE  /\ StepsInOrder'
               /\ posted' \in Seq({"step0", "step2", "step4", "code", "done"})
               /\ Len(posted') = n
    BY <1>1, PostIsNext DEF ConversationIsSound, TypeOK
  <1>2. CASE PostStep2
    <2>1. Len(posted) = 1 /\ Protocol[2] = "step2"
      BY <1>2 DEF PostStep2, ConversationIsSound, PostedSoFar, Protocol
    <2>2. posted' = Append(posted, "step2") =>
              /\ StepsInOrder'
              /\ posted' \in Seq({"step0", "step2", "step4", "code", "done"})
              /\ Len(posted') = 2
      BY <2>1, <1>1
    <2>3. CASE GoWait("push4")
      BY <1>2, <2>2, <2>3, GoWaitTypes DEF PostStep2, PostFails, Leave, PostedSoFar,
         ConversationIsSound, TypeOK, NoConnectionLeft, VerdictIsHonest
    <2>4. CASE /\ PostFails("step2") \/ (Leave("raw") /\ posted' = posted)
               /\ late' = late
      BY <1>2, <2>2, <2>4, LeaveWithError DEF PostStep2, PostFails, ErrorHere,
         ConversationIsSound, TypeOK, StepsInOrder
    <2>5. QED
      BY <1>2, <2>3, <2>4 DEF PostStep2
  <1>3. CASE PostStep4
    <2>1. Len(posted) = 2 /\ Protocol[3] = "step4"
      BY <1>3 DEF PostStep4, ConversationIsSound, PostedSoFar, Protocol
    <2>2. posted' = Append(posted, "step4") =>
              /\ StepsInOrder'
              /\ posted' \in Seq({"step0", "step2", "step4", "code", "done"})
              /\ Len(posted') = 3
      BY <2>1, <1>1
    <2>3. CASE GoWait("final")
      BY <1>3, <2>2, <2>3, GoWaitTypes DEF PostStep4, PostFails, Leave, PostedSoFar,
         ConversationIsSound, TypeOK, NoConnectionLeft, VerdictIsHonest
    <2>4. CASE PostFails("step4") /\ late' = late
      BY <1>3, <2>2, <2>4, LeaveWithError DEF PostStep4, PostFails, ErrorHere,
         ConversationIsSound, TypeOK, StepsInOrder
    <2>5. QED
      BY <1>3, <2>3, <2>4 DEF PostStep4
  <1>4. CASE PostCode
    <2>1. Len(posted) = 3 /\ Protocol[4] = "code"
      BY <1>4 DEF PostCode, ConversationIsSound, PostedSoFar, Protocol
    <2>2. posted' = Append(posted, "code") =>
              /\ StepsInOrder'
              /\ posted' \in Seq({"step0", "step2", "step4", "code", "done"})
              /\ Len(posted') = 4
      BY <2>1, <1>1
    <2>3. CASE pc' = "done" /\ posted' = Append(posted, "code")
               /\ apple' \in {"accepted", "refused"} /\ UNCHANGED <<sockets, state, outcome>>
      BY <1>4, <2>2, <2>3 DEF PostCode, PostedSoFar, ConversationIsSound, TypeOK,
         NoConnectionLeft, VerdictIsHonest
    <2>4. CASE PostFails("code") /\ apple' \in {"unasked", "accepted", "refused"}
      BY <1>4, <2>2, <2>4, LeaveWithError DEF PostCode, PostFails, ErrorHere,
         ConversationIsSound, TypeOK, StepsInOrder
    <2>5. QED
      BY <1>4, <2>3, <2>4 DEF PostCode
  <1>5. CASE PostDone
    <2>1. Len(posted) = 4 /\ Protocol[5] = "done"
      BY <1>5 DEF PostDone, ConversationIsSound, PostedSoFar, Protocol
    <2>2. posted' = Append(posted, "done") =>
              /\ StepsInOrder'
              /\ posted' \in Seq({"step0", "step2", "step4", "code", "done"})
              /\ Len(posted') = 5
      BY <2>1, <1>1
    <2>3. CASE posted' = Append(posted, "done")
               /\ Leave(IF apple = "accepted" THEN "true" ELSE "false")
      BY <1>5, <2>2, <2>3, NoStateIsAState DEF PostDone, Leave, PostedSoFar, ConversationIsSound, TypeOK,
         NoConnectionLeft, VerdictIsHonest
    <2>4. CASE PostFails("done")
      BY <1>5, <2>2, <2>4, LeaveWithError DEF PostDone, PostFails, ErrorHere,
         ConversationIsSound, TypeOK, StepsInOrder
    <2>5. QED
      BY <1>5, <2>3, <2>4 DEF PostDone
  <1>6. QED
    BY <1>2, <1>3, <1>4, <1>5

LEMMA StepConversation == ConversationIsSound /\ [Next]_vars => ConversationIsSound'
  BY CallKeeps, StartingKeeps, WaitKeeps, PushKeeps, PostKeeps DEF Next, Work

\* At each step of start and validate_code it is certain what has been posted,
\* and no verdict is wrong: "true" only of the code on the devices, if Apple took
\* it, "false" only of another code or of one Apple refused.
THEOREM ConversationStaysSound == Spec => []ConversationIsSound
  BY InitConversation, StepConversation, PTL DEF Spec

\* No failure of the network and no frame leaves a websocket open.
THEOREM NothingStaysOpen == Spec => []NoConnectionLeft
  BY ConversationStaysSound, PTL DEF ConversationIsSound

\* No step of the protocol is repeated, skipped or sent out of order; the devices
\* are asked to show a code at most once.
THEOREM StepsStayInOrder == Spec => []StepsInOrder
  BY ConversationStaysSound, PTL DEF ConversationIsSound

-----------------------------------------------------------------------------
(* What a step may not do *)

LEMMA StepPins ==
    ASSUME ConversationIsSound, [Next]_vars
    PROVE  state.session # NoSession => state'.session \in {state.session, NoSession}
  <1>1. \/ state' = state
        \/ state' = NoState
        \/ \E p \in Payload : PromptPush(p) \/ Step4Push(p) \/ FinalPush(p)
    BY DEF Next, Work, Call, Connect, ConnectFails, GotToken, InvalidNonce, SendFilter,
       TestDeadline, ReadOn, SkipMessage, ReadFails, Start, StartRefused, Validate, PostFails,
       ValidateRefused, Close, DeadlinePasses, PostStep0, PostStep2, PostStep4, PostCode,
       PostDone, Leave, vars
  <1>2. CASE state' = state \/ state' = NoState
    BY <1>2 DEF NoState
  <1>3. ASSUME NEW p \in Payload, PromptPush(p)
        PROVE  state.session = NoSession
    BY <1>3 DEF PromptPush, ConversationIsSound, Starting, NoState
  <1>4. ASSUME NEW p \in Payload, Step4Push(p) \/ FinalPush(p)
        PROVE  state'.session \in {state.session, NoSession}
    BY <1>4 DEF Step4Push, FinalPush, ExpectedStep4, ExpectedFinal, SameChallenge,
       Applied, Leave, NoState
  <1>5. QED
    BY <1>1, <1>2, <1>3, <1>4

\* Between the prompt and the verdict the session does not change.
THEOREM SessionStaysPinned == Spec => SessionPinned
  BY ConversationStaysSound, StepPins, PTL DEF Spec, SessionPinned

-----------------------------------------------------------------------------
(* The refinement *)

LEMMA InitRefines == Init => Contract!Init
  BY DEF Init, Contract!Init, Starting, Verifying

\* What fails on the way to a prompt is StartFails, what fails after it is a
\* verification error.
LEMMA LeaveRefines ==
    ASSUME ConversationIsSound, pc \in Starting \cup Verifying,
           NEW o, Leave(o), o \in {"APIError", "raw", ErrorHere},
           UNCHANGED <<codeRight, apple>>,
           posted' # <<>> \/ posted' = posted
    PROVE  Contract!Next
  <1>1. CASE pc \in Starting
    BY <1>1 DEF Contract!Next, Contract!StartFails, Contract!StartErrors, Leave, ErrorHere,
       Starting, Verifying
  <1>2. CASE pc \in Verifying
    BY <1>2 DEF Contract!Next, Contract!Verified, Contract!Says, Contract!ValidateErrors,
       Leave, ErrorHere, Starting, Verifying, ConversationIsSound, PostedSoFar
  <1>3. QED
    BY <1>1, <1>2

\* A start and what leads to a prompt.
LEMMA StartingRefines ==
    ASSUME ConversationIsSound,
           \/ Start \/ StartRefused \/ Connect \/ ConnectFails \/ GotToken
           \/ InvalidNonce \/ SendFilter \/ PostStep0
           \/ \E p \in Payload : PromptPush(p)
    PROVE  Contract!Next \/ UNCHANGED Contract!vars
  <1> USE DEF Starting, Verifying
  <1>1. CASE Start \/ StartRefused
    BY <1>1 DEF Start, StartRefused, Contract!Next, Contract!Start, Contract!StartRefused
  <1>2. CASE Connect \/ GotToken
    BY <1>2 DEF Connect, GotToken, GoWait, Contract!vars
  <1>3. CASE ConnectFails
    BY <1>3 DEF ConnectFails, Contract!Next, Contract!StartFails, Contract!StartErrors
  <1>4. CASE InvalidNonce
    <2>1. CASE attempt < Attempts
      BY <1>4, <2>1 DEF InvalidNonce, Contract!vars
    <2>2. CASE ~(attempt < Attempts)
      BY <1>4, <2>2, LeaveRefines DEF InvalidNonce, ErrorHere
    <2>3. QED
      BY <2>1, <2>2
  <1>5. CASE SendFilter
    <2>1. CASE Leave("PromptError")
      BY <1>5, <2>1, LeaveRefines DEF SendFilter, ErrorHere
    <2>2. CASE pc' = "step0" /\ UNCHANGED <<sockets, state, outcome>>
      BY <1>5, <2>2 DEF SendFilter, Contract!vars
    <2>3. QED
      BY <1>5, <2>1, <2>2 DEF SendFilter
  <1>6. CASE PostStep0
    <2>1. posted = <<>> /\ posted \in Seq({"step0", "step2", "step4", "code", "done"})
      BY <1>6 DEF PostStep0, ConversationIsSound, PostedSoFar, TypeOK
    <2>2. posted' = Append(posted, "step0") => posted' # <<>>
      BY <2>1
    <2>3. CASE PostFails("step0")
      BY <1>6, <2>2, <2>3, LeaveRefines DEF PostStep0, PostFails
    <2>4. CASE posted' = Append(posted, "step0") /\ GoWait("prompt")
               /\ UNCHANGED <<sockets, state, outcome>>
      BY <1>6, <2>1, <2>2, <2>4 DEF PostStep0, GoWait, Contract!Next, Contract!AskDevices
    <2>5. QED
      BY <1>6, <2>3, <2>4 DEF PostStep0
  <1>7. ASSUME NEW p \in Payload, PromptPush(p)
        PROVE  Contract!Next
    <2>1. posted # <<>>
      BY <1>7 DEF PromptPush, ConversationIsSound, PostedSoFar
    <2>2. CASE p.echoed /\ p.session # Own
      BY <1>7, <2>2, LeaveRefines DEF PromptPush, ErrorHere
    <2>3. CASE ~(p.echoed /\ p.session # Own)
      BY <1>7, <2>1, <2>3 DEF PromptPush, Contract!Next, Contract!Prompted
    <2>4. QED
      BY <2>2, <2>3
  <1>8. QED
    BY <1>1, <1>2, <1>3, <1>4, <1>5, <1>6, <1>7

\* The waits, and what a caller may do with a prompt.
LEMMA WaitingRefines ==
    ASSUME ConversationIsSound,
           \/ TestDeadline \/ ReadOn \/ SkipMessage \/ ReadFails \/ DeadlinePasses
           \/ Validate \/ ValidateRefused \/ Close \/ UNCHANGED vars
    PROVE  Contract!Next \/ UNCHANGED Contract!vars
  <1> USE DEF Starting, Verifying
  <1>1. CASE TestDeadline
    <2>1. CASE late
      BY <1>1, <2>1, LeaveRefines DEF TestDeadline, ReadOf
    <2>2. CASE ~late
      BY <1>1, <2>2 DEF TestDeadline, ReadOf, Contract!vars
    <2>3. QED
      BY <2>1, <2>2
  <1>2. CASE SkipMessage
    BY <1>2 DEF SkipMessage, TestOf, Contract!vars
  <1>3. CASE ReadFails
    BY <1>3, LeaveRefines DEF ReadFails, TestOf
  <1>4. CASE DeadlinePasses \/ ReadOn \/ UNCHANGED vars
    BY <1>4 DEF DeadlinePasses, ReadOn, vars, Contract!vars
  <1>5. CASE Validate
    BY <1>5 DEF Validate, Contract!Next, Contract!Validate
  <1>6. CASE ValidateRefused
    BY <1>6 DEF ValidateRefused, Contract!Next, Contract!NotForTheBridge
  <1>7. CASE Close
    BY <1>7 DEF Close, Contract!Next, Contract!Close
  <1>8. QED
    BY <1>1, <1>2, <1>3, <1>4, <1>5, <1>6, <1>7

\* The pushes and posts between a code and its verdict.
LEMMA VerifyingRefines ==
    ASSUME ConversationIsSound, ConversationIsSound',
           \/ PostStep2 \/ PostStep4 \/ PostCode \/ PostDone
           \/ \E p \in Payload : Step4Push(p) \/ FinalPush(p)
    PROVE  Contract!Next \/ UNCHANGED Contract!vars
  <1> USE DEF Starting, Verifying
  <1>0. /\ posted # <<>>
        /\ \A s \in {"step2", "step4", "code", "done"} : Append(posted, s) # <<>>
    <2>1. posted \in Seq({"step0", "step2", "step4", "code", "done"})
      BY DEF ConversationIsSound, TypeOK
    <2>2. Len(posted) > 0
      BY DEF PostStep2, PostStep4, PostCode, PostDone, Step4Push, FinalPush,
         ConversationIsSound, PostedSoFar
    <2>3. ASSUME NEW s \in {"step2", "step4", "code", "done"}
          PROVE  Append(posted, s) # <<>>
      BY <2>1, <2>3
    <2>4. QED
      BY <2>2, <2>3
  <1>1. CASE PostStep2
    BY <1>0, <1>1, LeaveRefines DEF PostStep2, PostFails, GoWait, Contract!vars
  <1>2. CASE PostStep4
    BY <1>0, <1>2, LeaveRefines DEF PostStep4, PostFails, GoWait, Contract!vars
  <1>3. CASE PostCode
    <2>1. codeRight /\ apple = "unasked"
      BY <1>3 DEF PostCode, ConversationIsSound
    <2>2. CASE pc' = "done" /\ apple' \in {"accepted", "refused"}
               /\ posted' = Append(posted, "code") /\ UNCHANGED <<sockets, state, outcome>>
      BY <1>0, <1>3, <2>1, <2>2 DEF PostCode, Contract!Next, Contract!AppleDecides
    <2>3. CASE PostFails("code") /\ apple' = "unasked"
      BY <1>0, <1>3, <2>1, <2>3, LeaveRefines DEF PostCode, PostFails
    <2>4. CASE PostFails("code") /\ apple' \in {"accepted", "refused"}
      BY <1>0, <1>3, <2>1, <2>4 DEF PostCode, PostFails, Leave, ErrorHere, Contract!Next,
         Contract!AnswerLost, Contract!ValidateErrors
    <2>5. QED
      BY <1>3, <2>2, <2>3, <2>4 DEF PostCode
  <1>4. CASE PostDone
    <2>1. CASE PostFails("done")
      BY <1>0, <1>4, <2>1, LeaveRefines DEF PostDone, PostFails
    <2>2. CASE Leave(IF apple = "accepted" THEN "true" ELSE "false")
               /\ posted' = Append(posted, "done")
      BY <1>0, <1>4, <2>2 DEF PostDone, Leave, Contract!Next, Contract!Verified,
         Contract!Says, ConversationIsSound, TypeOK
    <2>3. QED
      BY <1>4, <2>1, <2>2 DEF PostDone
  <1>5. ASSUME NEW p \in Payload, Step4Push(p)
        PROVE  Contract!Next \/ UNCHANGED Contract!vars
    <2>1. CASE Leave("VerifyError")
      BY <1>0, <1>5, <2>1, LeaveRefines DEF Step4Push, ErrorHere
    <2>2. CASE Leave("false")
      <3>1. ~codeRight \/ apple = "refused"
        BY <1>5, <2>2 DEF Step4Push, Leave, ConversationIsSound, VerdictIsHonest
      <3>2. QED
        BY <1>0, <1>5, <2>2, <3>1 DEF Step4Push, Leave, Contract!Next,
           Contract!Verified, Contract!Says
    <2>3. CASE pc' = "step4" /\ UNCHANGED <<sockets, outcome>>
      BY <1>5, <2>3 DEF Step4Push, Contract!vars
    <2>4. QED
      BY <1>5, <2>1, <2>2, <2>3 DEF Step4Push
  <1>6. ASSUME NEW p \in Payload, FinalPush(p)
        PROVE  Contract!Next \/ UNCHANGED Contract!vars
    <2>1. CASE Leave("VerifyError")
      BY <1>0, <1>6, <2>1, LeaveRefines DEF FinalPush, ErrorHere
    <2>2. CASE pc' = "code" /\ UNCHANGED <<sockets, outcome>>
      BY <1>6, <2>2 DEF FinalPush, Contract!vars
    <2>3. QED
      BY <1>6, <2>1, <2>2 DEF FinalPush
  <1>7. QED
    BY <1>1, <1>2, <1>3, <1>4, <1>5, <1>6

LEMMA StepRefines ==
    ASSUME ConversationIsSound, [Next]_vars
    PROVE  [Contract!Next]_(Contract!vars)
  <1>1. ConversationIsSound'
    BY StepConversation
  <1>2. QED
    BY <1>1, StartingRefines, WaitingRefines, VerifyingRefines DEF Next, Work, Call

\* The sign-in code can rely on BridgeContract, whatever fails on the way.
THEOREM BridgeKeepsItsContract == Spec => ImplementsContract
  BY InitRefines, ConversationStaysSound, StepRefines, PTL
     DEF Spec, ImplementsContract, Contract!Spec
=============================================================================
