--------------------------- MODULE TrustedBridge ---------------------------
(***************************************************************************)
(* TrustedDeviceBridgeBootstrapper (src/icloudlite/hsa2_bridge.py): the    *)
(* websocket conversation that makes Apple show a code on the trusted      *)
(* devices (start) and that later proves to Apple that the user typed it   *)
(* (validate_code).                                                        *)
(*                                                                         *)
(* Every network operation is one step, and every one of them may fail.    *)
(* Apple's side is the environment: it sends any frame at any read, late,  *)
(* twice, or of another sign-in, with one exception (AppleCanSend): it     *)
(* cannot confirm a code it did not show.  Module BridgeProver shows why.  *)
(***************************************************************************)
EXTENDS Naturals, Sequences

CONSTANTS Own,      \* the session identifier step 0 announces
          Foreign,  \* the identifier of another sign-in
          NoSession

ASSUME SessionsDiffer == Own # Foreign /\ NoSession \notin {Own, Foreign}

VARIABLES
    pc,        \* the step start or validate_code is about to take
    attempt,   \* connection attempts of this start
    sockets,   \* websockets open and not closed
    late,      \* the deadline of the wait in progress has passed
    beat,      \* flips whenever recv returns bytes that complete nothing
    state,     \* TrustedDeviceBridgeState, without its constants
    prover,    \* TrustedDeviceBridgeProver: "none", "fresh", "verified"
    codeRight, \* the user typed the code the devices show
    posted,    \* what this start, and the verification after it, has posted
    apple,     \* Apple's answer to code/validate
    outcome    \* what the last call returned or raised

vars == <<pc, attempt, sockets, late, beat, state, prover, codeRight, posted, apple,
          outcome>>

\* `for _ in range(2)` in start.
Attempts == 2

\* The posts of a sign-in in the order the code makes them.
Protocol == <<"step0", "step2", "step4", "code", "done">>

\* The waits: each tests its deadline, then reads one message.
ReadOf == [token |-> "tokenRead", prompt |-> "promptRead",
           push4 |-> "push4Read", final |-> "finalRead"]
TestOf == [tokenRead |-> "token", promptRead |-> "prompt",
           push4Read |-> "push4", finalRead |-> "final"]

Starting == {"connect", "token", "tokenRead", "filter", "step0", "prompt",
             "promptRead"}
Verifying == {"step2", "push4", "push4Read", "step4", "final", "finalRead",
              "code", "done"}

(***************************************************************************)
(* A push is a JSON object.  The fields that matter: whose session it is,  *)
(* and whether it says so as sessionUUID or as flowid; nextStep; whether   *)
(* there is a salt; whether the transaction is for the legacy verifier;    *)
(* the prover data and the sealed code; whether ec is an error.            *)
(***************************************************************************)
Payload ==
    {p \in [session : {Own, Foreign}, echoed : BOOLEAN, step : {"2", "4", "6"},
            salt : BOOLEAN, legacy : BOOLEAN,
            data : {"none", "malformed", "confirms", "refutes"},
            code : {"none", "malformed", "sealed"}, ec : BOOLEAN] :
        /\ p.step = "2" => p.data = "none" /\ p.code = "none"
        /\ p.step # "2" => ~p.salt /\ ~p.legacy
        /\ p.data = "none" \/ p.code = "none"}

\* Apple's half of the exchange fits the prover's if, and only if, both were
\* fed the same code in the same session.
AppleCanSend(p) ==
    /\ p.data = "confirms" => codeRight
    /\ p.data = "refutes" /\ p.session = state.session => ~codeRight

\* TrustedDeviceBridgeState: what the last push said.
State == [session : {Own, Foreign, NoSession}, step : {"none", "2", "4", "6"},
          salt : BOOLEAN, legacy : BOOLEAN,
          data : {"none", "malformed", "confirms", "refutes"},
          code : {"none", "malformed", "sealed"}]

\* A finished or failed session: no websocket, nothing to verify.
NoState == [session |-> NoSession, step |-> "none", salt |-> FALSE,
            legacy |-> FALSE, data |-> "none", code |-> "none"]

\* apply_push_payload: every field is overwritten.
Applied(p) == [session |-> p.session, step |-> p.step, salt |-> p.salt,
               legacy |-> p.legacy, data |-> p.data, code |-> p.code]

TypeOK ==
    /\ pc \in {"idle", "ready"} \cup Starting \cup Verifying
    /\ attempt \in 0..Attempts
    /\ sockets \in 0..1
    /\ late \in BOOLEAN
    /\ beat \in 0..1
    /\ state \in State
    /\ prover \in {"none", "fresh", "verified"}
    /\ codeRight \in BOOLEAN
    /\ posted \in Seq({"step0", "step2", "step4", "code", "done"})
    /\ apple \in {"unasked", "accepted", "refused"}
    /\ outcome \in {"none", "prompt", "true", "false", "PromptError",
                    "VerifyError", "APIError", "raw"}

Init ==
    /\ pc = "idle"
    /\ attempt = 0
    /\ sockets = 0
    /\ late = FALSE
    /\ beat = 0
    /\ state = NoState
    /\ prover = "none"
    /\ codeRight = FALSE
    /\ posted = <<>>
    /\ apple = "unasked"
    /\ outcome = "none"

-----------------------------------------------------------------------------
(* What ends a call. *)

\* `finally: websocket.close()` of start and `finally: self.close(...)` of
\* validate_code: whatever happened, the websocket is closed.
Leave(o) ==
    /\ pc' = "idle"
    /\ sockets' = sockets - 1
    /\ state' = NoState
    /\ outcome' = o

\* start catches what the transport and the bridge raise and raises a prompt
\* error; validate_code makes a verification error of the same.
ErrorHere == IF pc \in Starting THEN "PromptError" ELSE "VerifyError"

\* Step s is posted.  It may reach Apple and fail all the same: request_raw
\* turns a broken connection into an API error neither call catches, and a
\* status outside 200, 204 and 409 is an error of the call.
PostFails(s) ==
    /\ \/ posted' = posted
       \/ posted' = Append(posted, s)
    /\ Leave("APIError") \/ Leave(ErrorHere)

\* The wait for a message starts with a deadline of its own.
GoWait(w) == pc' = w /\ late' = FALSE

-----------------------------------------------------------------------------
(* start *)

\* The topic, the host or the origin cannot be told from the sign-in page.
StartRefused ==
    /\ pc = "idle"
    /\ outcome' = "PromptError"
    /\ attempt' = 0
    /\ prover' = "none"
    /\ codeRight' = FALSE
    /\ posted' = <<>>
    /\ apple' = "unasked"
    /\ UNCHANGED <<pc, beat, sockets, late, state>>

Start ==
    /\ pc = "idle"
    /\ pc' = "connect"
    /\ attempt' = 1
    /\ prover' = "none"
    /\ codeRight' = FALSE
    /\ posted' = <<>>
    /\ apple' = "unasked"
    /\ outcome' = "none"
    /\ UNCHANGED <<beat, sockets, late, state>>

Connect ==
    /\ pc = "connect"
    /\ GoWait("token")
    /\ sockets' = sockets + 1
    /\ UNCHANGED <<beat, attempt, state, prover, codeRight, posted, apple, outcome>>

\* The websocket is opened outside the try: an error of the transport comes
\* out as it is, an upgrade the server refuses as a prompt error.  Nothing closes
\* the socket that _open made before it failed; it goes with the object that held
\* it.  `sockets` counts the websockets that start was given.
ConnectFails ==
    /\ pc = "connect"
    /\ pc' = "idle"
    /\ outcome' \in {"PromptError", "raw"}
    /\ UNCHANGED <<beat, attempt, sockets, late, state, prover, codeRight, posted,
                   apple>>

GotToken ==
    /\ pc = "tokenRead"
    /\ pc' = "filter"
    /\ UNCHANGED <<beat, attempt, sockets, late, state, prover, codeRight, posted,
                   apple, outcome>>

\* Mutant: the retry keeps the old websocket.
InvalidNonceKeepsSocket ==
    /\ pc = "tokenRead"
    /\ IF attempt < Attempts
       THEN /\ pc' = "connect"
            /\ attempt' = attempt + 1
            /\ UNCHANGED <<sockets, state, outcome>>
       ELSE Leave("PromptError") /\ UNCHANGED attempt
    /\ UNCHANGED <<beat, late, prover, codeRight, posted, apple>>

\* INVALID_NONCE with the server's time: this websocket is closed, and the
\* loop opens another with a nonce of that time, once.
InvalidNonce ==
    /\ pc = "tokenRead"
    /\ IF attempt < Attempts
       THEN /\ pc' = "connect"
            /\ attempt' = attempt + 1
            /\ sockets' = sockets - 1
            /\ UNCHANGED <<state, outcome>>
       ELSE Leave("PromptError") /\ UNCHANGED attempt
    /\ UNCHANGED <<beat, late, prover, codeRight, posted, apple>>

SendFilter ==
    /\ pc = "filter"
    /\ \/ pc' = "step0" /\ UNCHANGED <<sockets, state, outcome>>
       \/ Leave("PromptError")
    /\ UNCHANGED <<beat, attempt, late, prover, codeRight, posted, apple>>

\* The devices are asked to show a code.
PostStep0 ==
    /\ pc = "step0"
    /\ \/ /\ posted' = Append(posted, "step0")
          /\ GoWait("prompt")
          /\ UNCHANGED <<sockets, state, outcome>>
       \/ PostFails("step0") /\ UNCHANGED late
    /\ UNCHANGED <<beat, attempt, prover, codeRight, apple>>

\* A push that names another sessionUUID ends the call; one that carries only
\* a flowid is taken as it is, and its identifier becomes the session's.
PromptPush(p) ==
    /\ pc = "promptRead"
    /\ IF p.echoed /\ p.session # Own
       THEN Leave("PromptError")
       ELSE /\ pc' = "ready"
            /\ state' = Applied(p)
            /\ outcome' = "prompt"
            /\ UNCHANGED sockets
    /\ UNCHANGED <<beat, attempt, late, prover, codeRight, posted, apple>>

-----------------------------------------------------------------------------
(* The waits *)

\* Mutant: while True.
TestDeadlineNever ==
    /\ pc \in DOMAIN ReadOf
    /\ pc' = ReadOf[pc]
    /\ UNCHANGED <<beat, attempt, sockets, late, state, prover, codeRight, posted,
                   apple, outcome>>

TestDeadline ==
    /\ pc \in DOMAIN ReadOf
    /\ IF late
       THEN Leave(ErrorHere)
       ELSE pc' = ReadOf[pc] /\ UNCHANGED <<sockets, state, outcome>>
    /\ UNCHANGED <<beat, attempt, late, prover, codeRight, posted, apple>>

\* recv returns bytes with which neither the answer to the upgrade nor a message
\* is complete: a piece of it, a ping (answered at once), a pong, a fragment that
\* is not the last.  _read_http_response and read_message go on reading; no
\* deadline is looked at, and the timeout of the socket starts anew.
ReadOn ==
    /\ pc \in {"connect"} \cup DOMAIN TestOf
    /\ beat' = 1 - beat
    /\ UNCHANGED <<pc, attempt, sockets, late, state, prover, codeRight, posted,
                   apple, outcome>>

\* A message that is not the one waited for, or a push of another topic, which
\* is acknowledged and skipped: back to the deadline.
SkipMessage ==
    /\ pc \in DOMAIN TestOf
    /\ pc' = TestOf[pc]
    /\ UNCHANGED <<beat, attempt, sockets, late, state, prover, codeRight, posted,
                   apple, outcome>>

\* Silence until the socket's own timeout, a broken connection, a close
\* frame, a refused subscription or token, a push that is no JSON or has no
\* session; or ("raw") a frame whose fields have unexpected types.
ReadFails ==
    /\ pc \in DOMAIN TestOf
    /\ Leave(ErrorHere) \/ Leave("raw")
    /\ UNCHANGED <<beat, attempt, late, prover, codeRight, posted, apple>>

DeadlinePasses ==
    /\ pc \in DOMAIN ReadOf \cup DOMAIN TestOf
    /\ ~late
    /\ late' = TRUE
    /\ UNCHANGED <<pc, beat, attempt, sockets, state, prover, codeRight, posted,
                   apple, outcome>>

-----------------------------------------------------------------------------
(* validate_code *)

\* The checks before the conversation leave the websocket to the caller.
ValidateRefused ==
    /\ pc \in {"idle", "ready"}
    /\ pc = "idle" \/ state.legacy \/ state.step # "2" \/ ~state.salt
    /\ outcome' = "VerifyError"
    /\ UNCHANGED <<pc, beat, attempt, sockets, late, state, prover, codeRight,
                   posted, apple>>

Validate ==
    /\ pc = "ready"
    /\ ~state.legacy
    /\ state.step = "2"
    /\ state.salt
    /\ pc' = "step2"
    /\ codeRight' \in BOOLEAN
    /\ prover' = "fresh"
    /\ outcome' = "none"
    /\ UNCHANGED <<beat, attempt, sockets, late, state, posted, apple>>

PostStep2 ==
    /\ pc = "step2"
    /\ \/ /\ posted' = Append(posted, "step2")
          /\ GoWait("push4")
          /\ UNCHANGED <<sockets, state, outcome>>
       \/ PostFails("step2") /\ UNCHANGED late
       \/ Leave("raw") /\ UNCHANGED <<late, posted>>  \* the salt is no base64
    /\ UNCHANGED <<beat, attempt, prover, codeRight, apple>>

\* Mutant: whose push it is is not looked at.
SameChallengeOfAny(p) == ~p.ec

\* _apply_bridge_push: the session must be the one being verified.
SameChallenge(p) == p.session = state.session /\ ~p.ec

\* After step 2 the push must be for step 4 and carry prover data; the last
\* one, for step 4 or 6, must carry the code Apple wants to see.
ExpectedStep4(p) == SameChallenge(p) /\ p.step = "4" /\ p.data # "none"
ExpectedFinal(p) == SameChallenge(p) /\ p.step \in {"4", "6"} /\ p.code # "none"

\* Mutant: the confirmation is not checked.
Step4PushUnchecked(p) ==
    /\ pc = "push4Read"
    /\ AppleCanSend(p)
    /\ IF ~ExpectedStep4(p) \/ p.data = "malformed"
       THEN Leave("VerifyError")
       ELSE /\ pc' = "step4"
            /\ state' = Applied(p)
            /\ UNCHANGED <<sockets, outcome>>
    /\ UNCHANGED <<beat, attempt, late, prover, codeRight, posted, apple>>

\* The prover derives the shared secret from the data of the push and checks
\* Apple's confirmation against it.
Step4Push(p) ==
    /\ pc = "push4Read"
    /\ AppleCanSend(p)
    /\ CASE ~ExpectedStep4(p) \/ p.data = "malformed"
              -> Leave("VerifyError") /\ UNCHANGED prover
         [] ExpectedStep4(p) /\ p.data = "refutes"
              -> Leave("false") /\ UNCHANGED prover
         [] OTHER
              -> /\ pc' = "step4"
                 /\ state' = Applied(p)
                 /\ prover' = "verified"
                 /\ UNCHANGED <<sockets, outcome>>
    /\ UNCHANGED <<beat, attempt, late, codeRight, posted, apple>>

PostStep4 ==
    /\ pc = "step4"
    /\ \/ /\ posted' = Append(posted, "step4")
          /\ GoWait("final")
          /\ UNCHANGED <<sockets, state, outcome>>
       \/ PostFails("step4") /\ UNCHANGED late
    /\ UNCHANGED <<beat, attempt, prover, codeRight, apple>>

\* Mutant: the sealed code is proof enough.
FinalPushSuffices(p) ==
    /\ pc = "finalRead"
    /\ AppleCanSend(p)
    /\ IF ExpectedFinal(p) THEN Leave("true")
                                                ELSE Leave("VerifyError")
    /\ UNCHANGED <<beat, attempt, late, prover, codeRight, posted, apple>>

\* The code in the last push is sealed with the key both sides now share.
FinalPush(p) ==
    /\ pc = "finalRead"
    /\ AppleCanSend(p)
    /\ IF ExpectedFinal(p) /\ p.code = "sealed" /\ prover = "verified"
       THEN /\ pc' = "code"
            /\ state' = Applied(p)
            /\ UNCHANGED <<sockets, outcome>>
       ELSE Leave("VerifyError")
    /\ UNCHANGED <<beat, attempt, late, prover, codeRight, posted, apple>>

\* Apple may have looked at the code when the request fails.
PostCode ==
    /\ pc = "code"
    /\ \/ /\ posted' = Append(posted, "code")
          /\ apple' \in {"accepted", "refused"}
          /\ pc' = "done"
          /\ UNCHANGED <<sockets, state, outcome>>
       \/ /\ PostFails("code")
          /\ apple' \in IF posted' = posted THEN {"unasked"}
                                            ELSE {"accepted", "refused"}
    /\ UNCHANGED <<beat, attempt, late, prover, codeRight>>

\* The answer is the one to the code (412 is a refusal), but only if this last
\* post goes through.
PostDone ==
    /\ pc = "done"
    /\ \/ /\ posted' = Append(posted, "done")
          /\ Leave(IF apple = "accepted" THEN "true" ELSE "false")
       \/ PostFails("done")
    /\ UNCHANGED <<beat, attempt, late, prover, codeRight, apple>>

\* close(bridge_state), by the caller.
Close ==
    /\ pc = "ready"
    /\ pc' = "idle"
    /\ sockets' = sockets - 1
    /\ state' = NoState
    /\ UNCHANGED <<beat, attempt, late, prover, codeRight, posted, apple, outcome>>

-----------------------------------------------------------------------------
\* One step of the call in progress.
Work ==
    \/ Connect \/ ConnectFails \/ GotToken \/ InvalidNonce \/ SendFilter
    \/ PostStep0 \/ TestDeadline \/ SkipMessage \/ ReadFails
    \/ PostStep2 \/ PostStep4 \/ PostCode \/ PostDone
    \/ \E p \in Payload : PromptPush(p) \/ Step4Push(p) \/ FinalPush(p)

Call == Start \/ StartRefused \/ Validate \/ ValidateRefused \/ Close

Next == Work \/ ReadOn \/ Call \/ DeadlinePasses

Spec == Init /\ [][Next]_vars

\* A call that runs goes on: recv returns something, or its timeout or an error
\* ends it, and time passes.  That what recv returns ever completes a message is
\* not assumed.
Fairness == WF_vars(Work \/ ReadOn) /\ WF_vars(DeadlinePasses)

FairSpec == Spec /\ Fairness

-----------------------------------------------------------------------------
(* Properties *)

\* The websocket is open exactly while a prompt is open or a call that has
\* opened one runs: no failure, at any step, leaves a connection behind, and
\* the retry after INVALID_NONCE never holds two.
NoConnectionLeft ==
    sockets = IF pc \in {"idle", "connect"} THEN 0 ELSE 1

\* However the conversation goes wrong, and whatever is retried, a start asks
\* the devices for a code at most once and no step is ever repeated, skipped
\* or sent out of order.
StepsInOrder ==
    /\ Len(posted) <= Len(Protocol)
    /\ \A i \in 1..Len(posted) : posted[i] = Protocol[i]

\* "true" is said only of the code the devices show, and only when Apple has
\* accepted it; "false" only of another code, or when Apple has refused.
VerdictIsHonest ==
    /\ outcome = "true" => codeRight /\ apple = "accepted"
    /\ outcome = "false" => ~codeRight \/ apple = "refused"

\* How many posts the step at hand comes after.
PostedSoFar ==
    /\ pc \in {"connect", "token", "tokenRead", "filter", "step0"} => Len(posted) = 0
    /\ pc \in {"prompt", "promptRead", "ready", "step2"} => Len(posted) = 1
    /\ pc \in {"push4", "push4Read", "step4"} => Len(posted) = 2
    /\ pc \in {"final", "finalRead", "code"} => Len(posted) = 3
    /\ pc = "done" => Len(posted) = 4

\* The invariant of the proofs: at each step it is certain what has been
\* posted, whether Apple has looked at the code, and whether it has proved to
\* know it; what a call answered fits both.
ConversationIsSound ==
    /\ TypeOK
    /\ NoConnectionLeft
    /\ StepsInOrder
    /\ VerdictIsHonest
    /\ PostedSoFar
    /\ pc \in Starting \cup {"idle"} => state = NoState
    /\ pc \in Starting \cup Verifying => outcome = "none"
    /\ pc \notin {"idle", "done"} => apple = "unasked"
    /\ pc = "done" => apple # "unasked"
    /\ prover = "verified" => codeRight
    /\ pc \in {"step4", "final", "finalRead", "code", "done"} => prover = "verified"

\* From the prompt to the verdict the session is the one that was prompted:
\* no push of another sign-in, late or misdirected, is mixed into it.
SessionPinned ==
    [][state.session # NoSession => state'.session \in {state.session, NoSession}]_vars

\* Every call comes to an end: with silence, with messages for others one after
\* the other, and with INVALID_NONCE again and again.  The exception is the
\* code's: while the server goes on sending pings or bits of a message and
\* never completes one, read_message does not return, whatever the deadline.
CallsReturn ==
    \/ (pc \in Starting \cup Verifying) ~> (pc \in {"idle", "ready"})
    \/ []<><<ReadOn>>_vars /\ <>[][ReadOn]_vars

-----------------------------------------------------------------------------
(* What the sign-in code relies on. *)
Contract == INSTANCE BridgeContract WITH
    stage <- IF pc \in Starting THEN "starting"
             ELSE IF pc \in Verifying THEN "verifying"
             ELSE IF pc = "ready" THEN "prompted" ELSE "closed",
    verdict <- outcome,
    right <- codeRight,
    asked <- posted # <<>>,
    accepted <- apple

\* The bridge implements BridgeContract, which module SignIn builds on.
ImplementsContract == Contract!Spec
=============================================================================
