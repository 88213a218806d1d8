--------------------------- MODULE BridgeContract ---------------------------
(***************************************************************************)
(* What the trusted-device bridge promises to the sign-in code that calls  *)
(* start, validate_code and close of TrustedDeviceBridgeBootstrapper:      *)
(*                                                                         *)
(*   - one connection at most, and none once a call has failed or answered;*)
(*   - the trusted devices are asked to show a code at most once per start;*)
(*   - "true" is said only of the right code, and only if Apple took it;   *)
(*   - "false" is said only of a wrong code or of one Apple refused.       *)
(***************************************************************************)
VARIABLES stage,     \* "closed", "starting", "prompted" or "verifying"
          verdict,   \* what the last call answered: "none" while it runs
          right,     \* the code being verified is the one the devices show
          asked,     \* this start has asked the devices to show a code
          accepted   \* Apple's answer to the decrypted code

vars == <<stage, verdict, right, asked, accepted>>

StartErrors == {"PromptError", "APIError", "raw"}
ValidateErrors == {"VerifyError", "APIError", "raw"}
Verdicts == {"none", "prompt", "true", "false"} \cup StartErrors \cup ValidateErrors

TypeOK == /\ stage \in {"closed", "starting", "prompted", "verifying"}
          /\ verdict \in Verdicts
          /\ right \in BOOLEAN
          /\ asked \in BOOLEAN
          /\ accepted \in {"unasked", "accepted", "refused"}

Init == /\ stage = "closed"
        /\ verdict = "none"
        /\ right = FALSE
        /\ asked = FALSE
        /\ accepted = "unasked"

Start == /\ stage = "closed"
         /\ stage' = "starting"
         /\ verdict' = "none"
         /\ asked' = FALSE
         /\ accepted' = "unasked"
         /\ right' = FALSE

AskDevices == /\ stage = "starting"
              /\ ~asked
              /\ asked' = TRUE
              /\ UNCHANGED <<stage, verdict, right, accepted>>

Prompted == /\ stage = "starting"
            /\ asked
            /\ stage' = "prompted"
            /\ verdict' = "prompt"
            /\ UNCHANGED <<right, asked, accepted>>

StartFails == /\ stage = "starting"
              /\ stage' = "closed"
              /\ verdict' \in StartErrors
              /\ asked' \in {asked, TRUE}
              /\ UNCHANGED <<right, accepted>>

\* The parameters of the websocket are read from the page before anything is
\* sent: a start may be refused on the spot.
StartRefused == /\ stage = "closed"
                /\ verdict' = "PromptError"
                /\ right' = FALSE
                /\ asked' = FALSE
                /\ accepted' = "unasked"
                /\ UNCHANGED stage

Validate == /\ stage = "prompted"
            /\ stage' = "verifying"
            /\ verdict' = "none"
            /\ right' \in BOOLEAN
            /\ UNCHANGED <<asked, accepted>>

\* A prompt of another kind, or none, is not verified here: nothing changes.
NotForTheBridge == /\ stage \in {"closed", "prompted"}
                   /\ verdict' = "VerifyError"
                   /\ UNCHANGED <<stage, right, asked, accepted>>

\* Apple looks at a code only if the prover was convinced, so a wrong code
\* never gets this far.
AppleDecides == /\ stage = "verifying"
                /\ right
                /\ accepted = "unasked"
                /\ accepted' \in {"accepted", "refused"}
                /\ UNCHANGED <<stage, verdict, right, asked>>

Says(v) == CASE v = "true"  -> accepted = "accepted"
             [] v = "false" -> ~right \/ accepted = "refused"
             [] OTHER       -> v \in ValidateErrors

Verified == /\ stage = "verifying"
            /\ stage' = "closed"
            /\ verdict' \in {"true", "false"} \cup ValidateErrors
            /\ Says(verdict')
            /\ UNCHANGED <<right, asked, accepted>>

\* The request that carried the code fails after Apple has looked at it.
AnswerLost == /\ stage = "verifying"
              /\ right
              /\ accepted = "unasked"
              /\ stage' = "closed"
              /\ accepted' \in {"accepted", "refused"}
              /\ verdict' \in ValidateErrors
              /\ UNCHANGED <<right, asked>>

Close == /\ stage = "prompted"
         /\ stage' = "closed"
         /\ UNCHANGED <<verdict, right, asked, accepted>>

Next == \/ Start \/ AskDevices \/ Prompted \/ StartFails \/ StartRefused
        \/ Validate \/ NotForTheBridge \/ AppleDecides \/ Verified
        \/ AnswerLost \/ Close

Spec == Init /\ [][Next]_vars
=============================================================================
