------------------------------- MODULE SignIn -------------------------------
(***************************************************************************)
(* Signing in to iCloud: authenticate (src/auth.py), which creates a       *)
(* PyiCloudService (src/icloudlite/base.py), and the same service's        *)
(* authenticate(), which every sync cycle calls again.                     *)
(*                                                                         *)
(* The ladder: the cookies (/validate), the session token (accountLogin),  *)
(* the password (SRP), and, when Apple does not trust this browser, a      *)
(* code.  How the code is asked for and checked on the trusted devices is  *)
(* module BridgeContract, which TrustedBridge implements; its variables    *)
(* are this module's too.                                                  *)
(*                                                                         *)
(* Every request may fail, the program may stop between any two steps, and *)
(* Apple may cease to honour the session or the trust at any time.         *)
(***************************************************************************)
EXTENDS Naturals

CONSTANTS
    TornWrites  \* a crash may come while the session file is being written

ASSUME TornWritesAssumption == TornWrites \in BOOLEAN

VARIABLES
    hsa,      \* dsInfo.hsaVersion of the account, 0 when it has none
    pc,       \* the request the call is about to make, or where it ended
    caller,   \* "signin", or "cycle": api.authenticate() in a sync cycle
    asks,     \* who can be asked for a code: "dialog", "terminal", "nobody"
    mem,      \* the service's session: its token, cookies and trust token
    disk,     \* the same in the cookie directory
    data,     \* what accountLogin or validate said of this browser
    mfa,      \* _requires_mfa
    boot,     \* what Apple offers to confirm the sign-in with
    route,    \* _two_factor_delivery_method
    legacy,   \* the prompt is for the old verifier
    typed,    \* the code typed into this sign-in
    live,     \* what Apple still honours: the session token, the trust token
    shown,    \* codes Apple was asked for in this call
    trouble,  \* since the code was typed a request failed or Apple forgot us
    outcome,  \* what authenticate returned or raised
    stage, verdict, right, asked, accepted  \* the bridge: see BridgeContract

bridgeVars == <<stage, verdict, right, asked, accepted>>
session == <<hsa, mem, disk, data, live>>
challenge == <<mfa, boot, route, legacy>>
call == <<caller, asks, typed, shown, trouble>>
vars == <<pc, session, challenge, call, outcome, bridgeVars>>

Bridge == INSTANCE BridgeContract

Nothing == [token |-> FALSE, cookie |-> "none", trust |-> FALSE]

\* What the session file holds, and what Apple honours of it.
SessionData == [token : BOOLEAN, trust : BOOLEAN,
                cookie : {"none", "untrusted", "trusted"}]
Honoured == [token : BOOLEAN, trust : BOOLEAN]

Logins == {"token1", "token2", "token3"}
Requests == {"validate", "srp", "complete", "options", "push", "text",
             "deliver", "bridging", "sms", "verify", "verifying", "trust",
             "locate"} \cup Logins

TypeOK ==
    /\ hsa \in 0..2
    /\ pc \in {"off", "failed", "signedIn", "judge", "prompt"} \cup Requests
    /\ caller \in {"signin", "cycle"}
    /\ asks \in {"dialog", "terminal", "nobody"}
    /\ mem \in SessionData /\ disk \in SessionData
    /\ data \in {"none", "untrusted", "trusted"}
    /\ mfa \in BOOLEAN
    /\ boot \subseteq {"bridge", "phone", "smsMode"}
    /\ route \in {"unknown", "trusted_device", "sms"}
    /\ legacy \in BOOLEAN
    /\ typed \in {"none", "right", "wrong"}
    /\ live \in Honoured
    /\ shown \in Nat
    /\ trouble \in BOOLEAN
    /\ outcome \in {"none", "api", "TwoFactorRequired", "InvalidCode",
                    "NoVault", "error"}
    /\ Bridge!TypeOK

Init ==
    /\ hsa \in 0..2
    /\ pc = "off"
    /\ caller = "signin"
    /\ asks = "nobody"
    /\ mem = Nothing
    /\ disk = Nothing
    /\ data = "none"
    /\ mfa = FALSE
    /\ boot = {}
    /\ route = "unknown"
    /\ legacy = FALSE
    /\ typed = "none"
    /\ live = [token |-> FALSE, trust |-> FALSE]
    /\ shown = 0
    /\ trouble = FALSE
    /\ outcome = "none"
    /\ Bridge!Init

-----------------------------------------------------------------------------
(* How a call ends *)

\* authenticate raises; in a sync cycle the exception is logged and the cycle
\* goes on with the service as it is.
Raise(o) == IF caller = "cycle"
            THEN pc' = "signedIn" /\ outcome' = "api"
            ELSE pc' = "failed" /\ outcome' = o

\* The fields a response carries replace those of the session.
Updated(fields) == [x \in DOMAIN mem |-> IF x \in DOMAIN fields THEN fields[x]
                                                             ELSE mem[x]]

\* Mutant: only what the response brought is written.
SaveUpdates == disk' = [x \in DOMAIN mem |-> IF mem'[x] # mem[x] THEN mem'[x]
                                                               ELSE Nothing[x]]

\* The session is written out as a whole.
Save == disk' = mem'

\* Every response updates the session and is followed by a save.
Store(fields) == mem' = Updated(fields) /\ Save

Load == mem' = disk

CloseBridge == IF stage = "prompted" THEN Bridge!Close ELSE UNCHANGED bridgeVars

\* What authenticate tries first.
FirstRequest(s) == IF s.token THEN "validate" ELSE "srp"

-----------------------------------------------------------------------------
(* Calls *)

\* A new service object reads the cookie directory; the one of the last
\* attempt is gone, and a websocket it had open with it.
SignIn(who) ==
    /\ pc \in {"off", "failed"}
    /\ pc' = FirstRequest(disk)
    /\ caller' = "signin"
    /\ asks' = who
    /\ Load
    /\ data' = "none"
    /\ mfa' = FALSE
    /\ boot' = {}
    /\ route' = "unknown"
    /\ legacy' = FALSE
    /\ typed' = "none"
    /\ shown' = 0
    /\ trouble' = FALSE
    /\ outcome' = "none"
    /\ CloseBridge
    /\ UNCHANGED <<hsa, disk, live>>

\* Each cycle, and an upload Apple refused, authenticates the service again.
Reauthenticate ==
    /\ pc = "signedIn"
    /\ pc' = FirstRequest(mem)
    /\ caller' = "cycle"
    /\ typed' = "none"
    /\ shown' = 0
    /\ trouble' = FALSE
    /\ UNCHANGED <<asks, session, challenge, outcome, bridgeVars>>

\* The program stops, at any step.  The session file is rewritten in place.
Stop ==
    /\ pc # "off"
    /\ pc' = "off"
    /\ mem' = Nothing
    /\ disk' \in {disk} \cup (IF TornWrites THEN {Nothing} ELSE {})
    /\ data' = "none"
    /\ outcome' = "none"
    /\ stage' = "closed"
    /\ UNCHANGED <<challenge, call, hsa, live, verdict, right, asked, accepted>>

-----------------------------------------------------------------------------
(* The ladder *)

\* /validate needs the cookie of a live session.  Any error leads to the
\* session token.
Validate ==
    /\ pc = "validate"
    /\ \/ /\ mem.cookie # "none"
          /\ live.token
          /\ data' = IF live.trust THEN mem.cookie ELSE "untrusted"
          /\ pc' = "judge"
       \/ pc' = "token1" /\ UNCHANGED data
    /\ UNCHANGED <<hsa, mem, disk, live, challenge, call, outcome, bridgeVars>>

\* Mutant: a login that failed is always tried again with the password.
LoginFailsRetried == IF pc \in {"token1", "token2"} THEN pc' = "srp" /\ UNCHANGED outcome
                                                   ELSE Raise("error")

\* A failed accountLogin, the first of them, leads to the password; the others
\* end the call.
LoginFails == CASE pc = "token1" -> pc' = "srp" /\ UNCHANGED outcome
                [] OTHER         -> Raise("error")

\* A login of a browser Apple does not trust: trust_session, which makes the
\* third, swallows that, and its caller finds the session untrusted still.
LoginUntrusted ==
    CASE pc = "token1" -> pc' = "srp" /\ UNCHANGED <<outcome, mfa>>
      [] pc = "token2" -> pc' = "judge" /\ mfa' = TRUE /\ UNCHANGED outcome
      [] pc = "token3" -> Raise("InvalidCode") /\ UNCHANGED mfa

\* _authenticate_with_token, in all three places.
Login ==
    /\ pc \in Logins
    /\ \/ LET said == IF mem.trust /\ live.trust THEN "trusted" ELSE "untrusted"
          IN  /\ live.token
              /\ data' = said
              /\ Store([cookie |-> said])
              /\ IF said = "trusted"
                 THEN /\ IF pc = "token3" /\ mfa
                         THEN Raise("InvalidCode")
                         ELSE /\ pc' = IF pc = "token3" THEN "locate" ELSE "judge"
                              /\ UNCHANGED outcome
                      /\ boot' = {}
                      /\ route' = "unknown"
                      /\ stage' = "closed"
                      /\ UNCHANGED mfa
                 ELSE LoginUntrusted /\ UNCHANGED <<boot, route, stage>>
              /\ UNCHANGED trouble
       \/ /\ LoginFails
          /\ trouble' = TRUE
          /\ UNCHANGED <<mem, disk, data, boot, route, mfa, stage>>
    /\ UNCHANGED <<hsa, live, legacy, caller, asks, typed, shown, verdict, right,
                   asked, accepted>>

\* The terms of service have changed, and nobody accepted them.
TermsChanged ==
    /\ pc \in Logins
    /\ live.token
    /\ Raise("error")
    /\ Store([cookie |-> "untrusted"])
    /\ data' = "untrusted"
    /\ trouble' = TRUE
    /\ UNCHANGED <<hsa, live, challenge, caller, asks, typed, shown, bridgeVars>>

\* The first half of the password exchange.
Srp ==
    /\ pc = "srp"
    /\ \/ pc' = "complete" /\ UNCHANGED outcome
       \/ Raise("error")
    /\ UNCHANGED <<session, challenge, call, bridgeVars>>

\* The second half shows the trust token.  A browser that is not trusted is
\* asked for a second factor, 409; either way there is a new session token.
SrpComplete ==
    /\ pc = "complete"
    /\ \/ /\ pc' = IF mem.trust /\ live.trust THEN "token2" ELSE "options"
          /\ Store([token |-> TRUE])
          /\ live' = [live EXCEPT !.token = TRUE]
          /\ UNCHANGED outcome
       \/ Raise("error") /\ UNCHANGED <<mem, disk, live>>
    /\ UNCHANGED <<hsa, data, challenge, call, bridgeVars>>

\* What this account can confirm a sign-in with; a bridge left open is closed.
Options ==
    /\ pc = "options"
    /\ \/ /\ boot' \in SUBSET {"bridge", "phone", "smsMode"}
          /\ route' = "unknown"
          /\ pc' = "push"
          /\ UNCHANGED outcome
       \/ Raise("error") /\ UNCHANGED <<boot, route>>
    /\ UNCHANGED <<session, mfa, legacy, call, bridgeVars>>

\* _request_2fa_code: a push, and a text message if there is a number.  That
\* a request failed is not looked at.
Ask ==
    /\ pc \in {"push", "text"}
    /\ pc' = IF pc = "push" /\ "phone" \in boot THEN "text" ELSE "token2"
    /\ shown' \in {shown, shown + 1}
    /\ UNCHANGED <<session, challenge, caller, asks, typed, trouble, outcome,
                   bridgeVars>>

\* Mutant: a challenged sign-in is taken as it is.
JudgeLeniently ==
    /\ pc = "judge"
    /\ IF caller = "cycle"
       THEN pc' = "signedIn"
       ELSE pc' = IF data = "untrusted" /\ mfa /\ hsa = 2 THEN "deliver" ELSE "locate"
    /\ UNCHANGED <<session, challenge, call, outcome, bridgeVars>>

\* requires_2fa, which only authenticate in auth.py looks at: a challenge is for
\* accounts with two-factor authentication, the others pass as they are.
Judge ==
    /\ pc = "judge"
    /\ IF caller = "cycle"
       THEN pc' = "signedIn"
       ELSE pc' = IF (data = "untrusted" \/ mfa) /\ hsa = 2 THEN "deliver" ELSE "locate"
    /\ UNCHANGED <<session, challenge, call, outcome, bridgeVars>>

\* find_vault_root: whatever goes wrong, there is no vault.
Locate ==
    /\ pc = "locate"
    /\ \/ pc' = "signedIn" /\ outcome' = "api"
       \/ pc' = "failed" /\ outcome' = "NoVault"
    /\ UNCHANGED <<session, challenge, call, bridgeVars>>

-----------------------------------------------------------------------------
(* Asking for the code: request_2fa_code *)

CanText == {"phone", "smsMode"} \subseteq boot

\* No code can be had: the account needs a hardware key, has no number, or
\* Apple refused to prompt the devices.
CannotAsk == Raise("TwoFactorRequired")

\* The bridge first; a text message where there is no bridge; or nothing this
\* program knows.
StartBridge ==
    /\ pc = "deliver"
    /\ "bridge" \in boot
    /\ \/ pc' = "bridging" /\ Bridge!Start /\ UNCHANGED outcome
       \/ /\ Bridge!StartRefused
          /\ IF CanText THEN pc' = "sms" /\ UNCHANGED outcome ELSE CannotAsk
    /\ UNCHANGED <<session, challenge, call>>

NoBridge ==
    /\ pc = "deliver"
    /\ "bridge" \notin boot
    /\ IF CanText THEN pc' = "sms" /\ UNCHANGED outcome ELSE CannotAsk
    /\ UNCHANGED <<session, challenge, call, bridgeVars>>

BridgeAsks ==
    /\ pc = "bridging"
    /\ Bridge!AskDevices
    /\ shown' = shown + 1
    /\ UNCHANGED <<pc, session, challenge, caller, asks, typed, trouble, outcome>>

\* Only an error of the prompt itself leads to a text message.
BridgeAnswers ==
    /\ pc = "bridging"
    /\ \/ /\ Bridge!Prompted
          /\ pc' = "prompt"
          /\ route' = "trusted_device"
          /\ legacy' \in BOOLEAN
          /\ UNCHANGED outcome
       \/ /\ Bridge!StartFails
          /\ CASE verdict' = "PromptError" /\ CanText
                    -> pc' = "sms" /\ UNCHANGED outcome
               [] verdict' = "PromptError" /\ ~CanText
                    -> CannotAsk
               [] OTHER -> Raise("error")
          /\ UNCHANGED <<route, legacy>>
    /\ UNCHANGED <<session, mfa, boot, call>>

SendText ==
    /\ pc = "sms"
    /\ \/ /\ pc' = "prompt"
          /\ route' = "sms"
          /\ shown' = shown + 1
          /\ UNCHANGED outcome
       \/ Raise("error") /\ UNCHANGED <<route, shown>>
    /\ UNCHANGED <<session, mfa, boot, legacy, caller, asks, typed, trouble,
                   bridgeVars>>

\* The user types a code, the one the prompt names or another one.
Type(c) ==
    /\ pc = "prompt"
    /\ asks # "nobody"
    /\ pc' = "verify"
    /\ typed' = c
    /\ UNCHANGED <<session, challenge, caller, asks, shown, trouble, outcome,
                   bridgeVars>>

\* Nobody can be asked; or the user cancels, or the dialog's wait ends after
\* 300 seconds.  The bridge is left as it is.
GiveUp ==
    /\ pc = "prompt"
    /\ Raise("TwoFactorRequired")
    /\ UNCHANGED <<session, challenge, call, bridgeVars>>

-----------------------------------------------------------------------------
(* Checking the code: validate_2fa_code *)

ByBridge == route # "sms" /\ stage = "prompted" /\ ~legacy

VerifyByBridge ==
    /\ pc = "verify"
    /\ ByBridge
    /\ Bridge!Validate
    /\ right' = (typed = "right")
    /\ pc' = "verifying"
    /\ UNCHANGED <<session, challenge, call, outcome>>

\* Mutant: the bridge is closed only by its own verifier.
VerifyLeavingOpen ==
    /\ pc = "verify"
    /\ ~ByBridge
    /\ \/ typed = "right" /\ pc' = "trust" /\ UNCHANGED <<outcome, trouble>>
       \/ Raise("InvalidCode") /\ trouble' = (trouble \/ typed = "right")
    /\ UNCHANGED <<session, challenge, caller, asks, typed, shown, bridgeVars>>

\* The endpoints for text messages and for the old verifier: an error, of any
\* kind, is a wrong code.
VerifyByEndpoint ==
    /\ pc = "verify"
    /\ ~ByBridge
    /\ \/ typed = "right" /\ pc' = "trust" /\ UNCHANGED <<outcome, trouble>>
       \/ Raise("InvalidCode") /\ trouble' = (trouble \/ typed = "right")
    /\ CloseBridge
    /\ UNCHANGED <<session, challenge, caller, asks, typed, shown>>

BridgeWorks ==
    /\ pc = "verifying"
    /\ Bridge!AppleDecides
    /\ UNCHANGED <<pc, session, challenge, call, outcome>>

\* Mutant: the answer is not looked at.
BridgeVerifiedUnread ==
    /\ pc = "verifying"
    /\ Bridge!Verified \/ Bridge!AnswerLost
    /\ IF verdict' \in {"true", "false"} THEN pc' = "trust" /\ UNCHANGED outcome
                                         ELSE Raise("error")
    /\ trouble' = (trouble \/ verdict' \notin {"true", "false"} \/ accepted' = "refused")
    /\ UNCHANGED <<session, challenge, caller, asks, typed, shown>>

\* An error of the network counts as a wrong code, one of the bridge does not.
BridgeVerified ==
    /\ pc = "verifying"
    /\ Bridge!Verified \/ Bridge!AnswerLost
    /\ CASE verdict' = "true"                    -> pc' = "trust" /\ UNCHANGED outcome
         [] verdict' \in {"false", "APIError"}   -> Raise("InvalidCode")
         [] verdict' \in {"VerifyError", "raw"}  -> Raise("error")
    /\ trouble' = (trouble \/ verdict' \notin {"true", "false"} \/ accepted' = "refused")
    /\ UNCHANGED <<session, challenge, caller, asks, typed, shown>>

\* Mutant: the second factor counts as owed still.
TrustStillRequired ==
    /\ pc = "trust"
    /\ \/ /\ Store([token |-> TRUE, trust |-> TRUE])
          /\ live' = [token |-> TRUE, trust |-> TRUE]
          /\ pc' = "token3"
          /\ UNCHANGED <<outcome, trouble>>
       \/ /\ Raise("InvalidCode")
          /\ trouble' = TRUE
          /\ UNCHANGED <<mem, disk, live>>
    /\ UNCHANGED <<hsa, data, mfa, boot, route, legacy, caller, asks, typed, shown,
                   bridgeVars>>

\* trust_session: Apple gives this browser a token that spares it the codes.
\* A failure is swallowed, but the session is not trusted then, and that reads
\* as a wrong code.  When the answer is lost, so is the token in it: live.trust
\* is about the token this browser has, and a grant it never got is no grant.
Trust ==
    /\ pc = "trust"
    /\ mfa' = FALSE
    /\ \/ /\ Store([token |-> TRUE, trust |-> TRUE])
          /\ live' = [token |-> TRUE, trust |-> TRUE]
          /\ pc' = "token3"
          /\ UNCHANGED <<outcome, trouble>>
       \/ /\ Raise("InvalidCode")
          /\ trouble' = TRUE
          /\ UNCHANGED <<mem, disk, live>>
    /\ UNCHANGED <<hsa, data, boot, route, legacy, caller, asks, typed, shown,
                   bridgeVars>>

-----------------------------------------------------------------------------
\* Apple ceases to honour the session or, after a few weeks, the trust.
Expire ==
    /\ \E what \in {"token", "trust"} :
          live[what] /\ live' = [live EXCEPT ![what] = FALSE]
    /\ trouble' = TRUE
    /\ UNCHANGED <<pc, hsa, mem, disk, data, challenge, caller, asks, typed, shown,
                   outcome, bridgeVars>>

Work == \/ Validate \/ Login \/ TermsChanged \/ Srp \/ SrpComplete \/ Options
        \/ Ask \/ Judge \/ Locate \/ StartBridge \/ NoBridge \/ BridgeAnswers
        \/ SendText \/ VerifyByBridge \/ VerifyByEndpoint \/ BridgeVerified \/ Trust
        \/ asks # "terminal" /\ GiveUp

Next == \/ Work \/ GiveUp \/ BridgeAsks \/ BridgeWorks \/ Reauthenticate \/ Stop
        \/ Expire
        \/ \E who \in {"dialog", "terminal", "nobody"} : SignIn(who)
        \/ \E c \in {"right", "wrong"} : Type(c)

Spec == Init /\ [][Next]_vars

\* Requests end, by their timeout if need be; so does the wait of the dialog,
\* but not that of the terminal.
FairSpec == Spec /\ WF_vars(Work)

\* And the daemon begins a cycle every poll interval.
DaemonSpec == FairSpec /\ WF_vars(Reauthenticate)

-----------------------------------------------------------------------------
(* Properties *)

\* authenticate returns a service only if Apple trusts this browser, unless the
\* account has no two-factor authentication: no interruption, failure or code
\* gets a service past the challenge that the daemon cannot use.
SignedInIsTrusted ==
    pc = "signedIn" /\ caller = "signin" => data = "trusted" \/ hsa # 2

\* Trust is earned with the right code and nothing else: no order of failures,
\* retries and bridge answers lets a wrong one through.
TrustIsEarned == [][~live.trust /\ live.trust' => typed = "right"]_vars

\* "Invalid 2FA code" is said of a right code only when a request failed since it
\* was typed or Apple forgot the session: a sign-in in which nothing goes wrong
\* never ends so, by whichever way the code was checked and trust was asked for.
RightCodeWorks ==
    outcome = "InvalidCode" /\ typed = "right" => trouble

\* What the comment at base.py:1076 says, "Wrong verification code".  The code
\* does not keep it: there a failed request is taken for one.
InvalidMeansWrong == outcome = "InvalidCode" => typed = "wrong"

\* As long as Apple honours the trust this browser was given, no further code
\* is asked for: not by a new start after a crash at any step, not by a cycle,
\* not when the session token has gone.
OneCodeIsEnough == [][shown' > shown => ~live.trust]_vars

\* A websocket to Apple is open only in the course of a sign-in, or after the
\* prompt was given up.
NoConnectionLeft ==
    stage # "closed" => \/ pc \in {"bridging", "prompt", "verify", "verifying"}
                        \/ outcome = "TwoFactorRequired"

\* What is known of the bridge at each step.
BridgeFits ==
    /\ pc = "bridging" => stage = "starting"
    /\ pc \in {"prompt", "verify"} => stage \in {"closed", "prompted"}
    /\ pc = "verifying" => stage = "verifying" /\ (right <=> typed = "right")
    /\ pc = "failed" => \/ stage = "closed"
                        \/ stage = "prompted" /\ outcome = "TwoFactorRequired"
    /\ pc \notin {"bridging", "prompt", "verify", "verifying", "failed"} => stage = "closed"
    /\ stage \in {"starting", "prompted"} => accepted = "unasked"
    /\ accepted # "unasked" => right

\* What a step of a call has behind it.
StepsFit ==
    /\ pc \in {"deliver", "bridging", "sms", "prompt", "verify", "verifying", "trust",
               "token3", "locate"} => caller = "signin"
    /\ pc = "judge" => data # "none"
    /\ pc = "locate" => data = "trusted" \/ hsa # 2
    /\ pc \in {"deliver", "bridging", "sms", "prompt", "verify", "verifying", "trust",
               "token3"} => hsa = 2
    /\ pc \in {"trust", "token3"} => typed = "right"
    /\ pc = "token3" => mem.trust /\ ~mfa /\ (live.trust \/ trouble)
    /\ pc # "failed" => outcome # "InvalidCode"

\* The trust Apple honours is in memory and on disk; the devices, or a number,
\* are at hand only in a call that found no trust.
TrustIsKept ==
    /\ live.trust => disk.trust
    /\ live.trust /\ pc # "off" => mem.trust
    /\ pc \in {"options", "push", "text"} => ~live.trust
    /\ pc \in {"bridging", "sms"} => boot # {}
    /\ caller = "signin" =>
          /\ pc \in {"validate", "token1", "srp", "complete"} => boot = {}
          /\ pc \in {"token2", "judge", "deliver", "bridging", "sms", "prompt", "verify",
                     "verifying", "trust"} /\ boot # {} => ~live.trust

\* The invariant of the proofs.
SignInIsSound ==
    /\ TypeOK
    /\ SignedInIsTrusted
    /\ RightCodeWorks
    /\ BridgeFits
    /\ StepsFit
    /\ TrustIsKept

\* Every sign-in comes to an end, except that the terminal waits for a code as
\* long as it takes.  That the bridge's calls end is assumed here (FairSpec);
\* CallsReturn of TrustedBridge says when they do.
CallsEnd ==
    (pc \in Requests \cup {"judge", "prompt"})
        ~> (pc \in {"off", "failed", "signedIn"} \/ (pc = "prompt" /\ asks = "terminal"))

\* What CHANGELOG.md says of the setup wizard's prompt, "re-authentication
\* when a session expires": once the trust is gone, the running program asks
\* for a code.
ExpiryIsAsked ==
    (hsa = 2 /\ pc = "signedIn" /\ ~live.trust) ~> (pc \in {"prompt", "off"} \/ live.trust)
=============================================================================
