---------------------------- MODULE SignInProofs ----------------------------
(***************************************************************************)
(* Proofs about SignIn: what a sign-in leaves behind, whatever fails and   *)
(* whenever the program stops, if no crash comes while the session file is *)
(* being written.                                                          *)
(***************************************************************************)
EXTENDS SignIn, TLAPS

-----------------------------------------------------------------------------
(* The session: what a response, and the passing of time, do to it. *)

LEMMA NothingIsASession == Nothing \in SessionData /\ ~Nothing.trust
  BY DEF Nothing, SessionData

\* Of the session file, the trust token is replaced by trust_session only.
LEMMA CookieStored ==
    ASSUME mem \in SessionData, NEW c \in {"untrusted", "trusted"}, Store([cookie |-> c])
    PROVE  mem' \in SessionData /\ disk' = mem' /\ mem'.trust = mem.trust
  BY DEF Store, Save, Updated, SessionData

LEMMA TokenStored ==
    ASSUME mem \in SessionData, Store([token |-> TRUE])
    PROVE  mem' \in SessionData /\ disk' = mem' /\ mem'.trust = mem.trust
  BY DEF Store, Save, Updated, SessionData

LEMMA TrustStored ==
    ASSUME mem \in SessionData, Store([token |-> TRUE, trust |-> TRUE])
    PROVE  mem' \in SessionData /\ disk' = mem' /\ mem'.trust
  BY DEF Store, Save, Updated, SessionData

LEMMA TokenHonoured ==
    ASSUME live \in Honoured, live' = [live EXCEPT !.token = TRUE]
    PROVE  live' \in Honoured /\ live'.trust = live.trust
  BY DEF Honoured

LEMMA TrustHonoured ==
    ASSUME live' = [token |-> TRUE, trust |-> TRUE]
    PROVE  live' \in Honoured /\ live'.trust
  BY DEF Honoured

LEMMA HonourEnds ==
    ASSUME live \in Honoured, NEW what \in {"token", "trust"},
           live' = [live EXCEPT ![what] = FALSE]
    PROVE  live' \in Honoured /\ (live'.trust => live.trust)
  BY DEF Honoured

-----------------------------------------------------------------------------
(* The invariant, part by part *)

LEMMA InitIsSound == Init => SignInIsSound
  <1> SUFFICES ASSUME Init PROVE SignInIsSound
    OBVIOUS
  <1> USE DEF Init, Bridge!Init
  <1>1. /\ mfa \in BOOLEAN /\ legacy \in BOOLEAN /\ trouble \in BOOLEAN
        /\ right \in BOOLEAN /\ asked \in BOOLEAN
    BY Zenon
  <1>2. live \in Honoured /\ ~live.trust
    BY DEF Honoured
  <1>3. TypeOK
    BY <1>1, <1>2, NothingIsASession DEF TypeOK, Bridge!TypeOK, Bridge!Verdicts
  <1>4. SignedInIsTrusted /\ RightCodeWorks /\ BridgeFits /\ StepsFit
    BY DEF SignedInIsTrusted, RightCodeWorks, BridgeFits, StepsFit
  <1>5. TrustIsKept
    BY <1>2 DEF TrustIsKept
  <1>6. QED
    BY <1>3, <1>4, <1>5 DEF SignInIsSound

\* How the verdict of the bridge is taken.
LEMMA BridgeVerifiedLeads ==
    ASSUME TypeOK, BridgeFits, StepsFit, BridgeVerified
    PROVE  /\ stage' = "closed" /\ right' = right
           /\ verdict' \in Bridge!Verdicts
           /\ accepted' \in {"unasked", "accepted", "refused"}
           /\ accepted' # "unasked" => right
           /\ \/ pc' = "trust" /\ outcome' = outcome /\ right
              \/ pc' = "failed" /\ outcome' \in {"InvalidCode", "error"}
           /\ right /\ pc' = "failed" /\ outcome' = "InvalidCode" => trouble'
           /\ pc = "verifying" /\ typed' = typed /\ caller' = caller /\ caller = "signin"
           /\ UNCHANGED <<session, challenge, asks, shown>>
  <1> USE DEF TypeOK, Bridge!TypeOK, BridgeFits, StepsFit, BridgeVerified
  <1>1. /\ pc = "verifying" /\ typed' = typed /\ caller' = caller
        /\ UNCHANGED <<session, challenge, asks, shown>>
    OBVIOUS
  <1>2. /\ stage' = "closed" /\ right' = right
        /\ verdict' \in {"true", "false", "VerifyError", "APIError", "raw"}
        /\ accepted' \in {"unasked", "accepted", "refused"}
        /\ accepted' # "unasked" => right
    BY DEF Bridge!Verified, Bridge!AnswerLost, Bridge!ValidateErrors
  <1>3. caller = "signin"
    BY <1>1
  <1>4. CASE verdict' = "true"
    <2>1. right
      BY <1>4 DEF Bridge!Verified, Bridge!AnswerLost, Bridge!Says, Bridge!ValidateErrors
    <2>2. pc' = "trust" /\ outcome' = outcome
      BY <1>4
    <2>3. verdict' \in Bridge!Verdicts
      BY <1>4 DEF Bridge!Verdicts
    <2>4. pc' # "failed"
      BY <2>2
    <2>5. QED
      BY <1>1, <1>2, <1>3, <2>1, <2>2, <2>3, <2>4
  <1>5. CASE verdict' \in {"false", "APIError"}
    <2>1. pc' = "failed" /\ outcome' = "InvalidCode"
      BY <1>5, <1>3 DEF Raise
    <2>2. right /\ verdict' = "false" => accepted' = "refused"
      BY DEF Bridge!Verified, Bridge!AnswerLost, Bridge!Says, Bridge!ValidateErrors
    <2>3. right => trouble'
      BY <1>5, <2>2
    <2>4. QED
      BY <1>1, <1>2, <1>3, <1>5, <2>1, <2>3
         DEF Bridge!Verdicts, Bridge!StartErrors, Bridge!ValidateErrors
  <1>6. CASE verdict' \in {"VerifyError", "raw"}
    <2>1. pc' = "failed" /\ outcome' = "error"
      BY <1>6, <1>3 DEF Raise
    <2>2. QED
      BY <1>1, <1>2, <1>3, <1>6, <2>1 DEF Bridge!Verdicts, Bridge!StartErrors, Bridge!ValidateErrors
  <1>7. QED
    BY <1>2, <1>4, <1>5, <1>6

\* How a login ends, without the session and the flags.
LEMMA LoginLeads ==
    ASSUME TypeOK, StepsFit, Login
    PROVE  /\ pc \in Logins
           /\ data' \in {data, "trusted", "untrusted"}
           /\ mem' \in SessionData /\ disk' \in SessionData
           /\ boot' \in {boot, {}} /\ route' \in {route, "unknown"}
           /\ stage' \in {stage, "closed"}
           /\ pc' \in {"srp", "judge", "locate", "failed", "signedIn"}
           /\ outcome' \in {outcome, "InvalidCode", "error", "api"}
           /\ pc = "token3" => pc' \in {"locate", "failed"}
           /\ outcome' = "InvalidCode" => pc = "token3" /\ trouble'
           /\ UNCHANGED <<hsa, live, legacy, caller, asks, typed, shown, verdict, right,
                          asked, accepted>>
  <1> USE DEF TypeOK, StepsFit, Login, Logins
  <1>1. /\ pc \in Logins
        /\ UNCHANGED <<hsa, live, legacy, caller, asks, typed, shown, verdict, right,
                       asked, accepted>>
    OBVIOUS
  <1>2. outcome # "InvalidCode"
    OBVIOUS
  <1>3. CASE LoginFails /\ UNCHANGED <<mem, disk, data, boot, route, mfa, stage>>
             /\ trouble'
    <2>1. /\ pc' \in {"srp", "failed", "signedIn"}
          /\ outcome' \in {outcome, "error", "api"}
          /\ pc = "token3" => pc' = "failed"
      BY <1>3 DEF LoginFails, Raise
    <2>2. QED
      BY <1>1, <1>2, <1>3, <2>1
  <1>4. ASSUME NEW said \in {"trusted", "untrusted"}, Store([cookie |-> said]),
               data' = said,
               said = "trusted" <=> mem.trust /\ live.trust,
               UNCHANGED trouble,
               IF said = "trusted"
               THEN /\ IF pc = "token3" /\ mfa
                       THEN Raise("InvalidCode")
                       ELSE /\ pc' = IF pc = "token3" THEN "locate" ELSE "judge"
                            /\ UNCHANGED outcome
                    /\ boot' = {}
                    /\ route' = "unknown"
                    /\ stage' = "closed"
                    /\ UNCHANGED mfa
               ELSE LoginUntrusted /\ UNCHANGED <<boot, route, stage>>
        PROVE  /\ data' \in {"trusted", "untrusted"}
               /\ mem' \in SessionData /\ disk' \in SessionData
               /\ boot' \in {boot, {}} /\ route' \in {route, "unknown"}
               /\ stage' \in {stage, "closed"}
               /\ pc' \in {"srp", "judge", "locate", "failed"}
               /\ outcome' \in {outcome, "InvalidCode"}
               /\ pc = "token3" => pc' \in {"locate", "failed"}
               /\ outcome' = "InvalidCode" => pc = "token3" /\ trouble'
    <2>1. mem' \in SessionData /\ disk' \in SessionData
      BY <1>4, CookieStored
    <2>2. CASE said = "trusted"
      BY <1>1, <1>2, <1>4, <2>1, <2>2
    <2>3. CASE said = "untrusted"
      <3>1. pc = "token3" => trouble' /\ caller = "signin"
        BY <1>4, <2>3
      <3>2. CASE pc = "token1" \/ pc = "token2"
        BY <1>1, <1>2, <1>4, <2>1, <2>3, <3>2 DEF LoginUntrusted
      <3>3. CASE pc = "token3"
        BY <1>1, <1>2, <1>4, <2>1, <2>3, <3>1, <3>3 DEF LoginUntrusted, Raise
      <3>4. QED
        BY <1>1, <3>2, <3>3
    <2>4. QED
      BY <2>2, <2>3
  <1>5. QED
    BY <1>1, <1>3, <1>4

\* The provers keep Booleans apart from the rest: the five flags.
LEMMA FlagsKept ==
    ASSUME TypeOK, Next
    PROVE  /\ mfa' \in BOOLEAN /\ legacy' \in BOOLEAN /\ trouble' \in BOOLEAN
           /\ right' \in BOOLEAN /\ asked' \in BOOLEAN
  <1> DEFINE Flags == /\ mfa' \in BOOLEAN /\ legacy' \in BOOLEAN /\ trouble' \in BOOLEAN
                      /\ right' \in BOOLEAN /\ asked' \in BOOLEAN
  <1> SUFFICES Flags
    OBVIOUS
  <1> USE DEF TypeOK, Bridge!TypeOK, bridgeVars, session, challenge, call
  <1>1. CASE Reauthenticate
    BY <1>1, Zenon DEF Reauthenticate
  <1>2. CASE Stop
    BY <1>2, Zenon DEF Stop
  <1>3. CASE Validate
    BY <1>3, Zenon DEF Validate
  <1>4. CASE Login
    <2>1. mfa' = mfa \/ mfa' = TRUE
      <3>1. CASE LoginUntrusted
        <4>1. pc \in {"token1", "token2", "token3"}
          BY <1>4 DEF Login, Logins
        <4>2. QED
          BY <3>1, <4>1 DEF LoginUntrusted
      <3>2. CASE UNCHANGED mfa
        BY <3>2, Zenon
      <3>3. QED
        BY <1>4, <3>1, <3>2 DEF Login
    <2>2. trouble' = trouble \/ trouble' = TRUE
      BY <1>4, Zenon DEF Login
    <2>3. legacy' = legacy /\ right' = right /\ asked' = asked
      BY <1>4, Zenon DEF Login
    <2>4. QED
      BY <2>1, <2>2, <2>3, Zenon
  <1>5. CASE TermsChanged
    BY <1>5, Zenon DEF TermsChanged
  <1>6. CASE Srp
    BY <1>6, Zenon DEF Srp
  <1>7. CASE SrpComplete
    BY <1>7, Zenon DEF SrpComplete
  <1>8. CASE Options
    BY <1>8, Zenon DEF Options
  <1>9. CASE Ask
    BY <1>9, Zenon DEF Ask
  <1>10. CASE Judge
    BY <1>10, Zenon DEF Judge
  <1>11. CASE Locate
    BY <1>11, Zenon DEF Locate
  <1>12. CASE StartBridge
    BY <1>12, Zenon DEF StartBridge, Bridge!Start, Bridge!StartRefused
  <1>13. CASE NoBridge
    BY <1>13, Zenon DEF NoBridge
  <1>14. CASE BridgeAsks
    BY <1>14, Zenon DEF BridgeAsks, Bridge!AskDevices
  <1>15. CASE BridgeAnswers
    BY <1>15, Zenon DEF BridgeAnswers, Bridge!Prompted, Bridge!StartFails
  <1>16. CASE SendText
    BY <1>16, Zenon DEF SendText
  <1>17. CASE GiveUp
    BY <1>17, Zenon DEF GiveUp
  <1>18. CASE VerifyByBridge
    BY <1>18, Zenon DEF VerifyByBridge, Bridge!Validate
  <1>19. CASE VerifyByEndpoint
    BY <1>19, Zenon DEF VerifyByEndpoint, CloseBridge, Bridge!Close
  <1>20. CASE BridgeWorks
    BY <1>20, Zenon DEF BridgeWorks, Bridge!AppleDecides
  <1>21. CASE BridgeVerified
    BY <1>21, Zenon DEF BridgeVerified, Bridge!Verified, Bridge!AnswerLost
  <1>22. CASE Trust
    BY <1>22, Zenon DEF Trust
  <1>23. CASE Expire
    BY <1>23, Zenon DEF Expire
  <1>24. ASSUME NEW who \in {"dialog", "terminal", "nobody"}, SignIn(who) PROVE Flags
    BY <1>24, Zenon DEF SignIn, CloseBridge, Bridge!Close
  <1>25. ASSUME NEW c \in {"right", "wrong"}, Type(c) PROVE Flags
    BY <1>25, Zenon DEF Type
  <1>26. QED
    BY <1>1, <1>2, <1>3, <1>4, <1>5, <1>6, <1>7, <1>8, <1>9, <1>10, <1>11, <1>12,
       <1>13, <1>14, <1>15, <1>16, <1>17, <1>18, <1>19, <1>20, <1>21, <1>22, <1>23,
       <1>24, <1>25 DEF Next, Work

\* A step keeps the types.
LEMMA TypesKept ==
    ASSUME TypeOK, StepsFit, BridgeFits, Next, ~TornWrites
    PROVE  TypeOK'
  <1>0. /\ mfa' \in BOOLEAN /\ legacy' \in BOOLEAN /\ trouble' \in BOOLEAN
        /\ right' \in BOOLEAN /\ asked' \in BOOLEAN
    BY FlagsKept
  <1> USE <1>0 DEF TypeOK, Bridge!TypeOK, Requests, Logins, bridgeVars, session, challenge,
     call
  <1>1. CASE Reauthenticate
    BY <1>1 DEF Reauthenticate, FirstRequest
  <1>2. CASE Stop
    BY <1>2, NothingIsASession DEF Stop
  <1>3. CASE Validate
    <2>1. mem.cookie \in {"none", "untrusted", "trusted"}
      BY DEF SessionData
    <2>2. data' \in {"none", "untrusted", "trusted"}
      BY <1>3, <2>1 DEF Validate
    <2>3. QED
      BY <1>3, <2>2 DEF Validate
  <1>4. CASE Login
    <2>1. /\ mem' \in SessionData /\ disk' \in SessionData /\ live' \in Honoured
          /\ data' \in {"none", "untrusted", "trusted"}
      BY <1>4, LoginLeads
    <2>2. /\ boot' \subseteq {"bridge", "phone", "smsMode"}
          /\ route' \in {"unknown", "trusted_device", "sms"}
          /\ stage' \in {"closed", "starting", "prompted", "verifying"}
      BY <1>4, LoginLeads
    <2>3. /\ pc' \in {"srp", "judge", "locate", "failed", "signedIn"}
          /\ outcome' \in {"none", "api", "TwoFactorRequired", "InvalidCode",
                            "NoVault", "error"}
      BY <1>4, LoginLeads
    <2>4. UNCHANGED <<hsa, caller, asks, typed, shown, verdict, accepted>>
      BY <1>4, LoginLeads
    <2>5. QED
      BY <2>1, <2>2, <2>3, <2>4
  <1>5. CASE TermsChanged
    BY <1>5, CookieStored DEF TermsChanged, Raise
  <1>6. CASE Srp
    BY <1>6 DEF Srp, Raise
  <1>7. CASE SrpComplete
    BY <1>7, TokenStored, TokenHonoured DEF SrpComplete, Raise
  <1>8. CASE Options
    <2>1. boot' \subseteq {"bridge", "phone", "smsMode"}
      BY <1>8 DEF Options
    <2>2. QED
      BY <1>8, <2>1 DEF Options, Raise
  <1>9. CASE Ask
    BY <1>9 DEF Ask
  <1>10. CASE Judge
    BY <1>10 DEF Judge
  <1>11. CASE Locate
    BY <1>11 DEF Locate
  <1>12. CASE StartBridge
    <2>1. verdict' \in Bridge!Verdicts
      BY <1>12 DEF StartBridge, Bridge!Start, Bridge!StartRefused, Bridge!Verdicts,
         Bridge!StartErrors
    <2>2. QED
      BY <1>12, <2>1 DEF StartBridge, CannotAsk, Raise, Bridge!Start, Bridge!StartRefused
  <1>13. CASE NoBridge
    BY <1>13 DEF NoBridge, CannotAsk, CanText, Raise
  <1>14. CASE BridgeAsks
    BY <1>14 DEF BridgeAsks, Bridge!AskDevices
  <1>15. CASE BridgeAnswers
    <2>1. verdict' \in Bridge!Verdicts
      BY <1>15 DEF BridgeAnswers, Bridge!Prompted, Bridge!StartFails, Bridge!Verdicts
    <2>2. /\ stage' \in {"prompted", "closed"} /\ accepted' = accepted
          /\ route' \in {route, "trusted_device"}
      BY <1>15 DEF BridgeAnswers, Bridge!Prompted, Bridge!StartFails
    <2>3. /\ pc' \in {"prompt", "sms", "failed", "signedIn"}
          /\ outcome' \in {outcome, "api", "TwoFactorRequired", "error"}
      <3>1. CASE Bridge!Prompted
        BY <1>15, <3>1 DEF BridgeAnswers, Bridge!Prompted, Bridge!StartFails
      <3>2. CASE Bridge!StartFails
        BY <1>15, <3>2 DEF BridgeAnswers, CannotAsk, Raise, Bridge!StartFails
      <3>3. QED
        BY <1>15, <3>1, <3>2 DEF BridgeAnswers
    <2>4. QED
      BY <1>15, <2>1, <2>2, <2>3 DEF BridgeAnswers
  <1>16. CASE SendText
    BY <1>16 DEF SendText, Raise
  <1>17. CASE GiveUp
    BY <1>17 DEF GiveUp, Raise
  <1>18. CASE VerifyByBridge
    BY <1>18 DEF VerifyByBridge, Bridge!Validate, Bridge!Verdicts
  <1>19. CASE VerifyByEndpoint
    BY <1>19 DEF VerifyByEndpoint, ByBridge, CloseBridge, Raise, Bridge!Close
  <1>20. CASE BridgeWorks
    BY <1>20 DEF BridgeWorks, Bridge!AppleDecides
  <1>21. CASE BridgeVerified
    BY <1>21, BridgeVerifiedLeads
  <1>22. CASE Trust
    BY <1>22, TrustStored, TrustHonoured DEF Trust, Raise
  <1>23. CASE Expire
    <2>1. PICK what \in {"token", "trust"} : live' = [live EXCEPT ![what] = FALSE]
      BY <1>23 DEF Expire
    <2>2. live' \in Honoured
      BY <2>1, HonourEnds
    <2>3. QED
      BY <1>23, <2>2 DEF Expire
  <1>24. ASSUME NEW who \in {"dialog", "terminal", "nobody"}, SignIn(who) PROVE TypeOK'
    BY <1>24, NothingIsASession DEF SignIn, FirstRequest, Load, CloseBridge, session,
       Bridge!Close
  <1>25. ASSUME NEW c \in {"right", "wrong"}, Type(c) PROVE TypeOK'
    BY <1>25 DEF Type
  <1>26. QED
    BY <1>1, <1>2, <1>3, <1>4, <1>5, <1>6, <1>7, <1>8, <1>9, <1>10, <1>11, <1>12,
       <1>13, <1>14, <1>15, <1>16, <1>17, <1>18, <1>19, <1>20, <1>21, <1>22, <1>23,
       <1>24, <1>25 DEF Next, Work

\* The trust Apple honours is on disk before and after every step, and no code is
\* under way where there is trust: what a crash or a retry finds.
LEMMA TrustKept ==
    ASSUME TypeOK, StepsFit, BridgeFits, TrustIsKept, Next, ~TornWrites
    PROVE  TrustIsKept'
  <1> USE DEF TypeOK, StepsFit, TrustIsKept, Requests, Logins, bridgeVars, session,
     challenge, call
  <1>1. CASE Reauthenticate
    BY <1>1 DEF Reauthenticate, FirstRequest
  <1>2. CASE Stop
    BY <1>2, NothingIsASession DEF Stop
  <1>3. CASE Validate
    BY <1>3 DEF Validate
  <1>4. CASE Login
    BY <1>4, CookieStored DEF Login, LoginFails, LoginUntrusted, Raise
  <1>5. CASE TermsChanged
    BY <1>5, CookieStored DEF TermsChanged, Raise
  <1>6. CASE Srp
    BY <1>6 DEF Srp, Raise
  <1>7. CASE SrpComplete
    BY <1>7, TokenStored, TokenHonoured DEF SrpComplete, Raise
  <1>8. CASE Options
    BY <1>8 DEF Options, Raise
  <1>9. CASE Ask
    BY <1>9 DEF Ask
  <1>10. CASE Judge
    BY <1>10 DEF Judge
  <1>11. CASE Locate
    BY <1>11 DEF Locate
  <1>12. CASE StartBridge
    BY <1>12 DEF StartBridge, CannotAsk, CanText, Raise, Bridge!Start,
       Bridge!StartRefused
  <1>13. CASE NoBridge
    BY <1>13 DEF NoBridge, CannotAsk, CanText, Raise
  <1>14. CASE BridgeAsks
    BY <1>14 DEF BridgeAsks, Bridge!AskDevices
  <1>15. CASE BridgeAnswers
    BY <1>15 DEF BridgeAnswers, CannotAsk, CanText, Raise, Bridge!Prompted,
       Bridge!StartFails
  <1>16. CASE SendText
    BY <1>16 DEF SendText, Raise
  <1>17. CASE GiveUp
    BY <1>17 DEF GiveUp, Raise
  <1>18. CASE VerifyByBridge
    BY <1>18 DEF VerifyByBridge, ByBridge, Bridge!Validate
  <1>19. CASE VerifyByEndpoint
    BY <1>19 DEF VerifyByEndpoint, ByBridge, CloseBridge, Raise, Bridge!Close
  <1>20. CASE BridgeWorks
    BY <1>20 DEF BridgeWorks, Bridge!AppleDecides
  <1>21. CASE BridgeVerified
    BY <1>21, BridgeVerifiedLeads
  <1>22. CASE Trust
    BY <1>22, TrustStored, TrustHonoured DEF Trust, Raise
  <1>23. CASE Expire
    BY <1>23, HonourEnds DEF Expire
  <1>24. ASSUME NEW who \in {"dialog", "terminal", "nobody"}, SignIn(who) PROVE TrustIsKept'
    BY <1>24, NothingIsASession DEF SignIn, FirstRequest, Load, CloseBridge, session,
       Bridge!Close
  <1>25. ASSUME NEW c \in {"right", "wrong"}, Type(c) PROVE TrustIsKept'
    BY <1>25 DEF Type
  <1>26. QED
    BY <1>1, <1>2, <1>3, <1>4, <1>5, <1>6, <1>7, <1>8, <1>9, <1>10, <1>11, <1>12,
       <1>13, <1>14, <1>15, <1>16, <1>17, <1>18, <1>19, <1>20, <1>21, <1>22, <1>23,
       <1>24, <1>25 DEF Next, Work

\* A step leads to the next only with what that one relies on.
LEMMA StepsKept ==
    ASSUME TypeOK, StepsFit, BridgeFits, TrustIsKept, Next
    PROVE  StepsFit'
  <1> USE DEF TypeOK, StepsFit, Requests, Logins, bridgeVars, session, challenge, call
  <1>1. CASE Reauthenticate
    BY <1>1 DEF Reauthenticate, FirstRequest
  <1>2. CASE Stop
    BY <1>2, NothingIsASession DEF Stop
  <1>3. CASE Validate
    BY <1>3 DEF Validate
  <1>4. CASE Login
    BY <1>4, CookieStored DEF Login, LoginFails, LoginUntrusted, Raise
  <1>5. CASE TermsChanged
    BY <1>5, CookieStored DEF TermsChanged, Raise
  <1>6. CASE Srp
    BY <1>6 DEF Srp, Raise
  <1>7. CASE SrpComplete
    BY <1>7, TokenStored, TokenHonoured DEF SrpComplete, Raise
  <1>8. CASE Options
    BY <1>8 DEF Options, Raise
  <1>9. CASE Ask
    BY <1>9 DEF Ask
  <1>10. CASE Judge
    BY <1>10 DEF Judge
  <1>11. CASE Locate
    BY <1>11 DEF Locate
  <1>12. CASE StartBridge
    BY <1>12 DEF StartBridge, CannotAsk, CanText, Raise, Bridge!Start,
       Bridge!StartRefused
  <1>13. CASE NoBridge
    BY <1>13 DEF NoBridge, CannotAsk, CanText, Raise
  <1>14. CASE BridgeAsks
    BY <1>14 DEF BridgeAsks, Bridge!AskDevices
  <1>15. CASE BridgeAnswers
    BY <1>15 DEF BridgeAnswers, CannotAsk, CanText, Raise, Bridge!Prompted,
       Bridge!StartFails
  <1>16. CASE SendText
    BY <1>16 DEF SendText, Raise
  <1>17. CASE GiveUp
    BY <1>17 DEF GiveUp, Raise
  <1>18. CASE VerifyByBridge
    BY <1>18 DEF VerifyByBridge, ByBridge, Bridge!Validate
  <1>19. CASE VerifyByEndpoint
    BY <1>19 DEF VerifyByEndpoint, ByBridge, CloseBridge, Raise, Bridge!Close
  <1>20. CASE BridgeWorks
    BY <1>20 DEF BridgeWorks, Bridge!AppleDecides
  <1>21. CASE BridgeVerified
    BY <1>21, BridgeVerifiedLeads DEF BridgeFits
  <1>22. CASE Trust
    BY <1>22, TrustStored, TrustHonoured DEF Trust, Raise
  <1>23. CASE Expire
    BY <1>23, HonourEnds DEF Expire
  <1>24. ASSUME NEW who \in {"dialog", "terminal", "nobody"}, SignIn(who) PROVE StepsFit'
    BY <1>24, NothingIsASession DEF SignIn, FirstRequest, Load, CloseBridge, session,
       Bridge!Close
  <1>25. ASSUME NEW c \in {"right", "wrong"}, Type(c) PROVE StepsFit'
    BY <1>25 DEF Type
  <1>26. QED
    BY <1>1, <1>2, <1>3, <1>4, <1>5, <1>6, <1>7, <1>8, <1>9, <1>10, <1>11, <1>12,
       <1>13, <1>14, <1>15, <1>16, <1>17, <1>18, <1>19, <1>20, <1>21, <1>22, <1>23,
       <1>24, <1>25 DEF Next, Work

\* The bridge goes along with the call.
LEMMA BridgeKept ==
    ASSUME TypeOK, StepsFit, BridgeFits, Next
    PROVE  BridgeFits'
  <1> USE DEF TypeOK, Bridge!TypeOK, StepsFit, BridgeFits, Requests, Logins,
     bridgeVars, session, challenge, call
  <1>1. CASE Reauthenticate
    BY <1>1 DEF Reauthenticate, FirstRequest
  <1>2. CASE Stop
    BY <1>2, NothingIsASession DEF Stop
  <1>3. CASE Validate
    BY <1>3 DEF Validate
  <1>4. CASE Login
    BY <1>4, CookieStored DEF Login, LoginFails, LoginUntrusted, Raise
  <1>5. CASE TermsChanged
    BY <1>5, CookieStored DEF TermsChanged, Raise
  <1>6. CASE Srp
    BY <1>6 DEF Srp, Raise
  <1>7. CASE SrpComplete
    BY <1>7, TokenStored, TokenHonoured DEF SrpComplete, Raise
  <1>8. CASE Options
    BY <1>8 DEF Options, Raise
  <1>9. CASE Ask
    BY <1>9 DEF Ask
  <1>10. CASE Judge
    BY <1>10 DEF Judge
  <1>11. CASE Locate
    BY <1>11 DEF Locate
  <1>12. CASE StartBridge
    BY <1>12 DEF StartBridge, CannotAsk, CanText, Raise, Bridge!Start,
       Bridge!StartRefused
  <1>13. CASE NoBridge
    BY <1>13 DEF NoBridge, CannotAsk, CanText, Raise
  <1>14. CASE BridgeAsks
    BY <1>14 DEF BridgeAsks, Bridge!AskDevices
  <1>15. CASE BridgeAnswers
    BY <1>15 DEF BridgeAnswers, CannotAsk, CanText, Raise, Bridge!Prompted,
       Bridge!StartFails
  <1>16. CASE SendText
    BY <1>16 DEF SendText, Raise
  <1>17. CASE GiveUp
    BY <1>17 DEF GiveUp, Raise
  <1>18. CASE VerifyByBridge
    BY <1>18 DEF VerifyByBridge, ByBridge, Bridge!Validate
  <1>19. CASE VerifyByEndpoint
    BY <1>19 DEF VerifyByEndpoint, ByBridge, CloseBridge, Raise, Bridge!Close
  <1>20. CASE BridgeWorks
    BY <1>20 DEF BridgeWorks, Bridge!AppleDecides
  <1>21. CASE BridgeVerified
    BY <1>21, BridgeVerifiedLeads
  <1>22. CASE Trust
    BY <1>22, TrustStored, TrustHonoured DEF Trust, Raise
  <1>23. CASE Expire
    BY <1>23, HonourEnds DEF Expire
  <1>24. ASSUME NEW who \in {"dialog", "terminal", "nobody"}, SignIn(who) PROVE BridgeFits'
    BY <1>24, NothingIsASession DEF SignIn, FirstRequest, Load, CloseBridge, session,
       Bridge!Close
  <1>25. ASSUME NEW c \in {"right", "wrong"}, Type(c) PROVE BridgeFits'
    BY <1>25 DEF Type
  <1>26. QED
    BY <1>1, <1>2, <1>3, <1>4, <1>5, <1>6, <1>7, <1>8, <1>9, <1>10, <1>11, <1>12,
       <1>13, <1>14, <1>15, <1>16, <1>17, <1>18, <1>19, <1>20, <1>21, <1>22, <1>23,
       <1>24, <1>25 DEF Next, Work

\* A sign-in ends with a service only after data said trusted.
LEMMA SignedInKept ==
    ASSUME TypeOK, StepsFit, BridgeFits, SignedInIsTrusted, Next
    PROVE  SignedInIsTrusted'
  <1> USE DEF TypeOK, StepsFit, SignedInIsTrusted, Requests, Logins, bridgeVars,
     session, challenge, call
  <1>1. CASE Reauthenticate
    BY <1>1 DEF Reauthenticate, FirstRequest
  <1>2. CASE Stop
    BY <1>2, NothingIsASession DEF Stop
  <1>3. CASE Validate
    BY <1>3 DEF Validate
  <1>4. CASE Login
    BY <1>4, CookieStored DEF Login, LoginFails, LoginUntrusted, Raise
  <1>5. CASE TermsChanged
    BY <1>5, CookieStored DEF TermsChanged, Raise
  <1>6. CASE Srp
    BY <1>6 DEF Srp, Raise
  <1>7. CASE SrpComplete
    BY <1>7, TokenStored, TokenHonoured DEF SrpComplete, Raise
  <1>8. CASE Options
    BY <1>8 DEF Options, Raise
  <1>9. CASE Ask
    BY <1>9 DEF Ask
  <1>10. CASE Judge
    BY <1>10 DEF Judge
  <1>11. CASE Locate
    BY <1>11 DEF Locate
  <1>12. CASE StartBridge
    BY <1>12 DEF StartBridge, CannotAsk, CanText, Raise, Bridge!Start,
       Bridge!StartRefused
  <1>13. CASE NoBridge
    BY <1>13 DEF NoBridge, CannotAsk, CanText, Raise
  <1>14. CASE BridgeAsks
    BY <1>14 DEF BridgeAsks, Bridge!AskDevices
  <1>15. CASE BridgeAnswers
    BY <1>15 DEF BridgeAnswers, CannotAsk, CanText, Raise, Bridge!Prompted,
       Bridge!StartFails
  <1>16. CASE SendText
    BY <1>16 DEF SendText, Raise
  <1>17. CASE GiveUp
    BY <1>17 DEF GiveUp, Raise
  <1>18. CASE VerifyByBridge
    BY <1>18 DEF VerifyByBridge, ByBridge, Bridge!Validate
  <1>19. CASE VerifyByEndpoint
    BY <1>19 DEF VerifyByEndpoint, ByBridge, CloseBridge, Raise, Bridge!Close
  <1>20. CASE BridgeWorks
    BY <1>20 DEF BridgeWorks, Bridge!AppleDecides
  <1>21. CASE BridgeVerified
    BY <1>21, BridgeVerifiedLeads
  <1>22. CASE Trust
    BY <1>22, TrustStored, TrustHonoured DEF Trust, Raise
  <1>23. CASE Expire
    BY <1>23, HonourEnds DEF Expire
  <1>24. ASSUME NEW who \in {"dialog", "terminal", "nobody"}, SignIn(who) PROVE SignedInIsTrusted'
    BY <1>24, NothingIsASession DEF SignIn, FirstRequest, Load, CloseBridge, session,
       Bridge!Close
  <1>25. ASSUME NEW c \in {"right", "wrong"}, Type(c) PROVE SignedInIsTrusted'
    BY <1>25 DEF Type
  <1>26. QED
    BY <1>1, <1>2, <1>3, <1>4, <1>5, <1>6, <1>7, <1>8, <1>9, <1>10, <1>11, <1>12,
       <1>13, <1>14, <1>15, <1>16, <1>17, <1>18, <1>19, <1>20, <1>21, <1>22, <1>23,
       <1>24, <1>25 DEF Next, Work

\* A right code fails only with trouble: through the bridge's verdict, through the
\* endpoints, or through the last login.
LEMMA RightCodeKept ==
    ASSUME TypeOK, StepsFit, BridgeFits, RightCodeWorks, Next
    PROVE  RightCodeWorks'
  <1> USE DEF TypeOK, StepsFit, BridgeFits, RightCodeWorks, Requests, Logins,
     bridgeVars, session, challenge, call
  <1>1. CASE Reauthenticate
    BY <1>1 DEF Reauthenticate, FirstRequest
  <1>2. CASE Stop
    BY <1>2, NothingIsASession DEF Stop
  <1>3. CASE Validate
    BY <1>3 DEF Validate
  <1>4. CASE Login
    BY <1>4, LoginLeads
  <1>5. CASE TermsChanged
    BY <1>5, CookieStored DEF TermsChanged, Raise
  <1>6. CASE Srp
    BY <1>6 DEF Srp, Raise
  <1>7. CASE SrpComplete
    BY <1>7, TokenStored, TokenHonoured DEF SrpComplete, Raise
  <1>8. CASE Options
    BY <1>8 DEF Options, Raise
  <1>9. CASE Ask
    BY <1>9 DEF Ask
  <1>10. CASE Judge
    BY <1>10 DEF Judge
  <1>11. CASE Locate
    BY <1>11 DEF Locate
  <1>12. CASE StartBridge
    BY <1>12 DEF StartBridge, CannotAsk, CanText, Raise, Bridge!Start,
       Bridge!StartRefused
  <1>13. CASE NoBridge
    BY <1>13 DEF NoBridge, CannotAsk, CanText, Raise
  <1>14. CASE BridgeAsks
    BY <1>14 DEF BridgeAsks, Bridge!AskDevices
  <1>15. CASE BridgeAnswers
    BY <1>15 DEF BridgeAnswers, CannotAsk, CanText, Raise, Bridge!Prompted,
       Bridge!StartFails
  <1>16. CASE SendText
    BY <1>16 DEF SendText, Raise
  <1>17. CASE GiveUp
    BY <1>17 DEF GiveUp, Raise
  <1>18. CASE VerifyByBridge
    BY <1>18 DEF VerifyByBridge, ByBridge, Bridge!Validate
  <1>19. CASE VerifyByEndpoint
    BY <1>19 DEF VerifyByEndpoint, ByBridge, CloseBridge, Raise, Bridge!Close
  <1>20. CASE BridgeWorks
    BY <1>20 DEF BridgeWorks, Bridge!AppleDecides
  <1>21. CASE BridgeVerified
    BY <1>21, BridgeVerifiedLeads
  <1>22. CASE Trust
    BY <1>22, TrustStored, TrustHonoured DEF Trust, Raise
  <1>23. CASE Expire
    BY <1>23, HonourEnds DEF Expire
  <1>24. ASSUME NEW who \in {"dialog", "terminal", "nobody"}, SignIn(who) PROVE RightCodeWorks'
    BY <1>24, NothingIsASession DEF SignIn, FirstRequest, Load, CloseBridge, session,
       Bridge!Close
  <1>25. ASSUME NEW c \in {"right", "wrong"}, Type(c) PROVE RightCodeWorks'
    BY <1>25 DEF Type
  <1>26. QED
    BY <1>1, <1>2, <1>3, <1>4, <1>5, <1>6, <1>7, <1>8, <1>9, <1>10, <1>11, <1>12,
       <1>13, <1>14, <1>15, <1>16, <1>17, <1>18, <1>19, <1>20, <1>21, <1>22, <1>23,
       <1>24, <1>25 DEF Next, Work

-----------------------------------------------------------------------------
(* The theorems *)

LEMMA StepKeeps ==
    ASSUME ~TornWrites, SignInIsSound, [Next]_vars
    PROVE  SignInIsSound'
  <1>1. CASE Next
    BY <1>1, TypesKept, TrustKept, StepsKept, BridgeKept, SignedInKept, RightCodeKept
       DEF SignInIsSound
  <1>2. CASE UNCHANGED vars
    BY <1>2 DEF vars, bridgeVars, session, challenge, call, SignInIsSound, TypeOK,
       Bridge!TypeOK, SignedInIsTrusted, RightCodeWorks, BridgeFits, StepsFit, TrustIsKept
  <1>3. QED
    BY <1>1, <1>2

\* At every step of every sign-in the service, its file, the bridge and what
\* Apple honours are where the code takes them to be.
THEOREM SignInStaysSound ==
    ASSUME ~TornWrites
    PROVE  Spec => []SignInIsSound
  <1>1. QED
    BY InitIsSound, StepKeeps, PTL DEF Spec

\* "Invalid 2FA code" is said of a right code only after trouble.
THEOREM RightCodesWork ==
    ASSUME ~TornWrites
    PROVE  Spec => []RightCodeWorks
  <1>1. SignInIsSound => RightCodeWorks
    BY DEF SignInIsSound
  <1>2. QED
    BY <1>1, SignInStaysSound, PTL

\* A websocket is left open only by a prompt that was given up.
THEOREM NoConnectionIsLeft ==
    ASSUME ~TornWrites
    PROVE  Spec => []NoConnectionLeft
  <1>1. SignInIsSound => NoConnectionLeft
    BY DEF SignInIsSound, BridgeFits, NoConnectionLeft
  <1>2. QED
    BY <1>1, SignInStaysSound, PTL

\* Only the right code earns this browser Apple's trust.
THEOREM TrustTakesTheCode ==
    ASSUME ~TornWrites
    PROVE  Spec => TrustIsEarned
  <1>1. ASSUME SignInIsSound, [Next]_vars
        PROVE  ~live.trust /\ live.trust' => typed = "right"
    <2>1. CASE Trust
      BY <2>1, <1>1 DEF Trust, SignInIsSound, StepsFit
    <2>2. CASE SrpComplete
      BY <2>2, <1>1, TokenHonoured DEF SrpComplete, SignInIsSound, TypeOK
    <2>3. CASE Expire
      BY <2>3, <1>1, HonourEnds DEF Expire, SignInIsSound, TypeOK
    <2>4. CASE live' = live
      BY <2>4, <1>1
    <2>5. QED
      BY <1>1, <2>1, <2>2, <2>3, <2>4
         DEF Next, Work, vars, session, SignIn, Reauthenticate, Stop, Validate, Login,
             TermsChanged, Srp, Options, Ask, Judge, Locate, StartBridge, NoBridge,
             BridgeAsks, BridgeAnswers, SendText, Type, GiveUp, VerifyByBridge,
             VerifyByEndpoint, BridgeWorks, BridgeVerified
  <1>2. QED
    BY <1>1, SignInStaysSound, PTL DEF Spec, TrustIsEarned

\* Apple is asked for a code only while it does not trust this browser, so one
\* code lasts for as long as the trust does, whenever the program stops.
THEOREM OneCodeLasts ==
    ASSUME ~TornWrites
    PROVE  Spec => OneCodeIsEnough
  <1>1. ASSUME SignInIsSound, [Next]_vars
        PROVE  shown' > shown => ~live.trust
    <2>1. shown \in Nat
      BY <1>1 DEF SignInIsSound, TypeOK
    <2>2. CASE Ask
      BY <2>2, <1>1 DEF Ask, SignInIsSound, TrustIsKept
    <2>3. CASE BridgeAsks \/ SendText
      BY <2>3, <1>1 DEF BridgeAsks, SendText, SignInIsSound, TrustIsKept, StepsFit
    <2>4. CASE shown' = shown \/ shown' = 0
      BY <2>1, <2>4, <1>1
    <2>5. QED
      BY <1>1, <2>2, <2>3, <2>4
         DEF Next, Work, vars, call, SignIn, Reauthenticate, Stop, Validate, Login,
             TermsChanged, Srp, SrpComplete, Options, Judge, Locate, StartBridge, NoBridge,
             BridgeAnswers, Type, GiveUp, VerifyByBridge, VerifyByEndpoint, BridgeWorks,
             BridgeVerified, Trust, Expire
  <1>2. QED
    BY <1>1, SignInStaysSound, PTL DEF Spec, OneCodeIsEnough
=============================================================================
