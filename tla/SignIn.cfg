SPECIFICATION FairSpec
CONSTANTS
    TornWrites = FALSE
INVARIANTS
    SignInIsSound
    RightCodeWorks
    NoConnectionLeft
PROPERTIES
    TrustIsEarned
    OneCodeIsEnough
    CallsEnd
