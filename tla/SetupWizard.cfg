SPECIFICATION FairSpec
CONSTANTS
    Account = {a, b, c}
    Legacy = c
    None = none
    Thread = {t1, t2}
    ImportWhileBusy = FALSE
INVARIANTS
    DialogInStep
    SavedWasAccepted
    ConfigIsSignedIn
PROPERTIES
    WaitEnds
CHECK_DEADLOCK FALSE
