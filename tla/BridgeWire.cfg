SPECIFICATION Spec
CONSTANTS
    Short = 6
    Medium = 12
    MaxFrames = 3
    MaskKey <- Key
    HttpAnswer <- Answer101
    Plans <- MCPlans
    Cuts <- MCCuts
    Keys <- MCKeys
    Pings <- MCPings
    Strays <- MCStrays
INVARIANTS
    StreamIsKept
    TruncationShows
    AnswersMatch
