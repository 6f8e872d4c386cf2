CONSTANTS
    NoClaim = NoClaim
    Names <- MCNames
    BK <- MCBK
    Minted <- MCMinted
    KeepRecent = 2
    StaircaseEvery = 2
    MaxSteps = 2
    MaxRounds = 3
    TurnCalls = 2
    MaxTurns = 2
    MaxCalls = 2
    MaxPrompts = 2
    MaxCrashes = 0
SPECIFICATION Spec
INVARIANTS
    ForeverSurvivesTimeouts
CHECK_DEADLOCK FALSE
