CONSTANTS
    a = a
    b = b
    NoEnv = NoEnv
    Names <- MCNames
    Requires <- MCRequires
    MaxGen = 2
    MaxJobs = 3
SPECIFICATION Spec
INVARIANTS
    TypeOK
    SessionFaithful
PROPERTIES
    OnlyRestoreGoesStale
    FalseProofOnlyAcrossProcesses
    ResetReplays
    RebindReplays
    DurableKeepsSession
    ToolsReturn
CHECK_DEADLOCK FALSE
