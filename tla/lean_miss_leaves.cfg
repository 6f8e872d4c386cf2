CONSTANTS
    a = a
    b = b
    NoEnv = NoEnv
    Names <- MCNames
    Requires <- MCRequires
    MaxGen = 2
    MaxJobs = 2
SPECIFICATION Spec
PROPERTIES
    MissLeavesNothing
CHECK_DEADLOCK FALSE
