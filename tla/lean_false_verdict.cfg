CONSTANTS
    a = a
    b = b
    NoEnv = NoEnv
    Names <- MCNames
    Requires <- MCRequires
    MaxGen = 2
    MaxJobs = 2
SPECIFICATION Spec
INVARIANTS
    VerdictsAreReal
CHECK_DEADLOCK FALSE
