CONSTANTS
    Requests <- MCRequests
    AllGraphs <- MCAllGraphs
    CHOOSABILITY_MAX_N = 3
    MAX_CORE_VERTICES = 3
    MAX_PALETTE = 72
    MINOR_HOST_MAX = 5
    MINOR_PATTERN_MAX = 4
    BK_DELTA = 2
SPECIFICATION Spec
INVARIANTS
    SubgraphHolds
