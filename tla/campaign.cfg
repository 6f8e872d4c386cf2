CONSTANTS
  V1_D = 3
  MAX_FORBIDDEN = 2
  Graph6 <- MCGraph6
  Graph <- MCGraph
  Catalog <- MCCatalog
  Seeds = {"C4"}
  BridgeFormalized = TRUE
  Lemmas = {"closure", "nine"}
  BridgeNames = {}
  ClosureNames = {"closure"}
  AtNineNames = {"nine"}
  Arguments <- MCArguments
  MaxIters = {0, 99}
  MAX_ITERS_CAP = 3
  Sessions = {"s1", "s2"}
  Begun = {"C4", "claw"}
  MaxCalls = 3
  MaxStreak = 3
SPECIFICATION Spec
INVARIANTS TypeOK ClosedCoversRegular SearchDescends
PROPERTIES FrozenIsTold StairsOnlyRise ReformulateWhenFrozen
