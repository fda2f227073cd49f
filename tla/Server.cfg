CONSTANTS
  Calls <- TwoCalls
  Recreates = TRUE
  MaxMods = 2
  MaxFaults = 1
SPECIFICATION FairSpec
INVARIANTS GoneLeavesNothing
PROPERTIES FinalizerKept NoRollback StopTakesEffect StartTakesEffect
