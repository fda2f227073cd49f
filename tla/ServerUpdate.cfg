CONSTANTS
  Calls <- OneCall
  Recreates = FALSE
  MaxMods = 2
  MaxFaults = 0
SPECIFICATION FairSpec
PROPERTY UpdateTakesEffect
