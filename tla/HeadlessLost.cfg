CONSTANTS
  MaxClients = 1
  MaxMods = 0
  MaxFaults = 0
SPECIFICATION FairSpec
PROPERTY ClientsComplete
