CONSTANTS
  MaxClients = 2
  MaxMods = 1
  MaxFaults = 1
SPECIFICATION FairSpec
INVARIANTS HcGoneLeavesNothing
PROPERTIES FinalizersKept StopRemovesClients ClientsFollowServer
