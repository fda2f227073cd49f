CONSTANTS
  Mods <- TwoMods
  Refreshers <- NoRefresh
  Passes <- OnePass
  MaxEdits = 0
  MaxFaults = 0
SPECIFICATION GateSpec
INVARIANT SnapshotHoldsMods
