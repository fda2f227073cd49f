CONSTANTS
  Passes <- OnePass
  headroomBytes = 1
  shrinkHysteresisBytes = 1
  maxSizeBytes = 4
  MaxBatch = 1
  MaxUsed = 3
  MaxOther = 1
  MaxFloor = 2
  MaxFaults = 2
SPECIFICATION FairSpec
INVARIANTS FsFits PromisedRoom
PROPERTIES NeverReformatted ShrinkKeepsReservations HeadroomRestored
