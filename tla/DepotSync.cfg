CONSTANTS
  t1 = t1  t2 = t2
  Tasks <- TwoPasses
  STALE_LOCK_SECS = 2
  MaxHold = 2
  MaxManifest = 3
  MaxFaults = 3
SPECIFICATION FairSpec
INVARIANTS OneWriter TrustedTreeIntact
PROPERTIES PassesTakeTurns MarkerTruthfulWhenWritten Converges
