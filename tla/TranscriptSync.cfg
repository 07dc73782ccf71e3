CONSTANTS
  Contents = {c1}
  Malformed = Malformed
  None = None
  Posts = {1, 2}
  ListSize = 1
  MaxPages = 2
  BatchSize = 1
  MaxBatches = 1
  Skew = 1
  Lag = 1
  Overlap = 1
  MaxTime = 3
  MaxEdits = 2
  MaxFaults = 1
  MaxClears = 1
SPECIFICATION FairSpec
INVARIANTS
  NothingSkipped
  CursorHonest
PROPERTIES
  QueueIsFrozen
  SyncConverges
