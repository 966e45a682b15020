SPECIFICATION FairSpec
CONSTANTS
  p = p
  s = s
  Entities = {p}
  Parent <- MCParent
  Existing = {p}
  Loops = {l1, l2}
  BatchSize = 1
  Sweeps = {TRUE, FALSE}
  Watched = FALSE
  MaxOps = 2
  MaxPeerEdits = 1
  MaxFaults = 1
INVARIANTS
  QueueMatchesServer
  SyncedRecordsConverge
PROPERTIES
  EditsSettle
CHECK_DEADLOCK FALSE
