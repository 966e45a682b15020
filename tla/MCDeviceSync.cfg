SPECIFICATION Spec
CONSTANTS
  p = p
  s = s
  Entities = {p, s}
  Parent <- MCParent
  Existing = {}
  Loops = {l}
  BatchSize = 2
  Sweeps = {TRUE, FALSE}
  Watched = TRUE
  MaxOps = 3
  MaxPeerEdits = 2
  MaxFaults = 1
INVARIANTS
  TypeOK
  QueueMatchesServer
  ConflictsMatchQueue
  EditsApplyOnce
  RequestsAreValid
  SyncedRecordsConverge
PROPERTIES
  StatusesFollowTable
  ConflictsHaveCause
  ImplementsQueue
CHECK_DEADLOCK FALSE
