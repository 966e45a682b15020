SPECIFICATION FairSpec
CONSTANTS
  p = p
  s = s
  Entities = {p}
  Parent <- MCParent
  Existing = {p}
  Loops = {l}
  BatchSize = 1
  Sweeps = {FALSE}
  Watched = FALSE
  MaxOps = 2
  MaxPeerEdits = 0
  MaxFaults = 1
PROPERTIES
  SyncingEnds
CHECK_DEADLOCK FALSE
