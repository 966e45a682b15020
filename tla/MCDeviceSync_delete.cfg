SPECIFICATION Spec
CONSTANTS
  p = p
  s = s
  Entities = {p}
  Parent <- MCParent
  Existing = {p}
  Loops = {l}
  BatchSize = 2
  Sweeps = {FALSE}
  Watched = FALSE
  MaxOps = 2
  MaxPeerEdits = 1
  MaxFaults = 0
INVARIANTS
  DeleteWins
CHECK_DEADLOCK FALSE
