\* A sequence number that commits after a higher one has been served.
CONSTANTS
  l1 = l1  l2 = l2
  a = a  b = b  x = x
  h = h  n = n
  default = default
  Entities = {a, b, x}
  Projects = {h, n}
  ProjectOf <- MCProjectOf
  Home = {h}
  Pullers = {l1, l2}
  Default = default
  Scopes = {default}
  Watched = FALSE
  Limit = 1
  MaxSequence = 3
  Edited = {}
  MaxEdits = 0
  MaxPulls = 2
SYMMETRY MCSymmetry
SPECIFICATION Spec
INVARIANTS
  CursorIsComplete
CHECK_DEADLOCK FALSE
