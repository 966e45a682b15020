\* Two overlapping pullAll loops, as the app starts them (all projects), over a
\* log that is being written and records that are edited and resolved.
CONSTANTS
  l1 = l1  l2 = l2
  a = a  b = b  x = x
  h = h  n = n
  default = default
  Entities = {a, x}
  Projects = {h, n}
  ProjectOf <- MCProjectOf
  Home = {h}
  Pullers = {l1, l2}
  Default = default
  Scopes = {default}
  Watched = FALSE
  Limit = 2
  MaxSequence = 3
  Edited = {a}
  MaxEdits = 2
  MaxPulls = 2
SYMMETRY MCSymmetry
SPECIFICATION Spec
INVARIANTS
  TypeOK
  NothingSkipped
  RecordsAreWhole
  
PROPERTIES
  RecordsOnlyAdvance
CHECK_DEADLOCK FALSE
