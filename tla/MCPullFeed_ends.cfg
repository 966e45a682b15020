\* Loops of both scopes end; the device leaves its window or is revoked meanwhile.
CONSTANTS
  l1 = l1  l2 = l2
  a = a  b = b  x = x
  h = h  n = n
  default = default
  Entities = {a}
  Projects = {h}
  ProjectOf <- MCProjectOf
  Home = {}
  Pullers = {l1, l2}
  Default = default
  Scopes = {default, h}
  Watched = TRUE
  Limit = 1
  MaxSequence = 3
  Edited = {}
  MaxEdits = 0
  MaxPulls = 2
SPECIFICATION FairSpec
PROPERTIES
  PullAllEnds
CHECK_DEADLOCK FALSE
