\* Requests end; devices run out of their window or are revoked meanwhile.
CONSTANTS
  w1 = w1  w2 = w2
  o1 = o1  o2 = o2
  d1 = d1  d2 = d2
  u1 = u1  u2 = u2
  p = p  q = q  s = s  i = i
  Workers = {w1, w2}
  OpIds = {o1, o2}
  Contents <- GateContents
  Devices = {d1, d2}
  Users = {u1, u2}
  UserOf <- MCUserOf
  Entities = {p, s, i}
  Level <- MCLevel
  Parent <- MCParent
  Existing = {p}
  Enrolled <- MCEnrolled
  Watched = {d1}
  MaxBatch = 1
  MaxRequests = 3
SPECIFICATION FairSpec
PROPERTIES
  RequestsAreAnswered
CHECK_DEADLOCK FALSE
