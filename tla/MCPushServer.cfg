\* Overlapping deliveries of operations on a shared site and on a new project.
CONSTANTS
  w1 = w1  w2 = w2
  o1 = o1  o2 = o2
  d1 = d1  d2 = d2
  u1 = u1  u2 = u2
  p = p  q = q  s = s  i = i
  Workers = {w1, w2}
  OpIds = {o1, o2}
  Contents <- SharedContents
  Devices = {d1, d2}
  Users = {u1, u2}
  UserOf <- MCUserOf
  Entities = {p, q, s, i}
  Level <- MCLevel
  Parent <- MCParent
  Existing = {p, s}
  Enrolled <- MCEnrolled
  Watched = {}
  MaxBatch = 2
  MaxRequests = 2
SYMMETRY MCSymmetry
SPECIFICATION Spec
INVARIANTS
  TypeOK
  StoredAnswerMatchesTables
  NoLostUpdate
  AnswersAgree
  OnlyMembersWrite
PROPERTIES
  DecisionsAreFinal
  ImplementsLedger
CHECK_DEADLOCK FALSE
