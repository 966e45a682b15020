SPECIFICATION Spec
SYMMETRY Symmetry
CONSTANTS
  u = u
  w = w
  Users = {u, w}
  Requests = {r1, r2, r3}
  Names = {n}
  Projects = {p}
  Founder <- MCFounder
  None = None
  MaxFaults = 1
INVARIANTS
  TypeOK
  StaleIsRefused
  CredentialsAgree
  FirstDeviceIsWhole
  NamesAreUnique
  MembersAreVouchedFor
CHECK_DEADLOCK FALSE
