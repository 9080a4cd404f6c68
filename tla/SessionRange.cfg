SPECIFICATION Spec
CONSTANTS
  u1 = u1
  u2 = u2
  a1 = a1
  a2 = a2
  dockerLab = dockerLab
  twoVms = twoVms
  oneVm = oneVm
  desktop = desktop
  brief = brief
  None = None
  Users = {u1, u2}
  Attempts = {a1, a2}
  UserOf <- TwoStudents
  Challenges = {desktop}
  KindOf <- MCKindOf
  VmCount <- MCVmCount
  Requests = {p1, p2}
  Reaper = reaper
  RangeStart = 1
  RangeEnd = 2
  Protected = {2}
  Others = {}
  SlowLaunch = TRUE
  MaxCrashes = 0
INVARIANT LedgerUnique
PROPERTY LedgerRefines
CHECK_DEADLOCK FALSE
SYMMETRY Symmetry
