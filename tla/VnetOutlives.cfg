SPECIFICATION Spec
CONSTANTS
  u1 = u1
  u2 = u2
  a1 = a1
  a2 = a2
  dockerLab = dockerLab
  twoVms = twoVms
  oneVm = oneVm
  desktop = desktop
  brief = brief
  None = None
  Users = {u1, u2}
  Attempts = {a1}
  UserOf <- OneStudent
  Challenges = {twoVms}
  KindOf <- MCKindOf
  VmCount <- MCVmCount
  Requests = {p1, p2}
  Reaper = reaper
  RangeStart = 1
  RangeEnd = 3
  Protected = {2}
  Others = {}
  SlowLaunch = FALSE
  MaxCrashes = 0
PROPERTY VnetOutlivesVms
CHECK_DEADLOCK FALSE
