SPECIFICATION Spec
CONSTANTS
  u1 = u1
  u2 = u2
  a1 = a1
  a2 = a2
  dockerLab = dockerLab
  twoVms = twoVms
  oneVm = oneVm
  desktop = desktop
  brief = brief
  None = None
  Users = {u1, u2}
  Attempts = {a1}
  UserOf <- OneStudent
  Challenges = {dockerLab, twoVms, brief}
  KindOf <- MCKindOf
  VmCount <- MCVmCount
  Requests = {p1, p2}
  Reaper = reaper
  RangeStart = 1
  RangeEnd = 3
  Protected = {2}
  Others = {2}
  SlowLaunch = FALSE
  MaxCrashes = 1
INVARIANTS TypeOK LabAccounted OutcomeBeforeTeardown NeverHalfLaunched
PROPERTY EverySessionEnds
CHECK_DEADLOCK FALSE
