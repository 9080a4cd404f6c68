SPECIFICATION Spec
CONSTANTS
  None = None
  ann = ann
  root = root
  Users = {ann, root}
  Scenes <- MCScenes
  Browsers = {b1, b2}
  Limit = 2
INVARIANTS TypeOK SessionsHavePassword GuessesBounded
PROPERTIES StaffLockHolds TempIsForced PowerIsCurrent
CHECK_DEADLOCK FALSE
SYMMETRY Symmetry
