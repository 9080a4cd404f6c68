SPECIFICATION Spec
CONSTANTS
  None = None
  ann = ann
  root = root
  Users = {ann, root}
  Scenes <- MCTwoAdmins
  Browsers = {b1, b2}
  Limit = 2
PROPERTY LastAdminStays
CHECK_DEADLOCK FALSE
SYMMETRY Symmetry
