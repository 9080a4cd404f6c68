SPECIFICATION Spec
CONSTANTS
  None = None
  Ids = {1, 2}
  Paths = {disk, data}
  Manifests = {{disk}, {disk, data}}
  Keys = {k1, k2, k3, k4}
  Processes = {p1, p2}
  Staff = {mod, root}
  Sysadmins = {root}
  Sizes = {1}
  SubmissionBytes = 2
  UserBytes = 2
  TotalBytes = 3
  MaxDrafts = 1
  MaxLeft = 1
INVARIANTS TypeOK RowsHaveBlobs FrozenInventory QuotasKept NoStrays
CHECK_DEADLOCK FALSE
SYMMETRY Symmetry
