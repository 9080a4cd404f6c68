SPECIFICATION MCSpec
CONSTANTS
  None = None
  pair = pair
  machine = machine
  docker = docker
  root = root
  Submissions = {s1, s2}
  Contents = {pair, machine, docker}
  Good = {pair, machine, docker}
  Sysadmins = {root, deputy}
  Workers = {}
  MaxAttempts = 2
  MaxEdits = 1
  RolesOf <- MCRolesOf
  Vmids = {1, 2}
  Registrable = {1}
  Publishers = {p1, p2}
INVARIANTS TypeOK ImportHasJob VmidExclusive
PROPERTIES StagesKept JournalKept PublishedAsApproved PublicationEnds
CHECK_DEADLOCK FALSE
