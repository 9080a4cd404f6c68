SPECIFICATION MCSpec
CONSTANTS
  None = None
  s1 = s1
  s2 = s2
  Submissions = {s1, s2}
  Contents = {sound, faulty}
  Good = {sound}
  Sysadmins = {root}
  Workers = {w1, w2}
  MaxAttempts = 2
  MaxEdits = 1
INVARIANTS VTypeOK JobsMatch OneVerdict ApprovalOnRecord
PROPERTIES LifecycleRefines JudgedAsFrozen ValidationEnds
CHECK_DEADLOCK FALSE
