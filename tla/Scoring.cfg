SPECIFICATION Spec
CONSTANTS
  None = None
  ann = ann
  bob = bob
  cem = cem
  dan = dan
  lab = lab
  quiz = quiz
  f3 = f3
  f1 = f1
  f2 = f2
  i1 = i1
  i2 = i2
  Users = {ann, bob, cem, dan}
  Challenges = {lab, quiz}
  Flags = {f1, f2, f3}
  Instances = {i1, i2}
  UserOf <- MCUserOf
  ChallengeOf <- MCChallengeOf
  FlagsOf <- MCFlagsOf
  Points <- MCPoints
  Handlers = {h1, h2}
  Limit = 1
  Sysadmins = {}
  CategoryOf <- MCCategoryOf
  NameRank <- MCNameRank
  BoardSize = 3
INVARIANTS TypeOK PaidOnce LogMatchesLedger WindowBounded CompleteIsEarned LastFlagCloses RanksAgree
CHECK_DEADLOCK FALSE
