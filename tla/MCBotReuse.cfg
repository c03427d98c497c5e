SPECIFICATION Spec
CONSTANTS
  Users = {"ann"}
  Admins = {}
  Teams = {"ops"}
  OrgOwners = {"ann"}
  Requests = {"r1"}
  d1 = d1
  d2 = d2
  Bodies = {d1, d2}
  Never = Never
  Org = "org"
  NoTeam = NoTeam
  Slugs = {"s"}
  MaxBots = 1
  RotationGrace = 1
  RefreshTtl = 2
  TokenTtl = 2
  MaxLiveRefresh = 2
  MaxLiveTokens = 1
  MaxNow = 2
  MaxEpoch = 3
  MaxGeneration = 4
  MaxKeys = 2
  MaxRefresh = 3
  MaxAgents = 1
  MaxEnrolling = 2
INVARIANT
  ReuseAlwaysRevokes
CHECK_DEADLOCK FALSE
