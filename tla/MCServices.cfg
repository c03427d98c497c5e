SPECIFICATION ServicesSpec
CONSTANTS
  c1 = c1
  t1 = t1
  t2 = t2
  l1 = l1
  l2 = l2
  Conns = {c1}
  Users = {"ann"}
  Services = {}
  Providers = {"claude"}
  OwnerOf <- MCOwnerOf
  ProviderOf <- MCProviderOf
  Kinds = {"oauth_refresh"}
  Sessions = {t1, t2}
  Locks = {l1, l2}
  Keys = {"k1", "k2"}
  NoKey = NoKey
  Absent = Absent
  NoSecret = NoSecret
  NoRotation = NoRotation
  NoLock = NoLock
  NoSession = NoSession
  NoLease = NoLease
  MaxSecrets = 3
  MaxGeneration = 3
  People = {"ann", "eve"}
  ForgeAdmins = {"ann"}
  Bots = {"b1"}
  Places <- MCPlaces
  MaxChanges = 5
  Callers = {"c1", "c2", "c3"}
  RequestKeys = {"k1"}
  Digests = {"d1", "d2"}
  Actors = {"b1", "b2"}
  OperationTtl = 1
  CoalesceSecs = 2
  ActivityTtl = 1
  ActivityCap = 2
  MaxNow = 2
  Environments = {"prod", "dev"}
  MaxDeployments = 2
  MaxStatuses = 3
  Shas = {"s1", "s2", "s3"}
  MaxScoresPerBranch = 2
  Emails = {"a@x", "b@x"}
  MaxWaitlist = 2
  MaxTime = 3
INVARIANTS
  SpentSecretIsMarked
  NeverPresentedTwice
  OneRefreshPerConnection
  AccessIsDurable
  ConnectedRowsOpen
  FencedGenerationsStayFenced
  BotsStayWithinGrants
  ActivityIsTrue
  RecordsAreTrue
SYMMETRY Symmetry
CHECK_DEADLOCK FALSE
