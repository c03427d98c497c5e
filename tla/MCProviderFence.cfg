SPECIFICATION Spec
CONSTANTS
  c1 = c1
  t1 = t1
  t2 = t2
  l1 = l1
  l2 = l2
  Conns = {c1}
  Users = {}
  Services = {"bot"}
  Providers = {"claude"}
  OwnerOf <- MCOwnerOf
  ProviderOf <- MCProviderOf
  Kinds = {"oauth_refresh"}
  Sessions = {t1}
  Locks = {l1}
  Keys = {"k1"}
  NoKey = NoKey
  Absent = Absent
  NoSecret = NoSecret
  NoRotation = NoRotation
  NoLock = NoLock
  NoSession = NoSession
  NoLease = NoLease
  MaxSecrets = 2
  MaxGeneration = 2
INVARIANTS
  FenceSurvivesRestart
