SPECIFICATION LiveSpec
CONSTANTS
  c1 = c1
  t1 = t1
  t2 = t2
  l1 = l1
  l2 = l2
  Conns = {c1}
  Users = {}
  Services = {"bot"}
  Providers = {"claude"}
  OwnerOf <- MCOwnerOf
  ProviderOf <- MCProviderOf
  Kinds = {"oauth_refresh", "api_key"}
  Sessions = {t1, t2}
  Locks = {l1, l2}
  Keys = {"k1"}
  NoKey = NoKey
  Absent = Absent
  NoSecret = NoSecret
  NoRotation = NoRotation
  NoLock = NoLock
  NoSession = NoSession
  NoLease = NoLease
  MaxSecrets = 2
  MaxGeneration = 2
  b1 = b1
  b2 = b2
  b3 = b3
  s1 = s1
  Buffered = {b1, b2, b3}
  Streamed = {s1}
  Batches <- MCBatches
  Limit = 1
  BodyLength = 2
  PipeSize = 1
  MaxOutput = 2
INVARIANT
  SlotsAndRecordsBalance
PROPERTIES
  RefreshEnds
  RpcsEnd
CHECK_DEADLOCK FALSE
