SPECIFICATION MCSpec
CONSTANTS
  Files = {"f1", "f2", "wal"}
  Names = {"n1", "n2"}
  WalFiles = {"wal"}
  Openers = {o1, o2}
  Snapshots = {"m1"}
  Receipted = {}
  Appended = {"a1"}
  MaxFsMoves = 2
  RowSlugs = {ra, rb}
  RepoUuids = {r1, r2}
  RowKeys = {1, 2}
  UsedMaps = {"issues", "pull_requests", "account_invitations", "bots", "bot_operations", "provider_connections", "password_recovery_tokens", "labels"}
  UsedLists = {"check_runs", "bot_activity"}
  MaxMutations = 4
  FamilyRepos = {"q1", "q2"}
  Kids = {"k1", "k2"}
  MaxStops = 2
  Provenance <- MCProvenance
  Preludes <- MCPreludes
  MaxPrelude = 8
  Touched = {{}, {"a"}, {"a", "b"}, {"b", "c"}, {"a", "b", "c"}}
  PrNumbers = {1, 2}
  Thresholds <- MCThresholds
  MaxOpen = 2
  ChangedPaths <- MCChangedPaths
  Zones <- MCZones
  OwnerRules <- MCOwnerRules
  TestRules <- MCTestRules
  Lanes <- MCLanes
  MaxEvidence = 3
SYMMETRY MCSymmetry
INVARIANTS ReopenRestoresState OpenedFileIsWhole
  GitGetsWhatWasJudged
  ChangesAreHeldToProof
PROPERTY StoreIsDurable
CHECK_DEADLOCK FALSE
