SPECIFICATION Spec
CONSTANTS
  ann = ann
  bob = bob
  cat = cat
  main = main
  rel = rel
  feat = feat
  h1 = h1
  h2 = h2
  b1 = b1
  b2 = b2
  NoUser = NoUser
  NoHead = NoHead
  NoIds = NoIds
  NoRule = NoRule
  NoSha = NoSha
  AnyBase = AnyBase
  NoContext = NoContext
  ProofContext = ProofContext
  JankuraiMandatory = FALSE
  Idle = Idle
  NoPermit = NoPermit
  NoMerge = NoMerge
  Keep = Keep
  Pulls = {1}
  Users = {ann, bob, cat}
  Branches = {main, rel, feat}
  DefaultBranch = main
  Heads = {h1, h2}
  Bases = {b1}
  Contents = {"diff"}
  Paths = {"src"}
  Contexts = {}
  StatusRows = {}
  RunRows = {}
  ContentOf <- MCContentOf
  RangeOf <- MCRangeOf
  Ranges <- MCRanges
  PathSets <- MCPathSets
  RuleChoices <- MCRuleChoices
  InitialRules <- MCInitialRules
  OwnerMaps <- MCOwnerMaps
  OpenChoices <- MCOpenChoices
  InitialAdmins = {cat}
  Grantable = {}
  UpdateStates = {}
  IssueEdits = {}
  DraftEdits = {}
  Reviewers = {bob, cat}
  ReviewEvents = {"Approved", "ChangesRequested"}
  Edges = {}
  MaxReviews = 2
  MaxStatuses = 0
  MaxRuns = 0
  MaxRuleChanges = 0
INVARIANT
  CountedApprovalsJudgedThisBase
CHECK_DEADLOCK FALSE
