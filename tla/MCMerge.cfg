SPECIFICATION Spec
CONSTANTS
  ann = ann
  bob = bob
  main = main
  rel = rel
  feat = feat
  h1 = h1
  h2 = h2
  b1 = b1
  b2 = b2
  e1 = e1
  e2 = e2
  NoUser = NoUser
  NoHead = NoHead
  NoIds = NoIds
  NoRule = NoRule
  NoSha = NoSha
  AnyBase = AnyBase
  NoContext = NoContext
  ProofContext = ProofContext
  JankuraiMandatory = FALSE
  Idle = Idle
  NoPermit = NoPermit
  NoMerge = NoMerge
  Keep = Keep
  Pulls = {1}
  Users = {ann, bob}
  Branches = {main, rel, feat}
  DefaultBranch = main
  Heads = {h1, h2}
  Bases = {b1, b2}
  Contents = {"diff"}
  Paths = {"src"}
  Contexts = {}
  StatusRows = {}
  RunRows = {}
  ContentOf <- MCContentOf
  RangeOf <- MCRangeOf
  Ranges <- MCRanges
  PathSets <- MCPathSets
  RuleChoices <- MCRuleChoices
  InitialRules <- MCInitialRules
  OwnerMaps <- MCOwnerMaps
  OpenChoices <- MCOpenChoices
  InitialAdmins = {}
  Grantable = {}
  UpdateStates = {"Closed", "Open"}
  IssueEdits = {"Open"}
  DraftEdits = {FALSE}
  Reviewers = {bob}
  ReviewEvents = {"Approved", "ChangesRequested"}
  Edges = {e1, e2}
  MaxReviews = 1
  MaxStatuses = 0
  MaxRuns = 0
  MaxRuleChanges = 0
INVARIANTS
  MergeRecordsWhatGitMerged
SYMMETRY EdgeSymmetry
PROPERTIES
  MergedIsFinal
  ClosedUntilEdited
CHECK_DEADLOCK FALSE
