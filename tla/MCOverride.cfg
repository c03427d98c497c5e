SPECIFICATION Spec
CONSTANTS
  ann = ann
  bob = bob
  cat = cat
  ci = ci
  main = main
  rel = rel
  h1 = h1
  b1 = b1
  NoUser = NoUser
  NoHead = NoHead
  NoIds = NoIds
  NoRule = NoRule
  NoSha = NoSha
  AnyBase = AnyBase
  NoContext = NoContext
  ProofContext = ProofContext
  JankuraiMandatory = FALSE
  Idle = Idle
  NoPermit = NoPermit
  NoMerge = NoMerge
  Keep = Keep
  Pulls = {1}
  Users = {ann, bob, cat, ci}
  Branches = {main, rel}
  DefaultBranch = main
  Heads = {h1}
  Bases = {b1}
  Contents = {"diff"}
  Paths = {"src"}
  Contexts = {"build"}
  StatusRows <- MCStatusRows
  RunRows <- MCRunRows
  ContentOf <- MCContentOf
  RangeOf <- MCRangeOf
  Ranges <- MCRanges
  PathSets <- MCPathSets
  RuleChoices <- MCRuleChoices
  InitialRules <- MCInitialRules
  OwnerMaps <- MCOwnerMaps
  OpenChoices <- MCOpenChoices
  InitialAdmins = {cat}
  Grantable = {cat}
  UpdateStates = {}
  IssueEdits = {}
  DraftEdits = {}
  Reviewers = {bob, cat}
  ReviewEvents = {"Approved", "ChangesRequested"}
  Edges = {"e"}
  MaxReviews = 2
  MaxStatuses = 2
  MaxRuns = 1
  MaxRuleChanges = 1
INVARIANTS
  OverrideReceiptMeansMerged
PROPERTIES
  NoMergeOverHold
  OnlyAuditedBypass
  ProofAnswersThisBase
CHECK_DEADLOCK FALSE
