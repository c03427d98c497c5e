SPECIFICATION MCSpec
CONSTANTS
  Writers = {w1, w2}
  Oids = {"a", "b", "m"}
  Ancestor <- MCAncestor
  MergeOf <- MCMergeOf
  Conflict = Conflict
  MainRef = "main"
  Heads = {"topic"}
  Tags = {"v1"}
  MaxRequests = 2
  Uploaders = {u1, u2}
  LfsOids = {"o1", "o2"}
  Content <- MCContent
  Chunks = {"x", "y", "z"}
  Bodies <- MCBodies
  MaxObjectSize = 2
  MaxUploads = 3
  MaxStops = 1
  Commands = {"c1", "c2"}
  TokenOwners = {"ann", "bob", "local-operator"}
  TokenIds = {"t1", "t2"}
  Fingerprints = {"f1"}
  Owners = {"u", "x"}
  KnownOwners = {"u"}
  Slugs <- MCSlugs
  RepoIds = {"r1", "r2"}
  TransferKeys = {"k"}
  Callers = {"w"}
  Branches = {"main", "enc"}
  Encoded = {"enc"}
  Decoded <- MCDecoded
  MainBranch = "main"
  MaxMoves = 2
  MaxWrites = 1
  Logins = {"ann", "bob"}
  Requests = {"w1", "w2"}
  CredIds = {"c1"}
  SecretIds = {"s1", "s2"}
  InviteIds = {"i1"}
  ChallengeIds = {"h1"}
  MaxAttempts = 2
  MaxOwners = 2
  MaxEpoch = 3
  NoUser = NoUser
  NoHead = NoHead
  NoIds = NoIds
  Authors = {"bob", "cat"}
  RowHeads = {"h1"}
  RowIds = {"p1"}
  MaxRows = 3
  Backups = {"v1", "v2"}
  Archives <- MCArchives
  MaxRestores = 2
  ImportPaths = {"/a/foo", "/b/foo", "/c/bar", "/d"}
  Guarded = {"/d"}
  NotGit = {}
  RepoOf <- MCRepoOf
  MirrorRefs = {"main", "topic"}
  MaxSource = 2
  Titles = {"t1"}
  SubmitKeys = {"k1"}
  MaxSubmits = 2
  FailureLimit = 1
  MaxAttemptsMade = 1
  MaxUpdates = 3
SYMMETRY MCSymmetry
INVARIANTS
  PublishedIsWhole
  TokensNameTheirOwner
  RepositoriesStayWhole
  NoCredentialOutlivesARevocation
  LoopAgrees
  MirrorsAreWhole
  BugTrailIsTrue
PROPERTIES
  RefsMoveByTheRules
CHECK_DEADLOCK FALSE
