SPECIFICATION Spec
CONSTANTS
  p1 = p1
  p2 = p2
  i1 = i1
  a1 = a1
  a2 = a2
  s1 = s1
  s2 = s2
  d1 = d1
  d2 = d2
  None = None
  Absent = Absent
  Retried = {d1}
  Prs = {p1, p2}
  Eligible = {p1, p2}
  IssueOf <- Issues
  Runs = {a1, s1, s2, d1}
  KindOf <- Workflows
  Serial = {"shared", "production"}
  ListSize = 10
  MaxHead <- Heads
  MaxAttempt <- Attempts
  MaxLive = 2
  Faults = {"after", "github", "site"}
  Config = "config"
  Secrets = {"env"}
  Trees <- BundleTrees
  Identities <- BundleIdentities
  MaxFiles = 4
  MaxFileBytes = 3
  MaxTotalBytes = 6
  MaxDocument = 2
  ManifestRoom = 3
  Drafts <- RequestDrafts
  Contexts <- RunContexts
  Answers <- PageAnswers
  Takes = {1, 2}
  Worlds <- GitHubWorlds
  Asked <- ReleasedShas
  RunIds = {10, 11}
  Deployments <- ServedBefore
  Profiles <- OperatorProfiles
  Uploading <- OfWrangler
  Origins <- ConfiguredOrigins
  SmokeAnswers <- LiveAnswers
  Times <- Attempted
SYMMETRY Alike
INVARIANTS PicturesAreTrue ApprovalFollowsEvidence ProductionWasApproved RecordsTheWayBack
INVARIANTS BundlesAreWhole EvidenceIsTrue PublishedWhole ProductionIsAccounted
PROPERTIES SharedNeverGoesBack
CHECK_DEADLOCK FALSE
