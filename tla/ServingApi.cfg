CONSTANTS
  Users = {"ana", "demo"}
  Limit <- MCLimit
  MaxOrgs = 2
  Workers = {w1, w2}
  DemoUser = "demo"
  TokenTTL = 2
  ResetTTL = 1
  KeyTTLs = {1}
  Asked <- MCAsked
  StableSecret = FALSE
  MaxNow = 1
  MaxResets = 2
  MaxKeys = 2
  MaxSessions = 2
  MaxRestarts = 1
  Callers = {c1, c2}
  People = {p1, p2}
  Threads = {t1, t2}
  Absent = Absent
  Universes <- MCUniverses
  Books <- MCBooks
  MaxRows = 3
  MaxBooks = 1
  Documents <- MCDocuments
  Queries <- MCQueries
  Similarity <- MCSimilarity
  Depths = {1, 2, 3}
  MaxPerBucket = 2
  PoolLimit = 3
  OpportunityAsks = {"upside"}
  Admins = {a1, a2}
  Analysts = {n1}
  Providers = {"local", "hosted", "unlisted"}
  Local = {"local"}
  DefaultRoute = "hosted"
  Updates <- MCUpdates
  Inputs <- MCInputs
  Replies <- MCReplies
  MaxUpdates = 3
  Services = {"signing","quotas","team","own","corpus","llm","keys"}
SPECIFICATION ApiSpec
INVARIANTS
  ResetsAccounted KeysBounded QuotaSound WorkspacesSound PortfoliosSound
  PublicAnswersSound KeysKept ReportsGrounded
CHECK_DEADLOCK FALSE
SYMMETRY MCSymmetry
