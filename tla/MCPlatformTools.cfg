SPECIFICATION MCSpec
CONSTANTS
  KeyOrder <- MCKeyOrder
  Branches <- MCBranches
  Remotes = {"origin", "fork"}
  MaxCommits = 3
  Sessions <- MCSessions
  SetKeys <- MCSetKeys
  DataNames <- MCDataNames
  Invocations = {1, 2}
  Results <- MCResults
  Wirings <- MCWirings
  Limits <- MCLimits
  Ops = {o1, o2, o3}
  Ids = {s1}
  Principals = {p1, p2}
  TTLs = {1}
  Auth = TRUE
  MaxCreates = 2
  MaxTime = 1
  MaxRestarts = 1
  Jobs = {1, 2}
  Projects = {"go", "c", "unknown"}
  Workspaces = {TRUE, FALSE}
  Scenarios <- MCScenarios
SYMMETRY SymmetryOps
CHECK_DEADLOCK FALSE
INVARIANTS RedisCutsFlagged ReadsBack LiveHasWorkspace ClosedIsGone VerdictIsEarned
PROPERTIES  RemotesKept
