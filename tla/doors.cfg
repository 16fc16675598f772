SPECIFICATION Spec
CONSTANTS
  Calls = {c1, c2, c3}
  Requests <- MCRequests
  RowCounts = {1, 20000}
  Modes = {"triager", "investigator", "specialist"}
  Enforcement = TRUE
  RequireRetrieval = TRUE
  MaxIterations = 3
  RetriesCap = 1
  MaxRound = 2
  MaxDeclared = 1
  MaxClaims = 2
  Labels = {"Benign", "NeedsInvestigation"}
  Fabricated = {99}
  MaxPerMinute = 1
  Minute = 2
  ClientTimeout = 1
  MaxTime = 3
  Ips = {"a", "b", "c"}
  MyIp = "a"
  PerIp = 1
  Global = 2
  FormWindow = 2
  MapLimit = 3
  MaxClock = 2
  MaxPosts = 3
  MaxFormFaults = 1
  Buttons = {"header", "user"}
  MaxShellFaults = 1
INVARIANTS
  OnlyAuthorizedRuns
  TwoBudgetsAtMost
  LimitsHold
  ShellMatchesSession
PROPERTIES
  TurnsRunOut
CHECK_DEADLOCK FALSE
SYMMETRY CallSymmetry
