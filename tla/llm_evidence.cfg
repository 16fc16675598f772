SPECIFICATION LoopSpec
CONSTANTS
  Modes = {"triager", "investigator"}
  Enforcement = TRUE
  RequireRetrieval = TRUE
  MaxIterations = 3
  RetriesCap = 1
  MaxRound = 1
  MaxDeclared = 1
  MaxClaims = 1
  Labels = {"Benign", "NeedsInvestigation"}
  Fabricated = {99}
INVARIANTS
  VerdictHasEvidence
CHECK_DEADLOCK FALSE
