SPECIFICATION Spec
CONSTANTS
  NumCalls = 3
  Procs = {1, 2}
  Calls <- MCCalls
  ProcOf <- TwoProcs
  ActionId <- UniqueIds
  UseObjects = TRUE
  EphemeralKey = FALSE
  DiskFaults = FALSE
  OldRows <- NoRows
  MaxCrashes = 0
INVARIANTS
  ReadsFollowTheChain
CHECK_DEADLOCK FALSE
