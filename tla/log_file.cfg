SPECIFICATION Spec
CONSTANTS
  NumCalls = 4
  Procs = {1}
  Calls <- MCCalls
  ProcOf <- OneProc
  ActionId <- UniqueIds
  UseObjects = FALSE
  EphemeralKey = TRUE
  DiskFaults = TRUE
  OldRows <- EarlierRows
  MaxCrashes = 2
PROPERTIES
  UnreadableLogRefuses
CHECK_DEADLOCK FALSE
