SPECIFICATION FairSpec
CONSTANTS
  NumCalls = 3
  Procs = {1}
  Calls <- MCCalls
  ProcOf <- OneProc
  ActionId <- UniqueIds
  UseObjects = TRUE
  EphemeralKey = TRUE
  DiskFaults = TRUE
  OldRows <- NoRows
  MaxCrashes = 1
INVARIANTS
  TypeOK
  UnforkedChain
  ReadsFollowTheChain
  AckedIsReadable
  OnlyForeignKeysFail
PROPERTIES
  CallsReturn
  ImplementsAppendOnlyLog
CHECK_DEADLOCK FALSE
