SPECIFICATION Spec
CONSTANTS
  s1 = s1
  s2 = s2
  Sockets = {s1, s2}
  Path <- MCPath
  Claims <- MCClaims
  Messages <- MCMessages
  Capacity = 1
  None = None
  Notice = Notice
  MaxMessages = 2
  MaxMounts = 2
  MaxDrops = 1
  Firings <- MCFirings
  Severity <- MCSeverity
  ViewLimit = 1
  AlertCapacity = 2
  PageSize = 1
  CaseStatuses = {"running", "failed"}
  Searches = {"e1"}
  MaxAlertVisits = 1
  MaxAlertFaults = 1
  HistoryMax = 3
  MinTicks = 1
  MaxRuns = 2
  MaxLoadFaults = 2
INVARIANTS
  OneConnectionPerMount
  StoreIsOwn
  PageHasRows
PROPERTIES
  SoleViewerIsServed
  QueueIsLive
  RunIsSettled
CHECK_DEADLOCK FALSE
