SPECIFICATION Spec
CONSTANTS
  BatchSize = 2
  MaxMessages = 3
  MaxStarts = 2
  MaxCrashes = 1
  MaxFaults = 2
  RowIds = {r1, r2}
  NoOffset = NoOffset
  NoRow = NoRow
  MaxSteps = 4
  MaxWriterRestarts = 1
  MaxWriterFaults = 2
  d1 = d1
  d2 = d2
  DetectionSeq <- MCDetections
  MaxEvents = 2
  Limit = 1
  MaxPollerCrashes = 1
  MaxPollerFaults = 1
INVARIANTS
  LossBoundedByBatch
  SkipsBoundedByFaults
PROPERTIES
  EventsReachTheTable
  StepsGetRows
  NewestRowsAreSent
CHECK_DEADLOCK FALSE
