SPECIFICATION Spec
CONSTANTS
  Offered <- MCScenarios
  EventChecks = {"detection"}
  MaxSims = 2
  MaxSimFaults = 1
  StepKind <- MCKinds
  StepSummary <- MCSummaries
  OnLlmPath = TRUE
  MaxViews = 2
  MaxReads = 2
  MaxViewFaults = 1
  Cites <- MCCites
  BatchN = 3
  Latencies = {0, 9, 10}
  Every = 3
  PerMinute = 4
  PerHour = 2
  PerDay = 2
  FiredAt = 4
  MaxTime = 24
INVARIANTS
  OrphansNeedOverlap
  StagesAreOwn
  StepsShownOnce
  ChipsShowTheirEvent
  BatchIsSummarised
  
PROPERTIES
  ProgressIsKept
  PollingEnds
  StepsArePersisted
CHECK_DEADLOCK FALSE
