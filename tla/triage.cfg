SPECIFICATION Spec
CONSTANTS
  Names <- MCNames
  Lower <- MCLower
  DoNotTouchList = {"Root"}
  AllowedActionClasses = {"login"}
  TenantAllowsAutomation = TRUE
  CaseOf <- MCCaseOf
  Alerts <- MCAlerts
  Scores = {70}
  Labels = {"Benign"}
  EscalationThreshold = 60
  NoveltyThreshold = 70
  CrossReviewThreshold = 85
  AutoCloseThreshold = 90
  Enforcement = TRUE
  Triages = {1, 3}
  Overrides = {4}
  LlmConfigured = TRUE
  MaxLogFaults = 1
INVARIANTS
  DecisionsAreGated
  AnsweredIsAttested
  OnlyAutoCloseBreaksVerify
CHECK_DEADLOCK FALSE
