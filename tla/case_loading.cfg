SPECIFICATION DeskSpec
CONSTANTS
  Requests = {r1, r2, r3}
  TabRequests = {r1, r2}
  None = None
  Operation = "consolelogin"
  MaxRestarts = 1
  MaxErrors = 1
  MaxFaults = 1
  MaxVisits = 2
  MaxDisturbed = 1
INVARIANT FailureEndsLoading
CHECK_DEADLOCK FALSE
