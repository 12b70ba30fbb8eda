SPECIFICATION Spec
CONSTANTS
  Values = {v1, v2}
  First = v1
  None = None
  MaxJobs = 2
  MaxAttempts = 1
  MaxRequests = 2
  MaxDeaths = 1
INVARIANTS TypeOK SuccessIsTrueUnlessTorn
PROPERTIES OutcomeIsTheRequests
CHECK_DEADLOCK FALSE
