SPECIFICATION Spec
CONSTANTS
  Run = {r1, r2}
  PollInterval = 3
  Silence = 3
  HealthInterval = 1
  MaxCall = 4
  Streaming = {TRUE, FALSE}
  FallbackEnabled = TRUE
  MaxFailures = 6
INVARIANTS QuietAfterStop CoveredByStreamOrPolls RetriedInTime
CHECK_DEADLOCK FALSE
