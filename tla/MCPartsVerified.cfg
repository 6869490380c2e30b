SPECIFICATION SumSpec
CONSTANTS
  Requests = {r1, r2, r3}
  ApiKeys = {1, 2}
  Secrets = {1, 2}
  StoredPairs <- MCStoredPairs
  ValidPairs <- MCValidPairs
  Submissions <- MCSubmissions
  UpstreamFailures <- MCUpstreamFailures
  TradingEnabled = TRUE
  MaxFaults = 1
  MaxAttempts = 3
  TimeoutMs = 4
  BaseDelayMs = 1
  MaxDelayMs = 2
  RetryAfter = {0, 7}
  MaxTime = 20
  NoImage = NoImage
  NoImageJob = NoImageJob
  NoDate = NoDate
  NoTrend = NoTrend
SYMMETRY Symmetry
INVARIANTS OnlyVerifiedKeysUsed
CHECK_DEADLOCK FALSE
