SPECIFICATION ProgressSpec
CONSTANTS
  j1 = j1
  Jobs = {j1, j2}
  w1 = w1
  w2 = w2
  Workers <- TwoWorkers
  NoWorker = NoWorker
  MaxAttempts = 2
  RetryBase = 1
  RetryMax = 2
  MaxDuration = 15
  MaxConcurrency = 1
  LeaseDuration = 2
  JobTimeout = 1
  OpTimeout = 1
  ClaimDelay = 0
  Skew <- NoSkew
  MaxSkew = 0
  Fallible = {w2}
  MaxTime = 5
INVARIANTS ReportsOwnAttempt VerdictEarned
PROPERTIES RefinesExecutions EventuallyTaken
