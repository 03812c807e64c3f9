SPECIFICATION FairSpec
CONSTANTS
  Jobs = {j1}
  w1 = w1
  w2 = w2
  Workers <- TwoWorkers
  NoWorker = NoWorker
  MaxAttempts = 1
  RetryBase = 1
  RetryMax = 1
  MaxDuration = 15
  MaxConcurrency = 1
  LeaseDuration = 2
  JobTimeout = 1
  OpTimeout = 1
  ClaimDelay = 0
  Skew <- NoSkew
  MaxSkew = 0
  Fallible = {w1}
  MaxTime = 4
PROPERTY EventuallyDeadLettered
