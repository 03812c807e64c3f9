SPECIFICATION TimelySpec
CONSTANTS
  Jobs = {j1}
  w1 = w1
  w2 = w2
  Workers <- TwoWorkers
  NoWorker = NoWorker
  MaxAttempts = 2
  RetryBase = 1
  RetryMax = 2
  MaxDuration = 15
  MaxConcurrency = 2
  LeaseDuration = 5
  JobTimeout = 1
  OpTimeout = 1
  ClaimDelay = 1
  Skew <- AheadSkew
  MaxSkew = 1
  Fallible = {w1}
  MaxTime = 13
INVARIANTS TypeOK ExclusiveLease LeaseHeld BackoffIsCappedDoubling
