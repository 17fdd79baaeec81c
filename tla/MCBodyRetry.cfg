SPECIFICATION FairSpec
CONSTANTS
  WindowCount = 3
  Concurrency = 2
  MaxAttempts = 2
  MaxFaults = 1
CHECK_DEADLOCK FALSE
PROPERTY FailsOnlyExhausted
