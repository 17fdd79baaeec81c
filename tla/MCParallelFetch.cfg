SPECIFICATION FairSpec
CONSTANTS
  WindowCount = 6
  Concurrency = 2
  MaxAttempts = 2
  MaxFaults = 2
CHECK_DEADLOCK FALSE
INVARIANT HeldBounded
INVARIANT NoLostWakeup
INVARIANT CauseReported
PROPERTY NoRequestAfterAbort
PROPERTY StreamSpec
PROPERTY StreamEnds
