SPECIFICATION FairSpec
CONSTANTS
  w1 = w1
  w2 = w2
  Workers = {w1, w2}
  PartCount = 3
  BatchSize = 2
  MaxAttempts = 2
  MaxFaults = 3
CHECK_DEADLOCK FALSE
INVARIANT SuccessMeansRecorded
INVARIANT ProgressHonest
INVARIANT WaiterServed
PROPERTY SilentAfterError
PROPERTY UploadEnds
