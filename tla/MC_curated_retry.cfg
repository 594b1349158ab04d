SPECIFICATION FairSpec
CONSTANTS
  Loads = {l1, l2}
  DatasetCount = 2
  MaxAttempts = 3
  IsLocal = FALSE
  ErrorIfExists = {l2}
  Faults = {"transient"}
  MaxFaults = 2
INVARIANT SuccessIsComplete
PROPERTY RetryAbsorbsFaults
