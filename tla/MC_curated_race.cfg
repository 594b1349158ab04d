SPECIFICATION Spec
CONSTANTS
  Loads = {l1, l2}
  DatasetCount = 2
  MaxAttempts = 2
  IsLocal = TRUE
  ErrorIfExists = {}
  Faults = {}
  MaxFaults = 0
INVARIANT ErrorMeansUnpublished
