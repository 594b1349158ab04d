SPECIFICATION Spec
CONSTANTS
  Loads = {l1, l2, l3}
  DatasetCount = 2
  MaxAttempts = 2
  IsLocal = TRUE
  ErrorIfExists = {l3}
  Faults = {"transient", "lostack", "reject", "rmtree", "kill"}
  MaxFaults = 2
INVARIANTS
  IInv
  SuccessIsComplete
  StagingReclaimed
  RefusedByOwnAttempt
PROPERTIES
  AtomicallyPublished
  StagingUndisturbed
SYMMETRY LoadSymmetry
