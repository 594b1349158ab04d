SPECIFICATION Spec
CONSTANTS
  Pipelines = {p1, p2}
  MaxRuns = 3
  MaxVersions = 2
  MaxDate = 2
  Row <- MCRow
  Feeds <- MixedFeeds
  ChunkSize = 2
  Modes = {"incremental", "full"}
  Strategy = "drop"
  Watermarked = TRUE
  Faults = {"io"}
  Disturbed <- Runs
INVARIANTS
  IInv
  CoverInv
  StagingReclaimed
PROPERTY
  ImplementsRawLayer
SYMMETRY PipelineSymmetry
