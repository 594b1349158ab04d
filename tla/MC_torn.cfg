SPECIFICATION Spec
CONSTANTS
  Pipelines = {p1, p2}
  MaxRuns = 2
  MaxVersions = 1
  MaxDate = 2
  Row <- MCRow
  Feeds <- GoodFeeds
  ChunkSize = 2
  Modes = {"incremental"}
  Strategy = "drop"
  Watermarked = TRUE
  Faults = {}
  Disturbed <- Runs
INVARIANT
  CheckpointReadable
SYMMETRY PipelineSymmetry
