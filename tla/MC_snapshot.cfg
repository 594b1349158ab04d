SPECIFICATION Spec
CONSTANTS
  Pipelines = {p1, p2}
  MaxRuns = 3
  MaxVersions = 2
  MaxDate = 2
  Row <- MCRow
  Feeds <- AllFeeds
  ChunkSize = 2
  Modes = {"incremental"}
  Strategy = "error"
  Watermarked = FALSE
  Faults = {"kill"}
  Disturbed <- Runs
INVARIANTS
  PublishedWhole
  NoLostRows
SYMMETRY PipelineSymmetry
