SPECIFICATION FairSpec
CONSTANTS
  Pipelines = {p1}
  MaxRuns = 3
  MaxVersions = 3
  MaxDate = 2
  Row <- MCRow
  Feeds <- SaleFeeds
  ChunkSize = 2
  Modes = {"incremental"}
  Strategy = "drop"
  Watermarked = TRUE
  Faults = {"io", "lostack", "rmtree", "kill"}
  Disturbed <- FirstRuns
INVARIANTS
  TypeOK
  PublishedWhole
  NoLostRows
  CheckpointReadable
  IncrementsAreNewer
PROPERTIES
  RawImmutable
  CheckpointAdvances
  BecomesRecorded
  RunEnds
