SPECIFICATION Spec
CONSTANTS
  tea = tea
  rice = rice
  Products = {tea, rice}
  Sold <- MCSold
  MaxVersion = 2
  MaxRuns = 2
  Modes = {"incremental", "full"}
  FailFast = {TRUE, FALSE}
INVARIANTS
  TypeOK
  SuccessCoversSources
  JoinsFindTheirProduct
  DatasetsAgreeOnProducts
PROPERTY
  NothingDisappears
