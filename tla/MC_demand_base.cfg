SPECIFICATION Spec
CONSTANTS
  LastDay = 4
  NoLabel = "none"
  PromotionRows <- MCPromotionRows
  SaleRows <- MCSaleRows
  Proximity = 1
INVARIANTS
  TypeOK
  OneRowPerSale
  FlagsAreTrue
PROPERTIES
  MatchMovesForward
  FlagIsFinal
  ScheduleSettles
