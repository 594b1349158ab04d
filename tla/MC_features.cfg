SPECIFICATION Spec
CONSTANTS
  MaxDay = 4
  Products = {1, 2}
  Units = {0, 3}
  Price <- MCPrice
  StockRows <- MCStockRows
  LagDays = {1, 2}
  RollingWindows = {2, 3}
  MinimumHistory = 2
  AbcLookback = 2
  AbcA = 60
  AbcB = 80
  XyzLookback = 3
  XyzX = 50
  XyzY = 100
  VolatilityWindow = 3
  VolatilityLow = 50
  VolatilityHigh = 100
INVARIANTS
  TypeOK
  HistoryWithoutTarget
  LagIsCalendarDay
  ParetoClasses
  EvidenceBehindClass
PROPERTY
  PointInTime
