SPECIFICATION Spec
CONSTANTS
  mow = mow  trim = trim
  NoRate = NoRate  Absent = Absent  Blank = Blank
  Lines <- MCLines
  KindOf <- MCKindOf
  Rates = {20, 30}
  CatalogSell = 9
  ProductionRate = 3000
  TargetGm = 20
  FirstRates <- MCFirstRates
  FirstRows <- MCFirstRows
  Overlap = FALSE
  MaxPatches = 2
  MaxSaves = 1
  MaxMishaps = 1
INVARIANTS PricesFollowRate FormShowsStored
PROPERTIES MarkedAreRefused
CHECK_DEADLOCK FALSE
