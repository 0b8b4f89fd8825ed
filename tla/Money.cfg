SPECIFICATION MoneySpec
CONSTANTS
  plan = plan  redrawn = redrawn  window = window  l1 = l1  l2 = l2
  rock = rock  mulch = mulch  fabric = fabric  soil = soil  Negative = Negative
  Scans = {plan, redrawn}
  Numbers = {2, 5}
  MaxUploads = 2
  MaxVisits = 1
  MaxClicks = 4
  MaxFaults = 1
  Lines = {l1, l2}
  Amounts = {0, 9, 10}
  Percents = {5, 10}
  Default = 10
  Materials = {rock, mulch, fabric, soil}
  BuiltIn <- MCBuiltIn
  Configured <- MCConfigured
  MaxKeys = 2
  MaxInputs = 3
  Depths = {0, 2, 3, 5}
  Measures = {0, 1, 119, 300, 301, 3000, 3240}
  Overshoot <- MCOvershoot
  d1 = d1  d2 = d2  d3 = d3
  Deal <- MCDeals
  Value <- MCValue
  Tiers <- MCTiers
  NoCeiling = NoCeiling
  RateUnit = 10
  MaxTasks = 1
  LastYear = 1
  Slots = {1, 2}
  SquareFeet <- MCSquareFeet
  Kits <- MCKits
  Defaults <- MCDefaults
  Sells = {5}
  Costs = {None, 1}
  Quantities = {1, 3}
  CrewRate = 3
  Others <- MCOthers
  None = None
  Overlap = FALSE
  MaxEdits = 3
INVARIANTS LadderIsPaid BidIsTrue EntriesAreStored OrdersCover
CHECK_DEADLOCK FALSE
