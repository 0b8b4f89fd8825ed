SPECIFICATION OfficeSpec
CONSTANTS
  p1 = p1  fresh = fresh  l1 = l1  Blank = Blank
  Properties = {p1}
  Fresh = fresh
  Leads = {l1}
  LeadOf <- MCLeadOf
  Deadlines <- MCDeadlines
  Window = 2
  Fallback = 1
  FileKinds = {"rfp"}
  MaxTypings <- MCTypings
  MaxOpens <- MCOpens
  MaxCreates <- MCCreates
  MaxDrafts = 2
  MaxFaults = 1
  Sites = {"www"}
  Names = {"Dana", "Lee"}
  Titles = {"CAM"}
  Empty = ""
  MaxTyped = 3
  MaxClicks = 2
  MaxLosses = 1
  mgr = mgr  boss = boss  manager = manager  ceo = ceo  admin = admin
  maintenance = maintenance  install = install  Unbounded = Unbounded
  Desks <- MCDesks
  RoleOf <- MCRoleOf
  Canonical <- MCCanonical
  Tabs <- MCTabs
  Order <- MCOrder
  Floor <- MCFloor
  SeedCeiling <- MCSeed
  Types = {maintenance, install}
  Type = maintenance
  Amounts = {100, 120}
  Complexities = {0, 10}
  Margins = {20, 30}
  Drafted <- MCDrafted
  Prices = {109, 130}
  Overlap = FALSE
  MaxEdits = 1
  MaxSaves = 2
  MaxMishaps = 1
INVARIANTS RequestsAreKept ApprovedValueIsCovered MarginIsAudited
PROPERTIES SentAsShown QueueLeadsOn
CHECK_DEADLOCK FALSE
