SPECIFICATION RenderSpec
CONSTANTS
  t1 = t1  t2 = t2
  proposal = proposal  lead = lead  signer = signer
  insurance = insurance  address = address  scan = scan
  Toolbar <- MCToolbar
  Query <- MCQuery
  Needs <- MCNeeds
  Required <- MCRequired
  Own <- MCOwn
  Images <- MCImages
  MaxConcurrency = 1
  MaxRenders = 3
  MaxFailures = 2
INVARIANTS RendersAreComplete
PROPERTIES EveryRenderAnswered
CHECK_DEADLOCK FALSE
