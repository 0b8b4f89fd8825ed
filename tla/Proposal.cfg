SPECIFICATION ProposalSpec
CONSTANTS
  rep = rep  peer = peer  admin = admin  east = east  west = west
  e1 = e1  m1 = m1  t1 = t1
  Members = {e1, m1, t1}
  Executive = {e1}
  Manager = {m1}
  FieldReps = {rep, peer}
  Office = {admin}
  Regions = {east, west}
  Properties = {shown, bare}
  Photographed = {shown}
  PerPage = 1
  Services = 2
  None = None
  Creators = {rep, admin}
  Dragged = {"contract"}
  MaxEdits = 2
  MaxMoves = 2
  f1 = f1  f2 = f2
  Leads = {l1, l2}
  Files = {f1, f2}
  Kinds = {contract}
  Single = {contract}
  Proposals = {p1}
  WithProperty = {l1}
  WithEstimate = {l1}
SYMMETRY FileSymmetry
INVARIANTS PagesAreWhole DocumentsFollowLead
PROPERTIES ChoiceStays
CHECK_DEADLOCK FALSE
