SPECIFICATION SettingsSpec
CONSTANTS
  Blank = Blank  Null = Null  Absent = Absent  
  Texts = {x, y}  Keys = {jpg, png, photo}  Admins = {w1, w2}
  MaxTyped = 1  MaxPictures = 4  MaxDocs = 3
  Values = {1, 2}  FieldsOf <- MCFieldsOf  Factors = {fA, fB}
  MaxSaves = 2  MaxOthers = 1  MaxPicks = 1
  field = field  other = other  b1 = b1  b2 = b2  p1 = p1  p2 = p2
  window = window  risk = risk
  FieldSales = {field}
  OtherRoles = {other}
  Retired = Retired
  Unknown = Unknown
  Branches = {b1, b2}
  Manageable = {b1}
  People = {p1, p2}
  Windows = {w1, w2}
  Nobody = Nobody
  Nothing = Nothing
  MaxRequests = 2
  MaxMishaps = 1
INVARIANTS RowsAreKept FieldSalesHaveRep UsersAreSaved FormsAreTrue
PROPERTIES RetiredOnlyByChoice
CHECK_DEADLOCK FALSE
