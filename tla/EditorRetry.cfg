SPECIFICATION EditorSpec
CONSTANTS
  s1 = s1  l1 = l1  c1 = c1  c2 = c2
  m1 = m1  m2 = m2  m3 = m3  m4 = m4  n1 = n1  n2 = n2
  root = root  unrated = unrated  optional = optional
  grown = grown  plain = plain
  ServerIds <- MCServerIds
  LocalIds <- MCLocalIds
  Vals <- MCVals
  Unrated = unrated
  Optional = optional
  Grown = grown
  Root = root
  Loaded <- MCLoaded
  Standard <- MCStandard
  CrewPrice <- MCCrewPrice
  MaxSaves = 2
  MaxActs = 1

PROPERTIES RetryIsExact
CHECK_DEADLOCK FALSE
