SPECIFICATION FairSpec
CONSTANTS
  User = {alice, bob}
  Code = {k1}
  Call = {c1, c2}
  Page = {p1, p2}
  Lossy = FALSE
  None = None
  CodeLife = 1
  AccessLife = 1
  RefreshLife = 1
  MaxTime = 2
PROPERTIES
  CheckDecides
  ProfileKept
