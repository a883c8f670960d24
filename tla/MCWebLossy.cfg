SPECIFICATION FairSpec
CONSTANTS
  User = {alice, bob}
  Code = {k1}
  Call = {c1, c2}
  Page = {p1}
  Lossy = TRUE
  None = None
  CodeLife = 1
  AccessLife = 1
  RefreshLife = 1
  MaxTime = 1
PROPERTIES
  CheckEnds
  FormAnswers
