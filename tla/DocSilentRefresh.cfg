SPECIFICATION Spec
CONSTANTS
  User = {alice}
  Code = {k1}
  Call = {c1, c2}
  Page = {p1, p2}
  Lossy = FALSE
  None = None
  CodeLife = 1
  AccessLife = 1
  RefreshLife = 2
  MaxTime = 3
PROPERTY SilentRefresh
