SPECIFICATION Spec
CONSTANTS
  User = {alice, bob}
  Code = {k1, k2}
  Call = {c1}
  Page = {p1}
  Lossy = FALSE
  None = None
  CodeLife = 1
  AccessLife = 1
  RefreshLife = 2
  MaxTime = 4
INVARIANTS
  TypeOK
  StoredIsLive
  SessionInv
PROPERTY SilentRefresh
