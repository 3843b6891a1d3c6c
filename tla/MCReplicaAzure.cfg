SPECIFICATION ReplicaSpec
CONSTANTS
  s1 = s1
  Requests = {r1}
  Scopes = {s1}
  Ids = {a, b}
  Operations = {o1}
  ScopeOf <- OneScope
  KeepsAll = TRUE
  MaxHot = 2
  HotAge = 0
  FreshAge = 1
  UsableAge = 2
  CallTime = 0
  MaxTime = 3
  Limits = {1}
  Window = 4
  Second = 2
  StoreTimeout = 1
  Attempts = 1
  MaxClock = 0
  NoQuota = NoQuota
SYMMETRY Symmetry
INVARIANTS SettledPricesAnswer
CHECK_DEADLOCK FALSE
