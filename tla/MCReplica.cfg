SPECIFICATION ReplicaSpec
CONSTANTS
  s1 = s1
  Requests = {r1, r2}
  Scopes = {s1}
  Ids = {a, b}
  Operations = {o1, o2, o3}
  ScopeOf <- OneScope
  KeepsAll = FALSE
  MaxHot = 1
  HotAge = 0
  FreshAge = 1
  UsableAge = 2
  CallTime = 0
  MaxTime = 3
  Limits = {1, 2}
  Window = 4
  Second = 2
  StoreTimeout = 1
  Attempts = 2
  MaxClock = 4
  NoQuota = NoQuota
SYMMETRY Symmetry
INVARIANTS SettledPricesAnswer KnownIsServed AnswersMatchCount HourlyBound
CHECK_DEADLOCK FALSE
