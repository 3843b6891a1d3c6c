SPECIFICATION Spec
CONSTANTS
  Tasks = {t1, t2}
  LeaseTTL = 2
  WaitBudget = 1
  Attempts = 1
  KeepsAll = FALSE
  OtherScopes = TRUE
  Faults = {"rejected", "lost", "resent", "outage", "crash"}
  Contents = {c1, c2}
  MaxClock = 3
  NoLease = NoLease
  NoContent = NoContent
  NoSnapshot = NoSnapshot
SYMMETRY Symmetry
INVARIANTS RetrievalUnderLease FreshAnswer
PROPERTY ImplementsRegister
CHECK_DEADLOCK FALSE
