SPECIFICATION MCSpec
CONSTANTS
  MaxModelRequests = 5
  MaxToolCalls = 5
  MaxCallsPerResponse = 2
  ClassifierAttempts = 2
  WallClock = 4
  CallTimeout = 2
  PromptRoom = 1
  Menu <- Calls
  Turns = {t1}
  Confirms = {c1, c2}
  Fields = {f, g}
  Values = {0, 1}
  MaxChanges = 1
  MaxEtag = 3
  MaxPreviews = 2
  Gone = Gone
  Requests = {1, 2, 3, 4}
  Images = {1}
  k1 = k1
  Keys = {k1, k2}
  Capacity = 1
  Period = 2
  MaxTrackedKeys = 1
  Slots = 1
  MaxTime = 5
  Untracked = Untracked
INVARIANTS BudgetsHold ImageBeforeTools AppliedOnce SlotsCoverWork GrantsBounded RetryAfterSuffices
PROPERTIES TurnEnds AppliesWhatWasShown
CHECK_DEADLOCK FALSE
