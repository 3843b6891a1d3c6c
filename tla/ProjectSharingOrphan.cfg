SPECIFICATION Spec
CONSTANTS
  Editors = {}
  Sharers = {s1, s2}
  Deleters = {d1}
  Inputs = {a}
  Priced = {a}
  Faults = {}
  NoProject = NoProject
  NoRevision = NoRevision
INVARIANT DeletedHasNoShare
CHECK_DEADLOCK FALSE
