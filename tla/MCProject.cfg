SPECIFICATION ProjectSpec
CONSTANTS
  Editors = {e1, e2}
  Sharers = {s1, s2}
  Deleters = {d1, d2}
  Inputs = {a, b}
  Priced = {a}
  Faults = {"outage", "resent"}
  NoProject = NoProject
  NoRevision = NoRevision
  Replicas = {r1}
  ActiveTTL = 1
  Retries = 1
  LaunchFaults = {"lost", "resent", "restart"}
  MaxClock = 2
  MaxVersion = 2
  NoLaunch = NoLaunch
  NoCompanion = NoCompanion
  NoRequest = NoRequest
SYMMETRY Alike
INVARIANTS SavesFaithful SharedEndsWithProject OneReady ClaimantsEtagHolds AcknowledgedIsErased
CHECK_DEADLOCK FALSE
