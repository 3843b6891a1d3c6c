SPECIFICATION Spec
CONSTANTS
  Writers = {w1, w2, w3}
  Readers = {}
  Services <- OneService
  Hashes = {h1, h2}
  Attempts = 2
  MaxTime = 3
  NoState = NoState
SYMMETRY StoreSymmetry
CHECK_DEADLOCK FALSE
INVARIANT StateIntact
