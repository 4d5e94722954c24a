CONSTANTS
  Transfers = {x, y}
  NoTransfer = NoTransfer
  N = 1
  Attempts = 1
  Window = 2
  MaxReadFailures = 0
  MaxWriteFailures = 0
  MaxRestarts = 0
  MaxBurns = 0
SPECIFICATION Spec
CHECK_DEADLOCK FALSE
SYMMETRY Symmetric
INVARIANTS
  LandingNamesDiffer
