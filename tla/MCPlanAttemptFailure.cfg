SPECIFICATION Spec
CONSTANTS
  Requester = "r"
  Order <- MCOrder
  StepCount = 4
  Op <- MCOp
  Runner <- MCRunner
  Dest <- MCDest
  Deps <- MCDeps
  Answers = {"ready", "unavailable"}
  MaxClock = 1
  Mishaps = {"provider"}
  MaxMishaps = 1
INVARIANT FailureReachesRequester
CHECK_DEADLOCK FALSE
