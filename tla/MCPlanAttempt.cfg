SPECIFICATION LiveSpec
CONSTANTS
  Requester = "r"
  Order <- MCOrder
  StepCount = 4
  Op <- MCOp
  Runner <- MCRunner
  Dest <- MCDest
  Deps <- MCDeps
  Answers = {"ready", "unavailable"}
  MaxClock = 1
  Mishaps = {"lost", "answer_lost", "denied", "step_fails", "purge", "restart", "provider", "session", "expiry"}
  MaxMishaps = 1
INVARIANTS LedgersAgree CommittedMeansDone StatusIsCoherent CoreCompletionSurvivesCancel
PROPERTIES TerminalIsFinal  EndsUnlessUnheard ImplementsLedger
CHECK_DEADLOCK FALSE
