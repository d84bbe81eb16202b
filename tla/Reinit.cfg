SPECIFICATION Spec
CONSTANTS
  Sessions <- MCSessions
  CreateRun = FALSE
  RunIds = {1, 2}
  MaxRetry = 2
  MaxOpens = 2
  MaxEpoch = 2
  MaxTeardown = 1
  MaxUser = 1
  MaxBlank = 1
  LateReplies = FALSE
INVARIANTS SettledShowsTmux OneOfEach
PROPERTY Converges
CHECK_DEADLOCK FALSE
