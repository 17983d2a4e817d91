SPECIFICATION Spec
CONSTANTS
  Helper = {h1, h2}
  SpawnMayFail = TRUE
  EarlySignIn = TRUE
  HelperFails = TRUE
  MaxStarts = 2
  MaxPending = 2
CHECK_DEADLOCK FALSE
INVARIANTS
  NotBoth
  OneHelper
  NoHelperLeft
PROPERTIES
  StopCompletes
