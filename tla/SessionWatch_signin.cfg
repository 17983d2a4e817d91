SPECIFICATION Spec
CONSTANTS
  Helper = {h1, h2}
  SpawnMayFail = FALSE
  EarlySignIn = FALSE
  HelperFails = FALSE
  MaxStarts = 1
  MaxPending = 1
CHECK_DEADLOCK FALSE
PROPERTY HelperWhileSignedIn
