SPECIFICATION Spec
CONSTANTS
  Scheme = {g1, g2}
  Factory <- MCFactoryBalanced
  BatteryLevel = {20, 100}
  Pid = {1}
  Power <- MCPowerEqualBursts
  Missable <- MCMissable
  Unreadable <- MCUnreadable
  MaxFaults = 1
  CrashesAgain = FALSE
  UserSwitches = TRUE
  QueryFails = TRUE
SYMMETRY SchemeSymmetry
INVARIANTS
  TargetInForce
  PausedIsBaseline
  CleanStopRestores
PROPERTY KeepsContract
