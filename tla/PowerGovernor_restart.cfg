SPECIFICATION Spec
CONSTANTS
  Scheme = {g1}
  Factory <- MCFactoryOne
  BatteryLevel = {20, 100}
  Pid = {1}
  Power <- MCPower
  Missable <- MCNone
  Unreadable <- MCNone
  MaxFaults = 0
  CrashesAgain = FALSE
  UserSwitches = FALSE
  QueryFails = FALSE
INVARIANT RestoredAfterRestart
