SPECIFICATION DSpec
CONSTANTS
  Scheme = {g1}
  Factory <- MCFactoryBalanced
  BatteryLevel = {20, 100}
  Pid = {1}
  Power <- MCPower
  Missable <- MCNone
  Unreadable <- MCUnreadableMains
  MaxFaults = 1
  CrashesAgain = FALSE
  UserSwitches = FALSE
  QueryFails = TRUE
  MaxPosted = 2
INVARIANTS
  DaemonTypeOK
  MachineInForce
  StopGivesBack
