SPECIFICATION Spec
CONSTANTS
  reader = reader
  guarded = guarded
  Readable <- MCReadable
  Unreadable <- MCUnreadable
  Grace = 2
  Fallback = 4
  InputHold = 3
  Hysteresis = 3
  BusyPoll = 1
  IdlePoll = 4
  HelperPeriod = 1
  CalmLimit = 10
INVARIANTS
  TypeOK
  DeltaOfOneProcess
  DropsInTime
PROPERTIES
  NoEarlyDrop
  QuietEndsBurst
