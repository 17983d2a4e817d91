SPECIFICATION Spec
CONSTANTS
  app = app
  other = other
  shell = shell
  Process <- MCProcess
  System <- MCSystem
  Watched = app
  GracePeriod = 2
  TrimInterval = 4
  MinCooldown = 1
  Thresholds = {75, 95}
  Loads = {60, 80, 90, 96}
  TrimOnAC = TRUE
  TrimOnDC = FALSE
  StandbyPurge = TRUE
PROPERTIES
  KnownForegroundSpared
  GraceAfterFocus
  NoThrashing
  PressureIsAnswered
