SPECIFICATION Spec
CONSTANTS
  Pid = {p1}
  NoPid = NoPid
  Elsewhere = Elsewhere
  SustainSeconds = 3
  IntervalMs = 2500
  EnableEco = TRUE
  EnableDemotion = TRUE
  Symptom = {"cpu", "memory"}
  BirthKinds = {"user", "allowed", "denied"}
  BirthMasks <- MCBirthMasks
  Cpu <- MCCpu
  Cores <- MCCores
  FirstCore <- MCFirstCore
  MaxLives = 2
  MaxStarts = 2
CHECK_DEADLOCK FALSE
INVARIANTS
  PauseUndoes
  ReserveHeld
  ForegroundFast
  StopGivesAffinityBack
  OffenderDemoted
PROPERTIES
  DemotedForOwnDoing
  ForegroundRegainsSpeed
