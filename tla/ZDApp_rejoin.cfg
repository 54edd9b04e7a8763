SPECIFICATION RunningSpec
CONSTANTS
  Nets = {n1, n2}
  Types = {"DEVICE"}
  NumDiscAttempts = 2
  MaxResumeRetry = 3
  DiscWrap = 4
  EnergySteps = 1
  InsecureJoin = TRUE
  MaxMsgs = 2
  MaxResets = 1
  MaxTroubles = 0
PROPERTIES
  FallsBackToJoin
CHECK_DEADLOCK FALSE
