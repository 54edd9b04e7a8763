SPECIFICATION Spec
CONSTANTS
  Nets = {n1, n2}
  Types = {"COORDINATOR", "ROUTER", "DEVICE"}
  NumDiscAttempts = 2
  MaxResumeRetry = 3
  DiscWrap = 4
  EnergySteps = 1
  InsecureJoin = TRUE
  MaxMsgs = 2
  MaxResets = 1
  MaxTroubles = 1
INVARIANTS
  TypeOK
PROPERTIES
  LeaveIsFinal
  AppLearnsState
  Joins
CHECK_DEADLOCK FALSE
