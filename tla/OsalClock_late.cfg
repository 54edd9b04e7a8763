SPECIFICATION Spec
CONSTANTS
  W = 65536
  MAXCALCTICKS = 8188
  Gaps <- LateGaps
INVARIANTS
  ClockExact
