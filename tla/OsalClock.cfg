SPECIFICATION Spec
CONSTANTS
  W = 65536
  MAXCALCTICKS = 8188
  Gaps <- SoonGaps
INVARIANTS
  TypeOK
  ClockExact
