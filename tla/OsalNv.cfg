SPECIFICATION FairSpec
CONSTANTS
  a = a
  b = b
  v = v
  w = w
  PageCnt = 3
  PageItems = 4
  Ids <- MCIds
  Vals <- MCVals
  Blank = Blank
  Zeroed = Zeroed
  Absent = Absent
  MaxResets = 2
INVARIANTS
  TypeOK
  LastWritten
  NeverStale
PROPERTIES
  CallsEnd
