SPECIFICATION FairSpec
CONSTANTS
  key = key
  poll = poll
  Keys <- MCKeys
  IsrKeys <- MCIsrKeys
  MaxTimeout = 3
  MaxUpdate = 2
  MaxTimers = 2
INVARIANTS
  TypeOK
  OneTimerPerKey
  NeverLate
  TaskTimersNeverEarly
PROPERTIES
  ImplementsPromise
  EveryTimerEnds
