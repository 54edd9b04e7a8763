SPECIFICATION Spec
CONSTANTS
  key = key
  poll = poll
  Keys <- MCKeys
  IsrKeys <- MCIsrKeys
  MaxTimeout = 2
  MaxUpdate = 2
  MaxTimers = 3
INVARIANT
  NeverEarly
