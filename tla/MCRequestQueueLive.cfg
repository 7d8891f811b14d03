\* Liveness: three calls for one slot; the environment owes nothing.
SPECIFICATION FairSpec
CONSTANTS
  Calls = {c1, c2, c3}
  Keys = {k1}
  NoKey = NoKey
  NoCall = NoCall
  MaxQueueLength = 2
  ConcurrencyLevels = {1}
PROPERTIES
  EveryCallAnswered
  SlotsReturned
CHECK_DEADLOCK FALSE
