\* Safety: five calls, one shared key and the null key, a queue of two.
SPECIFICATION Spec
CONSTANTS
  Calls = {c1, c2, c3, c4, c5}
  Keys = {k1}
  NoKey = NoKey
  NoCall = NoCall
  MaxQueueLength = 2
  ConcurrencyLevels = {1, 2}
SYMMETRY MCCalls
INVARIANTS
  TypeOK
  SingleFlight
  SlotAccounting
  QueueIsTheWaiting
  WorkConserving
PROPERTIES
  SettleOnce
  LateNeverStarts
  StartsWithinLimit
  FirstComeFirstServed
  JoinsLiveItem
  ImplementsDispatcher
