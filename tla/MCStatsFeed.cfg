SPECIFICATION FairSpec
CONSTANTS
  None = None
  Torn = Torn
  Samples = {1, 2}
  MaxVersion = 1
  MaxRestarts = 1
  MaxPolls = 3
  Polled = {"pods"}
INVARIANTS
  NotModifiedIsCurrent
  RangeIsOfAllSamples
PROPERTIES
  SharedListingIsUsable
  CapturesEnd
CHECK_DEADLOCK FALSE
