\* Two requests for the type, one slot that others may take.
SPECIFICATION FairSpec
CONSTANTS
  Requests = {r1, r2}
  Old = Old
  Miss = Miss
  Blend = Blend
  Pending = Pending
  NoItem = NoItem
  NoKey = NoKey
  None = None
  TypeKey = TypeKey
  Places = {0, 1}
  MaxVersion = 1
INVARIANTS
  ForcedSeesNoOldEntry
  MissLagsOneExecution
  OneListing
PROPERTY
  EveryRequestReplied
CHECK_DEADLOCK FALSE
