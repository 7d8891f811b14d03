\* A forced request and one that refills the cache meanwhile.
SPECIFICATION Spec
CONSTANTS
  Requests = {r1, r2}
  Old = Old
  Miss = Miss
  Blend = Blend
  Pending = Pending
  NoItem = NoItem
  NoKey = NoKey
  None = None
  TypeKey = TypeKey
  Places = {0, 1}
  MaxVersion = 1
INVARIANT
  ForcedBypassesCache
