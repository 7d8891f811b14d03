\* Three overlapping calls of set(), one with a shorter entry.
SPECIFICATION Spec
CONSTANTS
  w1 = w1
  w2 = w2
  w3 = w3
  Sets = {w1, w2, w3}
  Gets = {g1}
  Clears = {d1}
  Old = Old
  Size <- MCSize
  Types = {"pod", "secret"}
  NoFile = NoFile
  Miss = Miss
  Blend = Blend
  Pending = Pending
SYMMETRY MCSymmetry
INVARIANTS
  InPlaceIsWhole
  QuiescentIsWhole
  LegacyNeverServed
PROPERTIES
  HealedByNextSet
  ImplementsCell
