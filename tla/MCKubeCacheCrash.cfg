\* Two overlapping calls of set() and a crash.
SPECIFICATION Spec
CONSTANTS
  w1 = w1
  w2 = w2
  w3 = w3
  Sets = {w1, w2}
  Gets = {g1}
  Clears = {d1}
  Old = Old
  Size <- MCSize
  Types = {"pod"}
  NoFile = NoFile
  Miss = Miss
  Blend = Blend
  Pending = Pending
INVARIANT
  CrashLeavesWholeEntry
