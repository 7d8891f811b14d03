\* Two types, an object of each, any selection, two logins.
SPECIFICATION Spec
CONSTANTS
  None = None
  Types = {"pod", "node"}
  Default = "pod"
  ObjectsOf <- MCObjectsOf
  Selections = {{"pod"}, {"node"}, {"pod", "node"}}
  MaxSessions = 3
  MaxActs = 4
INVARIANTS
  LinkIsShown
  ExpiryKeepsLink
CHECK_DEADLOCK FALSE
