\* Two callers, two calls, one restart.
SPECIFICATION FairSpec
CONSTANTS
  None = None
  Torn = Torn
  Absent = Absent
  Broken = Broken
  alice = alice
  bob = bob
  Callers = {alice, bob}
  Grants <- MCGrants
  BuiltIns = {"pod", "job"}
  Defaults = {"pod", "job"}
  Legacy = {"job"}
  Crds = {"widget"}
  OldFile <- MCOldFile
  Requests <- MCRequests
  Policies = {{}, {"pod"}}
  MaxCalls = 2
  MaxRestarts = 1
INVARIANTS
  MutationsAnswerForThemselves
  SavedIsKept
  RefreshIsRecent
PROPERTIES
  ScansEnd
CHECK_DEADLOCK FALSE
