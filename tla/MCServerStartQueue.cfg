\* One process whose configuration file is edited.
SPECIFICATION Spec
CONSTANTS
  None = None
  Torn = Torn
  Configs <- MCConfigs
  ValidCrons = {"weekly"}
  DefaultQueue = 2
  MaxBoots = 1
  MaxAdvice = 1
INVARIANTS
  QueueFollowsConfig
CHECK_DEADLOCK FALSE
