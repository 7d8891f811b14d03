\* Two processes, two recommendations.
SPECIFICATION FairSpec
CONSTANTS
  None = None
  Torn = Torn
  Configs <- MCConfigs
  ValidCrons = {"weekly"}
  DefaultQueue = 2
  MaxBoots = 2
  MaxAdvice = 2
INVARIANTS
  ScheduleFollowsConfig
  ServedIsOnDisk
PROPERTIES
  ReadyInTheEnd
CHECK_DEADLOCK FALSE
