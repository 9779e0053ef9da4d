SPECIFICATION FairSpec
CONSTANTS
  Configs <- UsualConfigs
  Counts = {0, 2, 4}
  SizeMax = 15
  MaxGroups = 2
  MaxCalls = 2
  MaxDepth = 1
  MayFail = FALSE
PROPERTY GroupsComplete
CHECK_DEADLOCK FALSE
