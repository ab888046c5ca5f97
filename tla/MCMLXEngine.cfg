SPECIFICATION FairSpec
CONSTANTS
  kvStep = 2
  Jobs = {1, 2, 3}
  NoJob = 0
  Settings <- Apart
  Prompts <- MCPrompts
  slots = 3
  ctx = 5
  minPrefixMatch = 1
INVARIANTS ServedAsAlone
PROPERTIES EveryRequestEnds
CHECK_DEADLOCK FALSE
