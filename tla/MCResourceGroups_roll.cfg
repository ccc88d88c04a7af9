SPECIFICATION FairSpec
CONSTANTS
  Ids = {1, 2, 3, 4, 5, 6}
  Weight <- MCWeight
  Wanted = 2
  MinSize = 1
  MaxSize = 4
  BatchSize = 1
  MaxMarks = 1
  MaxFaults = 1
  Prompt = TRUE
PROPERTIES ServiceKept RolledOver
CHECK_DEADLOCK FALSE
