SPECIFICATION FairSpec
CONSTANTS
  Nodes = {1, 2, 3}
  Resources <- MCResources
  NodeRes <- MCNodeRes
  Need <- MCNeed
  ClientRequests <- MCClientRequests
  MaxPods = 3
  setpoint = 90
  target_capacity_margin = 10
  excluded_resources = {"disk"}
  min_capacity = 0
  max_capacity = 3
  max_weight_to_add = 2
  max_weight_to_remove = 2
  max_tasks_to_kill = 0
  Prompt = TRUE
  MaxChanges = 1
  MaxFaults = 1
INVARIANTS OneRunAfterPause RequestIsCovered RequestIsNotExceeded
PROPERTIES PodsAreScheduled TargetSettles
