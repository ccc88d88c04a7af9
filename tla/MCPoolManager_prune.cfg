SPECIFICATION Spec
CONSTANTS
  a = a
  b = b
  c = c
  Groups = {1, 2}
  FleetChoices = {{2}, {1, 2}}
  Nodes = {a, b, c}
  GroupOf <- MCGroupOf
  Weight <- MCWeight
  GroupMin <- MCGroupMin
  GroupMax <- MCGroupMax
  Cordoned = {}
  Unsafe = {}
  Rank <- MCRank
  BatchNodes = {b}
  Unit = 2
  min_capacity = 0
  max_capacity = 6
  max_tasks_to_kill = 2
  max_weight_to_add = 4
  max_weight_to_remove = 4
  recycle_orphan_instances = TRUE
  prevent_scale_down_after_capacity_loss = TRUE
  instance_loss_threshold = 0
  Requests = {2, 5, 7}
  MaxTasks = 1
  MaxRuns = 2
  MaxChanges = 1
  MaxFaults = 1
  Quiet = TRUE
INVARIANTS TargetsBalanced PruneKeepsTargets
PROPERTY ServiceKeepsTarget
CHECK_DEADLOCK FALSE
