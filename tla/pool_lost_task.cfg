SPECIFICATION Spec
CONSTANTS
  Worker = {w1, w2, w3}
  Size = 2
  MaxTasks = 2
  MaxDeaths = 1
INVARIANTS
  TaskHasOwner
CHECK_DEADLOCK FALSE
