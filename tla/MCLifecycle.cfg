SPECIFICATION Spec
CONSTANTS
  Pids = {1, 2, 3, 4}
  Clis = {1}
  Commands = {"start", "stop", "restart", "update"}
  MaxCommands = 4
  MaxCrashes = 2
INVARIANT  DataKept
PROPERTY HoldsLease StartServes
CHECK_DEADLOCK FALSE
