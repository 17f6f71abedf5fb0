SPECIFICATION Spec
CONSTANTS
  Pids = {1, 2}
  Clis = {1}
  Commands = {"start", "restart"}
  MaxCommands = 2
  MaxCrashes = 0
PROPERTY RestartComesUp
CHECK_DEADLOCK FALSE
