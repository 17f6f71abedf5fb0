SPECIFICATION Spec
CONSTANTS
  Users = {1, 2}
  Caps = {0, 1}
  MaxBytes = 2
  MaxEdits = 2
  MaxRestarts = 1
  MaxRefused = 1
INVARIANT NeverOvercounts NothingLost
PROPERTY FirstTimeIsCut
