SPECIFICATION Spec
CONSTANTS
  Clients = {c1, c2}
  Names = {1, 2, 3}
  SubNames = {1, 2}
  InNames = {1, 2}
  MaxId = 4
  MaxCalls = 2
  MaxRefs = 2
  SlotCount = 3
  Stores <- MCStores
  NoBackup = NoBackup
INVARIANT QuietIsReconciled
PROPERTY CheckedKeepsSound RenameMovesNothing RenameKeepsSlots
CHECK_DEADLOCK FALSE
