CONSTANTS
  a = a
  b = b
  Scheduler = scheduler
  Handlers = {rpc1, rpc2}
  MaxId = 2
  MaxEdits = 3
  Names = {1, 2}
  Caps = {1, 2}
  Fingerprints = {a, b}
  Bodies <- Lists
  NoSub = NoSub
SPECIFICATION SubStoreSpec
INVARIANTS NoOrphans FairlyActive QuietIsSynced
SYMMETRY Alike
