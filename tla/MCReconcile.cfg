SPECIFICATION RecSpec
CONSTANTS
  Entries = {1, 2, 3, 4}
  Hysteria = {3}
  NoPool = "none"
  DirectTarget = 0
  SlotCount = 2
  Active = 1
  PrefixOf <- MCPrefixOf
  Configs <- MCConfigs
  NoTag <- MCNoTag
  Block <- MCBlock
  Blackhole <- BlockOut
  DialerOf <- MCDialerOf
  SlotIns <- MCSlotIns
  Stores <- MCStores
  InitialStores <- MCInitialStores
  BadMembers <- MCBadMembers
  BadEntries = {4}
  MaxAttempts = 1
INVARIANTS
  NoDangling
  
  RevokedIsCut
  UnchangedStays
  MasterIsHidden
  
PROPERTIES
  PoolsKeepTheirSlot
