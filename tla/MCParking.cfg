SPECIFICATION ParkingSpec
CONSTANTS
  Nodes = {"a", "b"}
  PoolCount = 2
  MaxFor = 2
  Stores <- MCStores
INVARIANTS
  LiveNotParked
PROPERTIES
  NeverEmptied
  DueIsReleased
