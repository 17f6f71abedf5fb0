SPECIFICATION CutSpec
CONSTANTS
  Masters = {"m", "n"}
  Pools = {"p", "q"}
  Nodes = {"a", "b"}
  Endpoints <- MCEndpoints
  Literal = {"a"}
  Stores <- MCStores
  MaxConns = 1
INVARIANTS RidesItsPath DownIsLeft
