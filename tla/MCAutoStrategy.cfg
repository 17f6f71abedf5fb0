SPECIFICATION AutoSpec
CONSTANTS
  Members = {"a", "b"}
  Picks <- MCPicks
  Finds <- MCFinds
  Kept = 2
  Window = 2
  Calm = 2
  Flips = 1
  PickLoss = 2
  FlappingPct = 50
  MinFlapping = 2
INVARIANTS
  OutageIsNoFlip
PROPERTIES
  CalmsDown
