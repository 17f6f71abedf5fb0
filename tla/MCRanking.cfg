SPECIFICATION RankingSpec
CONSTANTS
  Keys = {1, 2}
  Masters = {1}
  PickCount = 2
  Expected = 2
  AgileMax = 1
  HealthyRate = 80
  Rates = {0, 100}
  Delays = {100}
  ChainDelay <- MCChainDelay
  Every = 1
  TTL = 2
  Window = 1
  PairMax = 2
  Resolutions <- MCResolutions
  Healths <- MCHealths
PROPERTIES
  ReconcileUsesWhatCarries
  Settles
