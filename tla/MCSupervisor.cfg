CONSTANTS
  rpc = rpc
  monitor = monitor
  Callers <- TwoCallers
  Unlocked <- NoCallers
  Nobody = Nobody
  Confs = {c1, c2}
  NoConf = NoConf
  Mixed = Mixed
  Monitor = monitor
  FailureLimit = 3
SPECIFICATION SupWdSpec
INVARIANTS DoneClosedOnce BeliefIsFile KeepsServing
PROPERTIES ComesBack CrashIsRespawned SignalledStopReturns
