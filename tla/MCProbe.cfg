SPECIFICATION Spec
CONSTANTS
  Random <- MCRandom
  Requests <- MCRequests
  Edits <- MCEdits
  PublicIPs = {"", "1.2.3.4"}
  Bodies <- MCBodies
  Vias <- MCVias
  Batch = 3
  Parallel = 2
  Attempts = 2
  MaxCalls = 3
  MaxHiccups = 1
INVARIANT NoFalsePass
INVARIANT BlameIsRight
INVARIANT ShareReaches
INVARIANT LinkRoundTrips
CHECK_DEADLOCK FALSE
