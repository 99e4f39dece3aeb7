SPECIFICATION Spec
CONSTANTS
  p1 = p1
  p2 = p2
  Procs = {p1, p2}
  Nobody = Nobody
  NoLock = NoLock
  Patience = 1
  StaleAge = 5
  Bound <- MCBound
  Crashes = 1
  Faults = 2
INVARIANT OneProvisions
INVARIANT EngineHasRuntime
PROPERTY MarksWhatIsReady
PROPERTY BootstrapEnds
PROPERTY SomeoneLaunches
CHECK_DEADLOCK FALSE
