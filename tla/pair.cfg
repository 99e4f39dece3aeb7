SPECIFICATION Spec
CONSTANTS
  s1 = s1
  s2 = s2
  orig = orig
  prev = prev
  edited = edited
  candidate1 = candidate1
  candidate2 = candidate2
  noTree = noTree
  partial = partial
  Sessions = {s1, s2}
  Contents <- MCContents
  NoTree = noTree
  Partial = partial
  Original = orig
  Previous = prev
  Confirmed <- PairConfirmed
  Origins <- PairOrigins
  FaultyOps <- AllOps
  Bound <- MCBound
  Faults = 1
  Crashes = 1
  Edits = 0
  Tampers = 1
  Retries = 1
INVARIANT UnracedBackupKept
INVARIANT SerialAppliesConflict
CHECK_DEADLOCK FALSE
