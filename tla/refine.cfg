SPECIFICATION Spec
CONSTANTS
  s1 = s1
  s2 = s2
  orig = orig
  prev = prev
  edited = edited
  candidate1 = candidate1
  candidate2 = candidate2
  noTree = noTree
  partial = partial
  Sessions = {s1}
  Contents <- SoloContents
  NoTree = noTree
  Partial = partial
  Original = orig
  Previous = prev
  Confirmed <- SoloConfirmed
  Origins <- SoloInPlace
  FaultyOps <- OpsAfterMove
  Bound <- MCBound
  Faults = 2
  Crashes = 1
  Edits = 2
  Tampers = 2
  Retries = 0
PROPERTY AtomicSpec
CHECK_DEADLOCK FALSE
