SPECIFICATION Spec
CONSTANTS
  s1 = s1
  s2 = s2
  orig = orig
  prev = prev
  edited = edited
  candidate1 = candidate1
  candidate2 = candidate2
  noTree = noTree
  partial = partial
  Sessions = {s1}
  Contents <- SoloContents
  NoTree = noTree
  Partial = partial
  Original = orig
  Previous = prev
  Confirmed <- SoloConfirmed
  Origins <- SoloInPlace
  FaultyOps <- RenameOldTree
  Bound <- MCBound
  Faults = 1
  Crashes = 0
  Edits = 0
  Tampers = 0
  Retries = 0
INVARIANT OriginalRestored
CHECK_DEADLOCK FALSE
