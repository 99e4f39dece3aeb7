SPECIFICATION Spec
CONSTANTS
  s1 = s1
  s2 = s2
  orig = orig
  prev = prev
  edited = edited
  candidate1 = candidate1
  candidate2 = candidate2
  noTree = noTree
  partial = partial
  Sessions = {s1}
  Contents <- SoloContents
  NoTree = noTree
  Partial = partial
  Original = orig
  Previous = prev
  Confirmed <- SoloConfirmed
  Origins <- SoloOrigins
  FaultyOps <- AllOps
  Bound <- MCBound
  Faults = 2
  Crashes = 1
  Edits = 1
  Tampers = 1
  Retries = 1
INVARIANT TypeOK
INVARIANT BackupKeepsPrior
INVARIANT NoUnconfirmedLeft
INVARIANT OneMishapIsRecoverable
PROPERTY RestoresWhatItMoved
PROPERTY ApplyTerminates
CHECK_DEADLOCK FALSE
