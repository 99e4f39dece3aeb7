SPECIFICATION Spec
CONSTANTS
  o1 = o1
  o2 = o2
  orig = orig
  fixed = fixed
  broken = broken
  noTree = noTree
  noDoc = noDoc
  Checks <- MCChecks
  Subjects <- MCSubjects
  CheckPolicy <- MCCheckPolicy
  SignalChecks = {}
  BloatChecks = {}
  NoResult = NoResult
  Operations = {o1}
  Contents <- MCContents
  NoTree = noTree
  NoDoc = noDoc
  Modes <- Repairs
  Applicabilities <- Required
  Dispositions <- NoRegression
  RunnerSets <- BehaviorOnly
  Passes <- MCPasses
  Preserving <- MCPreserving
  CorePolicy <- MCCore
  Bound <- MCBound
  Edits = 0
  Tampers = 0
  Faults = 0
INVARIANT ValidContractCovers
CHECK_DEADLOCK FALSE
