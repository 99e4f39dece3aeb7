SPECIFICATION Spec
CONSTANTS
  o1 = o1
  o2 = o2
  orig = orig
  fixed = fixed
  broken = broken
  noTree = noTree
  noDoc = noDoc
  Checks <- MCChecks
  Subjects <- MCSubjects
  CheckPolicy <- MCCheckPolicy
  SignalChecks = {}
  BloatChecks = {}
  NoResult = NoResult
  Operations = {o1, o2}
  Contents <- MCContents
  NoTree = noTree
  NoDoc = noDoc
  Modes <- CreateAndRepair
  Applicabilities <- NotRequired
  Dispositions <- MayRegress
  RunnerSets <- BehaviorOnly
  Passes <- MCPasses
  Preserving <- MCPreserving
  CorePolicy <- MCCore
  Bound <- MCBound
  Edits = 1
  Tampers = 0
  Faults = 0
INVARIANT ReplacesItsBaseline
INVARIANT AppliedOnce
CHECK_DEADLOCK FALSE
