SPECIFICATION Spec
CONSTANTS
  o1 = o1
  o2 = o2
  orig = orig
  fixed = fixed
  broken = broken
  noTree = noTree
  noDoc = noDoc
  Checks <- MCChecks
  Subjects <- MCSubjects
  CheckPolicy <- MCCheckPolicy
  SignalChecks = {}
  BloatChecks = {}
  NoResult = NoResult
  Operations = {o1}
  Contents <- MCContents
  NoTree = noTree
  NoDoc = noDoc
  Modes <- AuditCreateRepair
  Applicabilities <- RequiredOrNot
  Dispositions <- MayOrMustRegress
  RunnerSets <- AllOrNone
  Passes <- MCPasses
  Preserving <- MCPreserving
  CorePolicy <- MCCore
  Bound <- MCBound
  Edits = 1
  Tampers = 1
  Faults = 1
INVARIANT TypeOK
INVARIANT AuditIsAboutBaseline
INVARIANT AppliedIsFormal
INVARIANT AppliedWasTested
INVARIANT ManagedIsValidated
CHECK_DEADLOCK FALSE
