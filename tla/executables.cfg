SPECIFICATION PreflightSpec
CONSTANTS
  Requests <- MCRequests
  ProviderAnswers <- NoAnswers
  ObservedArtifacts <- MCObserved
  Domains = {}
INVARIANT ExecutablesExercised
CHECK_DEADLOCK FALSE
