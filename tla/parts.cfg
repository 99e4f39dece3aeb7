SPECIFICATION Spec
CONSTANTS
  PipeSize = 1
  PromptSize = 2
  OutputSize = 2
  Timeout = 2
  StableTime = 1
  Rewrites = 2
  Registries <- MCRegistries
  Fallbacks = {"none", "configured"}
  Requests <- MCRequests
  ProviderAnswers <- MCProviderAnswers
  ObservedArtifacts <- MCObserved
  Domains = {"PDF_VALIDATION"}
  CapabilityIds = {"c1", "c2"}
  Versions <- MCVersions
  Absent = absent
  absent = absent
  MaxInspections = 2
  GovernanceRequests <- MCGovernanceRequests
  Trees = {good, other}
  NoDirectory = noDirectory
  noDirectory = noDirectory
  good = good
  other = other
  MaxCycle = 2
  FindingIds = {"exact1", "similar2"}
  RuleTrees <- MCRuleTrees
  Detected <- MCDetections
  Blockers = {"exact1"}
  ruleA = ruleA
  ruleB = ruleB
INVARIANT TypeOK
INVARIANT NobodyPassedOver
INVARIANT FormalPassIsPinned
INVARIANT AnswerIsFinal
INVARIANT NoOrphans
INVARIANT EveryCapabilityProven
INVARIANT FindingBlocks
INVARIANT NothingVacuous
INVARIANT AuthorizedIsProven
INVARIANT VerdictIsFresh
INVARIANT FindingsReviewed
PROPERTY GatewayCallEnds
PROPERTY ValidationKept
PROPERTY NothingGivenUpUnasked
CHECK_DEADLOCK FALSE
