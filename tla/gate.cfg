SPECIFICATION Spec
CONSTANTS
  Checks <- MCChecks
  Subjects <- MCSubjects
  CheckPolicy <- MCCheckPolicy
  SignalChecks <- MCSignals
  BloatChecks <- MCBloat
  NoResult = NoResult
  Offered <- MCOffered
  GateContexts <- MCGateContexts
  CorePolicy <- MCCore
  Extensions <- MCExtensions
  MaxDelivered = 3
INVARIANT NoFailureHidden
INVARIANT PassIsEarned
INVARIANT ProjectPolicyNeverWeakens
PROPERTY OptionalEvidenceIsAdvisory
PROPERTY LatePassSuppliesEvidence
CHECK_DEADLOCK FALSE
