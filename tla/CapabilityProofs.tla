---------------------------- MODULE CapabilityProofs ----------------------------
(***************************************************************************)
(* CapabilityEvolution and CapabilityPreflight, proved for every value of   *)
(* their constants.                                                        *)
(*                                                                         *)
(* The repairs of a Skill: what a repair publishes has given up nothing     *)
(* that the user did not agree to, and has lost no validation.  The         *)
(* invariant says what the documents of a repair are about as long as they  *)
(* are kept: the baseline manifest is that of the published version, the    *)
(* candidate's that of the draft, both of the current inspection, and a     *)
(* check that passed was made of these two and the present decision.        *)
(*                                                                         *)
(* The evidence of a validation: one verdict per capability, no defect of a *)
(* Provider lost, nothing vacuous.  The invariant says that the records     *)
(* answer for distinct capabilities, those asked so far, and that the       *)
(* bundle is still the evaluation of the records it was made of; the rest   *)
(* is what an evaluation can contain.                                       *)
(***************************************************************************)
EXTENDS CapabilityEvolution, CapabilityPreflight, WellFoundedInduction, TLAPS

\* The manifest of the baseline is that of the published version.
BaselineIsPublished ==
  baseline # NoManifest => baseline = Manifest(number, "BASELINE", version)

\* The manifest of the candidate is that of the draft, within the same inspection.
DescribedIsDraft ==
  described # NoManifest => /\ baseline # NoManifest
                            /\ described = Manifest(number, "CANDIDATE", draft)

\* A check that passed is about the manifests and the decision as they are.
PassIsPresent ==
  check = "PASS" => /\ described # NoManifest
                    /\ DecisionStatus(baseline, described, decision) = "PASS"

EInv == EvolutionTypeOK /\ BaselineIsPublished /\ DescribedIsDraft /\ PassIsPresent

-----------------------------------------------------------------------------
\* A comparison that passes: nothing is broken or unverifiable, and what is given up
\* is named in a decision for these two manifests.
LEMMA PassedComparison ==
  ASSUME NEW before, NEW after, NEW d, DecisionStatus(before, after, d) = "PASS",
         NEW c \in CapabilityIds
  PROVE  /\ Kind(before.of[c], after.of[c]) \notin {"BROKEN", "UNVERIFIABLE"}
         /\ Kind(before.of[c], after.of[c]) \in {"REMOVED", "NARROWED"} =>
              c \in d.ids /\ d.authorised /\ d.before = before /\ d.after = after
  <1>1. /\ OfKind(before, after, {"BROKEN"}) = {}
        /\ OfKind(before, after, {"UNVERIFIABLE"}) = {}
        /\ GivenUp(before, after) = {} \/ Authorised(d, before, after)
    BY DEF DecisionStatus
  <1>2. Kind(before.of[c], after.of[c]) \notin {"BROKEN", "UNVERIFIABLE"}
    BY <1>1 DEF OfKind
  <1>3. ASSUME Kind(before.of[c], after.of[c]) \in {"REMOVED", "NARROWED"}
        PROVE  c \in d.ids /\ d.authorised /\ d.before = before /\ d.after = after
    <2>1. c \in GivenUp(before, after)
      BY <1>3 DEF GivenUp, OfKind
    <2> QED  BY <1>1, <2>1 DEF Authorised
  <1> QED  BY <1>2, <1>3

\* The only lossy kinds a comparison lets pass are those it names.
LEMMA LossIsNamed ==
  ASSUME NEW b, NEW a, Kind(b, a) \notin {"BROKEN", "UNVERIFIABLE"}, b # Absent
  PROVE  /\ a = Absent => Kind(b, a) = "REMOVED"
         /\ a # Absent => /\ b.implemented => a.implemented
                          /\ Narrower(a.scope, b.scope) => Kind(b, a) = "NARROWED"
                          /\ ~Narrower(a.scope, b.scope) => ~Smaller(a.proven, b.proven)
  BY DEF Kind

LEMMA EvolutionInitial == EvolutionInit => EInv
  BY EvolutionOK
     DEF EvolutionInit, EInv, EvolutionTypeOK, Manifests, NoDecision, BaselineIsPublished,
         DescribedIsDraft, PassIsPresent

\* The manifests of the current inspection are of their type.
LEMMA CurrentManifests ==
  ASSUME NEW role, NEW n \in 1..MaxInspections, NEW v \in Versions
  PROVE  Manifest(n, role, v) \in Manifests(role)
  BY DEF Manifest, Manifests

LEMMA EvolutionStep == EInv /\ [EvolutionNext]_evolutionVars => EInv'
  <1> SUFFICES ASSUME EInv, [EvolutionNext]_evolutionVars PROVE EInv'
    OBVIOUS
  <1>a. EvolutionTypeOK /\ BaselineIsPublished /\ DescribedIsDraft /\ PassIsPresent
    BY DEF EInv
  <1>b. baseline # NoManifest => number \in 1..MaxInspections
    BY <1>a DEF EvolutionTypeOK, BaselineIsPublished, Manifests, Manifest
  <1>1. CASE StartRepair
    <2>1. number' \in 1..MaxInspections /\ version' = version /\ version \in Versions
      BY <1>a, <1>1, EvolutionOK DEF StartRepair, EvolutionTypeOK
    <2>2. baseline' = Manifest(number', "BASELINE", version')
      BY <1>1 DEF StartRepair
    <2>3. baseline' \in Manifests("BASELINE")
      BY <2>1, <2>2, CurrentManifests
    <2>4. /\ draft' = version /\ described' = NoManifest /\ check' = "none"
          /\ decision' = decision /\ number' \in 0..MaxInspections
      BY <1>1, <2>1, EvolutionOK DEF StartRepair
    <2>5. EvolutionTypeOK'
      BY <1>a, <2>1, <2>3, <2>4 DEF EvolutionTypeOK, Manifests
    <2> QED
      BY <2>2, <2>4, <2>5 DEF EInv, BaselineIsPublished, DescribedIsDraft, PassIsPresent
  <1>2. ASSUME NEW v \in Versions, Author(v) PROVE EInv'
    <2>1. EvolutionTypeOK'
      BY <1>a, <1>2 DEF Author, EvolutionTypeOK, Manifests
    <2> QED
      BY <1>a, <1>2, <2>1 DEF Author, EInv, BaselineIsPublished, DescribedIsDraft, PassIsPresent
  <1>3. ASSUME NEW ids \in SUBSET CapabilityIds, NEW agrees \in BOOLEAN, Decide(ids, agrees)
        PROVE  EInv'
    <2>1. EvolutionTypeOK'
      BY <1>a, <1>3 DEF Decide, EvolutionTypeOK, Manifests
    <2> QED
      BY <1>a, <1>3, <2>1 DEF Decide, EInv, BaselineIsPublished, DescribedIsDraft, PassIsPresent
  <1>4. CASE ValidateChange
    <2>1. /\ baseline # NoManifest /\ version' = version /\ number' = number
          /\ baseline' = baseline /\ draft' = draft /\ decision' = decision
      BY <1>4 DEF ValidateChange
    <2>2. CASE described' = Manifest(number, "CANDIDATE", draft)
               /\ check' = DecisionStatus(baseline, described', decision)
      <3>1. described' \in Manifests("CANDIDATE")
        BY <1>a, <1>b, <2>1, <2>2, CurrentManifests DEF EvolutionTypeOK
      <3>2. check' \in {"none", "PASS", "FAIL", "NOT_EXECUTED"}
        BY <2>2 DEF DecisionStatus
      <3>3. EvolutionTypeOK'
        BY <1>a, <2>1, <3>1, <3>2 DEF EvolutionTypeOK, Manifests
      <3>4. described' # NoManifest
        BY <2>2 DEF Manifest, NoManifest
      <3>5. BaselineIsPublished' /\ DescribedIsDraft'
        BY <1>a, <2>1, <2>2 DEF BaselineIsPublished, DescribedIsDraft
      <3>6. PassIsPresent'
        BY <2>1, <2>2, <3>4 DEF PassIsPresent
      <3> QED  BY <3>3, <3>5, <3>6 DEF EInv
    <2>3. CASE described' = NoManifest /\ check' = "NOT_EXECUTED"
      <3>1. EvolutionTypeOK'
        BY <1>a, <2>1, <2>3 DEF EvolutionTypeOK, Manifests
      <3> QED
        BY <1>a, <2>1, <2>3, <3>1
           DEF EInv, BaselineIsPublished, DescribedIsDraft, PassIsPresent
    <2> QED  BY <1>4, <2>2, <2>3 DEF ValidateChange
  <1>5. CASE ApplyChange
    <2>1. EvolutionTypeOK'
      BY <1>a, <1>5 DEF ApplyChange, EvolutionTypeOK, Manifests
    <2> QED
      BY <1>5, <2>1 DEF ApplyChange, EInv, BaselineIsPublished, DescribedIsDraft, PassIsPresent
  <1>6. CASE UNCHANGED evolutionVars
    BY <1>6 DEF evolutionVars, EInv, EvolutionTypeOK, BaselineIsPublished, DescribedIsDraft,
                PassIsPresent, Manifests
  <1> QED  BY <1>1, <1>2, <1>3, <1>4, <1>5, <1>6 DEF EvolutionNext

-----------------------------------------------------------------------------
\* Only an apply publishes, and what it publishes was compared with what it replaces.
LEMMA PublishedWasCompared ==
  ASSUME EInv, [EvolutionNext]_evolutionVars, version' # version
  PROVE  /\ baseline = Manifest(number, "BASELINE", version)
         /\ described = Manifest(number, "CANDIDATE", version')
         /\ DecisionStatus(baseline, described, decision) = "PASS"
  <1>1. ApplyChange
    BY DEF EvolutionNext, evolutionVars, StartRepair, Author, Decide, ValidateChange
  <1> QED
    BY <1>1 DEF ApplyChange, EInv, BaselineIsPublished, DescribedIsDraft, PassIsPresent

\* The same, capability by capability.
LEMMA PublishedChange ==
  ASSUME EInv, [EvolutionNext]_evolutionVars, version' # version, NEW c \in CapabilityIds
  PROVE  /\ Kind(version[c], version'[c]) \notin {"BROKEN", "UNVERIFIABLE"}
         /\ Kind(version[c], version'[c]) \in {"REMOVED", "NARROWED"} =>
              /\ c \in decision.ids /\ decision.authorised
              /\ decision.before = Manifest(number, "BASELINE", version)
              /\ decision.after = Manifest(number, "CANDIDATE", version')
  <1>1. /\ baseline = Manifest(number, "BASELINE", version)
        /\ described = Manifest(number, "CANDIDATE", version')
        /\ DecisionStatus(baseline, described, decision) = "PASS"
    BY PublishedWasCompared
  <1>2. baseline.of = version /\ described.of = version'
    BY <1>1 DEF Manifest
  <1> QED  BY <1>1, <1>2, PassedComparison

\* What a repair takes from a Skill, the user agreed to for exactly this difference.
LEMMA LossIsAgreed ==
  ASSUME EInv, [EvolutionNext]_evolutionVars, NEW c \in CapabilityIds,
         \/ Implements(version, c) /\ ~Implements(version', c)
         \/ /\ version[c] # Absent /\ version'[c] # Absent
            /\ Narrower(version'[c].scope, version[c].scope)
  PROVE  /\ c \in decision.ids /\ decision.authorised
         /\ decision.before = Manifest(number, "BASELINE", version)
         /\ decision.after = Manifest(number, "CANDIDATE", version')
  <1>1. version' # version
    BY DEF Narrower, Smaller
  <1>2. Kind(version[c], version'[c]) \notin {"BROKEN", "UNVERIFIABLE"} /\ version[c] # Absent
    BY <1>1, PublishedChange DEF Implements
  <1>3. Kind(version[c], version'[c]) \in {"REMOVED", "NARROWED"}
    BY <1>2, LossIsNamed DEF Implements
  <1> QED  BY <1>1, <1>3, PublishedChange

-----------------------------------------------------------------------------
\* The documents of a repair stay about the versions they describe.
THEOREM EvolutionInvariant == EvolutionSpec => []EInv
  BY EvolutionInitial, EvolutionStep, PTL DEF EvolutionSpec

\* For every set of capabilities and versions: what is published lacks, or narrows,
\* nothing but what the user gave up for this very inspection and candidate.
THEOREM GivenUpIsAgreed == EvolutionSpec => NothingGivenUpUnasked
  <1>1. ASSUME EInv, [EvolutionNext]_evolutionVars
        PROVE  [\A c \in CapabilityIds :
                  \/ Implements(version, c) /\ ~Implements(version', c)
                  \/ /\ version[c] # Absent /\ version'[c] # Absent
                     /\ Narrower(version'[c].scope, version[c].scope)
                  => /\ c \in decision.ids /\ decision.authorised
                     /\ decision.before = Manifest(number, "BASELINE", version)
                     /\ decision.after = Manifest(number, "CANDIDATE", version')]_evolutionVars
    BY <1>1, LossIsAgreed
  <1> QED  BY <1>1, EvolutionInvariant, PTL DEF EvolutionSpec, NothingGivenUpUnasked

\* For every set of capabilities and versions: no capability whose scope was kept
\* loses the validation it had.
THEOREM ValidationIsKept == EvolutionSpec => ValidationKept
  <1>1. ASSUME EInv, [EvolutionNext]_evolutionVars
        PROVE  [\A c \in CapabilityIds :
                  version[c] # Absent /\ version'[c] # Absent
                  /\ ~Narrower(version'[c].scope, version[c].scope) =>
                       ~Smaller(version'[c].proven, version[c].proven)]_evolutionVars
    <2> SUFFICES ASSUME NEW c \in CapabilityIds,
                        version[c] # Absent, version'[c] # Absent,
                        ~Narrower(version'[c].scope, version[c].scope)
                 PROVE  ~Smaller(version'[c].proven, version[c].proven)
      OBVIOUS
    <2>1. CASE version' = version
      BY <2>1 DEF Smaller
    <2>2. CASE version' # version
      <3>1. Kind(version[c], version'[c]) \notin {"BROKEN", "UNVERIFIABLE"}
        BY <1>1, <2>2, PublishedChange
      <3> QED  BY <3>1, LossIsNamed
    <2> QED  BY <2>1, <2>2
  <1> QED  BY <1>1, EvolutionInvariant, PTL DEF EvolutionSpec, ValidationKept

-----------------------------------------------------------------------------
(***************************************************************************)
(* The evidence of a validation                                            *)
(***************************************************************************)

\* The records are answers to the capabilities asked so far, none twice, and none
\* bears the name of the core.
RecordsAnswer ==
  /\ records \in Seq(Evidence) /\ Len(records) <= asked
  /\ \A i \in DOMAIN records :
       /\ \E k \in 1..asked : records[i].capability = request.adapters[k]
       /\ records[i].provider \notin {"none", "internal.core"}
  /\ \A i, j \in DOMAIN records : records[i].capability = records[j].capability => i = j

\* What validate concludes from the artifact o.
ValidationOf(o) ==
  [observed |-> o, checks |-> Checked(o),
   coverage |-> Coverage(request.applicability, ContractVerdict(o))]

\* A validation is the evaluation of the records as they still are.
BundleIsEvaluated ==
  Validated => \E o \in ObservedArtifacts : bundle = ValidationOf(o)

PreflightInv ==
  /\ request \in Requests
  /\ asked \in 0..Len(request.adapters)
  /\ RecordsAnswer
  /\ BundleIsEvaluated

LEMMA RequestFacts ==
  ASSUME NEW r \in Requests
  PROVE  /\ r.mode \in Modes /\ r.adapters \in Seq(STRING) /\ r.declared \subseteq Domains
         /\ r.applicability \in Applicabilities
  BY PreflightOK DEF RequestType

\* What validate evaluates depends on the inspection and its records only.
LEMMA ValidationOfKept ==
  ASSUME UNCHANGED <<request, records>>, NEW o
  PROVE  ValidationOf(o)' = ValidationOf(o)
  <1>1. Records' = Records
    BY DEF Records
  <1>2. Preflight' = Preflight
    <2>1. \A c : Speakers(c)' = Speakers(c)
      BY <1>1 DEF Speakers, Executed
    <2>2. \A c : Answered(c)' = Answered(c)
      BY <2>1 DEF Answered
    <2>3. \A c : Resolve(c)' = Resolve(c)
      BY <1>1, <2>1, <2>2 DEF Resolve
    <2>4. ASSUME NEW d  PROVE ResolveDomain(d)' = ResolveDomain(d)
      <3>1. Speakers(d)' = Speakers(d)
        BY <2>1
      <3>2. (CHOOSE r \in Speakers(d) : TRUE)' = (CHOOSE r \in Speakers(d) : TRUE)
        BY <3>1
      <3>3. ResolveDomain(d) = IF Speakers(d) # {}
              THEN Assessment(d, TRUE, "READY", (CHOOSE r \in Speakers(d) : TRUE).provider)
              ELSE Assessment(d, TRUE, "BLOCKED", "none")
        BY DEF ResolveDomain
      <3>4. ResolveDomain(d)' = IF Speakers(d)' # {}
              THEN Assessment(d, TRUE, "READY", (CHOOSE r \in Speakers(d) : TRUE)'.provider)
              ELSE Assessment(d, TRUE, "BLOCKED", "none")
        BY DEF ResolveDomain, Assessment
      <3> QED  BY <3>1, <3>2, <3>3, <3>4
    <2>5. ContractRecords' = ContractRecords
      BY <1>1 DEF ContractRecords
    <2>6. ResolveContract' = ResolveContract
      BY <2>5 DEF ResolveContract
    <2> QED  BY <2>3, <2>4, <2>6 DEF Preflight
  <1>3. ContractChecks(o)' = ContractChecks(o)
    BY <1>1 DEF ContractChecks, ContractRecords
  <1>4. \A p : Promoted(p)' = Promoted(p)
    BY <1>1 DEF Promoted, Executed
  <1>5. Checked(o)' = Checked(o)
    <2>1. RawChecks(o)' = RawChecks(o)
      BY DEF RawChecks
    <2>2. PreflightChecks(Preflight)' = PreflightChecks(Preflight)
      BY <1>2 DEF PreflightChecks
    <2>3. InternalChecks(Preflight, o)' = InternalChecks(Preflight, o)
      BY <1>2 DEF InternalChecks
    <2>4. ProviderChecks(Preflight)' = ProviderChecks(Preflight)
      <3> DEFINE Of(a) == First({i \in DOMAIN records : records[i] \in Promoted(a.selected)})
                 Given(S) == {x \in S : /\ x.capability # "deliverable_contract"
                                        /\ Promoted(x.selected) # {}}
      <3>1. \A a : Of(a)' = Of(a)
        BY <1>4 DEF First
      <3>2. Given(Preflight)' = Given(Preflight)
        BY <1>2, <1>4
      <3>3. \A a : records'[Of(a)'] = records[Of(a)]
        BY <3>1
      <3> HIDE DEF Of, Given
      <3> QED  BY <3>2, <3>3 DEF ProviderChecks, Of, Given
    <2> DEFINE executed == InternalChecks(Preflight, o) \cup ProviderChecks(Preflight)
                             \cup ContractChecks(o)
    <2>5. executed' = executed
      BY <1>3, <2>3, <2>4
    <2>6. Gaps(Preflight, executed)' = Gaps(Preflight, executed)
      BY <1>2, <2>5 DEF Gaps
    <2>7. FrameworkChecks(o)' = FrameworkChecks(o)
      BY DEF FrameworkChecks
    <2> HIDE DEF executed
    <2>8. Checked(o) = RawChecks(o) \cup FrameworkChecks(o) \cup PreflightChecks(Preflight)
                         \cup executed \cup Gaps(Preflight, executed)
      BY DEF Checked, executed
    <2>9. Checked(o)' = (RawChecks(o) \cup FrameworkChecks(o) \cup PreflightChecks(Preflight)
                           \cup executed \cup Gaps(Preflight, executed))'
      BY DEF Checked, executed
    <2> QED  BY <2>1, <2>2, <2>5, <2>6, <2>7, <2>8, <2>9
  <1>6. ContractVerdict(o)' = ContractVerdict(o)
    BY <1>3 DEF ContractVerdict
  <1> QED  BY <1>5, <1>6 DEF ValidationOf

LEMMA PreflightStart == PreflightInit => PreflightInv
  <1> SUFFICES ASSUME PreflightInit  PROVE PreflightInv
    OBVIOUS
  <1>1. request.adapters \in Seq(STRING)
    BY RequestFacts DEF PreflightInit
  <1> QED  BY <1>1 DEF PreflightInit, PreflightInv, RecordsAnswer, BundleIsEvaluated, Validated

LEMMA PreflightStep == PreflightInv /\ [PreflightNext]_preflightVars => PreflightInv'
  <1> SUFFICES ASSUME PreflightInv, [PreflightNext]_preflightVars  PROVE PreflightInv'
    OBVIOUS
  <1>1. CASE AskProvider
    <2>1. /\ request \in Requests /\ request' = request /\ asked' = asked + 1
          /\ asked < Len(request.adapters) /\ asked \in 0..Len(request.adapters)
          /\ request.adapters \in Seq(STRING) /\ ~Validated'
      BY <1>1, RequestFacts DEF AskProvider, PreflightInv, Validated
    <2>2. RecordsAnswer'
      <3>1. CASE UNCHANGED records
        BY <2>1, <3>1 DEF PreflightInv, RecordsAnswer
      <3>2. CASE ~UNCHANGED records
        <4> DEFINE c == request.adapters[asked + 1]
        <4>1. c \in DOMAIN ProviderAnswers /\ asked + 1 \in DOMAIN request.adapters
          BY <2>1, PreflightOK
        <4>2. PICK answer \in ProviderAnswers[c] : records' = Append(records, answer)
          BY <1>1, <3>2 DEF AskProvider
        <4>3. /\ answer \in Evidence /\ answer.capability = c
              /\ answer.provider \notin {"none", "internal.core"}
          BY <4>1, <4>2, PreflightOK
        <4>4. /\ records' \in Seq(Evidence) /\ Len(records') = Len(records) + 1
              /\ \A i \in DOMAIN records : records'[i] = records[i]
              /\ records'[Len(records) + 1] = answer
              /\ \A i \in DOMAIN records' : i \in DOMAIN records \/ i = Len(records) + 1
          BY <4>2, <4>3 DEF PreflightInv, RecordsAnswer
        <4>5. \A i \in DOMAIN records : records[i].capability # c
          <5>1. \A k \in 1..asked : request.adapters[k] # c
            BY <2>1, <4>1, PreflightOK
          <5> QED  BY <5>1 DEF PreflightInv, RecordsAnswer
        <4>6. Len(records') <= asked'
          BY <2>1, <4>4 DEF PreflightInv, RecordsAnswer
        <4>7. ASSUME NEW i \in DOMAIN records'
              PROVE  /\ \E k \in 1..asked' : records'[i].capability = request'.adapters[k]
                     /\ records'[i].provider \notin {"none", "internal.core"}
          <5>1. CASE i \in DOMAIN records
            BY <2>1, <4>4, <5>1 DEF PreflightInv, RecordsAnswer
          <5>2. CASE i = Len(records) + 1
            BY <2>1, <4>3, <4>4, <5>2
          <5> QED  BY <4>4, <5>1, <5>2
        <4>8. \A i, j \in DOMAIN records' : records'[i].capability = records'[j].capability => i = j
          BY <4>3, <4>4, <4>5 DEF PreflightInv, RecordsAnswer
        <4> QED  BY <4>4, <4>6, <4>7, <4>8 DEF RecordsAnswer
      <3> QED  BY <3>1, <3>2
    <2> QED  BY <2>1, <2>2 DEF PreflightInv, BundleIsEvaluated
  <1>2. CASE Validate
    <2>1. /\ UNCHANGED <<request, records, asked>>
          /\ \E o \in ObservedArtifacts : bundle' = ValidationOf(o)
      BY <1>2 DEF Validate, ValidationOf
    <2>2. \A o : ValidationOf(o)' = ValidationOf(o)
      BY <2>1, ValidationOfKept
    <2> QED  BY <2>1, <2>2 DEF PreflightInv, RecordsAnswer, BundleIsEvaluated
  <1>3. CASE UNCHANGED preflightVars
    <2>1. \A o : ValidationOf(o)' = ValidationOf(o)
      BY <1>3, ValidationOfKept DEF preflightVars
    <2> QED  BY <1>3, <2>1 DEF preflightVars, PreflightInv, RecordsAnswer, BundleIsEvaluated, Validated
  <1> QED  BY <1>1, <1>2, <1>3 DEF PreflightNext

LEMMA PreflightInvariant == PreflightSpec => []PreflightInv
  BY PreflightStart, PreflightStep, PTL DEF PreflightSpec

-----------------------------------------------------------------------------
LEMMA BundleFacts ==
  ASSUME PreflightInv, Validated
  PROVE  /\ Observed \in ObservedArtifacts /\ Observed \in Observations
         /\ bundle.checks = Checked(Observed)
         /\ bundle.coverage = Coverage(request.applicability, ContractVerdict(Observed))
  <1>1. PICK o \in ObservedArtifacts : bundle = ValidationOf(o)
    BY DEF PreflightInv, BundleIsEvaluated
  <1>2. Observed = o /\ bundle.checks = Checked(o)
        /\ bundle.coverage = Coverage(request.applicability, ContractVerdict(o))
    BY <1>1 DEF ValidationOf, Observed
  <1> QED  BY <1>2, PreflightOK

LEMMA NotCore == "deliverable_contract" \notin Core
  BY DEF Core, Ports

\* A capability has one assessment, that of its kind.
LEMMA AssessedOnce ==
  ASSUME NEW a \in Preflight, PreflightInv
  PROVE  \/ a.capability \in Core /\ a = Resolve(a.capability)
         \/ a.capability \in request.declared /\ a = ResolveDomain(a.capability)
              /\ a.capability \notin Core /\ a.capability # "deliverable_contract"
         \/ a.capability = "deliverable_contract" /\ a = ResolveContract
              /\ a.capability \notin Core
  <1>1. CASE \E c \in Core : a = Resolve(c)
    <2>1. PICK c \in Core : a = Resolve(c)
      BY <1>1
    <2>2. a.capability = c
      BY <2>1 DEF Resolve, Assessment
    <2> QED  BY <2>1, <2>2
  <1>2. CASE \E d \in request.declared : a = ResolveDomain(d)
    <2>1. PICK d \in request.declared : a = ResolveDomain(d)
      BY <1>2
    <2>2. a.capability = d
      BY <2>1 DEF ResolveDomain, Assessment
    <2>3. d \notin Core /\ d # "deliverable_contract"
      BY PreflightOK, RequestFacts DEF PreflightInv
    <2> QED  BY <2>1, <2>2, <2>3
  <1>3. CASE a = ResolveContract
    <2>1. a.capability = "deliverable_contract"
      BY <1>3 DEF ResolveContract, Assessment
    <2> QED  BY <1>3, <2>1, NotCore
  <1> QED  BY <1>1, <1>2, <1>3 DEF Preflight

\* The last of the records' answers to a capability is the only one.
LEMMA OneAnswer ==
  ASSUME PreflightInv, NEW r \in Records, NEW s \in Records, r.capability = s.capability
  PROVE  r = s
  BY DEF PreflightInv, RecordsAnswer, Records

LEMMA RecordFacts ==
  ASSUME PreflightInv, NEW r \in Records
  PROVE  r \in Evidence /\ r.provider \notin {"none", "internal.core"}
  BY DEF PreflightInv, RecordsAnswer, Records

-----------------------------------------------------------------------------
LEMMA AggregateType ==
  ASSUME NEW S
  PROVE  Aggregate(S) \in {"NOT_EXECUTED", "FAIL", "WARN", "PASS"}
  BY DEF Aggregate

\* Every check of the core concludes with a status.
LEMMA InternalType ==
  ASSUME NEW m, NEW o, NEW c \in Core
  PROVE  Internal(m, o)[c] \in CheckStatuses
  <1> DEFINE T == {"NOT_EXECUTED", "FAIL", "WARN", "PASS"}
  <1>1. /\ \A S : Aggregate(S) \in T
        /\ \A n : Rubric(o, n) \in T
        /\ Governance(o) \in T /\ Duplication(o) \in T
    BY AggregateType DEF Rubric, Governance, Duplication
  <1>2. Internal(m, o)[c] \in T
    BY <1>1 DEF Internal, Core, Ports
  <1> QED  BY <1>2 DEF CheckStatuses, Unavailable

LEMMA ContractStatusType ==
  ASSUME NEW k, NEW e, NEW x
  PROVE  ContractStatus(k, e, x) \in {"NOT_EXECUTED", "FAIL", "PASS"}
  BY DEF ContractStatus

-----------------------------------------------------------------------------
\* For every set of inspections, answers and artifacts: a clean validation is never
\* that of something that did not run.
THEOREM NothingIsVacuous == PreflightSpec => []NothingVacuous
  <1>1. ASSUME PreflightInv  PROVE NothingVacuous
    <2> SUFFICES ASSUME Clean
                 PROVE  /\ Observed.raised = {}
                        /\ {Observed.behavior, Observed.contract} \cap {"raised", "ERROR", "FAIL"} = {}
                        /\ request.mode = "CREATE" => Observed.behavior = "PASS"
                        /\ Observed.disposition = "REQUIRED" => Observed.regression = "PASS"
      BY DEF NothingVacuous
    <2> DEFINE o == Observed
    <2>1. o \in Observations /\ bundle.checks = Checked(o)
      BY <1>1, BundleFacts DEF Clean
    <2>2. /\ RawChecks(o) \subseteq bundle.checks
          /\ FrameworkChecks(o) \subseteq bundle.checks
      BY <2>1 DEF Checked
    <2> HIDE DEF o
    <2>3. o.raised = {} /\ RunnersRaised(o) = {}
      <3>1. ASSUME NEW s \in o.raised \cup RunnersRaised(o)  PROVE FALSE
        <4>1. Check("framework", s, TRUE, "ERROR") \in bundle.checks
          BY <2>2 DEF FrameworkChecks
        <4> QED  BY <4>1 DEF Clean, Blocks, Check, Unavailable
      <3> QED  BY <3>1
    <2>4. ASSUME NEW r \in Commands(request.mode, o)
          PROVE  r.status \notin Unavailable \cup {"FAIL"}
      <3>1. Check("raw", r.check, TRUE, r.status) \in bundle.checks
        BY <2>2 DEF RawChecks
      <3> QED  BY <3>1 DEF Clean, Blocks, Check
    <2>5. /\ o.behavior \in RunnerOutcomes /\ o.regression \in RunnerOutcomes
          /\ o.contract \in RunnerOutcomes
      BY <2>1 DEF Observations
    <2>6. /\ o.behavior # "raised" /\ o.contract # "raised"
          /\ o.disposition = "REQUIRED" => o.regression # "raised"
      BY <2>3 DEF RunnersRaised
    <2>7. o.behavior \notin {"ERROR", "FAIL"}
      <3> SUFFICES ASSUME o.behavior \in {"ERROR", "FAIL"}  PROVE FALSE
        OBVIOUS
      <3>1. Result("behavior", o.behavior) \in Commands(request.mode, o)
        BY DEF Commands, RunnerResults, CheckStatuses, Unavailable
      <3> QED  BY <2>4, <3>1 DEF Result, Unavailable
    <2>8. o.contract \notin {"ERROR", "FAIL"}
      <3> SUFFICES ASSUME o.contract \in {"ERROR", "FAIL"}  PROVE FALSE
        OBVIOUS
      <3>1. Result("contract", o.contract) \in Commands(request.mode, o)
        BY DEF Commands, RunnerResults, CheckStatuses, Unavailable
      <3> QED  BY <2>4, <3>1 DEF Result, Unavailable
    <2>9. ASSUME request.mode = "CREATE"  PROVE o.behavior # "absent"
      <3> SUFFICES ASSUME o.behavior = "absent"  PROVE FALSE
        OBVIOUS
      <3>1. Result("behavior", "NOT_EXECUTED") \in Commands(request.mode, o)
        BY <2>9 DEF Commands, MissingRunner
      <3> QED  BY <2>4, <3>1 DEF Result, Unavailable
    <2>10. ASSUME o.disposition = "REQUIRED"  PROVE o.regression \notin {"absent", "ERROR", "FAIL"}
      <3>1. CASE o.regression = "absent"
        <4>1. Result("B07", "NOT_EXECUTED") \in Commands(request.mode, o)
          BY <2>10, <3>1 DEF Commands, MissingRunner
        <4> QED  BY <2>4, <4>1 DEF Result, Unavailable
      <3>2. CASE o.regression \in {"ERROR", "FAIL"}
        <4>1. Result("B07", o.regression) \in Commands(request.mode, o)
          BY <2>10, <3>2 DEF Commands, RunnerResults, CheckStatuses, Unavailable
        <4> QED  BY <2>4, <3>2, <4>1 DEF Result, Unavailable
      <3> QED  BY <3>1, <3>2
    <2> QED  BY <2>3, <2>5, <2>6, <2>7, <2>8, <2>9, <2>10 DEF RunnerOutcomes, o
  <1> QED  BY <1>1, PreflightInvariant, PTL

-----------------------------------------------------------------------------
\* The capabilities of Providers that a capability of the core can be answered by.
PortNames == {"CREATE_CANDIDATE", "AUDIT_SKILL", "CHECK_SKILL_CONFORMANCE",
              "GOVERN_AGENT_INSTRUCTIONS"}

\* For each of them some capability that always applies takes it first.
LEMMA PortsLead ==
  ASSUME NEW c \in Core, NEW i \in DOMAIN Ports[c]
  PROVE  \E x \in Core : /\ 1 \in DOMAIN Ports[x] /\ Ports[x][1] = Ports[c][i]
                         /\ \A m, d : ~NotApplicable(x, m, d)
                         /\ \A j \in DOMAIN Ports[x] : 1 <= j
  <1>1. Ports[c][i] \in PortNames
    BY DEF Core, Ports, PortNames
  <1>2. /\ "skill_trigger_and_description" \in Core
        /\ Ports["skill_trigger_and_description"] = <<"CREATE_CANDIDATE", "CHECK_SKILL_CONFORMANCE">>
        /\ "skill_instruction_quality" \in Core
        /\ Ports["skill_instruction_quality"] = <<"AUDIT_SKILL">>
        /\ "skill_structure" \in Core
        /\ Ports["skill_structure"] = <<"CHECK_SKILL_CONFORMANCE">>
        /\ "agent_instruction_governance" \in Core
        /\ Ports["agent_instruction_governance"] = <<"GOVERN_AGENT_INSTRUCTIONS">>
    BY DEF Core, Ports
  <1>3. \A m, d : \A x \in {"skill_trigger_and_description", "skill_instruction_quality",
                            "skill_structure", "agent_instruction_governance"} :
          ~NotApplicable(x, m, d)
    BY DEF NotApplicable
  <1>4. CASE Ports[c][i] = "CREATE_CANDIDATE"
    BY <1>2, <1>3, <1>4
  <1>5. CASE Ports[c][i] = "AUDIT_SKILL"
    BY <1>2, <1>3, <1>5
  <1>6. CASE Ports[c][i] = "CHECK_SKILL_CONFORMANCE"
    BY <1>2, <1>3, <1>6
  <1>7. CASE Ports[c][i] = "GOVERN_AGENT_INSTRUCTIONS"
    BY <1>2, <1>3, <1>7
  <1> QED  BY <1>1, <1>4, <1>5, <1>6, <1>7 DEF PortNames

\* The one answer of a Provider that spoke for the capability is the one selected.
LEMMA SpeakerSelected ==
  ASSUME PreflightInv, NEW r \in Records, Executed(r)
  PROVE  Speakers(r.capability) = {r}
  BY OneAnswer DEF Speakers

\* The verdict of a Provider that spoke once is promoted, whole, wherever the Provider
\* is selected.
LEMMA VerdictPromoted ==
  ASSUME PreflightInv, NEW r \in Records, Executed(r),
         \A s \in Records : Executed(s) /\ s.provider = r.provider => s = r,
         NEW a \in Preflight, a.selected = r.provider, a.capability # "deliverable_contract"
  PROVE  Check("capability", a.capability, TRUE, r.status) \in ProviderChecks(Preflight)
  <1>1. Promoted(a.selected) = {r}
    BY DEF Promoted
  <1> DEFINE S == {i \in DOMAIN records : records[i] \in Promoted(a.selected)}
  <1>2. PICK k \in DOMAIN records : records[k] = r
    BY DEF Records
  <1>3. S = {k}
    BY <1>1, <1>2 DEF PreflightInv, RecordsAnswer
  <1>4. k \in Nat
    BY DEF PreflightInv, RecordsAnswer
  <1>5. First(S) = k
    BY <1>3, <1>4 DEF First
  <1>6. records[First(S)].status = r.status
    BY <1>2, <1>5
  <1> QED  BY <1>1, <1>6 DEF ProviderChecks

\* For every set of inspections, answers and artifacts: a defect that a Provider
\* reports in a capability that applies blocks the validation.
THEOREM FindingsBlock == PreflightSpec => []FindingBlocks
  <1>1. ASSUME PreflightInv  PROVE FindingBlocks
    <2> SUFFICES ASSUME Validated, DistinctSpeakers, NEW r \in Records,
                        Spoke(r), r.status = "FAIL", Concerned(r)
                 PROVE  \E c \in bundle.checks : /\ c.kind = "capability"
                                                 /\ c.name # "deliverable_contract" /\ Blocks(c)
      BY DEF FindingBlocks
    <2>1. Executed(r) /\ \A s \in Records : Executed(s) /\ s.provider = r.provider => s = r
      BY DEF Executed, Spoke, DistinctSpeakers
    <2>2. Speakers(r.capability) = {r}
      BY <1>1, <2>1, SpeakerSelected
    <2>3. \E a \in Preflight : a.capability # "deliverable_contract" /\ a.selected = r.provider
      <3>1. CASE \E c \in Core : \E i \in DOMAIN Ports[c] : Ports[c][i] = r.capability
        <4>1. PICK x \in Core : /\ 1 \in DOMAIN Ports[x] /\ Ports[x][1] = r.capability
                                /\ ~NotApplicable(x, request.mode, request.declared)
                                /\ \A j \in DOMAIN Ports[x] : 1 <= j
          <5>1. PICK c \in Core : \E i \in DOMAIN Ports[c] : Ports[c][i] = r.capability
            BY <3>1
          <5>2. PICK i \in DOMAIN Ports[c] : Ports[c][i] = r.capability
            BY <5>1
          <5>3. PICK x \in Core : /\ 1 \in DOMAIN Ports[x] /\ Ports[x][1] = Ports[c][i]
                                  /\ \A m, d : ~NotApplicable(x, m, d)
                                  /\ \A j \in DOMAIN Ports[x] : 1 <= j
            BY PortsLead, ZenonT(60)
          <5>4. ~NotApplicable(x, request.mode, request.declared)
            BY <5>3
          <5> QED  BY <5>2, <5>3, <5>4
        <4>2. 1 \in Answered(x) /\ \A j \in Answered(x) : 1 <= j
          BY <2>2, <4>1 DEF Answered
        <4>3. First(Answered(x)) = 1
          <5> DEFINE P(i) == i \in Answered(x) /\ \A j \in Answered(x) : i <= j
          <5>1. \A i : P(i) => i = 1
            BY <4>1, <4>2 DEF Answered, Ports, Core
          <5> QED  BY <4>2, <5>1 DEF First
        <4>4. (CHOOSE s \in Speakers(Ports[x][1]) : TRUE) = r
          BY <2>2, <4>1
        <4>5. Resolve(x) = Assessment(x, TRUE, "READY", r.provider)
          <5>1. ~(First(Answered(x)) > 1) /\ Answered(x) # {}
            BY <4>2, <4>3
          <5>2. (CHOOSE s \in Speakers(Ports[x][First(Answered(x))]) : TRUE) = r
            BY <4>3, <4>4
          <5> QED  BY <4>1, <5>1, <5>2, Zenon DEF Resolve
        <4>6. x # "deliverable_contract"
          BY NotCore
        <4> QED  BY <4>5, <4>6 DEF Assessment, Preflight
      <3>2. CASE r.capability \in request.declared
        <4>1. (CHOOSE s \in Speakers(r.capability) : TRUE) = r
          BY <2>2
        <4>2. ResolveDomain(r.capability) = Assessment(r.capability, TRUE, "READY", r.provider)
          BY <2>2, <4>1 DEF ResolveDomain
        <4>3. r.capability # "deliverable_contract"
          BY <1>1, <3>2, PreflightOK, RequestFacts DEF PreflightInv
        <4> QED  BY <3>2, <4>2, <4>3 DEF Assessment, Preflight
      <3> QED  BY <3>1, <3>2 DEF Concerned
    <2>4. PICK a \in Preflight : a.capability # "deliverable_contract" /\ a.selected = r.provider
      BY <2>3
    <2>5. Check("capability", a.capability, TRUE, "FAIL") \in ProviderChecks(Preflight)
      BY <1>1, <2>1, <2>4, VerdictPromoted
    <2>6. ProviderChecks(Preflight) \subseteq bundle.checks
      BY <1>1, BundleFacts DEF Checked
    <2> QED  BY <2>4, <2>5, <2>6 DEF Check, Blocks
  <1> QED  BY <1>1, PreflightInvariant, PTL

\* A set of numbers that is not empty has a least member.
LEMMA LeastMember ==
  ASSUME NEW S, S # {}, S \subseteq Nat
  PROVE  \E i \in S : \A j \in S : i <= j
  <1> DEFINE R == {p \in Nat \X Nat : p[1] < p[2]}
  <1>1. IsWellFoundedOn(R, Nat)
    BY NatLessThanWellFounded DEF OpToRel
  <1> HIDE DEF R
  <1>2. PICK i \in S : \A j \in S : <<j, i>> \notin R
    BY <1>1, WFMin
  <1>3. \A j \in S : ~(j < i)
    BY <1>2 DEF R
  <1> QED  BY <1>2, <1>3

\* What is executed of a validation.
ExecutedChecks == InternalChecks(Preflight, Observed) \cup ProviderChecks(Preflight)
                    \cup ContractChecks(Observed)

LEMMA CheckedParts ==
  ASSUME PreflightInv, Validated
  PROVE  bundle.checks = RawChecks(Observed) \cup FrameworkChecks(Observed)
                           \cup PreflightChecks(Preflight) \cup ExecutedChecks
                           \cup Gaps(Preflight, ExecutedChecks)
  BY BundleFacts DEF Checked, ExecutedChecks

\* An executed check of the core comes of a capability without a Provider.
LEMMA InternalCheck ==
  ASSUME PreflightInv, Validated, NEW e \in InternalChecks(Preflight, Observed)
  PROVE  \E a \in Preflight :
           /\ a.capability \in Core
           /\ a.selected \in {"none", "internal.core"}
           /\ e = Check("capability", a.capability, TRUE,
                        Internal(request.mode, Observed)[a.capability])
  BY DEF InternalChecks

\* One of a Provider comes of a capability with a Provider.
LEMMA ProviderCheck ==
  ASSUME PreflightInv, Validated, NEW e \in ProviderChecks(Preflight)
  PROVE  \E a \in Preflight :
           /\ a.capability # "deliverable_contract"
           /\ a.selected \notin {"none", "internal.core"}
           /\ \E r \in Records :
                /\ r = records[First({i \in DOMAIN records : records[i] \in Promoted(a.selected)})]
                /\ e = Check("capability", a.capability, TRUE, r.status)
  <1>1. PICK a \in Preflight :
          /\ a.capability # "deliverable_contract" /\ Promoted(a.selected) # {}
          /\ e = Check("capability", a.capability, TRUE,
                   records[First({i \in DOMAIN records : records[i] \in Promoted(a.selected)})].status)
    BY DEF ProviderChecks
  <1> DEFINE S == {i \in DOMAIN records : records[i] \in Promoted(a.selected)}
  <1>2. a.selected \notin {"none", "internal.core"}
    BY <1>1, RecordFacts DEF Promoted
  <1>3. S # {} /\ S \subseteq Nat
    BY <1>1 DEF Promoted, Records, PreflightInv, RecordsAnswer
  <1>4. First(S) \in S
    <2>1. \E i \in S : \A j \in S : i <= j
      BY <1>3, LeastMember
    <2> QED  BY <2>1 DEF First
  <1>5. records[First(S)] \in Records
    BY <1>4 DEF Records
  <1> QED  BY <1>1, <1>2, <1>5

\* The check of the deliverable contract is one.
LEMMA ContractCheck ==
  ASSUME PreflightInv, Validated, NEW e \in ContractChecks(Observed)
  PROVE  /\ e.kind = "capability" /\ e.name = "deliverable_contract"
         /\ e.required = (request.applicability = "REQUIRED")
         /\ e.status \in {"NOT_EXECUTED", "FAIL", "PASS"}
         /\ \A d \in ContractChecks(Observed) : d = e
  <1> DEFINE Of(r) == Check("capability", "deliverable_contract", request.applicability = "REQUIRED",
                            ContractStatus(r.contract, r.execution, Observed.changed))
  <1>1. PICK r \in ContractRecords : e = Of(r)
    BY DEF ContractChecks
  <1>2. \A d \in ContractChecks(Observed) : \E s \in ContractRecords : d = Of(s)
    BY DEF ContractChecks
  <1>3. \A s \in ContractRecords : s = r
    BY OneAnswer DEF ContractRecords
  <1> QED  BY <1>1, <1>2, <1>3, ContractStatusType DEF Check

\* Every executed check is about one assessed capability and has a status.
LEMMA ExecutedCheck ==
  ASSUME PreflightInv, Validated, NEW e \in ExecutedChecks
  PROVE  /\ e.kind = "capability" /\ e.status \in CheckStatuses
         /\ e.required \in BOOLEAN
         /\ e.name # "deliverable_contract" => e.required
         /\ e.name = "deliverable_contract" =>
              e \in ContractChecks(Observed) /\ e.required = (request.applicability = "REQUIRED")
  <1>1. CASE e \in InternalChecks(Preflight, Observed)
    <2>1. PICK a \in Preflight :
            /\ a.capability \in Core
            /\ e = Check("capability", a.capability, TRUE,
                         Internal(request.mode, Observed)[a.capability])
      BY <1>1, InternalCheck
    <2> QED  BY <2>1, InternalType, NotCore DEF Check
  <1>2. CASE e \in ProviderChecks(Preflight)
    <2>1. PICK a \in Preflight, r \in Records :
            /\ a.capability # "deliverable_contract"
            /\ e = Check("capability", a.capability, TRUE, r.status)
      BY <1>2, ProviderCheck
    <2>2. r.status \in CheckStatuses
      BY RecordFacts DEF Evidence, CheckStatuses, Unavailable
    <2> QED  BY <2>1, <2>2 DEF Check
  <1>3. CASE e \in ContractChecks(Observed)
    BY <1>3, ContractCheck DEF CheckStatuses, Unavailable
  <1> QED  BY <1>1, <1>2, <1>3 DEF ExecutedChecks

\* Two executed checks of one capability are the same.
LEMMA ExecutedOnce ==
  ASSUME PreflightInv, Validated, NEW d \in ExecutedChecks, NEW e \in ExecutedChecks,
         d.name = e.name
  PROVE  d = e
  <1>1. CASE e.name = "deliverable_contract"
    BY <1>1, ExecutedCheck, ContractCheck
  <1>2. CASE e.name # "deliverable_contract"
    <2> DEFINE Core1(x) == \E a \in Preflight :
                 /\ a.selected \in {"none", "internal.core"} /\ a.capability = x.name
                 /\ x = Check("capability", a.capability, TRUE,
                              Internal(request.mode, Observed)[a.capability])
               Provided(x) == \E a \in Preflight :
                 /\ a.selected \notin {"none", "internal.core"} /\ a.capability = x.name
                 /\ x = Check("capability", a.capability, TRUE,
                       records[First({i \in DOMAIN records :
                                        records[i] \in Promoted(a.selected)})].status)
    <2>1. \A x \in InternalChecks(Preflight, Observed) : Core1(x)
      BY InternalCheck DEF Check
    <2>2. \A x \in ProviderChecks(Preflight) : Provided(x)
      BY ProviderCheck DEF Check
    <2>3. \A x \in ExecutedChecks : x.name # "deliverable_contract" => Core1(x) \/ Provided(x)
      BY <2>1, <2>2, ContractCheck DEF ExecutedChecks
    <2>4. \A a, b \in Preflight : a.capability = b.capability => a = b
      BY AssessedOnce
    <2> QED  BY <1>2, <2>3, <2>4, ZenonT(60)
  <1> QED  BY <1>1, <1>2

\* For every set of inspections, answers and artifacts: a clean validation has one
\* verdict for each capability that applies, and it is favourable.
THEOREM CapabilitiesAreProven == PreflightSpec => []EveryCapabilityProven
  <1>1. ASSUME PreflightInv  PROVE EveryCapabilityProven
    <2> SUFFICES ASSUME Clean, NEW a \in Preflight, a.required
                 PROVE  \E c \in bundle.checks :
                   /\ c.kind = "capability" /\ c.name = a.capability /\ c.status \in {"PASS", "WARN"}
                   /\ \A d \in bundle.checks : d.kind = "capability" /\ d.name = a.capability => d = c
      BY DEF EveryCapabilityProven
    <2>1. /\ Validated /\ \A c \in bundle.checks : ~Blocks(c)
          /\ bundle.checks = RawChecks(Observed) \cup FrameworkChecks(Observed)
                               \cup PreflightChecks(Preflight) \cup ExecutedChecks
                               \cup Gaps(Preflight, ExecutedChecks)
      BY <1>1, CheckedParts DEF Clean
    <2>2. a.status # "BLOCKED"
      <3> SUFFICES ASSUME a.status = "BLOCKED"  PROVE FALSE
        OBVIOUS
      <3>1. Check("preflight", a.capability, a.required, "NOT_EXECUTED") \in bundle.checks
        BY <2>1 DEF PreflightChecks
      <3> QED  BY <2>1, <3>1 DEF Blocks, Check, Unavailable
    <2>3. PICK e \in ExecutedChecks : e.name = a.capability
      <3> SUFFICES ASSUME \A e \in ExecutedChecks : e.name # a.capability  PROVE FALSE
        OBVIOUS
      <3>1. Check("execution", a.capability, TRUE, "NOT_EXECUTED") \in bundle.checks
        BY <2>1, <2>2 DEF Gaps
      <3> QED  BY <2>1, <3>1 DEF Blocks, Check, Unavailable
    <2>4. e.required
      <3>1. CASE e.name = "deliverable_contract"
        <4>1. a = ResolveContract
          BY <1>1, <2>3, <3>1, AssessedOnce, NotCore
        <4>2. request.applicability = "REQUIRED"
          BY <4>1 DEF ResolveContract, Assessment
        <4> QED  BY <1>1, <2>1, <3>1, <4>2, ExecutedCheck
      <3> QED  BY <1>1, <2>1, <3>1, ExecutedCheck
    <2>5. e.kind = "capability" /\ e.status \in {"PASS", "WARN"}
      BY <1>1, <2>1, <2>4, ExecutedCheck DEF Blocks, CheckStatuses
    <2>6. ASSUME NEW d \in bundle.checks, d.kind = "capability", d.name = a.capability
          PROVE  d = e
      <3>1. d \in ExecutedChecks
        BY <2>1, <2>6 DEF RawChecks, FrameworkChecks, PreflightChecks, Gaps, Check
      <3> QED  BY <1>1, <2>1, <2>3, <2>6, <3>1, ExecutedOnce
    <2> QED  BY <2>1, <2>3, <2>5, <2>6
  <1> QED  BY <1>1, PreflightInvariant, PTL

-----------------------------------------------------------------------------
LEMMA CheckFields ==
  ASSUME NEW k, NEW n, NEW r \in BOOLEAN, NEW s \in CheckStatuses
  PROVE  Check(k, n, r, s).required \in BOOLEAN /\ Check(k, n, r, s).status \in CheckStatuses
  BY DEF Check

\* For every set of inspections, answers and artifacts the variables keep their types.
THEOREM PreflightTypeCorrect == PreflightSpec => []PreflightTypeOK
  <1>1. ASSUME PreflightInv  PROVE PreflightTypeOK
    <2>1. /\ request \in Requests /\ asked \in 0..Len(request.adapters)
          /\ DOMAIN records = 1..Len(records) /\ Len(records) <= asked
          /\ Records \subseteq Evidence
      BY <1>1, RecordFacts DEF PreflightInv, RecordsAnswer
    <2>2. ASSUME Validated
          PROVE  /\ Observed \in ObservedArtifacts
                 /\ bundle.coverage \in {"FULL", "PARTIAL", "COMPATIBILITY"}
                 /\ \A c \in bundle.checks : c.required \in BOOLEAN /\ c.status \in CheckStatuses
      <3>1. Observed \in ObservedArtifacts /\ Observed \in Observations
        BY <1>1, <2>2, BundleFacts
      <3>2. bundle.coverage \in {"FULL", "PARTIAL", "COMPATIBILITY"}
        BY <1>1, <2>2, BundleFacts DEF Coverage
      <3>0. {"PASS", "ERROR", "NOT_EXECUTED"} \subseteq CheckStatuses
        BY DEF CheckStatuses, Unavailable
      <3> DEFINE Typed(c) == c.required \in BOOLEAN /\ c.status \in CheckStatuses
      <3>3. ASSUME NEW c \in RawChecks(Observed)  PROVE Typed(c)
        <4>1. /\ Structure(Observed) \subseteq CheckStatuses
              /\ References(Observed) \subseteq CheckStatuses
          BY <3>1 DEF Structure, References, Observations
        <4>2. \A r \in Commands(request.mode, Observed) : r.status \in CheckStatuses
          BY <3>1 DEF Commands, RunnerResults, Result, Observations, CheckStatuses, Unavailable
        <4>3. ASSUME NEW n, NEW s \in CheckStatuses  PROVE Typed(Check("raw", n, TRUE, s))
          BY <4>3, CheckFields
        <4>4. \/ \E s \in Structure(Observed) : c = Check("raw", "structure", TRUE, s)
              \/ \E s \in References(Observed) : c = Check("raw", "references", TRUE, s)
              \/ \E r \in Commands(request.mode, Observed) :
                   c = Check("raw", r.check, TRUE, r.status)
          BY <3>3 DEF RawChecks
        <4> HIDE DEF Typed
        <4> QED  BY <4>1, <4>2, <4>3, <4>4
      <3>4. \A c \in FrameworkChecks(Observed) : Typed(c)
        BY <3>0, CheckFields DEF FrameworkChecks
      <3>5. ASSUME NEW c \in PreflightChecks(Preflight)  PROVE Typed(c)
        <4>1. \A a \in Preflight : a.required \in BOOLEAN
          <5>1. \A x : Resolve(x).required \in BOOLEAN
            BY DEF Resolve, Assessment
          <5>2. \A x : ResolveDomain(x).required \in BOOLEAN
            BY DEF ResolveDomain, Assessment
          <5>3. ResolveContract.required \in BOOLEAN
            BY DEF ResolveContract, Assessment
          <5> QED  BY <5>1, <5>2, <5>3 DEF Preflight
        <4> QED  BY <3>0, <3>5, <4>1, CheckFields DEF PreflightChecks
      <3>6. \A c \in ExecutedChecks : Typed(c)
        BY <1>1, <2>2, ExecutedCheck
      <3>7. \A c \in Gaps(Preflight, ExecutedChecks) : Typed(c)
        BY <3>0, CheckFields DEF Gaps
      <3> QED  BY <1>1, <2>2, <3>1, <3>2, <3>3, <3>4, <3>5, <3>6, <3>7, CheckedParts
    <2> QED  BY <2>1, <2>2 DEF PreflightTypeOK, Validated, Observed
  <1> QED  BY <1>1, PreflightInvariant, PTL
=============================================================================
