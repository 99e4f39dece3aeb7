--------------------------- MODULE CapabilityPreflight ---------------------------
(***************************************************************************)
(* How the answers of Providers and the built-in checks become the evidence *)
(* of a validation: inspect asks the gateway for each capability in turn    *)
(* and keeps a record of each answer; validate, later and on the artifact,  *)
(* resolves every capability to a Provider, the core or a fallback          *)
(* (build_capability_preflight), executes the built-in checks, promotes the *)
(* Providers' verdicts and closes the gaps (engine/capabilities.py,         *)
(* engine/orchestrator.py).                                                *)
(***************************************************************************)
EXTENDS CoreCapabilities

CONSTANTS
  Requests,          \* what an inspection may be asked for and runs with
  ProviderAnswers,   \* [capability -> the answers its Providers may give]
  ObservedArtifacts, \* a subset of Observations
  Domains            \* open capabilities a Skill may declare

\* A request: adapters is the sequence of (sorted) capabilities the gateway offers,
\* declared the required_capabilities of the Skill, complete, kept and override as in
\* CoreCapabilities.
RequestType ==
  [mode : Modes, adapters : Seq(STRING), declared : SUBSET Domains,
   applicability : Applicabilities, complete : SUBSET Core, kept : SUBSET Core,
   override : [Core -> FallbackLevels \cup {"unset"}]]

NoContract == [identity |-> "none", applies |-> "none", defects |-> {}]

\* ProviderEvidence.
Evidence ==
  [capability : STRING, provider : STRING, status : {"PASS", "FAIL", "NOT_EXECUTED"},
   available : BOOLEAN, execution : {"NOT_STARTED", "EXECUTED", "FAILED"},
   valid : BOOLEAN, contract : Contracts \cup {NoContract}]

\* The provider of a record that no Provider answered.
NoProvider == "optional.none"

\* The adapters are the set gateway.capabilities, sorted; the gateway answers for the
\* capability it is asked for; "none" and "internal.core" stand for no Provider and for
\* the core, and are the id of none; open capabilities are those without a definition.
ASSUME PreflightOK ==
  /\ Requests \subseteq RequestType
  /\ \A r \in Requests :
       /\ \A i \in DOMAIN r.adapters : r.adapters[i] \in DOMAIN ProviderAnswers
       /\ \A i, j \in DOMAIN r.adapters : r.adapters[i] = r.adapters[j] => i = j
  /\ \A c \in DOMAIN ProviderAnswers : \A r \in ProviderAnswers[c] :
       r \in Evidence /\ r.capability = c /\ r.provider \notin {"none", "internal.core"}
  /\ ObservedArtifacts \subseteq Observations
  /\ Domains \cap (Core \cup {"deliverable_contract"}) = {}

VARIABLES
  request,  \* the inspection
  records,  \* its provider_evidence so far, a sequence
  asked,    \* how many of the adapters' capabilities were asked
  bundle    \* NotValidated, or the evidence of the validation

preflightVars == <<request, records, asked, bundle>>

NotValidated == [checks |-> {}]

PreflightInit ==
  /\ request \in Requests
  /\ records = << >> /\ asked = 0 /\ bundle = NotValidated

\* _inspect_provider_evidence: no deliverable contract is asked for when the
\* inspection does not require one.
AskProvider ==
  /\ bundle = NotValidated /\ asked < Len(request.adapters)
  /\ LET c == request.adapters[asked + 1] IN
     IF c = "DELIVERABLE_CONTRACT" /\ request.applicability = "NOT_REQUIRED"
     THEN UNCHANGED records
     ELSE \E answer \in ProviderAnswers[c] : records' = Append(records, answer)
  /\ asked' = asked + 1
  /\ UNCHANGED <<request, bundle>>

-----------------------------------------------------------------------------
(***************************************************************************)
(* build_capability_preflight                                              *)
(***************************************************************************)

Records == {records[i] : i \in DOMAIN records}

\* Mutant of Executed: a Provider that reports a defect has not executed.
ExecutedPassing(r) == r.status = "PASS" /\ r.execution = "EXECUTED" /\ r.valid

Executed(r) == r.status \in {"PASS", "FAIL"} /\ r.execution = "EXECUTED" /\ r.valid

Speakers(capability) == {r \in Records : r.capability = capability /\ Executed(r)}

\* Ports of c that an executed Provider answers.
Answered(c) == {i \in DOMAIN Ports[c] : Speakers(Ports[c][i]) # {}}

First(S) == CHOOSE i \in S : \A j \in S : i <= j

Assessment(c, required, status, selected) ==
  [capability |-> c, required |-> required, status |-> status, selected |-> selected]

Resolve(c) ==
  LET failed == \E r \in Records : /\ \E i \in DOMAIN Ports[c] : Ports[c][i] = r.capability
                                   /\ r.available /\ r.execution = "FAILED"
      level == EffectiveLevel(c, request.complete, request.kept, request.override)
  IN CASE NotApplicable(c, request.mode, request.declared) ->
            Assessment(c, FALSE, "NOT_APPLICABLE", "none")
       [] ~NotApplicable(c, request.mode, request.declared) /\ Answered(c) # {} ->
            LET i == First(Answered(c))
                r == CHOOSE r \in Speakers(Ports[c][i]) : TRUE
            IN Assessment(c, TRUE, IF i > 1 THEN "FALLBACK" ELSE "READY", r.provider)
       [] OTHER ->
            IF ~failed THEN Assessment(c, TRUE, "READY", "internal.core")
            ELSE Assessment(c, TRUE, IF level \in {"FULL", "ALTERNATIVE"}
                                     THEN "FALLBACK" ELSE "BLOCKED", "none")

ResolveDomain(d) ==
  IF Speakers(d) # {}
  THEN Assessment(d, TRUE, "READY", (CHOOSE r \in Speakers(d) : TRUE).provider)
  ELSE Assessment(d, TRUE, "BLOCKED", "none")

ContractRecords == {r \in Records : r.capability = "DELIVERABLE_CONTRACT"}

ResolveContract ==
  LET required == request.applicability = "REQUIRED"
      given == {r \in ContractRecords : /\ r.execution = "EXECUTED" /\ r.valid
                                        /\ r.contract # NoContract}
  IN CASE request.applicability = "NOT_REQUIRED" ->
            Assessment("deliverable_contract", FALSE, "NOT_APPLICABLE", "none")
       [] request.applicability # "NOT_REQUIRED" /\ given # {} ->
            Assessment("deliverable_contract", required, "READY",
                       (CHOOSE r \in given : TRUE).provider)
       [] OTHER -> Assessment("deliverable_contract", required, "BLOCKED", "none")

Preflight ==
  {Resolve(c) : c \in Core} \cup {ResolveDomain(d) : d \in request.declared}
    \cup {ResolveContract}

-----------------------------------------------------------------------------
(***************************************************************************)
(* The evidence of validate                                                *)
(***************************************************************************)

Check(kind, name, required, status) ==
  [kind |-> kind, name |-> name, required |-> required, status |-> status]

\* Mutant of FrameworkChecks: only the runners are accounted for.
FrameworkChecksOfRunners(o) ==
  {Check("framework", s, TRUE, "ERROR") : s \in RunnersRaised(o)}

\* _framework_failure: a stage or a runner that raised.
FrameworkChecks(o) ==
  {Check("framework", s, TRUE, "ERROR") : s \in o.raised \cup RunnersRaised(o)}

RawChecks(o) ==
  {Check("raw", "structure", TRUE, s) : s \in Structure(o)}
    \cup {Check("raw", "references", TRUE, s) : s \in References(o)}
    \cup {Check("raw", r.check, TRUE, r.status) : r \in Commands(request.mode, o)}

\* capability_preflight_evidence
PreflightChecks(assessed) ==
  {Check("preflight", a.capability, a.required,
         IF a.status = "BLOCKED" THEN "NOT_EXECUTED" ELSE "PASS") : a \in assessed}

\* Mutant of InternalChecks: the built-in checks count beside the Providers'.
InternalChecksAll(assessed, o) ==
  LET status == Internal(request.mode, o) IN
  {Check("capability", a.capability, TRUE, status[a.capability]) :
     a \in {x \in assessed : x.capability \in Core /\ x.required}}

\* The built-in checks count where the core or a fallback of it was selected.
InternalChecks(assessed, o) ==
  IF "capability-fallback-execution" \in o.raised THEN {}
  ELSE LET status == Internal(request.mode, o) IN
       {Check("capability", a.capability, TRUE, status[a.capability]) :
          a \in {x \in assessed : /\ x.capability \in Core
                                   /\ \/ x.status = "FALLBACK" /\ x.selected = "none"
                                      \/ x.selected = "internal.core"}}

\* The executed records of a Provider.
Promoted(p) == {r \in Records : r.provider = p /\ Executed(r)}

\* provider_capability_evidence: the record is looked up by the Provider's id, and
\* the first one is taken.
ProviderChecks(assessed) ==
  {Check("capability", a.capability, TRUE,
         records[First({i \in DOMAIN records : records[i] \in Promoted(a.selected)})].status) :
     a \in {x \in assessed : /\ x.capability # "deliverable_contract"
                              /\ Promoted(x.selected) # {}}}

ContractChecks(o) ==
  {Check("capability", "deliverable_contract", request.applicability = "REQUIRED",
         ContractStatus(r.contract, r.execution, o.changed)) :
     r \in {x \in ContractRecords : x.contract # NoContract}}

\* capability_execution_gap_evidence
Gaps(assessed, executed) ==
  {Check("execution", a.capability, TRUE, "NOT_EXECUTED") :
     a \in {x \in assessed : /\ x.required /\ x.status # "BLOCKED"
                              /\ \A e \in executed : e.name # x.capability}}

Checked(o) ==
  LET assessed == Preflight
      executed == InternalChecks(assessed, o) \cup ProviderChecks(assessed)
                    \cup ContractChecks(o)
  IN RawChecks(o) \cup FrameworkChecks(o) \cup PreflightChecks(assessed) \cup executed
       \cup Gaps(assessed, executed)

ContractVerdict(o) ==
  IF ContractChecks(o) = {} THEN "none"
  ELSE (CHOOSE c \in ContractChecks(o) : TRUE).status

\* A CREATE has no baseline and nothing that Providers have seen.
Validate ==
  /\ bundle = NotValidated /\ asked = Len(request.adapters)
  /\ \E o \in ObservedArtifacts :
       /\ request.mode = "AUDIT" => ~o.changed
       /\ request.mode = "CREATE" => o.changed
       /\ bundle' = [observed |-> o, checks |-> Checked(o),
                     coverage |-> Coverage(request.applicability, ContractVerdict(o))]
  /\ UNCHANGED <<request, records, asked>>

PreflightNext == AskProvider \/ Validate

PreflightSpec == PreflightInit /\ [][PreflightNext]_preflightVars

-----------------------------------------------------------------------------
\* Types of the variables of this module.
PreflightTypeOK ==
  /\ request \in Requests
  /\ asked \in 0..Len(request.adapters)
  /\ DOMAIN records = 1..Len(records) /\ Len(records) <= asked
  /\ Records \subseteq Evidence
  /\ bundle # NotValidated =>
       /\ bundle.observed \in ObservedArtifacts
       /\ bundle.coverage \in {"FULL", "PARTIAL", "COMPATIBILITY"}
       /\ \A c \in bundle.checks : c.required \in BOOLEAN /\ c.status \in CheckStatuses

Validated == bundle # NotValidated
Observed == bundle.observed

Blocks(c) == c.required /\ c.status \in Unavailable \cup {"FAIL"}

\* No required check stands in the way of a pass.
Clean == Validated /\ \A c \in bundle.checks : ~Blocks(c)

\* Every capability that applies is established exactly once: a clean validation has
\* one verdict for it, from the core on this artifact or from a Provider that
\* executed, never two, and none that a stage which raised should have produced.
EveryCapabilityProven ==
  Clean => \A a \in Preflight : a.required =>
             \E c \in bundle.checks :
               /\ c.kind = "capability" /\ c.name = a.capability /\ c.status \in {"PASS", "WARN"}
               /\ \A d \in bundle.checks :
                    d.kind = "capability" /\ d.name = a.capability => d = c

\* A Provider ran and gave valid evidence with a verdict.
Spoke(r) == r.status \in {"PASS", "FAIL"} /\ r.execution = "EXECUTED" /\ r.valid

\* Each Provider that spoke did so for one capability.
DistinctSpeakers ==
  \A r, s \in Records : Spoke(r) /\ Spoke(s) /\ r.provider = s.provider => r = s

Concerned(r) ==
  \/ \E c \in Core : /\ \E i \in DOMAIN Ports[c] : Ports[c][i] = r.capability
                     /\ ~NotApplicable(c, request.mode, request.declared)
  \/ r.capability \in request.declared

\* A defect a Provider reports in a capability that applies blocks the validation: no
\* fallback, no check of the core and no other Provider takes its place.  When one
\* Provider has answered for two capabilities the look-up by its id may hide one.
FindingBlocks ==
  Validated /\ DistinctSpeakers =>
    \A r \in Records : Spoke(r) /\ r.status = "FAIL" /\ Concerned(r) =>
      \E c \in bundle.checks : c.kind = "capability" /\ c.name # "deliverable_contract" /\ Blocks(c)

\* A pass is never the pass of something that did not run: no stage raised, no runner
\* raised or failed to start, a creation has a behavior test and a required regression
\* check was executed.
NothingVacuous ==
  Clean =>
    /\ Observed.raised = {}
    /\ {Observed.behavior, Observed.contract} \cap {"raised", "ERROR", "FAIL"} = {}
    /\ request.mode = "CREATE" => Observed.behavior = "PASS"
    /\ Observed.disposition = "REQUIRED" => Observed.regression = "PASS"

\* Owned executables without an executed behavior, regression or contract command
\* leave a required check that was not executed.
ExecutablesExercised ==
  Validated /\ Observed.executables /\ RunnerResults(Observed) = {} =>
    \E c \in bundle.checks : c.required /\ c.status \in Unavailable
=============================================================================
