---------------------------- MODULE CoreCapabilities ----------------------------
(***************************************************************************)
(* The tables and the pure rules of the capability checks: which Provider  *)
(* capability answers for which engine capability (engine/capabilities.py), *)
(* which fallback is proven equivalent (engine/equivalence_contracts.py),   *)
(* what the built-in checks conclude (validators/capability_fallbacks.py),  *)
(* when a deliverable contract covers (engine/deliverable_contract.py).     *)
(*                                                                         *)
(* The text analysis is abstracted: an observation says which rubrics find  *)
(* a defect and what the validators and runners return.                     *)
(***************************************************************************)
EXTENDS Naturals, Sequences

Modes == {"AUDIT", "AUDIT_REPAIR", "TARGETED_REPAIR", "CREATE"}

Unavailable == {"ERROR", "SKIP", "NOT_EXECUTED"}
CheckStatuses == {"PASS", "WARN", "FAIL"} \cup Unavailable

-----------------------------------------------------------------------------
(***************************************************************************)
(* Capabilities                                                            *)
(***************************************************************************)

\* The Provider capabilities of a definition, the preferred one first.
Ports ==
  [skill_creation_or_restructure |-> <<"CREATE_CANDIDATE">>,
   skill_instruction_design |-> <<"CREATE_CANDIDATE">>,
   skill_audit_and_simplification |-> <<"AUDIT_SKILL">>,
   skill_structure |-> <<"CHECK_SKILL_CONFORMANCE">>,
   skill_trigger_and_description |-> <<"CREATE_CANDIDATE", "CHECK_SKILL_CONFORMANCE">>,
   skill_instruction_quality |-> <<"AUDIT_SKILL">>,
   skill_rule_governance |-> <<"AUDIT_SKILL">>,
   skill_duplication_and_bloat |-> <<"AUDIT_SKILL">>,
   skill_resource_integrity |-> <<"CHECK_SKILL_CONFORMANCE">>,
   skill_script_integrity |-> <<"CHECK_SKILL_CONFORMANCE">>,
   skill_conformance |-> <<"CHECK_SKILL_CONFORMANCE">>,
   agent_instruction_governance |-> <<"GOVERN_AGENT_INSTRUCTIONS">>,
   regression_validation |-> << >>,
   evidence_collection |-> << >>,
   quality_gate |-> << >>,
   goal_and_responsibility |-> << >>,
   actual_implementation |-> << >>,
   behavioral_validation |-> << >>]

Core == DOMAIN Ports

FallbackLevels == {"FULL", "ALTERNATIVE", "PARTIAL", "NONE"}

DeclaredLevel(c) ==
  IF c \in {"goal_and_responsibility", "actual_implementation", "behavioral_validation"}
  THEN "NONE" ELSE "FULL"

\* complete: the capabilities whose fallback covers every dimension, evidence field
\* and failure meaning of their equivalence contract.
ProvenLevel(c, complete) ==
  IF DeclaredLevel(c) = "FULL" /\ c \notin complete THEN "PARTIAL" ELSE DeclaredLevel(c)

\* kept: internal_fallbacks, the fallbacks the engine is built with; override:
\* fallback_equivalences, the levels the caller that builds it sets, proven or not.
EffectiveLevel(c, complete, kept, override) ==
  CASE override[c] # "unset" -> override[c]
    [] override[c] = "unset" /\ c \in kept -> ProvenLevel(c, complete)
    [] OTHER -> "NONE"

NotApplicable(c, mode, declared) ==
  /\ c \notin declared
  /\ \/ /\ c \in {"skill_creation_or_restructure", "skill_instruction_design"}
        /\ mode = "AUDIT"
     \/ c = "skill_audit_and_simplification" /\ mode \notin {"AUDIT", "AUDIT_REPAIR"}

-----------------------------------------------------------------------------
(***************************************************************************)
(* What validate observes of the artifact                                  *)
(***************************************************************************)

Rubrics == {"trigger", "instructions", "agents", "disclosure", "responsibility"}

Stages == {"rule-analysis", "structure-validation", "reference-validation",
           "capability-fallback-execution"}

RunnerOutcomes == {"absent", "raised", "PASS", "FAIL", "ERROR"}

Observations ==
  [structure : SUBSET CheckStatuses,    \* of the required structure checks
   scripts : SUBSET CheckStatuses,      \* of those about scripts and executables
   references : SUBSET CheckStatuses,
   scriptReferences : SUBSET CheckStatuses,
   defects : SUBSET Rubrics,
   findings : SUBSET {"blocking", "advisory"},  \* duplicate or conflict, or other
   governed : BOOLEAN,                  \* every actionable finding has a decision
   executables : BOOLEAN,               \* the Skill owns executable assets
   raised : SUBSET Stages,              \* the stages that raised
   disposition : {"REQUIRED", "RECOMMENDED", "NOT_APPLICABLE"},
   behavior : RunnerOutcomes, regression : RunnerOutcomes, contract : RunnerOutcomes,
   manifest : {"none", "PASS", "FAIL", "NOT_EXECUTED"},  \* of the candidate
   changed : BOOLEAN]                   \* the artifact differs from the baseline

\* The runners whose absence is itself recorded.
MissingRunner(mode, o) ==
  (IF mode = "CREATE" /\ o.behavior = "absent" THEN {"behavior"} ELSE {})
    \cup (IF o.disposition = "REQUIRED" /\ o.regression = "absent" THEN {"B07"} ELSE {})

Result(check, status) == [check |-> check, status |-> status]

\* The runners that returned a result; regression is run only when required.
RunnerResults(o) ==
  {Result("behavior", s) : s \in {o.behavior} \cap CheckStatuses}
    \cup {Result("contract", s) : s \in {o.contract} \cap CheckStatuses}
    \cup {Result("B07", s) : s \in
            (IF o.disposition = "REQUIRED" THEN {o.regression} ELSE {}) \cap CheckStatuses}

\* commands: what the runners returned, the missing runners, and the check of the
\* candidate's capability manifest.
Commands(mode, o) ==
  RunnerResults(o)
    \cup {Result(r, "NOT_EXECUTED") : r \in MissingRunner(mode, o)}
    \cup {Result("capability_contract", s) : s \in {o.manifest} \ {"none"}}

RunnersRaised(o) ==
  {r \in {"behavior", "contract"} : o[r] = "raised"}
    \cup {r \in {"regression"} : o.disposition = "REQUIRED" /\ o.regression = "raised"}

-----------------------------------------------------------------------------
(***************************************************************************)
(* The built-in checks                                                     *)
(***************************************************************************)

\* _aggregate, of the required results; no result at all passes.
Aggregate(statuses) ==
  CASE statuses \cap Unavailable # {} -> "NOT_EXECUTED"
    [] statuses \cap Unavailable = {} /\ "FAIL" \in statuses -> "FAIL"
    [] statuses \cap (Unavailable \cup {"FAIL"}) = {} /\ "WARN" \in statuses -> "WARN"
    [] OTHER -> "PASS"

Rubric(o, name) == IF name \in o.defects THEN "FAIL" ELSE "PASS"

\* A stage that raised leaves no results.
Structure(o) == IF "structure-validation" \in o.raised THEN {} ELSE o.structure
Scripts(o) == IF "structure-validation" \in o.raised THEN {} ELSE o.scripts
References(o) == IF "reference-validation" \in o.raised THEN {} ELSE o.references
ScriptReferences(o) ==
  IF "reference-validation" \in o.raised THEN {} ELSE o.scriptReferences
Findings(o) == IF "rule-analysis" \in o.raised THEN {} ELSE o.findings

Governance(o) == IF Findings(o) # {} /\ ~o.governed THEN "FAIL" ELSE "PASS"

Duplication(o) ==
  IF "blocking" \in Findings(o) \/ {"instructions", "agents"} \cap o.defects # {}
  THEN "FAIL" ELSE IF "advisory" \in Findings(o) THEN "WARN" ELSE "PASS"

CommandStatuses(mode, o) == {r.status : r \in Commands(mode, o)}

\* Executables that no command of any kind has touched.
Untouched(mode, o) == o.executables /\ Commands(mode, o) = {}

\* execute_internal_capability_fallbacks, as a function from capabilities to statuses.
Internal(mode, o) ==
  LET structure == Aggregate(Structure(o))
      resources == Aggregate(References(o))
      scripts == Aggregate(Scripts(o) \cup ScriptReferences(o))
      trigger == Rubric(o, "trigger")
      instructions == Rubric(o, "instructions")
      agents == Rubric(o, "agents")
      disclosure == Rubric(o, "disclosure")
      commands == CommandStatuses(mode, o)
      exercised(status) == IF Untouched(mode, o) THEN "NOT_EXECUTED" ELSE status
  IN [c \in Core |->
       CASE c = "skill_creation_or_restructure" ->
              Aggregate({structure, trigger, instructions, resources, scripts, agents,
                         disclosure})
         [] c = "skill_instruction_design" ->
              Aggregate({trigger, instructions, agents, disclosure})
         [] c = "skill_audit_and_simplification" ->
              Aggregate({instructions, Governance(o), Duplication(o), agents})
         [] c = "skill_structure" -> structure
         [] c = "skill_trigger_and_description" -> trigger
         [] c = "skill_instruction_quality" -> instructions
         [] c = "skill_rule_governance" -> Governance(o)
         [] c = "skill_duplication_and_bloat" -> Duplication(o)
         [] c = "skill_resource_integrity" -> resources
         [] c = "skill_script_integrity" -> scripts
         [] c = "skill_conformance" ->
              Aggregate(Structure(o) \cup References(o) \cup {trigger})
         [] c = "agent_instruction_governance" -> agents
         [] c = "goal_and_responsibility" -> Rubric(o, "responsibility")
         [] c = "actual_implementation" ->
              exercised(Aggregate(Structure(o) \cup References(o) \cup commands))
         [] c = "behavioral_validation" -> exercised(Aggregate({trigger} \cup commands))
         [] c = "regression_validation" ->
              IF o.disposition = "REQUIRED"
              THEN Aggregate({r.status : r \in {x \in Commands(mode, o) : x.check = "B07"}})
              ELSE "PASS"
         [] c = "evidence_collection" ->
              IF Structure(o) \cup References(o) \cup commands = {}
              THEN "NOT_EXECUTED" ELSE "PASS"
         [] c = "quality_gate" -> "PASS"]

-----------------------------------------------------------------------------
(***************************************************************************)
(* The deliverable contract                                                *)
(***************************************************************************)

Contracts ==
  [identity : {"current", "stale"},  \* origin, inspection, nonce, provider
   applies : {"yes", "no", "unknown"},
   defects : SUBSET {"evidence", "paths", "conflict", "undelivered", "unproved"}]

\* validate_deliverable_contract; changed: the digest is not that of the artifact.
ContractStatus(k, execution, changed) ==
  IF execution # "EXECUTED" \/ k.identity = "stale" \/ changed \/ k.applies = "unknown"
  THEN "NOT_EXECUTED"
  ELSE IF k.applies = "no"
  THEN IF "evidence" \in k.defects THEN "NOT_EXECUTED" ELSE "PASS"
  ELSE IF "paths" \in k.defects THEN "NOT_EXECUTED"
  ELSE IF {"conflict", "undelivered"} \cap k.defects # {} THEN "FAIL"
  ELSE IF "unproved" \in k.defects THEN "NOT_EXECUTED" ELSE "PASS"

Applicabilities == {"REQUIRED", "OPTIONAL", "NOT_REQUIRED", "COMPATIBILITY"}

Coverage(applicability, status) ==
  CASE applicability = "NOT_REQUIRED" -> "FULL"
    [] applicability = "COMPATIBILITY" -> "COMPATIBILITY"
    [] OTHER -> IF status = "PASS" THEN "FULL" ELSE "PARTIAL"
=============================================================================
