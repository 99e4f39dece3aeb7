------------------------------- MODULE Pipeline -------------------------------
(***************************************************************************)
(* engine/orchestrator.py, driven by the phase commands of                 *)
(* scripts/skill_engineering.py: inspect, validate, confirm and apply, each *)
(* a process of its own that reads the documents its predecessors wrote.   *)
(* One command runs at a time (SafeApply has several applies at once); the *)
(* owner of the Skill edits the source and a runner or another program     *)
(* changes the staged trees between any two of its steps.                  *)
(*                                                                         *)
(* An operation is one inspection with the validation, the outcome and the *)
(* apply that follow from it.  A tree is its content (what digest_tree     *)
(* tells apart), a check is the set of contents that pass it.              *)
(***************************************************************************)
EXTENDS GateRules, Sequences

CONSTANTS
  Operations,       \* the operations on the Skill
  Contents,         \* tree contents
  NoTree,           \* nothing at the path
  NoDoc,            \* the document has not been written
  Modes,            \* SUBSET Intents, the modes of the run
  Applicabilities,  \* the deliverable_contract_applicability offered
  Dispositions,     \* the regression_disposition of the DecisionRecord
  RunnerSets,       \* which runners a validate command may be given
  Passes,           \* [Aspects -> SUBSET Contents]: contents that pass a check
  Preserving,       \* pairs <<b, c>>: c keeps every capability of b
  CorePolicy,       \* load_gate_policy
  Bound             \* [{"edit", "tamper", "fault"} -> Nat]

Runners == {"behavior", "B07", "contract"}
Aspects == Runners \cup {"structure", "references", "deliverables"}

ASSUME PipelineOK ==
  /\ Runners \cup {"structure", "references", "deliverable", "capability", "B10",
                   "framework"} \subseteq Checks
  /\ "skill" \in Subjects
  /\ (SignalChecks \cup BloatChecks \cup DOMAIN CheckPolicy)
       \cap (Runners \cup {"references", "deliverable", "capability", "B10",
                           "framework"}) = {}
  /\ "structure" \notin SignalChecks \cup BloatChecks
  /\ Modes \subseteq Intents
  /\ Applicabilities \subseteq {"REQUIRED", "OPTIONAL", "NOT_REQUIRED", "COMPATIBILITY"}
  /\ Dispositions \subseteq {"REQUIRED", "RECOMMENDED", "NOT_APPLICABLE"}
  /\ RunnerSets \subseteq SUBSET Runners
  /\ Passes \in [Aspects -> SUBSET Contents]
  /\ Preserving \subseteq Contents \X Contents
  /\ CorePolicy \in Policies
  /\ Bound \in [{"edit", "tamper", "fault"} -> Nat]
  /\ NoTree \notin Contents /\ NoDoc \notin Contents

Trees == Contents \cup {NoTree}

Statuses == {"none", "PASS", "WARN", "FAIL", "ERROR", "NOT_EXECUTED"}

\* InspectionBundle; described is the content the Providers saw.
Inspections ==
  [mode : Intents, baseline : Trees, applicability :
     {"REQUIRED", "OPTIONAL", "NOT_REQUIRED", "COMPATIBILITY"},
   described : Trees, contract : BOOLEAN, capable : BOOLEAN]

\* ValidationBundle; tested is the content each piece of evidence is about.
Bundles ==
  [artifact : Trees, disposition : {"REQUIRED", "RECOMMENDED", "NOT_APPLICABLE"},
   runners : SUBSET Runners, requested : BOOLEAN, unchanged : BOOLEAN,
   status : [Checks -> Statuses], tested : SUBSET Trees]

Outcomes ==
  [confirmed : BOOLEAN, unchanged : BOOLEAN,
   verdict : {"PASS", "FAIL", "INCOMPLETE", "ERROR"}, formal : BOOLEAN,
   authorized : BOOLEAN,
   lifecycle : {"AUDIT_INCOMPLETE", "AUDIT_COMPLETE_VALID", "AUDIT_COMPLETE_FINDINGS",
                "AUDIT_COMPLETE_BLOCKING_FINDINGS", "UNCHANGED_VALIDATED",
                "READY_TO_APPLY", "VALIDATED"}]

\* What stands for a missing document is none of the documents.
ASSUME NoDocument == NoDoc \notin Inspections \cup Bundles \cup Outcomes

Steps == {"providers", "stage", "behavior", "B07", "contract", "recheck", "manifest",
          "capability", "collect", "source", "artifact", "gate", "candidate",
          "verify", "publish"}

VARIABLES
  source,      \* the tree at the path of the Skill
  staged,      \* [Operations -> Trees]: the staged candidates
  inspection,  \* [Operations -> Inspections \cup {NoDoc}]
  validation,  \* [Operations -> Bundles \cup {NoDoc}]
  outcome,     \* [Operations -> Outcomes \cup {NoDoc}]
  cmd,         \* the running command
  log,         \* [Operations -> Seq([before, after, raced])]: what was applied
  left         \* what the environment may still do

docs == <<inspection, validation, outcome>>
vars == <<source, staged, docs, cmd, log, left>>

\* A command before its first step; agrees: the confirmation names the artifact.
Command(op, v, step, draft, agrees) ==
  [op |-> op, by |-> v, at |-> step, copy |-> NoTree, draft |-> draft,
   unchanged |-> TRUE, agrees |-> agrees, raced |-> FALSE]

Init ==
  /\ source \in Trees
  /\ staged = [v \in Operations |-> NoTree]
  /\ inspection = [v \in Operations |-> NoDoc]
  /\ validation = [v \in Operations |-> NoDoc]
  /\ outcome = [v \in Operations |-> NoDoc]
  /\ cmd = NoDoc
  /\ log = [v \in Operations |-> << >>]
  /\ left = Bound

Idle == cmd = NoDoc
At(v, step) == ~Idle /\ cmd.by = v /\ cmd.at = step
Advance(step) == cmd' = [cmd EXCEPT !.at = step]
Raise == cmd' = NoDoc

Spend(what) == left[what] > 0 /\ left' = [left EXCEPT ![what] = @ - 1]
Used(what) == Bound[what] - left[what]

Mode(v) == inspection[v].mode
IsAudit(v) == Mode(v) = "AUDIT"

\* Mutant of SourceMatches: only an audit compares the source again.
SourceMatchesInAudit(v) == IsAudit(v) => source = inspection[v].baseline

\* Mutant of SourceMatches: an audit, which changes nothing, does not.
SourceMatchesForChange(v) ==
  Mode(v) \in {"AUDIT", "CREATE"} \/ source = inspection[v].baseline

\* _source_matches_validation, verify_source_unchanged, _verify_inspection_fresh
SourceMatches(v) == Mode(v) = "CREATE" \/ source = inspection[v].baseline

-----------------------------------------------------------------------------
(***************************************************************************)
(* inspect                                                                 *)
(***************************************************************************)

StartInspect(v, mode, app) ==
  /\ Idle /\ inspection[v] = NoDoc
  /\ mode = "CREATE" \/ source # NoTree
  /\ cmd' = Command("inspect", v, "providers",
       [mode |-> mode, baseline |-> IF mode = "CREATE" THEN NoTree ELSE source,
        applicability |-> app, described |-> NoTree,
        contract |-> FALSE, capable |-> FALSE], FALSE)
  /\ UNCHANGED <<source, staged, docs, log, left>>

\* The Providers read the tree after its digest was taken.
AskProviders(v, contract, capable) ==
  /\ At(v, "providers")
  /\ contract => cmd.draft.applicability # "NOT_REQUIRED" /\ cmd.draft.mode # "CREATE"
  /\ inspection' = [inspection EXCEPT ![v] =
       [cmd.draft EXCEPT
          !.described = IF cmd.draft.mode = "CREATE" THEN NoTree ELSE source,
          !.contract = contract, !.capable = capable]]
  /\ Raise
  /\ UNCHANGED <<source, staged, validation, outcome, log, left>>

-----------------------------------------------------------------------------
(***************************************************************************)
(* validate                                                                *)
(***************************************************************************)

StartValidate(v, disposition, runners, requested) ==
  /\ Idle /\ inspection[v] # NoDoc /\ validation[v] = NoDoc
  /\ SourceMatches(v)
  /\ cmd' = Command("validate", v, "stage",
       [artifact |-> NoTree, disposition |-> disposition, runners |-> runners,
        requested |-> requested, unchanged |-> TRUE,
        status |-> [c \in Checks |-> "none"], tested |-> {}], FALSE)
  /\ UNCHANGED <<source, staged, docs, log, left>>

\* prepare_audit_snapshot copies the source without looking at its digest.
TakeSnapshot(v) ==
  /\ At(v, "stage") /\ IsAudit(v)
  /\ cmd' = [cmd EXCEPT !.copy = source, !.at = "behavior"]
  /\ UNCHANGED <<source, staged, docs, log, left>>

\* stage_candidate copies what Codex wrote, if the source is unchanged.
StageCandidate(v, candidate) ==
  /\ At(v, "stage") /\ ~IsAudit(v)
  /\ IF SourceMatches(v)
     THEN staged' = [staged EXCEPT ![v] = candidate] /\ Advance("behavior")
     ELSE Raise /\ UNCHANGED staged
  /\ UNCHANGED <<source, docs, log, left>>

\* Mutant of ExecutionTree: the runners of a change run in the source.
ExecutionTreeSource(v) == IF IsAudit(v) THEN cmd.copy ELSE source

ExecutionTree(v) == IF IsAudit(v) THEN cmd.copy ELSE staged[v]

\* What the draft says of a check, and about which tree.
Note(draft, check, status, tree) ==
  [draft EXCEPT !.status[check] = status, !.tested = @ \cup {tree}]

AfterRunner(v, r) ==
  CASE r = "behavior" -> "B07"
    [] r = "B07"      -> "contract"
    [] r = "contract" -> IF IsAudit(v) THEN "recheck" ELSE "manifest"

Executed(r) ==
  r \in cmd.draft.runners /\ (r = "B07" => cmd.draft.disposition = "REQUIRED")

\* A runner that was not given counts as not executed where it is mandatory.
Mandatory(v, r) ==
  \/ r = "behavior" /\ Mode(v) = "CREATE"
  \/ r = "B07" /\ cmd.draft.disposition = "REQUIRED"

\* In an audit the source is compared again after each runner.
SourceChecked(v, draft) ==
  [draft EXCEPT !.unchanged = @ /\ (IsAudit(v) => source = inspection[v].baseline)]

Run(v, r) ==
  /\ At(v, r) /\ Executed(r)
  /\ \/ /\ cmd' = [cmd EXCEPT !.at = AfterRunner(v, r), !.draft = SourceChecked(v,
             Note(@, r, IF ExecutionTree(v) \in Passes[r] THEN "PASS" ELSE "FAIL",
                  ExecutionTree(v)))]
        /\ UNCHANGED left
     \/ /\ Spend("fault")
        /\ cmd' = [cmd EXCEPT !.at = AfterRunner(v, r), !.draft = SourceChecked(v,
             [@ EXCEPT !.status[r] = "ERROR"])]
  /\ UNCHANGED <<source, staged, docs, log>>

SkipRunner(v, r) ==
  /\ At(v, r) /\ ~Executed(r)
  /\ cmd' = [cmd EXCEPT !.at = AfterRunner(v, r),
       !.draft.status[r] = IF Mandatory(v, r) THEN "NOT_EXECUTED" ELSE "none"]
  /\ UNCHANGED <<source, staged, docs, log, left>>

Recheck(v) ==
  /\ At(v, "recheck")
  /\ cmd' = [cmd EXCEPT !.at = "manifest", !.draft = SourceChecked(v, @)]
  /\ UNCHANGED <<source, staged, docs, log, left>>

ArtifactTree(v) == IF IsAudit(v) THEN source ELSE staged[v]

\* build_artifact_manifest: from here on the validation is bound to this digest.
BuildManifest(v) ==
  /\ At(v, "manifest")
  /\ cmd' = [cmd EXCEPT !.at = "capability", !.draft.artifact = ArtifactTree(v)]
  /\ UNCHANGED <<source, staged, docs, log, left>>

\* Mutant of CapabilityStatus: the preservation status is taken for it.
CapabilityStatusPreserved(v, tree) ==
  IF Mode(v) = "CREATE" \/ <<inspection[v].described, tree>> \in Preserving
  THEN "CAPABILITY_PRESERVED" ELSE "CAPABILITY_REGRESSION"

\* The Capability Provider describes the tree the runners have run in.
CapabilityStatus(v, tree) ==
  IF Mode(v) = "CREATE" \/ <<inspection[v].described, tree>> \in Preserving
  THEN "PASS" ELSE "FAIL"

CompareCapabilities(v) ==
  /\ At(v, "capability")
  /\ \/ /\ inspection[v].capable
        /\ cmd' = [cmd EXCEPT !.at = "collect", !.draft = Note(@, "capability",
             CapabilityStatus(v, ExecutionTree(v)), ExecutionTree(v))]
        /\ UNCHANGED left
     \/ /\ inspection[v].capable
        /\ Spend("fault")
        /\ cmd' = [cmd EXCEPT !.at = "collect",
                              !.draft.status["capability"] = "NOT_EXECUTED"]
     \/ /\ ~inspection[v].capable
        /\ Advance("collect") /\ UNCHANGED left
  /\ UNCHANGED <<source, staged, docs, log>>

\* validate_deliverable_contract and the preflight: the contract the Provider
\* gave at inspection must name the digest of the tree that is validated.
DeliverableStatus(v, artifact) ==
  IF inspection[v].applicability = "NOT_REQUIRED" THEN "none"
  ELSE IF ~inspection[v].contract \/ inspection[v].baseline # artifact THEN "NOT_EXECUTED"
  ELSE IF inspection[v].described \in Passes["deliverables"] THEN "PASS" ELSE "FAIL"

\* The rest of the evidence, and the bundle written to disk.
CollectEvidence(v) ==
  LET tree == ArtifactTree(v)
      bundle == [cmd.draft EXCEPT
        !.status["deliverable"] = DeliverableStatus(v, cmd.draft.artifact),
        !.status["references"] = IF tree \in Passes["references"] THEN "PASS" ELSE "WARN",
        !.status["B10"] = IF ~IsAudit(v) THEN "none"
                          ELSE IF cmd.draft.unchanged THEN "PASS" ELSE "FAIL"]
  IN /\ At(v, "collect")
     /\ \/ /\ validation' = [validation EXCEPT ![v] = Note(bundle, "structure",
                IF tree \in Passes["structure"] THEN "PASS" ELSE "FAIL", tree)]
           /\ UNCHANGED left
        \/ /\ Spend("fault")
           /\ validation' = [validation EXCEPT ![v] =
                [bundle EXCEPT !.status["framework"] = "ERROR"]]
     /\ Raise
     /\ UNCHANGED <<source, staged, inspection, outcome, log>>

-----------------------------------------------------------------------------
(***************************************************************************)
(* What a bundle amounts to.                                               *)
(***************************************************************************)

RequiredCheck(v, c) ==
  /\ c # "references"
  /\ c = "deliverable" => inspection[v].applicability = "REQUIRED"

SourceOf(c) == CASE c = "framework" -> "framework"
                 [] c \in {"deliverable", "capability"} -> "internal"
                 [] OTHER -> "engine"

Evidence(v, status) ==
  {[check |-> c, subject |-> "skill", required |-> RequiredCheck(v, c),
    source |-> SourceOf(c), status |-> status[c], quality |-> "reproducible",
    cites |-> FALSE, wellFormed |-> TRUE] :
   c \in {d \in Checks : status[d] # "none"}}

\* audit_execution
Complete(v, bundle) ==
  /\ bundle.unchanged
  /\ \A r \in Runners : bundle.status[r] \in {"none", "PASS"}
  /\ \A e \in Evidence(v, bundle.status) : e.required => e.status \notin ErrorStatuses

\* _artifact_assessment leaves out what the runners and B10 say.
Assessment(v, bundle) ==
  LET target == {e \in Evidence(v, bundle.status) : e.check \notin Runners \cup {"B10"}}
  IN IF ~Complete(v, bundle) THEN "UNKNOWN"
     ELSE IF \E e \in target : e.required /\ e.status \in {"FAIL", "ERROR"}
     THEN "BLOCKING_FINDINGS"
     ELSE IF \E e \in target : e.status = "WARN" THEN "FINDINGS" ELSE "VALID"

\* _deliverable_contract_provenance
Coverage(v, bundle) ==
  CASE inspection[v].applicability = "NOT_REQUIRED"  -> "FULL"
    [] inspection[v].applicability = "COMPATIBILITY" -> "COMPATIBILITY"
    [] inspection[v].applicability \in {"REQUIRED", "OPTIONAL"} ->
         IF bundle.status["deliverable"] = "PASS" THEN "FULL" ELSE "PARTIAL"

\* capability_preservation_status; UNKNOWN is None.
Preservation(bundle) ==
  CASE bundle.status["capability"] = "PASS" -> "CAPABILITY_PRESERVED"
    [] bundle.status["capability"] = "FAIL" -> "CAPABILITY_REGRESSION"
    [] OTHER -> "UNKNOWN"

\* The GateContext of confirm; an audit asks for nothing to be changed.
Context(v, confirmed) ==
  LET bundle == validation[v]
      change == ~IsAudit(v)
  IN [intent |-> Mode(v), validated |-> TRUE, authorized |-> change,
      requiresApply |-> change, applicable |-> change,
      applyRequested |-> change /\ bundle.requested,
      disposition |-> bundle.disposition, promptRule |-> "absent",
      confirmed |-> confirmed, fullRequired |-> inspection[v].applicability = "REQUIRED",
      coverage |-> Coverage(v, bundle),
      preservation |-> IF change THEN Preservation(bundle) ELSE "UNKNOWN"]

Collected(ctx, results) ==
  LET kept == {r \in results : r.check \notin Ignored(ctx)}
  IN [accepted |-> kept, rejected |-> {},
      regression |-> IF \E r \in kept : r.check = "B07"
                     THEN CHOOSE r \in kept : r.check = "B07" ELSE NoResult]

Gate(v, confirmed, results) ==
  LET ctx == Context(v, confirmed)
      evidence == Collected(ctx, results)
  IN [verdict |-> Verdict(ctx, CorePolicy, evidence),
      outcome |-> Outcome(ctx, CorePolicy, evidence),
      authorized |-> ApplyAuthorized(ctx, CorePolicy, evidence)]

\* The audit evidence once the source is known to have changed.
AuditStatus(v, unchanged) ==
  IF unchanged THEN validation[v].status
  ELSE [validation[v].status EXCEPT !["B10"] = "FAIL"]

\* _audit_gate
AuditVerdict(v, unchanged, confirmed) ==
  LET results == Evidence(v, AuditStatus(v, unchanged))
  IN IF \E e \in results : e.status = "ERROR" /\ e.source = "framework" THEN "ERROR"
     ELSE IF ~(unchanged /\ Complete(v, validation[v])) THEN "INCOMPLETE"
     ELSE Gate(v, confirmed, results).verdict

\* _audit_terminal_state
AuditLifecycle(v, unchanged) ==
  LET assessment == Assessment(v, validation[v])
  IN IF ~(unchanged /\ Complete(v, validation[v])) THEN "AUDIT_INCOMPLETE"
     ELSE IF Coverage(v, validation[v]) = "FULL"
     THEN CASE assessment = "VALID"             -> "AUDIT_COMPLETE_VALID"
            [] assessment = "FINDINGS"          -> "AUDIT_COMPLETE_FINDINGS"
            [] assessment = "BLOCKING_FINDINGS" -> "AUDIT_COMPLETE_BLOCKING_FINDINGS"
     ELSE IF assessment = "BLOCKING_FINDINGS"
     THEN "AUDIT_COMPLETE_BLOCKING_FINDINGS" ELSE "UNCHANGED_VALIDATED"

\* Mutant of Formal: the gate alone decides.
FormalByGate(v, verdict, ready) == verdict = "PASS" /\ ready

\* completion_receipt: a formal receipt (none without a capability digest).
Formal(v, verdict, ready) ==
  /\ verdict = "PASS" /\ ready
  /\ Coverage(v, validation[v]) = "FULL"
  /\ Preservation(validation[v]) = "CAPABILITY_PRESERVED"

-----------------------------------------------------------------------------
(***************************************************************************)
(* confirm, and apply, which runs confirm again on the stored documents.   *)
(***************************************************************************)

StartConfirm(v, agrees) ==
  /\ Idle /\ validation[v] # NoDoc
  /\ cmd' = Command("confirm", v, "source", NoDoc, agrees)
  /\ UNCHANGED <<source, staged, docs, log, left>>

StartApply(v) ==
  /\ Idle /\ outcome[v] # NoDoc
  /\ cmd' = Command("apply", v, "source", NoDoc, outcome[v].confirmed)
  /\ UNCHANGED <<source, staged, docs, log, left>>

\* The digest of a missing source raises.
ConfirmSource(v) ==
  /\ At(v, "source")
  /\ IF SourceMatches(v) THEN Advance("artifact")
     ELSE IF IsAudit(v) /\ source # NoTree
     THEN cmd' = [cmd EXCEPT !.at = "artifact", !.unchanged = FALSE]
     ELSE Raise
  /\ UNCHANGED <<source, staged, docs, log, left>>

ConfirmArtifact(v) ==
  /\ At(v, "artifact")
  /\ IF ArtifactTree(v) = validation[v].artifact THEN Advance("gate")
     ELSE IF IsAudit(v)
     THEN cmd' = [cmd EXCEPT !.at = "gate", !.unchanged = FALSE]
     ELSE Raise
  /\ UNCHANGED <<source, staged, docs, log, left>>

AuditOutcome(v, unchanged, agrees) ==
  LET confirmed == agrees /\ unchanged
      verdict   == AuditVerdict(v, unchanged, confirmed)
      lifecycle == AuditLifecycle(v, unchanged)
  IN [confirmed |-> confirmed, unchanged |-> unchanged, verdict |-> verdict,
      authorized |-> FALSE, lifecycle |-> lifecycle,
      formal |-> Formal(v, verdict, lifecycle = "AUDIT_COMPLETE_VALID")]

ConfirmAudit(v) ==
  /\ At(v, "gate") /\ IsAudit(v)
  /\ outcome' = IF cmd.op = "confirm"
                THEN [outcome EXCEPT ![v] = AuditOutcome(v, cmd.unchanged, cmd.agrees)]
                ELSE outcome
  /\ Raise   \* an audit has no apply session
  /\ UNCHANGED <<source, staged, inspection, validation, log, left>>

ChangeGate(v) == Gate(v, cmd.agrees, Evidence(v, validation[v].status))

ChangeOutcome(v) ==
  LET gate == ChangeGate(v)
  IN [confirmed |-> cmd.agrees, unchanged |-> TRUE, verdict |-> gate.verdict,
      authorized |-> gate.authorized,
      lifecycle |-> IF gate.outcome = "READY_TO_APPLY"
                    THEN "READY_TO_APPLY" ELSE "VALIDATED",
      formal |-> Formal(v, gate.verdict, gate.outcome = "READY_TO_APPLY")]

\* PipelineBlockedError, or a candidate that bind_confirmed_artifact rejects.
Blocked(v) ==
  \/ ChangeGate(v).verdict # "PASS"
  \/ ChangeGate(v).authorized /\ staged[v] # validation[v].artifact

ConfirmChange(v) ==
  /\ At(v, "gate") /\ ~IsAudit(v)
  /\ IF ~Blocked(v) /\ cmd.op = "confirm"
     THEN outcome' = [outcome EXCEPT ![v] = ChangeOutcome(v)] /\ Raise
     ELSE /\ IF ~Blocked(v) /\ ChangeGate(v).authorized /\ outcome[v].formal
             THEN Advance("candidate") ELSE Raise
          /\ UNCHANGED outcome
  /\ UNCHANGED <<source, staged, inspection, validation, log, left>>

\* apply_atomic: the two comparisons before the try block, ...
CheckCandidate(v) ==
  /\ At(v, "candidate")
  /\ IF staged[v] = validation[v].artifact THEN Advance("verify") ELSE Raise
  /\ UNCHANGED <<source, staged, docs, log, left>>

VerifySource(v) ==
  /\ At(v, "verify")
  /\ IF SourceMatches(v) THEN Advance("publish") ELSE Raise
  /\ UNCHANGED <<source, staged, docs, log, left>>

\* Mutant of Publish: the candidate is copied, not moved.
PublishCopy(v) ==
  /\ At(v, "publish") /\ staged[v] = validation[v].artifact
  /\ source' = staged[v]
  /\ log' = [log EXCEPT ![v] = Append(@,
       [before |-> source, after |-> staged[v], raced |-> cmd.raced])]
  /\ Raise
  /\ UNCHANGED <<staged, docs, left>>

\* ... and the replacement, which AtomicApply allows to be one step.
Publish(v) ==
  /\ At(v, "publish") /\ staged[v] = validation[v].artifact
  /\ source' = staged[v]
  /\ staged' = [staged EXCEPT ![v] = NoTree]
  /\ log' = [log EXCEPT ![v] = Append(@,
       [before |-> source, after |-> staged[v], raced |-> cmd.raced])]
  /\ Raise
  /\ UNCHANGED <<docs, left>>

\* A candidate that was changed is removed again and the source put back, and so after
\* a failure later than the first move.  One before it makes the recovery remove the
\* source: see SafeApply, which has the failures of the recovery as well.
Recover(v) ==
  /\ At(v, "publish")
  /\ \/ /\ staged[v] # validation[v].artifact
        /\ staged' = [staged EXCEPT ![v] = NoTree]
        /\ UNCHANGED <<source, left>>
     \/ /\ Spend("fault")
        /\ \E tree \in {staged[v], NoTree} : staged' = [staged EXCEPT ![v] = tree]
        /\ UNCHANGED source
     \/ /\ Spend("fault")
        /\ source' = NoTree
        /\ UNCHANGED staged
  /\ Raise
  /\ UNCHANGED <<docs, log>>

-----------------------------------------------------------------------------
\* The process is killed, or an exception the command does not handle ends it.
Interrupt ==
  /\ ~Idle /\ Raise
  /\ UNCHANGED <<source, staged, docs, log, left>>

\* It is killed between the two moves of apply_atomic, when nothing is at the path of
\* the Skill, or before a candidate that was changed is found out.
InterruptPublish(v) ==
  /\ At(v, "publish") /\ Raise
  /\ \/ source' = NoTree /\ UNCHANGED staged
     \/ /\ staged[v] # validation[v].artifact
        /\ source' = staged[v]
        /\ staged' = [staged EXCEPT ![v] = NoTree]
  /\ UNCHANGED <<docs, log, left>>

\* The owner changes the Skill; one that is lost stays so.
Edit(c) ==
  /\ source \notin {NoTree, c} /\ Spend("edit")
  /\ source' = c
  /\ cmd' = IF ~Idle /\ cmd.at = "publish" THEN [cmd EXCEPT !.raced = TRUE] ELSE cmd
  /\ UNCHANGED <<staged, docs, log>>

\* A runner, or another program, writes into a staged candidate ...
TamperCandidate(v, c) ==
  /\ staged[v] \notin {NoTree, c} /\ Spend("tamper")
  /\ staged' = [staged EXCEPT ![v] = c]
  /\ UNCHANGED <<source, docs, cmd, log>>

\* ... or into the copy an audit runs in.
TamperSnapshot(c) ==
  /\ ~Idle /\ cmd.copy \notin {NoTree, c} /\ Spend("tamper")
  /\ cmd' = [cmd EXCEPT !.copy = c]
  /\ UNCHANGED <<source, staged, docs, log>>

Inspect(v) ==
  \/ \E mode \in Modes, app \in Applicabilities : StartInspect(v, mode, app)
  \/ \E contract, capable \in BOOLEAN : AskProviders(v, contract, capable)

Validate(v) ==
  \/ \E d \in Dispositions, rs \in RunnerSets, requested \in BOOLEAN :
       StartValidate(v, d, rs, requested)
  \/ TakeSnapshot(v) \/ \E c \in Contents : StageCandidate(v, c)
  \/ \E r \in Runners : Run(v, r) \/ SkipRunner(v, r)
  \/ Recheck(v) \/ BuildManifest(v) \/ CompareCapabilities(v) \/ CollectEvidence(v)

Confirm(v) ==
  \/ \E agrees \in BOOLEAN : StartConfirm(v, agrees)
  \/ ConfirmSource(v) \/ ConfirmArtifact(v) \/ ConfirmAudit(v) \/ ConfirmChange(v)

Apply(v) ==
  \/ StartApply(v) \/ CheckCandidate(v) \/ VerifySource(v)
  \/ Publish(v) \/ Recover(v)

Environment ==
  \/ Interrupt \/ \E v \in Operations : InterruptPublish(v)
  \/ \E c \in Contents : Edit(c) \/ TamperSnapshot(c)
  \/ \E v \in Operations, c \in Contents : TamperCandidate(v, c)

Next == Environment \/ \E v \in Operations : Inspect(v) \/ Validate(v) \/ Confirm(v) \/ Apply(v)

Spec == Init /\ [][Next]_vars

-----------------------------------------------------------------------------
(***************************************************************************)
(* Properties.                                                             *)
(***************************************************************************)

Commands ==
  [op : {"inspect", "validate", "confirm", "apply"}, by : Operations, at : Steps,
   copy : Trees, draft : Inspections \cup Bundles \cup {NoDoc}, unchanged : BOOLEAN,
   agrees : BOOLEAN, raced : BOOLEAN]

TypeOK ==
  /\ source \in Trees
  /\ staged \in [Operations -> Trees]
  /\ inspection \in [Operations -> Inspections \cup {NoDoc}]
  /\ validation \in [Operations -> Bundles \cup {NoDoc}]
  /\ outcome \in [Operations -> Outcomes \cup {NoDoc}]
  /\ cmd \in Commands \cup {NoDoc}
  /\ log \in [Operations -> Seq([before : Trees, after : Trees, raced : BOOLEAN])]
  /\ left \in [{"edit", "tamper", "fault"} -> Nat]

\* Every apply installed the confirmed artifact of its validation, with a formal
\* receipt: passing gate, FULL coverage, requested, capabilities preserved.
AppliedIsFormal ==
  \A v \in Operations : \A i \in DOMAIN log[v] :
    /\ log[v][i].after = validation[v].artifact
    /\ ~IsAudit(v) /\ validation[v].requested
    /\ outcome[v] # NoDoc /\ outcome[v].confirmed /\ outcome[v].formal
    /\ Coverage(v, validation[v]) = "FULL"
    /\ Preservation(validation[v]) = "CAPABILITY_PRESERVED"

\* Nothing the user changed after the inspection is overwritten: unless the edit
\* falls between the last comparison and the move, a repair replaces its baseline.
ReplacesItsBaseline ==
  \A v \in Operations : \A i \in DOMAIN log[v] :
    Mode(v) # "CREATE" /\ ~log[v][i].raced
    => log[v][i].before = inspection[v].baseline

\* Repeating confirm and apply on the same documents installs a candidate once:
\* what they need is consumed by the move.
AppliedOnce == \A v \in Operations : Len(log[v]) <= 1

\* What is installed has been tested as it is: with no change of the staged
\* trees, it passes each runner given and the structure check.
AppliedWasTested ==
  Used("tamper") = 0 =>
  \A v \in Operations : \A i \in DOMAIN log[v] :
    /\ validation[v].tested = {log[v][i].after}
    /\ log[v][i].after \in Passes["structure"]
    /\ \A r \in Runners :
         r \in validation[v].runners /\ (r = "B07" => validation[v].disposition = "REQUIRED")
         => log[v][i].after \in Passes[r]

\* The source has changed once at most, and nothing has been installed there.
SourceSettled ==
  Used("edit") <= 1 /\ \A v \in Operations : log[v] = << >>

\* One edit, whenever it falls, never yields an audit that is complete about a
\* mixture of trees: all evidence is about the baseline and the present source
\* was equal to it.
AuditIsAboutBaseline ==
  SourceSettled /\ Used("tamper") = 0 =>
  \A v \in Operations :
    outcome[v] # NoDoc /\ IsAudit(v) /\ outcome[v].lifecycle # "AUDIT_INCOMPLETE"
    => validation[v].tested \cup {validation[v].artifact, inspection[v].described}
         = {inspection[v].baseline}

\* Mutant of Managed: the digest of the target is not compared.
ManagedByReceipt(v) == outcome[v] # NoDoc /\ outcome[v].formal

\* managed_status on a stored receipt.
Managed(v) ==
  /\ outcome[v] # NoDoc /\ outcome[v].formal
  /\ source # NoTree /\ validation[v].artifact = source

\* What status calls MANAGED is confirmed, passed the structure check and every
\* runner it was given, if nobody changed the staged trees and, for a receipt of
\* an audit, the source has changed once at most.
ManagedIsValidated ==
  Used("tamper") = 0 =>
  \A v \in Operations : Managed(v) /\ (IsAudit(v) => SourceSettled) =>
    /\ outcome[v].confirmed
    /\ source \in Passes["structure"]
    /\ \A r \in Runners :
         r \in validation[v].runners /\ (r = "B07" => validation[v].disposition = "REQUIRED")
         => source \in Passes[r]

\* Design of 2026-09-20, 11.2: AUDIT_COMPLETE_VALID requires the confirmation to
\* match the artifact and the gate to pass.
AuditValidNeedsGate ==
  \A v \in Operations :
    outcome[v] # NoDoc /\ outcome[v].lifecycle = "AUDIT_COMPLETE_VALID"
    => outcome[v].confirmed /\ outcome[v].verdict = "PASS"

\* test_required_valid_contract_has_full_coverage_and_allows_apply.
ValidContractCovers ==
  \A v \in Operations :
    /\ validation[v] # NoDoc /\ ~IsAudit(v)
    /\ inspection[v].applicability = "REQUIRED" /\ inspection[v].contract
    /\ inspection[v].described \in Passes["deliverables"]
    /\ validation[v].artifact \in Passes["deliverables"]
    => Coverage(v, validation[v]) = "FULL"
=============================================================================
