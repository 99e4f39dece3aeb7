----------------------------- MODULE PipelineProofs -----------------------------
(***************************************************************************)
(* Theorems about Pipeline for every set of operations, every content, any  *)
(* outcome of the checks and every bound on the environment.               *)
(***************************************************************************)
EXTENDS Pipeline, TLAPS

ValidateSteps == {"stage", "behavior", "B07", "contract", "recheck", "manifest",
                  "capability", "collect"}
ConfirmSteps == {"source", "artifact", "gate"}
ApplySteps == {"candidate", "verify", "publish"}

-----------------------------------------------------------------------------
(***************************************************************************)
(* Types.  A command reads documents that are there and drafts the one it   *)
(* is to write: without that the type of a draft says nothing.             *)
(***************************************************************************)

\* The draft of a command is of the document its phase writes.
DraftOK ==
  ~Idle => /\ cmd.at = "providers" => cmd.draft \in Inspections
           /\ cmd.at \in ValidateSteps => cmd.draft \in Bundles

\* Every phase has the documents it reads, and has not yet written its own.
DocsOK ==
  /\ \A v \in Operations : validation[v] # NoDoc => inspection[v] # NoDoc
  /\ \A v \in Operations : outcome[v] # NoDoc => validation[v] # NoDoc
  /\ ~Idle =>
       /\ cmd.at = "providers" => inspection[cmd.by] = NoDoc
       /\ cmd.at \in ValidateSteps =>
            inspection[cmd.by] # NoDoc /\ validation[cmd.by] = NoDoc
       /\ cmd.at \in ConfirmSteps \cup ApplySteps =>
            /\ validation[cmd.by] # NoDoc
            /\ cmd.op = "confirm" \/ outcome[cmd.by] # NoDoc

WellFormed == TypeOK /\ DraftOK /\ DocsOK

\* What the environment may do is only ever used up (Spend).
LEMMA SpendType ==
  ASSUME TypeOK, NEW b \in {"edit", "tamper", "fault"}, Spend(b)
  PROVE  left' \in [{"edit", "tamper", "fault"} -> Nat]
BY DEF TypeOK, Spend

\* A note in a draft keeps it a draft of a ValidationBundle.
LEMMA NoteType ==
  ASSUME NEW d \in Bundles, NEW c \in Checks, NEW s \in Statuses, NEW t \in Trees
  PROVE  /\ Note(d, c, s, t) \in Bundles
         /\ [d EXCEPT !.status[c] = s] \in Bundles
BY DEF Note, Bundles

LEMMA NoteFields ==
  ASSUME NEW d \in Bundles, NEW c, NEW s, NEW t
  PROVE  /\ DOMAIN d.status = Checks
         /\ Note(d, c, s, t).artifact = d.artifact
         /\ Note(d, c, s, t).disposition = d.disposition
         /\ Note(d, c, s, t).runners = d.runners
         /\ Note(d, c, s, t).status = [d.status EXCEPT ![c] = s]
         /\ Note(d, c, s, t).tested = d.tested \cup {t}
         /\ [d EXCEPT !.status[c] = s].artifact = d.artifact
         /\ [d EXCEPT !.status[c] = s].disposition = d.disposition
         /\ [d EXCEPT !.status[c] = s].runners = d.runners
         /\ [d EXCEPT !.status[c] = s].status = [d.status EXCEPT ![c] = s]
         /\ [d EXCEPT !.status[c] = s].tested = d.tested
BY DEF Note, Bundles

LEMMA SourceCheckedType ==
  ASSUME NEW v, NEW d \in Bundles
  PROVE  /\ SourceChecked(v, d) \in Bundles
         /\ SourceChecked(v, d).artifact = d.artifact
         /\ SourceChecked(v, d).disposition = d.disposition
         /\ SourceChecked(v, d).runners = d.runners
         /\ SourceChecked(v, d).status = d.status
         /\ SourceChecked(v, d).tested = d.tested
BY DEF SourceChecked, Bundles

\* Where a command works: its tree is a tree.
LEMMA TreeTypes ==
  ASSUME TypeOK, ~Idle, NEW v \in Operations
  PROVE  ExecutionTree(v) \in Trees /\ ArtifactTree(v) \in Trees
BY DEF TypeOK, Idle, Commands, ExecutionTree, ArtifactTree

LEMMA CheckNames ==
  /\ Runners \subseteq Checks
  /\ {"structure", "references", "deliverable", "capability", "B10", "framework"}
       \subseteq Checks
BY PipelineOK

LEMMA InspectType ==
  ASSUME WellFormed, NEW v \in Operations, Inspect(v)
  PROVE  WellFormed'
<1> USE DEF WellFormed, Idle
<1>1. ASSUME NEW mode \in Modes, NEW app \in Applicabilities, StartInspect(v, mode, app)
      PROVE  WellFormed'
  <2> DEFINE d == [mode |-> mode, baseline |-> IF mode = "CREATE" THEN NoTree ELSE source,
                   applicability |-> app, described |-> NoTree,
                   contract |-> FALSE, capable |-> FALSE]
  <2>1. d \in Inspections
    BY PipelineOK DEF Inspections, TypeOK, Trees
  <2>2. cmd' = Command("inspect", v, "providers", d, FALSE)
    BY <1>1 DEF StartInspect
  <2> HIDE DEF d
  <2>3. cmd' \in Commands /\ cmd'.at = "providers" /\ cmd'.by = v /\ cmd'.draft = d
    BY <2>1, <2>2 DEF Command, Commands, Steps, Trees
  <2>4. TypeOK'
    BY <1>1, <2>3 DEF StartInspect, TypeOK, docs
  <2>5. DraftOK'
    BY <2>1, <2>3 DEF DraftOK, ValidateSteps
  <2>6. DocsOK'
    BY <1>1, <2>3 DEF StartInspect, DocsOK, ValidateSteps, ConfirmSteps, ApplySteps, docs
  <2> QED
    BY <2>4, <2>5, <2>6
<1>2. ASSUME NEW contract \in BOOLEAN, NEW capable \in BOOLEAN,
             AskProviders(v, contract, capable)
      PROVE  WellFormed'
  <2> DEFINE d == [cmd.draft EXCEPT
                     !.described = IF cmd.draft.mode = "CREATE" THEN NoTree ELSE source,
                     !.contract = contract, !.capable = capable]
  <2>1. cmd.draft \in Inspections /\ cmd.by = v
    BY <1>2 DEF AskProviders, At, DraftOK
  <2>2. d \in Inspections
    BY <2>1 DEF Inspections, TypeOK, Trees
  <2>3. inspection' = [inspection EXCEPT ![v] = d] /\ cmd' = NoDoc
    BY <1>2 DEF AskProviders, Raise
  <2> HIDE DEF d
  <2>4. TypeOK'
    BY <1>2, <2>2, <2>3, ZenonT(60) DEF AskProviders, TypeOK
  <2>5. DraftOK'
    BY <2>3 DEF DraftOK
  <2>6. d # NoDoc
    BY <2>2, NoDocument
  <2>7. DocsOK'
    BY <1>2, <2>3, <2>6 DEF AskProviders, DocsOK, TypeOK
  <2> QED
    BY <2>4, <2>5, <2>7
<1> QED
  BY <1>1, <1>2 DEF Inspect

\* A step within validate that writes no document.
LEMMA ValidateGoesOn ==
  ASSUME WellFormed, ~Idle, cmd.at \in ValidateSteps,
         cmd' \in Commands, cmd'.by = cmd.by, cmd'.at \in ValidateSteps,
         cmd'.draft \in Bundles,
         UNCHANGED <<source, docs, log>>, staged' \in [Operations -> Trees],
         left' \in [{"edit", "tamper", "fault"} -> Nat]
  PROVE  WellFormed'
<1>1. TypeOK'
  BY DEF WellFormed, TypeOK, docs
<1>2. DraftOK'
  BY DEF DraftOK, ValidateSteps
<1>3. DocsOK'
  BY DEF WellFormed, DocsOK, ValidateSteps, ConfirmSteps, ApplySteps, docs, Idle
<1> QED
  BY <1>1, <1>2, <1>3 DEF WellFormed

\* A command that ends without writing a document.
LEMMA RaiseType ==
  ASSUME WellFormed, Raise, UNCHANGED docs, source' \in Trees,
         staged' \in [Operations -> Trees],
         log' \in [Operations -> Seq([before : Trees, after : Trees, raced : BOOLEAN])],
         left' \in [{"edit", "tamper", "fault"} -> Nat]
  PROVE  WellFormed'
BY DEF WellFormed, TypeOK, DraftOK, DocsOK, Raise, Idle, docs

\* The step v is about to take, and the draft it works on.
LEMMA AtFacts ==
  ASSUME WellFormed, NEW v \in Operations, NEW step, At(v, step)
  PROVE  /\ ~Idle /\ cmd \in Commands /\ cmd.by = v /\ cmd.at = step
         /\ step \in ValidateSteps =>
              /\ cmd.draft \in Bundles
              /\ inspection[v] \in Inspections /\ validation[v] = NoDoc
         /\ step \in ConfirmSteps \cup ApplySteps =>
              /\ validation[v] \in Bundles /\ inspection[v] \in Inspections
              /\ cmd.op = "confirm" \/ outcome[v] \in Outcomes
BY DEF WellFormed, TypeOK, DraftOK, DocsOK, At, Idle

LEMMA RunnerSteps ==
  ASSUME WellFormed, NEW v \in Operations, NEW r \in Runners, At(v, r)
  PROVE  AfterRunner(v, r) \in ValidateSteps /\ r \in ValidateSteps /\ r \in Checks
BY CheckNames DEF AfterRunner, ValidateSteps, Runners

LEMMA RunType ==
  ASSUME WellFormed, NEW v \in Operations, NEW r \in Runners, Run(v, r) \/ SkipRunner(v, r)
  PROVE  WellFormed'
<1>1. At(v, r)
  BY DEF Run, SkipRunner
<1>2. /\ ~Idle /\ cmd \in Commands /\ cmd.by = v /\ cmd.at \in ValidateSteps
      /\ cmd.draft \in Bundles /\ AfterRunner(v, r) \in ValidateSteps /\ r \in Checks
  BY <1>1, AtFacts, RunnerSteps
<1>3. ASSUME NEW d \in Bundles,
             cmd' = [cmd EXCEPT !.at = AfterRunner(v, r), !.draft = d]
      PROVE  /\ cmd' \in Commands /\ cmd'.by = cmd.by /\ cmd'.at \in ValidateSteps
             /\ cmd'.draft \in Bundles
  BY <1>2, <1>3 DEF Commands, Steps, ValidateSteps
<1>4. CASE Run(v, r)
  <2> DEFINE passed == SourceChecked(v, Note(cmd.draft, r,
               IF ExecutionTree(v) \in Passes[r] THEN "PASS" ELSE "FAIL",
               ExecutionTree(v)))
             failed == SourceChecked(v, [cmd.draft EXCEPT !.status[r] = "ERROR"])
  <2>1. passed \in Bundles /\ failed \in Bundles
    BY <1>2, TreeTypes, NoteType, SourceCheckedType DEF Statuses, WellFormed
  <2>2. \/ cmd' = [cmd EXCEPT !.at = AfterRunner(v, r), !.draft = passed]
        \/ cmd' = [cmd EXCEPT !.at = AfterRunner(v, r), !.draft = failed]
    BY <1>4 DEF Run
  <2>3. left' \in [{"edit", "tamper", "fault"} -> Nat]
    BY <1>4, SpendType DEF Run, WellFormed, TypeOK
  <2>4. UNCHANGED <<source, staged, docs, log>>
    BY <1>4 DEF Run
  <2> HIDE DEF passed, failed
  <2>5. /\ cmd' \in Commands /\ cmd'.by = cmd.by /\ cmd'.at \in ValidateSteps
        /\ cmd'.draft \in Bundles
    BY <1>3, <2>1, <2>2
  <2> QED
    BY <1>2, <2>3, <2>4, <2>5, ValidateGoesOn DEF WellFormed, TypeOK
<1>5. CASE SkipRunner(v, r)
  <2> DEFINE d == [cmd.draft EXCEPT !.status[r] =
                     IF Mandatory(v, r) THEN "NOT_EXECUTED" ELSE "none"]
  <2>1. d \in Bundles
    BY <1>2 DEF Bundles, Statuses
  <2>2. cmd' = [cmd EXCEPT !.at = AfterRunner(v, r), !.draft = d]
    BY <1>2, <1>5 DEF SkipRunner
  <2>3. UNCHANGED <<source, staged, docs, log, left>>
    BY <1>5 DEF SkipRunner
  <2> HIDE DEF d
  <2>4. /\ cmd' \in Commands /\ cmd'.by = cmd.by /\ cmd'.at \in ValidateSteps
        /\ cmd'.draft \in Bundles
    BY <1>3, <2>1, <2>2
  <2> QED
    BY <1>2, <2>3, <2>4, ValidateGoesOn DEF WellFormed, TypeOK
<1> QED
  BY <1>4, <1>5

\* The bundle that CollectEvidence writes, with or without the structure check.
CollectedDraft(v) ==
  [cmd.draft EXCEPT
    !.status["deliverable"] = DeliverableStatus(v, cmd.draft.artifact),
    !.status["references"] = IF ArtifactTree(v) \in Passes["references"] THEN "PASS" ELSE "WARN",
    !.status["B10"] = IF ~IsAudit(v) THEN "none"
                      ELSE IF cmd.draft.unchanged THEN "PASS" ELSE "FAIL"]

StructureStatus(v) == IF ArtifactTree(v) \in Passes["structure"] THEN "PASS" ELSE "FAIL"

LEMMA CollectEffect ==
  ASSUME NEW v \in Operations, CollectEvidence(v)
  PROVE  /\ At(v, "collect") /\ Raise
         /\ \/ /\ validation' = [validation EXCEPT ![v] =
                     Note(CollectedDraft(v), "structure", StructureStatus(v), ArtifactTree(v))]
               /\ UNCHANGED left
            \/ /\ validation' = [validation EXCEPT ![v] =
                     [CollectedDraft(v) EXCEPT !.status["framework"] = "ERROR"]]
               /\ Spend("fault")
         /\ UNCHANGED <<source, staged, inspection, outcome, log>>
BY DEF CollectEvidence, CollectedDraft, StructureStatus

LEMMA CollectedType ==
  ASSUME NEW v, cmd.draft \in Bundles
  PROVE  CollectedDraft(v) \in Bundles
<1>1. DeliverableStatus(v, cmd.draft.artifact) \in Statuses
  BY DEF DeliverableStatus, Statuses
<1>2. \A s1, s2, s3 \in Statuses :
        [cmd.draft EXCEPT !.status["deliverable"] = s1, !.status["references"] = s2,
                          !.status["B10"] = s3] \in Bundles
  BY CheckNames DEF Bundles
<1> QED
  BY <1>1, <1>2, ZenonT(60) DEF CollectedDraft, Statuses

\* What the bundle keeps of the draft, and what it says of the structure.
LEMMA BundleWritten ==
  ASSUME WellFormed, NEW v \in Operations, CollectEvidence(v)
  PROVE  /\ validation'[v].artifact = cmd.draft.artifact
         /\ validation'[v].disposition = cmd.draft.disposition
         /\ validation'[v].runners = cmd.draft.runners
         /\ \A r \in Runners : validation'[v].status[r] = cmd.draft.status[r]
         /\ \/ /\ validation'[v].status["framework"] = "ERROR"
               /\ validation'[v].tested = cmd.draft.tested
            \/ /\ validation'[v].status["structure"] = StructureStatus(v)
               /\ validation'[v].tested = cmd.draft.tested \cup {ArtifactTree(v)}
<1>1. cmd.draft \in Bundles
  BY CollectEffect, AtFacts DEF ValidateSteps
<1>2. /\ CollectedDraft(v).artifact = cmd.draft.artifact
      /\ CollectedDraft(v).disposition = cmd.draft.disposition
      /\ CollectedDraft(v).runners = cmd.draft.runners
      /\ CollectedDraft(v).tested = cmd.draft.tested
  BY <1>1 DEF CollectedDraft, Bundles
<1>3. \A r \in Runners : CollectedDraft(v).status[r] = cmd.draft.status[r]
  BY <1>1, CheckNames DEF CollectedDraft, Bundles, Runners
<1> DEFINE d == CollectedDraft(v)
           noted == Note(d, "structure", StructureStatus(v), ArtifactTree(v))
           failed == [d EXCEPT !.status["framework"] = "ERROR"]
<1>4. d \in Bundles
  BY <1>1, CollectedType
<1>5. {"structure", "framework"} \subseteq Checks
      /\ ({"structure", "framework"} \cap Runners = {}) /\ Runners \subseteq Checks
  BY CheckNames DEF Runners
<1> HIDE DEF d
<1>6. /\ noted.artifact = d.artifact /\ noted.disposition = d.disposition
      /\ noted.runners = d.runners /\ noted.tested = d.tested \cup {ArtifactTree(v)}
      /\ noted.status = [d.status EXCEPT !["structure"] = StructureStatus(v)]
  BY <1>4 DEF Note, Bundles
<1>7. /\ failed.artifact = d.artifact /\ failed.disposition = d.disposition
      /\ failed.runners = d.runners /\ failed.tested = d.tested
      /\ failed.status = [d.status EXCEPT !["framework"] = "ERROR"]
  BY <1>4, NoteFields
<1>8. DOMAIN d.status = Checks
  BY <1>4, NoteFields
<1>9. /\ noted.status["structure"] = StructureStatus(v)
      /\ failed.status["framework"] = "ERROR"
      /\ \A r \in Runners : noted.status[r] = d.status[r] /\ failed.status[r] = d.status[r]
  BY <1>5, <1>6, <1>7, <1>8
<1>10. validation'[v] = noted \/ validation'[v] = failed
  BY CollectEffect DEF WellFormed, TypeOK, d
<1> HIDE DEF noted, failed
<1> QED
  BY <1>2, <1>3, <1>6, <1>7, <1>9, <1>10 DEF d

LEMMA CollectType ==
  ASSUME WellFormed, NEW v \in Operations, CollectEvidence(v)
  PROVE  WellFormed'
<1>1. ~Idle /\ cmd.by = v /\ cmd.draft \in Bundles /\ inspection[v] \in Inspections
  BY CollectEffect, AtFacts DEF ValidateSteps
<1>2. CollectedDraft(v) \in Bundles
  BY <1>1, CollectedType
<1>3. Note(CollectedDraft(v), "structure", StructureStatus(v), ArtifactTree(v)) \in Bundles
      /\ [CollectedDraft(v) EXCEPT !.status["framework"] = "ERROR"] \in Bundles
  BY <1>1, <1>2, NoteType, CheckNames, TreeTypes DEF StructureStatus, Statuses, WellFormed
<1>4. PICK b \in Bundles : validation' = [validation EXCEPT ![v] = b]
  BY <1>3, CollectEffect
<1>5. TypeOK'
  BY <1>4, CollectEffect, SpendType DEF WellFormed, TypeOK, Raise
<1>6. b # NoDoc
  BY NoDocument
<1>7. inspection[v] # NoDoc /\ cmd' = NoDoc /\ UNCHANGED <<inspection, outcome>>
  BY <1>1, NoDocument, CollectEffect DEF Raise
<1>8. DocsOK'
  BY <1>4, <1>6, <1>7 DEF WellFormed, TypeOK, DocsOK, Idle
<1>9. DraftOK'
  BY <1>7 DEF DraftOK, Idle
<1> QED
  BY <1>5, <1>8, <1>9 DEF WellFormed

LEMMA ValidateType ==
  ASSUME WellFormed, NEW v \in Operations, Validate(v)
  PROVE  WellFormed'
<1>1. ASSUME NEW d \in Dispositions, NEW rs \in RunnerSets, NEW requested \in BOOLEAN,
             StartValidate(v, d, rs, requested)
      PROVE  WellFormed'
  <2> DEFINE draft ==
        [artifact |-> NoTree, disposition |-> d, runners |-> rs,
         requested |-> requested, unchanged |-> TRUE,
         status |-> [c \in Checks |-> "none"], tested |-> {}]
  <2>1. draft \in Bundles
    <3>1. rs \in SUBSET Runners /\ d \in {"REQUIRED", "RECOMMENDED", "NOT_APPLICABLE"}
      BY PipelineOK
    <3> QED
      BY <3>1 DEF Bundles, Trees, Statuses
  <2>2. cmd' = Command("validate", v, "stage", draft, FALSE)
    BY <1>1 DEF StartValidate
  <2>3. UNCHANGED <<source, staged, docs, log, left>>
        /\ inspection[v] # NoDoc /\ validation[v] = NoDoc
    BY <1>1 DEF StartValidate
  <2> HIDE DEF draft
  <2>4. cmd' \in Commands /\ cmd'.at = "stage" /\ cmd'.by = v /\ cmd'.draft = draft
    BY <2>1, <2>2 DEF Command, Commands, Steps, Trees
  <2>5. TypeOK'
    BY <2>3, <2>4 DEF WellFormed, TypeOK, docs
  <2>6. DraftOK'
    BY <2>1, <2>4 DEF DraftOK, ValidateSteps
  <2>7. DocsOK'
    BY <2>3, <2>4 DEF WellFormed, DocsOK, ValidateSteps, ConfirmSteps, ApplySteps, docs
  <2> QED
    BY <2>5, <2>6, <2>7 DEF WellFormed
<1>2. CASE TakeSnapshot(v)
  <2>1. ~Idle /\ cmd \in Commands /\ cmd.at \in ValidateSteps /\ cmd.draft \in Bundles
    BY <1>2, AtFacts DEF TakeSnapshot, ValidateSteps
  <2>2. cmd' \in Commands /\ cmd'.by = cmd.by /\ cmd'.at = "behavior" /\ cmd'.draft = cmd.draft
    BY <1>2, <2>1 DEF TakeSnapshot, Commands, Steps, WellFormed, TypeOK
  <2> QED
    BY <1>2, <2>1, <2>2, ValidateGoesOn DEF TakeSnapshot, ValidateSteps, WellFormed, TypeOK
<1>3. ASSUME NEW c \in Contents, StageCandidate(v, c)
      PROVE  WellFormed'
  <2>1. ~Idle /\ cmd \in Commands /\ cmd.at \in ValidateSteps /\ cmd.draft \in Bundles
    BY <1>3, AtFacts DEF StageCandidate, ValidateSteps
  <2>2. staged' \in [Operations -> Trees] /\ UNCHANGED <<source, docs, log, left>>
    BY <1>3 DEF StageCandidate, WellFormed, TypeOK, Trees
  <2>3. CASE Raise
    BY <2>2, <2>3, RaiseType DEF WellFormed, TypeOK
  <2>4. CASE Advance("behavior")
    <3>1. /\ cmd' \in Commands /\ cmd'.by = cmd.by /\ cmd'.at = "behavior"
          /\ cmd'.draft = cmd.draft
      BY <2>1, <2>4 DEF Advance, Commands, Steps
    <3> QED
      BY <2>1, <2>2, <3>1, ValidateGoesOn DEF ValidateSteps, WellFormed, TypeOK
  <2> QED
    BY <1>3, <2>3, <2>4 DEF StageCandidate
<1>4. ASSUME NEW r \in Runners, Run(v, r) \/ SkipRunner(v, r)
      PROVE  WellFormed'
  BY <1>4, RunType
<1>5. CASE Recheck(v) \/ BuildManifest(v)
  <2> DEFINE d == IF cmd.at = "recheck" THEN SourceChecked(v, cmd.draft)
                  ELSE [cmd.draft EXCEPT !.artifact = ArtifactTree(v)]
             step == IF cmd.at = "recheck" THEN "manifest" ELSE "capability"
  <2>1. ~Idle /\ cmd \in Commands /\ cmd.at \in ValidateSteps /\ cmd.draft \in Bundles
    BY <1>5, AtFacts DEF Recheck, BuildManifest, ValidateSteps
  <2>2. d \in Bundles
    BY <2>1, SourceCheckedType, TreeTypes DEF Bundles, WellFormed
  <2>3. cmd' = [cmd EXCEPT !.at = step, !.draft = d]
    BY <1>5, <2>1 DEF Recheck, BuildManifest, At
  <2>4. UNCHANGED <<source, staged, docs, log, left>>
    BY <1>5 DEF Recheck, BuildManifest
  <2>5. step \in ValidateSteps
    BY DEF ValidateSteps
  <2> HIDE DEF d, step
  <2>6. cmd' \in Commands /\ cmd'.by = cmd.by /\ cmd'.at = step /\ cmd'.draft = d
    BY <2>1, <2>2, <2>3, <2>5 DEF Commands, Steps, ValidateSteps
  <2> QED
    BY <2>1, <2>2, <2>4, <2>5, <2>6, ValidateGoesOn DEF WellFormed, TypeOK
<1>6. CASE CompareCapabilities(v)
  <2>1. ~Idle /\ cmd \in Commands /\ cmd.at \in ValidateSteps /\ cmd.draft \in Bundles
    BY <1>6, AtFacts DEF CompareCapabilities, ValidateSteps
  <2> DEFINE noted == Note(cmd.draft, "capability",
               CapabilityStatus(v, ExecutionTree(v)), ExecutionTree(v))
             missing == [cmd.draft EXCEPT !.status["capability"] = "NOT_EXECUTED"]
  <2>2. noted \in Bundles /\ missing \in Bundles
    BY <2>1, NoteType, CheckNames, TreeTypes DEF CapabilityStatus, Statuses, WellFormed
  <2>3. \/ cmd' = [cmd EXCEPT !.at = "collect", !.draft = noted]
        \/ cmd' = [cmd EXCEPT !.at = "collect", !.draft = missing]
        \/ cmd' = [cmd EXCEPT !.at = "collect"]
    BY <1>6, <2>1 DEF CompareCapabilities, Advance
  <2>4. UNCHANGED <<source, staged, docs, log>>
        /\ left' \in [{"edit", "tamper", "fault"} -> Nat]
    BY <1>6, SpendType DEF CompareCapabilities, WellFormed, TypeOK
  <2> HIDE DEF noted, missing
  <2>5. /\ cmd' \in Commands /\ cmd'.by = cmd.by /\ cmd'.at = "collect"
        /\ cmd'.draft \in Bundles
    BY <2>1, <2>2, <2>3 DEF Commands, Steps
  <2> QED
    BY <2>1, <2>4, <2>5, ValidateGoesOn DEF ValidateSteps, WellFormed, TypeOK
<1>7. CASE CollectEvidence(v)
  BY <1>7, CollectType
<1> QED
  BY <1>1, <1>2, <1>3, <1>4, <1>5, <1>6, <1>7 DEF Validate

-----------------------------------------------------------------------------
\* The gate answers with a verdict and a permission (adjudicate, quality_gate.py).
LEMMA GateAnswers ==
  ASSUME NEW v, NEW confirmed, NEW results
  PROVE  /\ Gate(v, confirmed, results).verdict \in {"PASS", "FAIL", "INCOMPLETE", "ERROR"}
         /\ Gate(v, confirmed, results).authorized \in BOOLEAN
<1>1. \A c, p, ev : Verdict(c, p, ev) \in {"PASS", "FAIL", "INCOMPLETE", "ERROR"}
  BY DEF Verdict
<1>2. \A c, p, ev : ApplyAuthorized(c, p, ev) \in BOOLEAN
  BY DEF ApplyAuthorized
<1> QED
  BY <1>1, <1>2 DEF Gate

\* What confirm writes about an audit and about a change.
LEMMA OutcomeTypes ==
  ASSUME WellFormed, NEW v \in Operations, ~Idle,
         inspection[v] \in Inspections, validation[v] \in Bundles
  PROVE  AuditOutcome(v, cmd.unchanged, cmd.agrees) \in Outcomes
         /\ ChangeOutcome(v) \in Outcomes
<1>1. cmd.unchanged \in BOOLEAN /\ cmd.agrees \in BOOLEAN
  BY DEF WellFormed, TypeOK, Commands, Idle
<1>2. \A verdict, ready : ready \in BOOLEAN => Formal(v, verdict, ready) \in BOOLEAN
  BY DEF Formal
<1>3. \A u \in BOOLEAN : AuditVerdict(v, u, cmd.agrees /\ u)
        \in {"PASS", "FAIL", "INCOMPLETE", "ERROR"}
  BY GateAnswers DEF AuditVerdict
<1>4. \A u \in BOOLEAN : AuditLifecycle(v, u) \in
        {"AUDIT_INCOMPLETE", "AUDIT_COMPLETE_VALID", "AUDIT_COMPLETE_FINDINGS",
         "AUDIT_COMPLETE_BLOCKING_FINDINGS", "UNCHANGED_VALIDATED"}
  <2>1. Assessment(v, validation[v]) \in {"VALID", "FINDINGS", "BLOCKING_FINDINGS"}
        \/ ~Complete(v, validation[v])
    BY DEF Assessment
  <2> QED
    BY <2>1 DEF AuditLifecycle
<1>5. AuditOutcome(v, cmd.unchanged, cmd.agrees) \in Outcomes
  BY <1>1, <1>2, <1>3, <1>4 DEF AuditOutcome, Outcomes
<1>6. ChangeGate(v).verdict \in {"PASS", "FAIL", "INCOMPLETE", "ERROR"}
      /\ ChangeGate(v).authorized \in BOOLEAN
  BY GateAnswers DEF ChangeGate
<1>7. ChangeOutcome(v) \in Outcomes
  BY <1>1, <1>2, <1>6 DEF ChangeOutcome, Outcomes
<1> QED
  BY <1>5, <1>7

\* A step within confirm or apply that writes no document.
LEMMA ConfirmGoesOn ==
  ASSUME WellFormed, NEW v \in Operations,
         ~Idle, cmd.by = v, cmd.at \in ConfirmSteps \cup ApplySteps,
         NEW step \in ConfirmSteps \cup ApplySteps,
         \/ cmd' = [cmd EXCEPT !.at = step]
         \/ cmd' = [cmd EXCEPT !.at = step, !.unchanged = FALSE],
         UNCHANGED <<source, staged, docs, log, left>>
  PROVE  WellFormed'
<1>1. /\ cmd \in Commands /\ cmd' \in Commands /\ cmd'.at = step
      /\ cmd'.by = cmd.by /\ cmd'.op = cmd.op
  BY DEF WellFormed, TypeOK, Idle, Commands, Steps, ConfirmSteps, ApplySteps
<1>2. TypeOK'
  BY <1>1 DEF WellFormed, TypeOK, docs
<1>3. DraftOK' /\ DocsOK'
  BY <1>1 DEF WellFormed, DraftOK, DocsOK, docs, Idle, ValidateSteps, ConfirmSteps, ApplySteps
<1> QED
  BY <1>2, <1>3 DEF WellFormed

LEMMA StartConfirmType ==
  ASSUME WellFormed, NEW v \in Operations,
         StartApply(v) \/ \E agrees \in BOOLEAN : StartConfirm(v, agrees)
  PROVE  WellFormed'
<1>1. PICK op \in {"confirm", "apply"}, agrees \in BOOLEAN :
        /\ cmd' = Command(op, v, "source", NoDoc, agrees)
        /\ op = "confirm" \/ outcome[v] # NoDoc
  <2>1. CASE StartApply(v)
    <3>1. outcome[v] \in Outcomes /\ validation[v] # NoDoc /\ outcome[v] # NoDoc
      BY <2>1 DEF StartApply, WellFormed, TypeOK, DocsOK
    <3>2. outcome[v].confirmed \in BOOLEAN
      BY <3>1 DEF Outcomes
    <3> QED
      BY <2>1, <3>1, <3>2 DEF StartApply
  <2>2. CASE \E agrees \in BOOLEAN : StartConfirm(v, agrees)
    BY <2>2 DEF StartConfirm
  <2> QED
    BY <2>1, <2>2
<1>2. UNCHANGED <<source, staged, docs, log, left>>
  BY DEF StartApply, StartConfirm
<1>3. validation[v] # NoDoc
  BY DEF StartApply, StartConfirm, WellFormed, DocsOK
<1>4. /\ cmd' \in Commands /\ cmd'.at = "source" /\ cmd'.by = v /\ cmd'.op = op
  BY <1>1 DEF Command, Commands, Steps, Trees
<1>5. TypeOK'
  BY <1>2, <1>4 DEF WellFormed, TypeOK, docs
<1>6. DraftOK' /\ DocsOK'
  BY <1>1, <1>2, <1>3, <1>4 DEF WellFormed, DraftOK, DocsOK, docs, ValidateSteps,
                               ConfirmSteps, ApplySteps
<1> QED
  BY <1>5, <1>6 DEF WellFormed

\* confirm writes an outcome and ends.
LEMMA WriteOutcomeType ==
  ASSUME WellFormed, NEW v \in Operations, validation[v] # NoDoc, NEW o \in Outcomes,
         outcome' = [outcome EXCEPT ![v] = o], Raise,
         UNCHANGED <<source, staged, inspection, validation, log, left>>
  PROVE  WellFormed'
<1>1. TypeOK' /\ DraftOK'
  BY DEF WellFormed, TypeOK, DraftOK, Raise, Idle
<1>2. DocsOK'
  BY DEF WellFormed, TypeOK, DocsOK, Raise, Idle
<1> QED
  BY <1>1, <1>2 DEF WellFormed

LEMMA ConfirmType ==
  ASSUME WellFormed, NEW v \in Operations, Confirm(v)
  PROVE  WellFormed'
<1>1. CASE \E agrees \in BOOLEAN : StartConfirm(v, agrees)
  BY <1>1, StartConfirmType
<1>2. CASE ConfirmSource(v)
  <2>1. ~Idle /\ cmd.by = v /\ cmd.at \in ConfirmSteps
    BY <1>2 DEF ConfirmSource, At, ConfirmSteps
  <2>2. CASE Raise
    BY <1>2, <2>2, RaiseType DEF ConfirmSource, WellFormed, TypeOK
  <2> QED
    BY <1>2, <2>1, <2>2, ConfirmGoesOn DEF ConfirmSource, Advance, ConfirmSteps
<1>3. CASE ConfirmArtifact(v)
  <2>1. ~Idle /\ cmd.by = v /\ cmd.at \in ConfirmSteps
    BY <1>3 DEF ConfirmArtifact, At, ConfirmSteps
  <2>2. CASE Raise
    BY <1>3, <2>2, RaiseType DEF ConfirmArtifact, WellFormed, TypeOK
  <2> QED
    BY <1>3, <2>1, <2>2, ConfirmGoesOn DEF ConfirmArtifact, Advance, ConfirmSteps
<1>4. ASSUME At(v, "gate")
      PROVE  /\ ~Idle /\ cmd.by = v /\ cmd.at \in ConfirmSteps
             /\ inspection[v] \in Inspections /\ validation[v] \in Bundles
             /\ validation[v] # NoDoc
  <2>1. "gate" \in ConfirmSteps
    BY DEF ConfirmSteps
  <2> QED
    BY <1>4, <2>1, AtFacts, NoDocument
<1>5. CASE ConfirmAudit(v)
  <2>1. CASE outcome' = [outcome EXCEPT ![v] = AuditOutcome(v, cmd.unchanged, cmd.agrees)]
    BY <1>4, <1>5, <2>1, OutcomeTypes, WriteOutcomeType DEF ConfirmAudit
  <2>2. CASE UNCHANGED outcome
    BY <1>5, <2>2, RaiseType DEF ConfirmAudit, docs, WellFormed, TypeOK
  <2> QED
    BY <1>5, <2>1, <2>2 DEF ConfirmAudit
<1>6. CASE ConfirmChange(v)
  <2>1. CASE outcome' = [outcome EXCEPT ![v] = ChangeOutcome(v)] /\ Raise
    BY <1>4, <1>6, <2>1, OutcomeTypes, WriteOutcomeType DEF ConfirmChange
  <2>2. CASE UNCHANGED outcome /\ Raise
    BY <1>6, <2>2, RaiseType DEF ConfirmChange, docs, WellFormed, TypeOK
  <2>3. CASE UNCHANGED outcome /\ Advance("candidate")
    BY <1>4, <1>6, <2>3, ConfirmGoesOn DEF ConfirmChange, Advance, ApplySteps, docs
  <2> QED
    BY <1>6, <2>1, <2>2, <2>3 DEF ConfirmChange
<1> QED
  BY <1>1, <1>2, <1>3, <1>5, <1>6 DEF Confirm

LEMMA AppendType ==
  ASSUME NEW S, NEW s \in Seq(S), NEW e \in S
  PROVE  /\ Append(s, e) \in Seq(S) /\ Len(Append(s, e)) = Len(s) + 1
         /\ \A i \in 1..Len(s) : Append(s, e)[i] = s[i]
         /\ Append(s, e)[Len(s) + 1] = e
OBVIOUS

LEMMA ApplyType ==
  ASSUME WellFormed, NEW v \in Operations, Apply(v)
  PROVE  WellFormed'
<1>1. CASE StartApply(v)
  BY <1>1, StartConfirmType
<1>2. CASE CheckCandidate(v)
  <2>1. CASE Raise
    BY <1>2, <2>1, RaiseType DEF CheckCandidate, WellFormed, TypeOK
  <2> QED
    BY <1>2, <2>1, ConfirmGoesOn DEF CheckCandidate, At, Advance, ApplySteps
<1>3. CASE VerifySource(v)
  <2>1. CASE Raise
    BY <1>3, <2>1, RaiseType DEF VerifySource, WellFormed, TypeOK
  <2> QED
    BY <1>3, <2>1, ConfirmGoesOn DEF VerifySource, At, Advance, ApplySteps
<1>4. CASE Publish(v)
  <2> DEFINE entry == [before |-> source, after |-> staged[v], raced |-> cmd.raced]
  <2>1. cmd.raced \in BOOLEAN
    BY <1>4 DEF Publish, At, Idle, WellFormed, TypeOK, Commands
  <2>2. entry \in [before : Trees, after : Trees, raced : BOOLEAN]
    BY <2>1 DEF WellFormed, TypeOK
  <2>3. log' \in [Operations -> Seq([before : Trees, after : Trees, raced : BOOLEAN])]
    <3>1. log' = [log EXCEPT ![v] = Append(@, entry)]
      BY <1>4 DEF Publish
    <3>2. Append(log[v], entry) \in Seq([before : Trees, after : Trees, raced : BOOLEAN])
      <4>1. log[v] \in Seq([before : Trees, after : Trees, raced : BOOLEAN])
        BY DEF WellFormed, TypeOK
      <4> HIDE DEF entry
      <4> QED
        BY <2>2, <4>1, AppendType
    <3> HIDE DEF entry
    <3> QED
      BY <3>1, <3>2 DEF WellFormed, TypeOK
  <2>4. source' \in Trees /\ staged' \in [Operations -> Trees]
    BY <1>4 DEF Publish, WellFormed, TypeOK, Trees
  <2> QED
    BY <1>4, <2>3, <2>4, RaiseType DEF Publish, WellFormed, TypeOK
<1>5. CASE Recover(v)
  <2>1. staged' \in [Operations -> Trees] /\ source' \in Trees
    BY <1>5 DEF Recover, WellFormed, TypeOK, Trees
  <2>2. left' \in [{"edit", "tamper", "fault"} -> Nat]
    BY <1>5, SpendType DEF Recover, WellFormed, TypeOK
  <2> QED
    BY <1>5, <2>1, <2>2, RaiseType DEF Recover, WellFormed, TypeOK
<1> QED
  BY <1>1, <1>2, <1>3, <1>4, <1>5 DEF Apply

LEMMA EnvironmentType ==
  ASSUME WellFormed, Environment
  PROVE  WellFormed'
<1>1. CASE Interrupt
  BY <1>1, RaiseType DEF Interrupt, WellFormed, TypeOK
<1>2. ASSUME Idle => cmd' = cmd,
             ~Idle => /\ cmd' \in Commands /\ cmd'.by = cmd.by /\ cmd'.at = cmd.at
                      /\ cmd'.op = cmd.op /\ cmd'.draft = cmd.draft,
             UNCHANGED docs
      PROVE  DraftOK' /\ DocsOK'
  <2>1. CASE Idle
    BY <1>2, <2>1 DEF WellFormed, DraftOK, DocsOK, docs, Idle
  <2>2. CASE ~Idle
    BY <1>2, <2>2 DEF WellFormed, DraftOK, DocsOK, docs, Idle
  <2> QED
    BY <2>1, <2>2
<1>3. ASSUME NEW c \in Contents, Edit(c)
      PROVE  WellFormed'
  <2>1. /\ Idle => cmd' = cmd
        /\ ~Idle => /\ cmd' \in Commands /\ cmd'.by = cmd.by /\ cmd'.at = cmd.at
                    /\ cmd'.op = cmd.op /\ cmd'.draft = cmd.draft
    BY <1>3 DEF Edit, WellFormed, TypeOK, Commands, Idle
  <2>2. TypeOK'
    BY <1>3, <2>1, SpendType DEF Edit, WellFormed, TypeOK, docs, Idle, Trees
  <2> QED
    BY <1>2, <1>3, <2>1, <2>2 DEF Edit, WellFormed
<1>4. ASSUME NEW c \in Contents, TamperSnapshot(c)
      PROVE  WellFormed'
  <2>1. /\ ~Idle
        /\ cmd' \in Commands /\ cmd'.by = cmd.by /\ cmd'.at = cmd.at
        /\ cmd'.op = cmd.op /\ cmd'.draft = cmd.draft
    BY <1>4 DEF TamperSnapshot, WellFormed, TypeOK, Commands, Idle, Trees
  <2>2. TypeOK'
    BY <1>4, <2>1, SpendType DEF TamperSnapshot, WellFormed, TypeOK, docs
  <2> QED
    BY <1>2, <1>4, <2>1, <2>2 DEF TamperSnapshot, WellFormed
<1>5. ASSUME NEW v \in Operations, NEW c \in Contents, TamperCandidate(v, c)
      PROVE  WellFormed'
  <2>1. TypeOK'
    BY <1>5, SpendType DEF TamperCandidate, WellFormed, TypeOK, docs, Trees
  <2>2. UNCHANGED cmd /\ UNCHANGED docs
    BY <1>5 DEF TamperCandidate
  <2> QED
    BY <2>1, <2>2 DEF WellFormed, DraftOK, DocsOK, docs, Idle
<1>6. ASSUME NEW v \in Operations, InterruptPublish(v)
      PROVE  WellFormed'
  <2>1. source' \in Trees /\ staged' \in [Operations -> Trees]
    BY <1>6 DEF InterruptPublish, WellFormed, TypeOK, Trees
  <2> QED
    BY <1>6, <2>1, RaiseType DEF InterruptPublish, WellFormed, TypeOK
<1> QED
  BY <1>1, <1>3, <1>4, <1>5, <1>6 DEF Environment

LEMMA WellFormedAlways == Spec => []WellFormed
<1>1. Init => WellFormed
  BY PipelineOK DEF Init, WellFormed, TypeOK, DraftOK, DocsOK, Idle, Trees
<1>2. WellFormed /\ [Next]_vars => WellFormed'
  <2> SUFFICES ASSUME WellFormed, [Next]_vars PROVE WellFormed' OBVIOUS
  <2>1. CASE Environment
    BY <2>1, EnvironmentType
  <2>2. ASSUME NEW v \in Operations, Inspect(v) \/ Validate(v) \/ Confirm(v) \/ Apply(v)
        PROVE  WellFormed'
    BY <2>2, InspectType, ValidateType, ConfirmType, ApplyType
  <2>3. CASE UNCHANGED vars
    BY <2>3 DEF vars, docs, WellFormed, TypeOK, DraftOK, DocsOK, Idle
  <2> QED
    BY <2>1, <2>2, <2>3 DEF Next
<1> QED
  BY <1>1, <1>2, PTL DEF Spec

\* Every variable keeps its type over all phases (orchestrator.py, the documents
\* of cases.py), whatever the environment does between two steps.
THEOREM TypeCorrect == Spec => []TypeOK
<1>1. WellFormed => TypeOK
  BY DEF WellFormed
<1> QED
  BY <1>1, WellFormedAlways, PTL

-----------------------------------------------------------------------------
(***************************************************************************)
(* What a passing gate says of the evidence, and a receipt of the gate.     *)
(***************************************************************************)

\* Under a pass a required check that is no advice has not failed or erred.
LEMMA PassingStatus ==
  ASSUME NEW v, inspection[v] \in Inspections, validation[v] \in Bundles, NEW confirmed,
         Gate(v, confirmed, Evidence(v, validation[v].status)).verdict = "PASS",
         NEW c \in Checks, c \notin SignalChecks \cup BloatChecks, RequiredCheck(v, c),
         c = "B07" => validation[v].disposition = "REQUIRED"
  PROVE  validation[v].status[c] \in {"none", "PASS", "WARN"}
<1> DEFINE s == validation[v].status
           ctx == Context(v, confirmed)
           ev == Collected(ctx, Evidence(v, s))
           e == [check |-> c, subject |-> "skill", required |-> RequiredCheck(v, c),
                 source |-> SourceOf(c), status |-> s[c], quality |-> "reproducible",
                 cites |-> FALSE, wellFormed |-> TRUE]
<1>1. Verdict(ctx, CorePolicy, ev) = "PASS"
  BY DEF Gate
<1>2. ctx.disposition = validation[v].disposition
  BY DEF Context
<1>3. s[c] \in Statuses
  BY DEF Bundles
<1> SUFFICES ASSUME s[c] # "none"
             PROVE  s[c] \in {"PASS", "WARN"}
  OBVIOUS
<1>4. e \in Evidence(v, s)
  BY DEF Evidence
<1>5. e \in ev.accepted
  BY <1>2, <1>4 DEF Collected, Ignored
<1>6. e \in Judged(ctx, ev)
  BY <1>2, <1>5 DEF Judged
<1>7. Trustworthy(e) /\ e.required /\ ~Advisory(e) /\ e.status = s[c]
  BY DEF Trustworthy, Advisory
<1> HIDE DEF e, ev, ctx, s
<1>8. ~Unusable(e)
  BY <1>1, <1>6 DEF Verdict, Incomplete, IncompleteResults
<1>9. ~Blocks(e, CorePolicy)
  BY <1>1, <1>6 DEF Verdict, Blocking, FindsBlocking, BlockingResults
<1> QED
  BY <1>3, <1>7, <1>8, <1>9 DEF Unusable, Blocks, Statuses, ErrorStatuses

\* The runners whose result counts in a bundle: those given, the regression
\* check where the decision requires it.
Counts(v, r) ==
  r \in validation[v].runners /\ (r = "B07" => validation[v].disposition = "REQUIRED")

Vetted(v) ==
  /\ validation[v].status["framework"] # "ERROR"
  /\ validation[v].status["structure"] \in {"none", "PASS", "WARN"}
  /\ \A r \in Runners : Counts(v, r) => validation[v].status[r] \in {"none", "PASS", "WARN"}

LEMMA PassVets ==
  ASSUME NEW v, inspection[v] \in Inspections, validation[v] \in Bundles, NEW confirmed,
         Gate(v, confirmed, Evidence(v, validation[v].status)).verdict = "PASS"
  PROVE  Vetted(v) /\ confirmed
<1>1. ~Incomplete(Context(v, confirmed), CorePolicy,
                  Collected(Context(v, confirmed), Evidence(v, validation[v].status)))
  BY DEF Gate, Verdict
<1>2. confirmed
  BY <1>1 DEF Incomplete, Context
<1>3. /\ {"framework", "structure"} \cup Runners \subseteq Checks
      /\ ({"framework", "structure"} \cup Runners) \cap (SignalChecks \cup BloatChecks) = {}
      /\ \A c \in {"framework", "structure"} \cup Runners : RequiredCheck(v, c)
  BY PipelineOK, CheckNames DEF RequiredCheck, Runners
<1>4. Vetted(v)
  BY <1>3, PassingStatus DEF Vetted, Counts
<1> QED
  BY <1>2, <1>4

\* What a formal receipt stands for (completion_receipt).
ReceiptMeans(v) ==
  outcome[v] # NoDoc /\ outcome[v].formal =>
    /\ outcome[v].confirmed
    /\ Coverage(v, validation[v]) = "FULL"
    /\ Preservation(validation[v]) = "CAPABILITY_PRESERVED"
    /\ Vetted(v)
    /\ ~IsAudit(v) => validation[v].requested
    /\ IsAudit(v) => outcome[v].lifecycle = "AUDIT_COMPLETE_VALID"

\* The receipt of an audit, when it is formal.
LEMMA AuditReceipt ==
  ASSUME NEW v, inspection[v] \in Inspections, validation[v] \in Bundles,
         NEW unchanged \in BOOLEAN, NEW agrees \in BOOLEAN,
         AuditOutcome(v, unchanged, agrees).formal
  PROVE  /\ AuditOutcome(v, unchanged, agrees).confirmed
         /\ AuditOutcome(v, unchanged, agrees).lifecycle = "AUDIT_COMPLETE_VALID"
         /\ Coverage(v, validation[v]) = "FULL"
         /\ Preservation(validation[v]) = "CAPABILITY_PRESERVED"
         /\ Vetted(v)
<1>1. /\ AuditVerdict(v, unchanged, agrees /\ unchanged) = "PASS"
      /\ AuditLifecycle(v, unchanged) = "AUDIT_COMPLETE_VALID"
      /\ Coverage(v, validation[v]) = "FULL"
      /\ Preservation(validation[v]) = "CAPABILITY_PRESERVED"
  BY DEF AuditOutcome, Formal
<1>2. unchanged
  BY <1>1 DEF AuditLifecycle
<1>3. Gate(v, agrees /\ unchanged, Evidence(v, validation[v].status)).verdict = "PASS"
  BY <1>1, <1>2 DEF AuditVerdict, AuditStatus
<1>4. Vetted(v) /\ agrees
  BY <1>3, PassVets
<1> QED
  BY <1>1, <1>2, <1>4 DEF AuditOutcome

\* The receipt of a change, when it is formal.
LEMMA ChangeReceipt ==
  ASSUME NEW v, inspection[v] \in Inspections, validation[v] \in Bundles, ~IsAudit(v),
         ChangeOutcome(v).formal
  PROVE  /\ ChangeOutcome(v).confirmed
         /\ Coverage(v, validation[v]) = "FULL"
         /\ Preservation(validation[v]) = "CAPABILITY_PRESERVED"
         /\ Vetted(v) /\ validation[v].requested
<1>1. /\ ChangeGate(v).verdict = "PASS" /\ ChangeGate(v).outcome = "READY_TO_APPLY"
      /\ Coverage(v, validation[v]) = "FULL"
      /\ Preservation(validation[v]) = "CAPABILITY_PRESERVED"
  BY DEF ChangeOutcome, Formal
<1>2. Vetted(v) /\ cmd.agrees
  BY <1>1, PassVets DEF ChangeGate
<1>3. validation[v].requested
  <2> DEFINE ctx == Context(v, cmd.agrees)
             ev == Collected(ctx, Evidence(v, validation[v].status))
  <2>1. Outcome(ctx, CorePolicy, ev) = "READY_TO_APPLY"
    BY <1>1 DEF ChangeGate, Gate
  <2>2. Verdict(ctx, CorePolicy, ev) = "PASS"
    BY <1>1 DEF ChangeGate, Gate
  <2>3. ctx.applyRequested => validation[v].requested
    BY DEF Context
  <2> HIDE DEF ctx, ev
  <2>4. ApplyAuthorized(ctx, CorePolicy, ev)
    BY <2>1, <2>2 DEF Outcome
  <2> QED
    BY <2>3, <2>4 DEF ApplyAuthorized
<1> QED
  BY <1>1, <1>2, <1>3 DEF ChangeOutcome

-----------------------------------------------------------------------------
(***************************************************************************)
(* What a step does to each part of the state.                              *)
(***************************************************************************)

Phase(v) == Inspect(v) \/ Validate(v) \/ Confirm(v) \/ Apply(v)

\* Documents are written once: only an outcome is written again, by confirm.
LEMMA DocsStep ==
  ASSUME WellFormed, [Next]_vars, NEW v \in Operations
  PROVE  /\ inspection[v] # NoDoc => inspection'[v] = inspection[v]
         /\ validation[v] # NoDoc =>
              validation'[v] = validation[v] /\ inspection'[v] = inspection[v]
         /\ \/ outcome'[v] = outcome[v]
            \/ ConfirmAudit(v) /\ outcome'[v] = AuditOutcome(v, cmd.unchanged, cmd.agrees)
            \/ ConfirmChange(v) /\ outcome'[v] = ChangeOutcome(v)
<1>0. validation[v] # NoDoc => inspection[v] # NoDoc
  BY DEF WellFormed, DocsOK
<1>1. ASSUME NEW w \in Operations, Inspect(w)
      PROVE  /\ inspection[v] # NoDoc => inspection'[v] = inspection[v]
             /\ UNCHANGED <<validation, outcome>>
  <2>1. CASE \E contract, capable \in BOOLEAN : AskProviders(w, contract, capable)
    <3>1. inspection[w] = NoDoc
      BY <2>1 DEF AskProviders, At, WellFormed, DocsOK
    <3> QED
      BY <2>1, <3>1 DEF AskProviders, WellFormed, TypeOK
  <2> QED
    BY <1>1, <2>1 DEF Inspect, StartInspect, docs
<1>2. ASSUME NEW w \in Operations, Validate(w)
      PROVE  /\ validation[v] # NoDoc => validation'[v] = validation[v]
             /\ UNCHANGED <<inspection, outcome>>
  <2>1. CASE CollectEvidence(w)
    <3>1. At(w, "collect")
      BY <2>1, CollectEffect
    <3>2. validation[w] = NoDoc
      BY <3>1, AtFacts DEF ValidateSteps
    <3> QED
      BY <2>1, <3>2, CollectEffect DEF WellFormed, TypeOK
  <2> QED
    BY <1>2, <2>1 DEF Validate, StartValidate, TakeSnapshot, StageCandidate, Run, SkipRunner,
                      Recheck, BuildManifest, CompareCapabilities, docs
<1>3. ASSUME NEW w \in Operations, Confirm(w)
      PROVE  /\ UNCHANGED <<inspection, validation>>
             /\ \/ outcome'[v] = outcome[v]
                \/ ConfirmAudit(v) /\ outcome'[v] = AuditOutcome(v, cmd.unchanged, cmd.agrees)
                \/ ConfirmChange(v) /\ outcome'[v] = ChangeOutcome(v)
  <2>1. CASE ConfirmAudit(w)
    BY <2>1 DEF ConfirmAudit, WellFormed, TypeOK
  <2>2. CASE ConfirmChange(w)
    BY <2>2 DEF ConfirmChange, WellFormed, TypeOK
  <2> QED
    BY <1>3, <2>1, <2>2 DEF Confirm, StartConfirm, ConfirmSource, ConfirmArtifact, docs
<1>4. ASSUME NEW w \in Operations, Apply(w)
      PROVE  UNCHANGED docs
  BY <1>4 DEF Apply, StartApply, CheckCandidate, VerifySource, Publish, Recover
<1>5. ASSUME Environment
      PROVE  UNCHANGED docs
  BY <1>5 DEF Environment, Interrupt, InterruptPublish, Edit, TamperSnapshot, TamperCandidate
<1>6. CASE UNCHANGED vars
  BY <1>6 DEF vars, docs
<1> QED
  BY <1>0, <1>1, <1>2, <1>3, <1>4, <1>5, <1>6 DEF Next, docs

\* Only Publish installs, and it takes the staged candidate away.
LEMMA LogStep ==
  ASSUME WellFormed, [Next]_vars, NEW v \in Operations
  PROVE  \/ log'[v] = log[v]
         \/ /\ Publish(v) /\ staged'[v] = NoTree
            /\ log'[v] = Append(log[v],
                 [before |-> source, after |-> staged[v], raced |-> cmd.raced])
<1>1. ASSUME NEW w \in Operations, Phase(w), ~Publish(w)
      PROVE  UNCHANGED log
  BY <1>1 DEF Phase, Inspect, Validate, Confirm, Apply, StartInspect, AskProviders,
       StartValidate, TakeSnapshot, StageCandidate, Run, SkipRunner, Recheck, BuildManifest,
       CompareCapabilities, CollectEvidence, StartConfirm, ConfirmSource, ConfirmArtifact,
       ConfirmAudit, ConfirmChange, StartApply, CheckCandidate, VerifySource, Recover
<1>2. ASSUME NEW w \in Operations, Publish(w)
      PROVE  \/ log'[v] = log[v]
             \/ /\ Publish(v) /\ staged'[v] = NoTree
                /\ log'[v] = Append(log[v],
                     [before |-> source, after |-> staged[v], raced |-> cmd.raced])
  BY <1>2 DEF Publish, WellFormed, TypeOK
<1>3. ASSUME Environment
      PROVE  UNCHANGED log
  BY <1>3 DEF Environment, Interrupt, InterruptPublish, Edit, TamperSnapshot, TamperCandidate
<1> QED
  BY <1>1, <1>2, <1>3 DEF Next, Phase, vars

\* A step of a phase leaves the source alone, but for the end of an apply, which may
\* lose it or leave a candidate there that was changed.
LEMMA SourceStep ==
  ASSUME [Next]_vars
  PROVE  \/ UNCHANGED source
         \/ \E v \in Operations : Publish(v) /\ cmd' = NoDoc
         \/ \E c \in Contents : Edit(c)
         \/ \E v \in Operations :
              /\ At(v, "publish") /\ cmd' = NoDoc
              /\ source' = NoTree \/ staged[v] # validation[v].artifact
<1>1. ASSUME NEW v \in Operations, Phase(v), ~Publish(v), ~Recover(v)
      PROVE  UNCHANGED source
  BY <1>1 DEF Phase, Inspect, Validate, Confirm, Apply, StartInspect, AskProviders,
       StartValidate, TakeSnapshot, StageCandidate, Run, SkipRunner, Recheck, BuildManifest,
       CompareCapabilities, CollectEvidence, StartConfirm, ConfirmSource, ConfirmArtifact,
       ConfirmAudit, ConfirmChange, StartApply, CheckCandidate, VerifySource
<1>2. ASSUME NEW v \in Operations, Publish(v)
      PROVE  cmd' = NoDoc
  BY <1>2 DEF Publish, Raise
<1>3. ASSUME NEW v \in Operations, Recover(v) \/ InterruptPublish(v)
      PROVE  \/ UNCHANGED source
             \/ /\ At(v, "publish") /\ cmd' = NoDoc
                /\ source' = NoTree \/ staged[v] # validation[v].artifact
  BY <1>3 DEF Recover, InterruptPublish, Raise
<1> QED
  BY <1>1, <1>2, <1>3 DEF Next, Phase, vars, Environment, Interrupt, TamperSnapshot,
     TamperCandidate

\* A staged candidate appears in StageCandidate only, and is otherwise changed
\* by tampering or taken away by the end of an apply.
LEMMA StagedStep ==
  ASSUME WellFormed, [Next]_vars, NEW v \in Operations
  PROVE  \/ staged'[v] = staged[v]
         \/ At(v, "stage") /\ ~IsAudit(v) /\ staged'[v] \in Contents
         \/ At(v, "publish") /\ staged'[v] = NoTree
         \/ /\ staged[v] # NoTree /\ staged'[v] \in Contents
            /\ Spend("tamper") /\ UNCHANGED <<source, docs, cmd, log>>
<1>1. ASSUME NEW w \in Operations, Phase(w),
             ~Publish(w), ~Recover(w), ~\E c \in Contents : StageCandidate(w, c)
      PROVE  UNCHANGED staged
  BY <1>1 DEF Phase, Inspect, Validate, Confirm, Apply, StartInspect, AskProviders,
       StartValidate, TakeSnapshot, Run, SkipRunner, Recheck, BuildManifest,
       CompareCapabilities, CollectEvidence, StartConfirm, ConfirmSource, ConfirmArtifact,
       ConfirmAudit, ConfirmChange, StartApply, CheckCandidate, VerifySource
<1>2. ASSUME NEW w \in Operations, NEW c \in Contents, StageCandidate(w, c)
      PROVE  \/ staged'[v] = staged[v]
             \/ At(v, "stage") /\ ~IsAudit(v) /\ staged'[v] \in Contents
  BY <1>2 DEF StageCandidate, WellFormed, TypeOK
<1>3. ASSUME NEW w \in Operations, Publish(w) \/ Recover(w)
      PROVE  \/ staged'[v] = staged[v]
             \/ At(v, "publish") /\ staged'[v] = NoTree
  BY <1>3 DEF Publish, Recover, WellFormed, TypeOK
<1>4. ASSUME NEW w \in Operations, NEW c \in Contents, TamperCandidate(w, c)
      PROVE  \/ staged'[v] = staged[v]
             \/ /\ staged[v] # NoTree /\ staged'[v] \in Contents
                /\ Spend("tamper") /\ UNCHANGED <<source, docs, cmd, log>>
  BY <1>4 DEF TamperCandidate, WellFormed, TypeOK
<1>5. CASE Interrupt \/ \E c \in Contents : Edit(c) \/ TamperSnapshot(c)
  BY <1>5 DEF Interrupt, Edit, TamperSnapshot
<1>6. ASSUME NEW w \in Operations, InterruptPublish(w)
      PROVE  \/ staged'[v] = staged[v]
             \/ At(v, "publish") /\ staged'[v] = NoTree
  BY <1>6 DEF InterruptPublish, WellFormed, TypeOK
<1> QED
  BY <1>1, <1>2, <1>3, <1>4, <1>5, <1>6 DEF Next, Phase, vars, Environment

\* The environment moves no command on.
LEMMA EnvironmentStep ==
  ASSUME WellFormed, Environment \/ UNCHANGED vars, cmd' # NoDoc
  PROVE  /\ ~Idle /\ cmd \in Commands
         /\ cmd'.by = cmd.by /\ cmd'.at = cmd.at /\ cmd'.op = cmd.op /\ cmd'.draft = cmd.draft
         /\ cmd'.unchanged = cmd.unchanged /\ cmd'.agrees = cmd.agrees
         /\ UNCHANGED <<docs, log>>
         /\ \/ cmd' = cmd /\ UNCHANGED source
            \/ \E c \in Contents : Edit(c)
            \/ cmd'.copy \in Contents /\ Spend("tamper") /\ UNCHANGED <<source, staged>>
               /\ cmd'.raced = cmd.raced
<1>0. cmd \in Commands \cup {NoDoc}
  BY DEF WellFormed, TypeOK
<1>1. ASSUME UNCHANGED <<source, docs, cmd, log>>
      PROVE  /\ ~Idle /\ cmd \in Commands /\ UNCHANGED <<docs, log>>
             /\ cmd' = cmd /\ UNCHANGED source
  BY <1>0, <1>1 DEF Idle
<1>2. ASSUME NEW c \in Contents, Edit(c)
      PROVE  /\ ~Idle /\ cmd \in Commands /\ UNCHANGED <<docs, log>>
             /\ cmd'.by = cmd.by /\ cmd'.at = cmd.at /\ cmd'.op = cmd.op
             /\ cmd'.draft = cmd.draft /\ cmd'.unchanged = cmd.unchanged
             /\ cmd'.agrees = cmd.agrees
  BY <1>0, <1>2 DEF Edit, Idle, Commands
<1>3. ASSUME NEW c \in Contents, TamperSnapshot(c)
      PROVE  /\ ~Idle /\ cmd \in Commands /\ UNCHANGED <<docs, log>>
             /\ cmd'.by = cmd.by /\ cmd'.at = cmd.at /\ cmd'.op = cmd.op
             /\ cmd'.draft = cmd.draft /\ cmd'.unchanged = cmd.unchanged
             /\ cmd'.agrees = cmd.agrees /\ cmd'.raced = cmd.raced
             /\ cmd'.copy \in Contents /\ Spend("tamper") /\ UNCHANGED <<source, staged>>
  BY <1>0, <1>3 DEF TamperSnapshot, Idle, Commands
<1>4. ASSUME NEW v \in Operations, NEW c \in Contents, TamperCandidate(v, c)
      PROVE  UNCHANGED <<source, docs, cmd, log>>
  BY <1>4 DEF TamperCandidate
<1>5. CASE UNCHANGED <<source, docs, cmd, log>>
  BY <1>1, <1>5
<1>6. ~Interrupt /\ ~\E v \in Operations : InterruptPublish(v)
  BY DEF Interrupt, InterruptPublish, Raise
<1>7. UNCHANGED vars => UNCHANGED <<source, docs, cmd, log>>
  BY DEF vars
<1> QED
  BY <1>2, <1>3, <1>4, <1>5, <1>6, <1>7 DEF Environment

\* How a phase gets from one step to the next.
LEMMA PhaseStep ==
  ASSUME WellFormed, NEW v \in Operations, Phase(v), cmd' # NoDoc
  PROVE  /\ cmd'.by = v /\ UNCHANGED <<source, docs, log>>
         /\ \/ Idle /\ cmd'.at \in {"providers", "stage", "source"}
            \/ ~Idle /\ cmd.by = v /\ cmd'.op = cmd.op
         /\ ~Idle /\ cmd'.at \in ValidateSteps => cmd.at \in ValidateSteps
         /\ cmd'.at = "providers" => \E mode \in Modes, app \in Applicabilities :
                                       StartInspect(v, mode, app)
         /\ cmd'.at = "artifact" => ConfirmSource(v)
         /\ cmd'.at = "gate" => ConfirmArtifact(v)
         /\ cmd'.at = "candidate" => ConfirmChange(v)
         /\ cmd'.at = "verify" => CheckCandidate(v)
         /\ cmd'.at = "publish" => VerifySource(v)
<1>1. CASE Inspect(v)
  <2>1. PICK mode \in Modes, app \in Applicabilities : StartInspect(v, mode, app)
    BY <1>1 DEF Inspect, AskProviders, Raise
  <2>2. cmd'.by = v /\ cmd'.at = "providers" /\ Idle /\ UNCHANGED <<source, docs, log>>
    BY <2>1 DEF StartInspect, Command
  <2> QED
    BY <2>1, <2>2
<1>2. CASE Validate(v)
  <2>1. CASE \E d \in Dispositions, rs \in RunnerSets, requested \in BOOLEAN :
               StartValidate(v, d, rs, requested)
    BY <2>1 DEF StartValidate, Command
  <2>2. CASE TakeSnapshot(v) \/ Recheck(v) \/ BuildManifest(v) \/ CompareCapabilities(v)
             \/ \E c \in Contents : StageCandidate(v, c)
    BY <2>2 DEF TakeSnapshot, Recheck, BuildManifest, CompareCapabilities, StageCandidate,
                At, Idle, Raise, Advance, WellFormed, TypeOK, Commands, ValidateSteps
  <2>3. ASSUME NEW r \in Runners, Run(v, r) \/ SkipRunner(v, r)
        PROVE  /\ ~Idle /\ cmd.by = v /\ cmd'.by = v /\ cmd'.op = cmd.op
               /\ cmd.at \in ValidateSteps
               /\ cmd'.at = AfterRunner(v, r) /\ UNCHANGED <<source, docs, log>>
    <3>1. At(v, r)
      BY <2>3 DEF Run, SkipRunner
    <3>2. ~Idle /\ cmd \in Commands /\ cmd.by = v /\ cmd.at \in ValidateSteps
      BY <3>1, AtFacts, RunnerSteps
    <3>3. PICK d : cmd' = [cmd EXCEPT !.at = AfterRunner(v, r), !.draft = d]
      BY <2>3 DEF Run, SkipRunner
    <3> QED
      BY <2>3, <3>2, <3>3 DEF Run, SkipRunner, Commands
  <2>4. \A r \in Runners : AfterRunner(v, r) \in {"B07", "contract", "recheck", "manifest"}
    BY DEF AfterRunner, Runners
  <2>5. CASE CollectEvidence(v)
    BY <2>5, CollectEffect DEF Raise
  <2> QED
    BY <1>2, <2>1, <2>2, <2>3, <2>4, <2>5 DEF Validate
<1>3. CASE Confirm(v)
  <2>1. CASE \E agrees \in BOOLEAN : StartConfirm(v, agrees)
    BY <2>1 DEF StartConfirm, Command, ValidateSteps
  <2>2. CASE ConfirmSource(v)
    BY <2>2, ZenonT(60) DEF ConfirmSource, At, Idle, Raise, Advance, WellFormed, TypeOK, Commands, ValidateSteps
  <2>3. CASE ConfirmArtifact(v)
    BY <2>3, ZenonT(60) DEF ConfirmArtifact, At, Idle, Raise, Advance, WellFormed, TypeOK, Commands, ValidateSteps
  <2>4. CASE ConfirmChange(v)
    BY <2>4 DEF ConfirmChange, At, Idle, Raise, Advance, WellFormed, TypeOK, Commands, ValidateSteps,
                docs
  <2> QED
    BY <1>3, <2>1, <2>2, <2>3, <2>4 DEF Confirm, ConfirmAudit, Raise
<1>4. CASE Apply(v)
  BY <1>4 DEF Apply, StartApply, CheckCandidate, VerifySource, Publish, Recover,
              At, Idle, Raise, Advance, WellFormed, TypeOK, Commands, Command, ValidateSteps
<1> QED
  BY <1>1, <1>2, <1>3, <1>4 DEF Phase

\* How validate gets from one step to the next, and what it drafts on the way.
LEMMA ValidateStep ==
  ASSUME WellFormed, NEW v \in Operations, Validate(v), ~Idle, cmd' # NoDoc
  PROVE  /\ cmd.by = v /\ cmd'.by = v /\ cmd.draft \in Bundles
         /\ \/ /\ cmd.at = "stage" /\ cmd'.at = "behavior" /\ cmd'.draft = cmd.draft
               /\ IsAudit(v) => cmd'.copy = source /\ UNCHANGED staged
               /\ ~IsAudit(v) => staged'[v] \in Contents
            \/ /\ cmd'.copy = cmd.copy /\ UNCHANGED staged
               /\ \/ \E r \in Runners :
                       /\ cmd.at = r /\ cmd'.at = AfterRunner(v, r) /\ Executed(r)
                       /\ \/ cmd'.draft = SourceChecked(v, Note(cmd.draft, r,
                               IF ExecutionTree(v) \in Passes[r] THEN "PASS" ELSE "FAIL",
                               ExecutionTree(v)))
                          \/ cmd'.draft = SourceChecked(v,
                               [cmd.draft EXCEPT !.status[r] = "ERROR"])
                  \/ \E r \in Runners :
                       /\ cmd.at = r /\ cmd'.at = AfterRunner(v, r) /\ ~Executed(r)
                       /\ cmd'.draft = [cmd.draft EXCEPT !.status[r] =
                            IF Mandatory(v, r) THEN "NOT_EXECUTED" ELSE "none"]
                  \/ /\ cmd.at = "recheck" /\ cmd'.at = "manifest"
                     /\ cmd'.draft = SourceChecked(v, cmd.draft)
                  \/ /\ cmd.at = "manifest" /\ cmd'.at = "capability"
                     /\ cmd'.draft = [cmd.draft EXCEPT !.artifact = ArtifactTree(v)]
                  \/ /\ cmd.at = "capability" /\ cmd'.at = "collect"
                     /\ \/ cmd'.draft = cmd.draft
                        \/ cmd'.draft = [cmd.draft EXCEPT !.status["capability"] = "NOT_EXECUTED"]
                        \/ cmd'.draft = Note(cmd.draft, "capability",
                             CapabilityStatus(v, ExecutionTree(v)), ExecutionTree(v))
<1>1. cmd \in Commands
  BY DEF WellFormed, TypeOK, Idle
<1>2. \A step \in ValidateSteps : At(v, step) => cmd.draft \in Bundles /\ cmd.by = v
  BY AtFacts
<1>3. CASE TakeSnapshot(v)
  BY <1>1, <1>2, <1>3 DEF TakeSnapshot, At, Commands, ValidateSteps
<1>4. ASSUME NEW c \in Contents, StageCandidate(v, c)
      PROVE  /\ cmd.by = v /\ cmd'.by = v /\ cmd.draft \in Bundles
             /\ cmd.at = "stage" /\ cmd'.at = "behavior" /\ cmd'.draft = cmd.draft
             /\ ~IsAudit(v) /\ staged'[v] \in Contents
  BY <1>1, <1>2, <1>4 DEF StageCandidate, At, Advance, Raise, Commands, ValidateSteps,
                          WellFormed, TypeOK
<1>5. ASSUME NEW r \in Runners, Run(v, r)
      PROVE  /\ cmd.by = v /\ cmd'.by = v /\ cmd.draft \in Bundles
             /\ cmd'.copy = cmd.copy /\ UNCHANGED staged
             /\ cmd.at = r /\ cmd'.at = AfterRunner(v, r) /\ Executed(r)
             /\ \/ cmd'.draft = SourceChecked(v, Note(cmd.draft, r,
                     IF ExecutionTree(v) \in Passes[r] THEN "PASS" ELSE "FAIL",
                     ExecutionTree(v)))
                \/ cmd'.draft = SourceChecked(v, [cmd.draft EXCEPT !.status[r] = "ERROR"])
  <2>1. At(v, r) /\ Executed(r) /\ UNCHANGED staged
    BY <1>5 DEF Run
  <2>2. cmd.by = v /\ cmd.at = r /\ cmd.draft \in Bundles
    BY <2>1, AtFacts, RunnerSteps
  <2>3. ASSUME NEW d, cmd' = [cmd EXCEPT !.at = AfterRunner(v, r), !.draft = d]
        PROVE  cmd'.by = cmd.by /\ cmd'.copy = cmd.copy /\ cmd'.at = AfterRunner(v, r)
               /\ cmd'.draft = d
    BY <1>1, <2>3 DEF Commands
  <2>4. PICK d : /\ cmd' = [cmd EXCEPT !.at = AfterRunner(v, r), !.draft = d]
                 /\ \/ d = SourceChecked(v, Note(cmd.draft, r,
                         IF ExecutionTree(v) \in Passes[r] THEN "PASS" ELSE "FAIL",
                         ExecutionTree(v)))
                    \/ d = SourceChecked(v, [cmd.draft EXCEPT !.status[r] = "ERROR"])
    BY <1>5 DEF Run
  <2> QED
    BY <2>1, <2>2, <2>3, <2>4
<1>6. ASSUME NEW r \in Runners, SkipRunner(v, r)
      PROVE  /\ cmd.by = v /\ cmd'.by = v /\ cmd.draft \in Bundles
             /\ cmd'.copy = cmd.copy /\ UNCHANGED staged
             /\ cmd.at = r /\ cmd'.at = AfterRunner(v, r) /\ ~Executed(r)
             /\ cmd'.draft = [cmd.draft EXCEPT !.status[r] =
                  IF Mandatory(v, r) THEN "NOT_EXECUTED" ELSE "none"]
  <2>1. At(v, r) /\ ~Executed(r) /\ UNCHANGED staged
    BY <1>6 DEF SkipRunner
  <2>2. cmd.by = v /\ cmd.at = r /\ cmd.draft \in Bundles
    BY <2>1, AtFacts, RunnerSteps
  <2> QED
    BY <1>1, <1>6, <2>1, <2>2 DEF SkipRunner, Commands
<1>7. CASE Recheck(v)
  BY <1>1, <1>2, <1>7 DEF Recheck, At, Commands, ValidateSteps
<1>8. CASE BuildManifest(v)
  BY <1>1, <1>2, <1>8 DEF BuildManifest, At, Commands, ValidateSteps
<1>9. CASE CompareCapabilities(v)
  BY <1>1, <1>2, <1>9 DEF CompareCapabilities, Advance, At, Commands, ValidateSteps
<1>10. ~CollectEvidence(v)
  BY CollectEffect DEF Raise
<1>11. ~\E d \in Dispositions, rs \in RunnerSets, requested \in BOOLEAN :
           StartValidate(v, d, rs, requested)
  BY DEF StartValidate
<1> QED
  BY <1>3, <1>4, <1>5, <1>6, <1>7, <1>8, <1>9, <1>10, <1>11 DEF Validate

-----------------------------------------------------------------------------
(***************************************************************************)
(* Applying.  The staged candidate is what an apply consumes: a bundle of a *)
(* change names a tree, so no second confirmation of it gets past its       *)
(* artifact once the candidate is gone, and no receipt of it is rewritten.  *)
(***************************************************************************)

\* A change is validated with a candidate staged, and its bundle names a tree.
StagedWhileValidated ==
  ~Idle /\ cmd.at \in ValidateSteps \ {"stage"} /\ ~IsAudit(cmd.by) =>
    /\ staged[cmd.by] # NoTree
    /\ cmd.at \in {"capability", "collect"} => cmd.draft.artifact # NoTree

BundleNamesTree ==
  \A v \in Operations :
    validation[v] # NoDoc /\ ~IsAudit(v) => validation[v].artifact # NoTree

StagingInv == StagedWhileValidated /\ BundleNamesTree

LEMMA StagingStep ==
  ASSUME WellFormed, StagingInv, [Next]_vars
  PROVE  StagingInv'
<1>1. BundleNamesTree'
  <2> SUFFICES ASSUME NEW v \in Operations, validation'[v] # NoDoc, ~IsAudit(v)'
               PROVE  validation'[v].artifact # NoTree
    BY DEF BundleNamesTree
  <2>1. CASE validation[v] # NoDoc
    BY <2>1, DocsStep DEF StagingInv, BundleNamesTree, IsAudit, Mode
  <2>2. CASE validation[v] = NoDoc
    <3>1. PICK w \in Operations : CollectEvidence(w)
      BY <2>2, ZenonT(60) DEF Next, Inspect, Validate, Confirm, Apply, StartInspect, AskProviders,
         StartValidate, TakeSnapshot, StageCandidate, Run, SkipRunner, Recheck,
         BuildManifest, CompareCapabilities, StartConfirm, ConfirmSource, ConfirmArtifact,
         ConfirmAudit, ConfirmChange, StartApply, CheckCandidate, VerifySource, Publish,
         Recover, Environment, Interrupt, InterruptPublish, Edit, TamperSnapshot, TamperCandidate, docs, vars
    <3>2. w = v
      BY <2>2, <3>1, CollectEffect DEF WellFormed, TypeOK
    <3>3. /\ ~Idle /\ cmd.by = v /\ cmd.at = "collect" /\ cmd.draft \in Bundles
          /\ UNCHANGED inspection
      BY <3>1, <3>2, CollectEffect, AtFacts DEF ValidateSteps
    <3>4. cmd.draft.artifact # NoTree
      BY <3>3 DEF StagingInv, StagedWhileValidated, IsAudit, Mode, ValidateSteps
    <3>5. validation'[v].artifact = cmd.draft.artifact
      BY <3>1, <3>2, BundleWritten
    <3> QED
      BY <3>4, <3>5
  <2> QED
    BY <2>1, <2>2
<1>2. StagedWhileValidated'
  <2> SUFFICES ASSUME cmd' # NoDoc, cmd'.at \in ValidateSteps \ {"stage"}, ~IsAudit(cmd.by)'
               PROVE  /\ staged'[cmd'.by] # NoTree
                      /\ cmd'.at \in {"capability", "collect"} => cmd'.draft.artifact # NoTree
    BY DEF StagedWhileValidated, Idle
  <2>1. CASE Environment \/ UNCHANGED vars
    <3>1. /\ ~Idle /\ cmd \in Commands
          /\ cmd'.by = cmd.by /\ cmd'.at = cmd.at /\ cmd'.draft = cmd.draft /\ UNCHANGED docs
      BY <2>1, EnvironmentStep
    <3>2. staged[cmd.by] # NoTree /\ ~IsAudit(cmd.by) /\ cmd.by \in Operations
          /\ (cmd.at \in {"capability", "collect"} => cmd.draft.artifact # NoTree)
      BY <3>1 DEF StagingInv, StagedWhileValidated, IsAudit, Mode, docs, Commands
    <3>3. ~At(cmd.by, "publish")
      BY <3>1 DEF At, ValidateSteps
    <3>4. staged'[cmd.by] # NoTree
      BY <3>2, <3>3, StagedStep, PipelineOK
    <3> QED
      BY <3>1, <3>2, <3>4
  <2>2. ASSUME NEW v \in Operations, Phase(v)
        PROVE  /\ staged'[cmd'.by] # NoTree
               /\ cmd'.at \in {"capability", "collect"} => cmd'.draft.artifact # NoTree
    <3>1. ~Idle /\ cmd'.by = v /\ cmd.by = v /\ UNCHANGED docs /\ cmd.at \in ValidateSteps
      BY <2>2, PhaseStep DEF ValidateSteps
    <3>2. Validate(v)
      BY <2>2, <3>1 DEF Phase, Inspect, StartInspect, AskProviders, Raise, Confirm, Apply,
         StartConfirm, ConfirmSource, ConfirmArtifact, ConfirmAudit, ConfirmChange, StartApply,
         CheckCandidate, VerifySource, Publish, Recover, At, ValidateSteps
    <3>3. ~IsAudit(v) /\ cmd \in Commands
      BY <3>1 DEF IsAudit, Mode, docs, WellFormed, TypeOK, Idle
    <3>4. cmd.at # "stage" => staged[v] # NoTree
      BY <3>1, <3>3 DEF StagingInv, StagedWhileValidated
    <3>5. staged'[v] # NoTree
      <4>1. \/ cmd.at = "stage" /\ staged'[v] \in Contents
            \/ cmd.at # "stage" /\ UNCHANGED staged
        BY <2>2, <3>1, <3>2, <3>3, ValidateStep DEF Runners
      <4> QED
        BY <3>4, <4>1, PipelineOK
    <3>6. CASE cmd'.at = "capability"
      <4>1. cmd.at = "manifest" /\ cmd'.draft = [cmd.draft EXCEPT !.artifact = ArtifactTree(v)]
            /\ cmd.draft \in Bundles
        BY <3>1, <3>2, <3>6, ValidateStep DEF AfterRunner, Runners
      <4> QED
        BY <3>3, <3>4, <3>5, <3>6, <3>1, <4>1 DEF ArtifactTree, Bundles
    <3>7. CASE cmd'.at = "collect"
      <4>1. cmd.at = "capability" /\ cmd'.draft.artifact = cmd.draft.artifact
        BY <3>1, <3>2, <3>7, ValidateStep DEF AfterRunner, Runners, Note, Bundles
      <4> QED
        BY <3>1, <3>3, <3>5, <4>1 DEF StagingInv, StagedWhileValidated
    <3> QED
      BY <3>1, <3>5, <3>6, <3>7
  <2> QED
    BY <2>1, <2>2 DEF Next, Phase
<1> QED
  BY <1>1, <1>2 DEF StagingInv

\* What was installed: once, the artifact of the bundle, with a formal receipt,
\* in place of the baseline unless an edit raced with the move.
Installed ==
  \A v \in Operations : log[v] # << >> =>
    /\ staged[v] = NoTree /\ Len(log[v]) = 1
    /\ validation[v] # NoDoc /\ ~IsAudit(v)
    /\ outcome[v] # NoDoc /\ outcome[v].formal
    /\ log[v][1].after = validation[v].artifact
    /\ Mode(v) # "CREATE" /\ ~log[v][1].raced => log[v][1].before = inspection[v].baseline

\* Past the comparison of its artifact a change has not been installed yet.
NotYetInstalled ==
  ~Idle /\ cmd.at \in {"gate"} \cup ApplySteps /\ ~IsAudit(cmd.by) => log[cmd.by] = << >>

\* What apply has checked when it comes to the candidate, and to the move.
ReadyToApply ==
  ~Idle /\ cmd.at \in ApplySteps =>
    /\ ~IsAudit(cmd.by) /\ outcome[cmd.by] # NoDoc /\ outcome[cmd.by].formal
    /\ cmd.at = "publish" /\ ~cmd.raced /\ Mode(cmd.by) # "CREATE"
         => source = inspection[cmd.by].baseline

Receipts == \A v \in Operations : ReceiptMeans(v)

ApplyInv == StagingInv /\ Installed /\ NotYetInstalled /\ ReadyToApply /\ Receipts

\* A step at the gate of one operation is the command's own.
LEMMA AtGate ==
  ASSUME WellFormed, NEW v \in Operations, ConfirmAudit(v) \/ ConfirmChange(v)
  PROVE  /\ ~Idle /\ cmd.by = v /\ cmd.at = "gate"
         /\ inspection[v] \in Inspections /\ validation[v] \in Bundles
         /\ validation[v] # NoDoc /\ UNCHANGED <<inspection, validation>>
         /\ cmd.unchanged \in BOOLEAN /\ cmd.agrees \in BOOLEAN
<1>1. At(v, "gate") /\ UNCHANGED <<inspection, validation>>
  BY DEF ConfirmAudit, ConfirmChange
<1>2. "gate" \in ConfirmSteps
  BY DEF ConfirmSteps
<1> QED
  BY <1>1, <1>2, AtFacts, NoDocument DEF Commands

\* What a receipt says of the documents stays true while they stay.
LEMMA DocsDecide ==
  ASSUME NEW v, inspection'[v] = inspection[v], validation'[v] = validation[v]
  PROVE  /\ (Coverage(v, validation[v]) = "FULL")' <=> Coverage(v, validation[v]) = "FULL"
         /\ (Preservation(validation[v]) = "CAPABILITY_PRESERVED")'
              <=> Preservation(validation[v]) = "CAPABILITY_PRESERVED"
         /\ Vetted(v)' <=> Vetted(v)
         /\ IsAudit(v)' <=> IsAudit(v)
         /\ validation'[v].requested <=> validation[v].requested
<1>1. (Coverage(v, validation[v]) = "FULL")' <=> Coverage(v, validation[v]) = "FULL"
  BY DEF Coverage
<1>2. (Preservation(validation[v]) = "CAPABILITY_PRESERVED")'
        <=> Preservation(validation[v]) = "CAPABILITY_PRESERVED"
  BY DEF Preservation
<1>3. Vetted(v)' <=> Vetted(v)
  BY DEF Vetted, Counts
<1>4. IsAudit(v)' <=> IsAudit(v)
  BY DEF IsAudit, Mode
<1> QED
  BY <1>1, <1>2, <1>3, <1>4

LEMMA ReceiptsStep ==
  ASSUME WellFormed, Receipts, [Next]_vars
  PROVE  Receipts'
<1> SUFFICES ASSUME NEW v \in Operations, outcome'[v] # NoDoc, outcome'[v].formal
             PROVE  ReceiptMeans(v)'
  BY DEF Receipts, ReceiptMeans
<1>1. CASE outcome'[v] = outcome[v]
  <2>1. validation[v] # NoDoc
    BY <1>1 DEF WellFormed, DocsOK
  <2>2. inspection'[v] = inspection[v] /\ validation'[v] = validation[v]
    BY <2>1, DocsStep
  <2>3. ReceiptMeans(v)
    BY DEF Receipts
  <2> QED
    BY <1>1, <2>2, <2>3, DocsDecide DEF ReceiptMeans
<1>2. CASE ConfirmAudit(v) /\ outcome'[v] = AuditOutcome(v, cmd.unchanged, cmd.agrees)
  <2>1. IsAudit(v)
    BY <1>2 DEF ConfirmAudit
  <2>2. /\ inspection[v] \in Inspections /\ validation[v] \in Bundles
        /\ UNCHANGED <<inspection, validation>>
        /\ cmd.unchanged \in BOOLEAN /\ cmd.agrees \in BOOLEAN
    BY <1>2, AtGate
  <2>3. /\ outcome'[v].confirmed /\ outcome'[v].lifecycle = "AUDIT_COMPLETE_VALID"
        /\ Coverage(v, validation[v]) = "FULL"
        /\ Preservation(validation[v]) = "CAPABILITY_PRESERVED" /\ Vetted(v)
    BY <1>2, <2>2, AuditReceipt
  <2> QED
    BY <2>1, <2>2, <2>3, DocsDecide DEF ReceiptMeans
<1>3. CASE ConfirmChange(v) /\ outcome'[v] = ChangeOutcome(v)
  <2>1. ~IsAudit(v)
    BY <1>3 DEF ConfirmChange
  <2>2. /\ inspection[v] \in Inspections /\ validation[v] \in Bundles
        /\ UNCHANGED <<inspection, validation>>
    BY <1>3, AtGate
  <2>3. /\ outcome'[v].confirmed /\ Vetted(v) /\ validation[v].requested
        /\ Coverage(v, validation[v]) = "FULL"
        /\ Preservation(validation[v]) = "CAPABILITY_PRESERVED"
    BY <1>3, <2>1, <2>2, ChangeReceipt
  <2> QED
    BY <2>1, <2>2, <2>3, DocsDecide DEF ReceiptMeans
<1> QED
  BY <1>1, <1>2, <1>3, DocsStep

LEMMA InstalledStep ==
  ASSUME WellFormed, ApplyInv, [Next]_vars
  PROVE  Installed'
<1> SUFFICES ASSUME NEW v \in Operations, log'[v] # << >>
             PROVE  /\ staged'[v] = NoTree /\ Len(log'[v]) = 1
                    /\ validation'[v] # NoDoc /\ ~IsAudit(v)'
                    /\ outcome'[v] # NoDoc /\ outcome'[v].formal
                    /\ log'[v][1].after = validation'[v].artifact
                    /\ Mode(v)' # "CREATE" /\ ~log'[v][1].raced
                         => log'[v][1].before = inspection'[v].baseline
  BY DEF Installed
<1>1. CASE log'[v] = log[v]
  <2>1. /\ staged[v] = NoTree /\ validation[v] # NoDoc /\ ~IsAudit(v)
        /\ outcome[v] # NoDoc /\ outcome[v].formal
    BY <1>1 DEF ApplyInv, Installed
  <2>2. inspection'[v] = inspection[v] /\ validation'[v] = validation[v]
    BY <2>1, DocsStep
  <2>3. outcome'[v] = outcome[v]
    <3>1. ~ConfirmAudit(v)
      BY <2>1 DEF ConfirmAudit
    <3>2. ~ConfirmChange(v)
      BY <1>1, <2>1, AtGate DEF ApplyInv, NotYetInstalled
    <3> QED
      BY <3>1, <3>2, DocsStep
  <2>4. staged'[v] = NoTree
    <3>1. ~At(v, "stage")
      BY <2>1, AtFacts DEF ValidateSteps
    <3> QED
      BY <2>1, <3>1, StagedStep
  <2> QED
    BY <1>1, <2>1, <2>2, <2>3, <2>4 DEF ApplyInv, Installed, IsAudit, Mode
<1>2. CASE /\ Publish(v) /\ staged'[v] = NoTree
           /\ log'[v] = Append(log[v],
                [before |-> source, after |-> staged[v], raced |-> cmd.raced])
  <2>1. ~Idle /\ cmd.by = v /\ cmd.at = "publish" /\ UNCHANGED docs
        /\ staged[v] = validation[v].artifact
    BY <1>2 DEF Publish, At
  <2>2. log[v] = << >> /\ ~IsAudit(v) /\ outcome[v] # NoDoc /\ outcome[v].formal
        /\ (~cmd.raced /\ Mode(v) # "CREATE" => source = inspection[v].baseline)
    BY <2>1 DEF ApplyInv, NotYetInstalled, ReadyToApply, ApplySteps
  <2>3. validation[v] # NoDoc
    BY <2>2 DEF WellFormed, DocsOK
  <2> DEFINE entry == [before |-> source, after |-> staged[v], raced |-> cmd.raced]
  <2>4. entry.before = source /\ entry.after = staged[v] /\ entry.raced = cmd.raced
    OBVIOUS
  <2> HIDE DEF entry
  <2>5. log'[v] = <<entry>>
    BY <1>2, <2>2 DEF entry
  <2>6. Len(log'[v]) = 1 /\ log'[v][1] = entry
    BY <2>5
  <2> QED
    BY <1>2, <2>1, <2>2, <2>3, <2>4, <2>6 DEF docs, IsAudit, Mode
<1> QED
  BY <1>1, <1>2, LogStep

\* Getting past the artifact takes a staged candidate, so nothing was installed.
LEMMA NotYetInstalledStep ==
  ASSUME WellFormed, ApplyInv, [Next]_vars
  PROVE  NotYetInstalled'
<1> SUFFICES ASSUME cmd' # NoDoc, cmd'.at \in {"gate"} \cup ApplySteps, ~IsAudit(cmd.by)'
             PROVE  log'[cmd'.by] = << >>
  BY DEF NotYetInstalled, Idle
<1>1. CASE Environment \/ UNCHANGED vars
  BY <1>1, EnvironmentStep DEF ApplyInv, NotYetInstalled, IsAudit, Mode, docs
<1>2. ASSUME NEW v \in Operations, Phase(v)
      PROVE  log'[cmd'.by] = << >>
  <2>1. cmd'.by = v /\ ~Idle /\ cmd.by = v /\ UNCHANGED <<docs, log>> /\ ~IsAudit(v)
    BY <1>2, PhaseStep DEF ApplySteps, docs, IsAudit, Mode
  <2>2. CASE cmd'.at = "gate"
    <3>1. ConfirmArtifact(v)
      BY <1>2, <2>2, PhaseStep
    <3>2. staged[v] = validation[v].artifact /\ validation[v] # NoDoc
      BY <2>1, <3>1 DEF ConfirmArtifact, ArtifactTree, Raise, At, WellFormed, DocsOK,
                        ConfirmSteps
    <3> QED
      BY <2>1, <3>2 DEF ApplyInv, StagingInv, BundleNamesTree, Installed
  <2>3. CASE cmd'.at \in ApplySteps
    <3>1. cmd.at \in {"gate"} \cup ApplySteps
      BY <1>2, <2>3, PhaseStep DEF ConfirmChange, CheckCandidate, VerifySource, At, ApplySteps
    <3> QED
      BY <2>1, <3>1 DEF ApplyInv, NotYetInstalled
  <2> QED
    BY <2>2, <2>3
<1> QED
  BY <1>1, <1>2 DEF Next, Phase

\* apply_atomic compares the source last: an edit after that is a race.
LEMMA ReadyToApplyStep ==
  ASSUME WellFormed, ApplyInv, [Next]_vars
  PROVE  ReadyToApply'
<1> SUFFICES ASSUME cmd' # NoDoc, cmd'.at \in ApplySteps
             PROVE  /\ ~IsAudit(cmd.by)' /\ outcome'[cmd'.by] # NoDoc /\ outcome'[cmd'.by].formal
                    /\ cmd'.at = "publish" /\ ~cmd'.raced /\ Mode(cmd.by)' # "CREATE"
                         => source' = inspection'[cmd'.by].baseline
  BY DEF ReadyToApply, Idle
<1>1. CASE Environment \/ UNCHANGED vars
  <2>1. /\ ~Idle /\ cmd \in Commands /\ cmd'.by = cmd.by /\ cmd'.at = cmd.at /\ UNCHANGED docs
        /\ \/ cmd' = cmd /\ UNCHANGED source
           \/ \E c \in Contents : Edit(c)
           \/ cmd'.raced = cmd.raced /\ UNCHANGED source
    BY <1>1, EnvironmentStep
  <2>2. ASSUME NEW c \in Contents, Edit(c), cmd'.at = "publish"
        PROVE  cmd'.raced = TRUE
    BY <2>1, <2>2 DEF Edit, Commands
  <2> QED
    BY <2>1, <2>2 DEF ApplyInv, ReadyToApply, docs, IsAudit, Mode
<1>2. ASSUME NEW v \in Operations, Phase(v)
      PROVE  /\ ~IsAudit(cmd.by)' /\ outcome'[cmd'.by] # NoDoc /\ outcome'[cmd'.by].formal
             /\ cmd'.at = "publish" /\ ~cmd'.raced /\ Mode(cmd.by)' # "CREATE"
                  => source' = inspection'[cmd'.by].baseline
  <2>1. cmd'.by = v /\ ~Idle /\ cmd.by = v /\ UNCHANGED <<source, docs, log>>
    BY <1>2, PhaseStep DEF ApplySteps
  <2>2. CASE cmd'.at = "candidate"
    <3>1. ConfirmChange(v)
      BY <1>2, <2>2, PhaseStep
    <3>2. ~IsAudit(v) /\ outcome[v].formal /\ cmd.op # "confirm"
      BY <2>1, <3>1 DEF ConfirmChange, Raise
    <3>3. outcome[v] # NoDoc
      BY <2>1, <3>1, <3>2, AtGate DEF WellFormed, DocsOK, ConfirmSteps
    <3> QED
      BY <2>1, <2>2, <3>2, <3>3 DEF docs, IsAudit, Mode
  <2>3. CASE cmd'.at \in {"verify", "publish"}
    <3>1. cmd.at \in ApplySteps
      BY <1>2, <2>3, PhaseStep DEF CheckCandidate, VerifySource, At, ApplySteps
    <3>2. ~IsAudit(v) /\ outcome[v] # NoDoc /\ outcome[v].formal
      BY <2>1, <3>1 DEF ApplyInv, ReadyToApply
    <3>3. cmd'.at = "publish" => SourceMatches(v)
      BY <1>2, PhaseStep DEF VerifySource, Raise
    <3> QED
      BY <2>1, <3>2, <3>3 DEF docs, IsAudit, Mode, SourceMatches
  <2> QED
    BY <2>2, <2>3 DEF ApplySteps
<1> QED
  BY <1>1, <1>2 DEF Next, Phase

LEMMA ApplyInvariant == Spec => []ApplyInv
<1>1. Init => ApplyInv
  BY DEF Init, ApplyInv, StagingInv, StagedWhileValidated, BundleNamesTree, Installed,
         NotYetInstalled, ReadyToApply, Receipts, ReceiptMeans, Idle
<1>2. WellFormed /\ ApplyInv /\ [Next]_vars => ApplyInv'
  BY StagingStep, InstalledStep, NotYetInstalledStep, ReadyToApplyStep, ReceiptsStep
  DEF ApplyInv
<1> QED
  BY <1>1, <1>2, WellFormedAlways, PTL DEF Spec

\* Whatever was installed is the artifact of its bundle, confirmed, asked for,
\* with full coverage and its capabilities kept (completion_receipt, apply).
THEOREM InstallsAreFormal == Spec => []AppliedIsFormal
<1>1. WellFormed /\ ApplyInv => AppliedIsFormal
  <2> SUFFICES ASSUME WellFormed, ApplyInv, NEW v \in Operations, NEW i \in DOMAIN log[v]
               PROVE  /\ log[v][i].after = validation[v].artifact
                      /\ ~IsAudit(v) /\ validation[v].requested
                      /\ outcome[v] # NoDoc /\ outcome[v].confirmed /\ outcome[v].formal
                      /\ Coverage(v, validation[v]) = "FULL"
                      /\ Preservation(validation[v]) = "CAPABILITY_PRESERVED"
    BY DEF AppliedIsFormal
  <2>1. log[v] # << >> /\ (Len(log[v]) = 1 => i = 1)
    BY DEF WellFormed, TypeOK
  <2> QED
    BY <2>1 DEF ApplyInv, Installed, Receipts, ReceiptMeans
<1> QED
  BY <1>1, WellFormedAlways, ApplyInvariant, PTL

\* A repair replaces the tree that was inspected, unless an edit falls between the
\* last comparison and the move (workspace.py apply_atomic).
THEOREM InstallsReplaceBaselines == Spec => []ReplacesItsBaseline
<1>1. WellFormed /\ ApplyInv => ReplacesItsBaseline
  <2> SUFFICES ASSUME WellFormed, ApplyInv, NEW v \in Operations, NEW i \in DOMAIN log[v],
                      Mode(v) # "CREATE", ~log[v][i].raced
               PROVE  log[v][i].before = inspection[v].baseline
    BY DEF ReplacesItsBaseline
  <2>1. log[v] # << >> /\ (Len(log[v]) = 1 => i = 1)
    BY DEF WellFormed, TypeOK
  <2> QED
    BY <2>1 DEF ApplyInv, Installed
<1> QED
  BY <1>1, WellFormedAlways, ApplyInvariant, PTL

\* However often confirm and apply are repeated, one operation installs once.
THEOREM InstallsOnce == Spec => []AppliedOnce
<1>1. WellFormed /\ ApplyInv => AppliedOnce
  <2> SUFFICES ASSUME WellFormed, ApplyInv, NEW v \in Operations
               PROVE  Len(log[v]) <= 1
    BY DEF AppliedOnce
  <2>1. CASE log[v] = << >>
    BY <2>1
  <2>2. CASE log[v] # << >>
    <3>1. Len(log[v]) = 1
      BY <2>2 DEF ApplyInv, Installed
    <3> QED
      BY <3>1
  <2> QED
    BY <2>1, <2>2
<1> QED
  BY <1>1, WellFormedAlways, ApplyInvariant, PTL

-----------------------------------------------------------------------------
(***************************************************************************)
(* What the evidence proves.  A verdict stands for a tree that was tested,  *)
(* whatever the environment does; which tree that is, the next section says.*)
(***************************************************************************)

\* The runners a validate command has behind it.
Done(step) ==
  CASE step \in {"stage", "behavior"} -> {}
    [] step = "B07"                   -> {"behavior"}
    [] step = "contract"              -> {"behavior", "B07"}
    [] OTHER                          -> Runners

\* A runner that counts and is done has a verdict, and a PASS a tree that passed.
Proves(bundle, done) ==
  /\ \A r \in done :
       r \in bundle.runners /\ (r = "B07" => bundle.disposition = "REQUIRED")
       => bundle.status[r] \in {"PASS", "FAIL", "ERROR"}
  /\ \A r \in Runners :
       bundle.status[r] = "PASS" => \E t \in bundle.tested : t \in Passes[r]

StructureTested(bundle) ==
  \/ bundle.status["framework"] = "ERROR"
  \/ bundle.status["structure"] = "FAIL"
  \/ bundle.status["structure"] = "PASS" /\ \E t \in bundle.tested : t \in Passes["structure"]

DraftProves ==
  ~Idle /\ cmd.at \in ValidateSteps =>
    /\ Proves(cmd.draft, Done(cmd.at))
    /\ cmd.at = "stage" => cmd.draft.tested = {}

BundleProves ==
  \A v \in Operations :
    validation[v] # NoDoc => Proves(validation[v], Runners) /\ StructureTested(validation[v])

EvidenceInv == DraftProves /\ BundleProves

\* validate starts with nothing tested, and only validate drafts a bundle.
LEMMA ValidateOnly ==
  ASSUME WellFormed, NEW v \in Operations, Phase(v), cmd' # NoDoc, cmd'.at \in ValidateSteps
  PROVE  \/ /\ Idle /\ cmd'.at = "stage" /\ cmd'.draft.tested = {}
            /\ cmd'.draft.status = [c \in Checks |-> "none"]
         \/ ~Idle /\ Validate(v) /\ cmd.at \in ValidateSteps /\ cmd'.at # "stage"
<1>1. CASE Idle
  <2>1. PICK d \in Dispositions, rs \in RunnerSets, requested \in BOOLEAN :
          StartValidate(v, d, rs, requested)
    BY <1>1 DEF Phase, Inspect, Validate, Confirm, Apply, StartInspect, AskProviders,
         TakeSnapshot, StageCandidate, Run, SkipRunner, Recheck, BuildManifest,
         CompareCapabilities, CollectEvidence, StartConfirm, ConfirmSource, ConfirmArtifact,
         ConfirmAudit, ConfirmChange, StartApply, CheckCandidate, VerifySource, Publish,
         Recover, At, Command, ValidateSteps
  <2> QED
    BY <1>1, <2>1 DEF StartValidate, Command
<1>2. CASE ~Idle
  <2>1. cmd.at \in ValidateSteps
    BY <1>2, PhaseStep
  <2>2. Validate(v)
    BY <1>2, <2>1 DEF Phase, Inspect, StartInspect, AskProviders, Raise, Confirm, Apply,
         StartConfirm, ConfirmSource, ConfirmArtifact, ConfirmAudit, ConfirmChange, StartApply,
         CheckCandidate, VerifySource, Publish, Recover, At, ValidateSteps
  <2>3. cmd'.at # "stage"
    BY <1>2, <2>2, ValidateStep DEF AfterRunner, Runners
  <2> QED
    BY <1>2, <2>1, <2>2, <2>3
<1> QED
  BY <1>1, <1>2

\* A bundle appears in CollectEvidence only.
LEMMA BundleStep ==
  ASSUME WellFormed, [Next]_vars, NEW v \in Operations, validation'[v] # NoDoc
  PROVE  \/ validation[v] # NoDoc /\ validation'[v] = validation[v]
              /\ inspection'[v] = inspection[v]
         \/ /\ CollectEvidence(v) /\ UNCHANGED <<source, staged, inspection, log>>
            /\ ~Idle /\ cmd.by = v /\ cmd.at = "collect" /\ cmd.draft \in Bundles
<1>1. CASE validation[v] # NoDoc
  BY <1>1, DocsStep
<1>2. CASE validation[v] = NoDoc
  <2>1. PICK w \in Operations : CollectEvidence(w)
    BY <1>2, ZenonT(60) DEF Next, Inspect, Validate, Confirm, Apply, StartInspect, AskProviders,
       StartValidate, TakeSnapshot, StageCandidate, Run, SkipRunner, Recheck,
       BuildManifest, CompareCapabilities, StartConfirm, ConfirmSource, ConfirmArtifact,
       ConfirmAudit, ConfirmChange, StartApply, CheckCandidate, VerifySource, Publish,
       Recover, Environment, Interrupt, InterruptPublish, Edit, TamperSnapshot, TamperCandidate, docs, vars
  <2>2. w = v
    BY <1>2, <2>1, CollectEffect DEF WellFormed, TypeOK
  <2>3. At(v, "collect") /\ UNCHANGED <<source, staged, inspection, log>>
    BY <2>1, <2>2, CollectEffect
  <2>4. "collect" \in ValidateSteps
    BY DEF ValidateSteps
  <2> QED
    BY <2>1, <2>2, <2>3, <2>4, AtFacts
<1> QED
  BY <1>1, <1>2

\* A step that leaves the runners' verdicts alone and adds to what was tested.
LEMMA ProvesMore ==
  ASSUME NEW d, NEW e, NEW done, Proves(d, done), d.tested \subseteq e.tested,
         e.runners = d.runners, e.disposition = d.disposition, done \subseteq Runners,
         \A r \in Runners : e.status[r] = d.status[r]
  PROVE  Proves(e, done)
BY DEF Proves

\* A runner that has run: its verdict is about the tree it ran in.
LEMMA ProvesRun ==
  ASSUME NEW v \in Operations, NEW r \in Runners, NEW done \in SUBSET Runners,
         NEW d \in Bundles, Proves(d, done), NEW t,
         NEW e, \/ e = SourceChecked(v, Note(d, r, IF t \in Passes[r] THEN "PASS" ELSE "FAIL", t))
                \/ e = SourceChecked(v, [d EXCEPT !.status[r] = "ERROR"]),
         t \in Trees
  PROVE  Proves(e, done \cup {r})
<1>1. r \in Checks /\ DOMAIN d.status = Checks
  BY CheckNames, NoteFields
<1>2. /\ e.runners = d.runners /\ e.disposition = d.disposition
      /\ \/ /\ e.status = [d.status EXCEPT ![r] = IF t \in Passes[r] THEN "PASS" ELSE "FAIL"]
            /\ e.tested = d.tested \cup {t}
         \/ e.status = [d.status EXCEPT ![r] = "ERROR"] /\ e.tested = d.tested
  <2> DEFINE status == IF t \in Passes[r] THEN "PASS" ELSE "FAIL"
             noted  == Note(d, r, status, t)
             failed == [d EXCEPT !.status[r] = "ERROR"]
  <2>1. noted \in Bundles /\ failed \in Bundles
    BY <1>1, NoteType DEF Statuses
  <2>2. /\ noted.runners = d.runners /\ noted.disposition = d.disposition
        /\ noted.status = [d.status EXCEPT ![r] = status] /\ noted.tested = d.tested \cup {t}
    BY DEF Note, Bundles
  <2>3. /\ failed.runners = d.runners /\ failed.disposition = d.disposition
        /\ failed.status = [d.status EXCEPT ![r] = "ERROR"] /\ failed.tested = d.tested
    BY DEF Bundles
  <2>4. e = SourceChecked(v, noted) \/ e = SourceChecked(v, failed)
    OBVIOUS
  <2> HIDE DEF status, noted, failed
  <2>5. \/ /\ e.runners = d.runners /\ e.disposition = d.disposition
           /\ e.status = [d.status EXCEPT ![r] = status] /\ e.tested = d.tested \cup {t}
        \/ /\ e.runners = d.runners /\ e.disposition = d.disposition
           /\ e.status = [d.status EXCEPT ![r] = "ERROR"] /\ e.tested = d.tested
    BY <2>1, <2>2, <2>3, <2>4, SourceCheckedType
  <2> QED
    BY <2>5 DEF status
<1>3. /\ e.status[r] \in {"PASS", "FAIL", "ERROR"}
      /\ e.status[r] = "PASS" => t \in Passes[r] /\ t \in e.tested
      /\ \A q \in Runners \ {r} : e.status[q] = d.status[q]
      /\ d.tested \subseteq e.tested
  <2>1. \A q \in Runners \ {r} : q \in Checks /\ q # r
    BY CheckNames
  <2> QED
    BY <1>1, <1>2, <2>1
<1> QED
  BY <1>2, <1>3 DEF Proves

\* A runner that does not count has no verdict that would have to be proved.
LEMMA ProvesSkip ==
  ASSUME NEW d \in Bundles, NEW r \in Runners, NEW done \in SUBSET Runners, Proves(d, done),
         ~(r \in d.runners /\ (r = "B07" => d.disposition = "REQUIRED")),
         NEW s \in {"none", "NOT_EXECUTED"}
  PROVE  Proves([d EXCEPT !.status[r] = s], done \cup {r})
<1> DEFINE e == [d EXCEPT !.status[r] = s]
<1>1. r \in Checks /\ DOMAIN d.status = Checks
  BY CheckNames, NoteFields
<1>2. /\ e.runners = d.runners /\ e.disposition = d.disposition /\ e.tested = d.tested
      /\ e.status = [d.status EXCEPT ![r] = s]
  BY DEF Bundles
<1> HIDE DEF e
<1>3. e.status[r] = s /\ \A q \in Runners \ {r} : e.status[q] = d.status[q]
  <2>1. \A q \in Runners \ {r} : q \in Checks /\ q # r
    BY CheckNames
  <2> QED
    BY <1>1, <1>2, <2>1
<1>4. Proves(e, done \cup {r})
  BY <1>2, <1>3 DEF Proves
<1> QED
  BY <1>4 DEF e

LEMMA DoneSteps ==
  ASSUME NEW v \in Operations, NEW r \in Runners
  PROVE  /\ Done(AfterRunner(v, r)) = Done(r) \cup {r} /\ Done(r) \in SUBSET Runners
         /\ \A step \in {"recheck", "manifest", "capability", "collect"} : Done(step) = Runners
         /\ Done("stage") = {} /\ Done("behavior") = {}
BY DEF Done, AfterRunner, Runners

LEMMA DraftProvesStep ==
  ASSUME WellFormed, EvidenceInv, [Next]_vars
  PROVE  DraftProves'
<1> SUFFICES ASSUME cmd' # NoDoc, cmd'.at \in ValidateSteps
             PROVE  /\ Proves(cmd'.draft, Done(cmd'.at))
                    /\ cmd'.at = "stage" => cmd'.draft.tested = {}
  BY DEF DraftProves, Idle, Proves, Done
<1>1. CASE Environment \/ UNCHANGED vars
  BY <1>1, EnvironmentStep DEF EvidenceInv, DraftProves
<1>2. ASSUME NEW v \in Operations, Phase(v)
      PROVE  /\ Proves(cmd'.draft, Done(cmd'.at))
             /\ cmd'.at = "stage" => cmd'.draft.tested = {}
  <2>1. CASE Idle
    <3>1. /\ cmd'.at = "stage" /\ cmd'.draft.tested = {}
          /\ \A r \in Runners : cmd'.draft.status[r] = "none"
      BY <1>2, <2>1, ValidateOnly, CheckNames
    <3> QED
      BY <3>1, DoneSteps DEF Proves, Done
  <2>2. CASE ~Idle
    <3>1. /\ Validate(v) /\ cmd'.at # "stage" /\ cmd.at \in ValidateSteps
      BY <1>2, <2>2, ValidateOnly
    <3>2. Proves(cmd.draft, Done(cmd.at)) /\ cmd.draft \in Bundles /\ cmd.by = v
      BY <2>2, <3>1, ValidateStep DEF EvidenceInv, DraftProves
    <3>3. ExecutionTree(v) \in Trees
      BY <2>2, TreeTypes DEF WellFormed
    <3>4. CASE cmd.at = "stage" /\ cmd'.at = "behavior" /\ cmd'.draft = cmd.draft
      BY <3>2, <3>4 DEF Done
    <3>5. ASSUME NEW r \in Runners, cmd.at = r, cmd'.at = AfterRunner(v, r),
                 \/ cmd'.draft = SourceChecked(v, Note(cmd.draft, r,
                      IF ExecutionTree(v) \in Passes[r] THEN "PASS" ELSE "FAIL",
                      ExecutionTree(v)))
                 \/ cmd'.draft = SourceChecked(v, [cmd.draft EXCEPT !.status[r] = "ERROR"])
          PROVE  Proves(cmd'.draft, Done(cmd'.at))
      BY <3>2, <3>3, <3>5, ProvesRun, DoneSteps
    <3>6. ASSUME NEW r \in Runners, cmd.at = r, cmd'.at = AfterRunner(v, r), ~Executed(r),
                 cmd'.draft = [cmd.draft EXCEPT !.status[r] =
                                 IF Mandatory(v, r) THEN "NOT_EXECUTED" ELSE "none"]
          PROVE  Proves(cmd'.draft, Done(cmd'.at))
      <4> DEFINE s == IF Mandatory(v, r) THEN "NOT_EXECUTED" ELSE "none"
      <4>1. s \in {"NOT_EXECUTED", "none"} /\ cmd'.draft = [cmd.draft EXCEPT !.status[r] = s]
        BY <3>6
      <4> HIDE DEF s
      <4>2. Proves(cmd.draft, Done(r)) /\ Done(r) \in SUBSET Runners
        BY <3>2, <3>6, DoneSteps
      <4>3. ~(r \in cmd.draft.runners /\ (r = "B07" => cmd.draft.disposition = "REQUIRED"))
        BY <3>6 DEF Executed
      <4>4. Proves([cmd.draft EXCEPT !.status[r] = s], Done(r) \cup {r})
        BY <3>2, <4>1, <4>2, <4>3, ProvesSkip
      <4> QED
        BY <3>6, <4>1, <4>4, DoneSteps
    <3>7. CASE cmd.at \in {"recheck", "manifest", "capability"}
               /\ cmd'.at \in {"manifest", "capability", "collect"}
               /\ \/ cmd'.draft = SourceChecked(v, cmd.draft)
                  \/ cmd'.draft = [cmd.draft EXCEPT !.artifact = ArtifactTree(v)]
                  \/ cmd'.draft = cmd.draft
                  \/ \E s : cmd'.draft = [cmd.draft EXCEPT !.status["capability"] = s]
                  \/ \E s : cmd'.draft = Note(cmd.draft, "capability", s, ExecutionTree(v))
      <4>1. Done(cmd.at) = Runners /\ Done(cmd'.at) = Runners
        BY <3>7 DEF Done
      <4>2. /\ cmd'.draft.runners = cmd.draft.runners
            /\ cmd'.draft.disposition = cmd.draft.disposition
            /\ cmd.draft.tested \subseteq cmd'.draft.tested
            /\ \A r \in Runners : cmd'.draft.status[r] = cmd.draft.status[r]
        <5>1. DOMAIN cmd.draft.status = Checks /\ Runners \subseteq Checks
              /\ "capability" \notin Runners
          BY <3>2, NoteFields, CheckNames DEF Runners
        <5>2. CASE cmd'.draft = SourceChecked(v, cmd.draft)
          BY <3>2, <5>2, SourceCheckedType
        <5>3. CASE cmd'.draft = [cmd.draft EXCEPT !.artifact = ArtifactTree(v)]
          BY <3>2, <5>3 DEF Bundles
        <5>4. ASSUME NEW s, cmd'.draft = [cmd.draft EXCEPT !.status["capability"] = s]
              PROVE  /\ cmd'.draft.runners = cmd.draft.runners
                     /\ cmd'.draft.disposition = cmd.draft.disposition
                     /\ cmd.draft.tested \subseteq cmd'.draft.tested
                     /\ \A r \in Runners : cmd'.draft.status[r] = cmd.draft.status[r]
          BY <3>2, <5>1, <5>4, NoteFields, CheckNames
        <5>5. ASSUME NEW s, cmd'.draft = Note(cmd.draft, "capability", s, ExecutionTree(v))
              PROVE  /\ cmd'.draft.runners = cmd.draft.runners
                     /\ cmd'.draft.disposition = cmd.draft.disposition
                     /\ cmd.draft.tested \subseteq cmd'.draft.tested
                     /\ \A r \in Runners : cmd'.draft.status[r] = cmd.draft.status[r]
          BY <3>2, <5>1, <5>5 DEF Note, Bundles
        <5> QED
          BY <3>7, <5>2, <5>3, <5>4, <5>5
      <4>3. Proves(cmd.draft, Runners)
        BY <3>2, <4>1
      <4>4. Proves(cmd'.draft, Runners)
        BY <4>2, <4>3, ProvesMore
      <4> QED
        BY <3>1, <4>1, <4>4
    <3> QED
      BY <2>2, <3>1, <3>4, <3>5, <3>6, <3>7, <1>2, ValidateStep
  <2> QED
    BY <2>1, <2>2
<1> QED
  BY <1>1, <1>2 DEF Next, Phase

LEMMA BundleProvesStep ==
  ASSUME WellFormed, EvidenceInv, [Next]_vars
  PROVE  BundleProves'
<1> SUFFICES ASSUME NEW v \in Operations, validation'[v] # NoDoc
             PROVE  Proves(validation'[v], Runners) /\ StructureTested(validation'[v])
  BY DEF BundleProves, Proves, StructureTested
<1>1. CASE validation[v] # NoDoc /\ validation'[v] = validation[v]
  BY <1>1 DEF EvidenceInv, BundleProves
<1>2. CASE CollectEvidence(v) /\ ~Idle /\ cmd.by = v /\ cmd.at = "collect"
  <2>1. /\ validation'[v].disposition = cmd.draft.disposition
        /\ validation'[v].runners = cmd.draft.runners
        /\ \A r \in Runners : validation'[v].status[r] = cmd.draft.status[r]
        /\ \/ /\ validation'[v].status["framework"] = "ERROR"
              /\ validation'[v].tested = cmd.draft.tested
           \/ /\ validation'[v].status["structure"] = StructureStatus(v)
              /\ validation'[v].tested = cmd.draft.tested \cup {ArtifactTree(v)}
    BY <1>2, BundleWritten
  <2>2. Proves(cmd.draft, Runners)
    BY <1>2 DEF EvidenceInv, DraftProves, Done, ValidateSteps
  <2>3. Proves(validation'[v], Runners)
    BY <2>1, <2>2, ProvesMore
  <2>4. StructureTested(validation'[v])
    BY <2>1 DEF StructureTested, StructureStatus
  <2> QED
    BY <2>3, <2>4
<1> QED
  BY <1>1, <1>2, BundleStep

LEMMA EvidenceInvariant == Spec => []EvidenceInv
<1>1. Init => EvidenceInv
  BY DEF Init, EvidenceInv, DraftProves, BundleProves, Idle
<1>2. WellFormed /\ EvidenceInv /\ [Next]_vars => EvidenceInv'
  BY DraftProvesStep, BundleProvesStep DEF EvidenceInv
<1> QED
  BY <1>1, <1>2, WellFormedAlways, PTL DEF Spec

-----------------------------------------------------------------------------
(***************************************************************************)
(* Which tree was tested.  If nobody changes the staged trees, a change is  *)
(* tested, and its artifact taken, in the staged candidate.  An audit reads *)
(* the source several times, and an edit may fall between any two of them:  *)
(* with one edit its evidence is about the baseline as long as the source   *)
(* still is the baseline, and confirm compares exactly that.               *)
(***************************************************************************)

Untampered == Used("tamper") = 0

BoundKept == \A b \in {"edit", "tamper", "fault"} : left[b] <= Bound[b]

\* What the environment has done stays done: it had not tampered before.
LEMMA SpentStep ==
  ASSUME WellFormed, BoundKept, [Next]_vars
  PROVE  /\ BoundKept'
         /\ Untampered' => Untampered /\ ~Spend("tamper")
         /\ SourceSettled' =>
              /\ SourceSettled /\ UNCHANGED log
              /\ ~\E v \in Operations : Publish(v)
              /\ (\E c \in Contents : Edit(c)) => Used("edit") = 0
         /\ (Used("edit") = 0)' => Used("edit") = 0 /\ ~\E c \in Contents : Edit(c)
<1>0. /\ left \in [{"edit", "tamper", "fault"} -> Nat]
      /\ Bound \in [{"edit", "tamper", "fault"} -> Nat]
  BY PipelineOK DEF WellFormed, TypeOK
<1>1. UNCHANGED left \/ \E b \in {"edit", "tamper", "fault"} : Spend(b)
  BY ZenonT(60) DEF Next, Phase, Inspect, Validate, Confirm, Apply, StartInspect, AskProviders,
       StartValidate, TakeSnapshot, StageCandidate, Run, SkipRunner, Recheck, BuildManifest,
       CompareCapabilities, CollectEvidence, StartConfirm, ConfirmSource, ConfirmArtifact,
       ConfirmAudit, ConfirmChange, StartApply, CheckCandidate, VerifySource, Publish, Recover,
       Environment, Interrupt, InterruptPublish, Edit, TamperSnapshot, TamperCandidate, vars
<1>2. \A b \in {"edit", "tamper", "fault"} :
        /\ left'[b] <= left[b]
        /\ Spend(b) => left'[b] = left[b] - 1
  BY <1>0, <1>1 DEF Spend
<1>3. BoundKept'
  BY <1>0, <1>1 DEF BoundKept, Spend
<1>4. \A b \in {"edit", "tamper", "fault"} :
        /\ left[b] \in Nat /\ Bound[b] \in Nat /\ left[b] <= Bound[b] /\ left'[b] \in Nat
        /\ left'[b] <= Bound[b]
  BY <1>0, <1>1, <1>3 DEF BoundKept, Spend
<1>5. Untampered' => Untampered /\ ~Spend("tamper")
  BY <1>2, <1>4 DEF Untampered, Used
<1>6. \A c \in Contents : Edit(c) => left'["edit"] = left["edit"] - 1
  BY <1>2 DEF Edit
<1>7. (Used("edit") = 0)' => Used("edit") = 0 /\ ~\E c \in Contents : Edit(c)
  BY <1>2, <1>4, <1>6 DEF Used
<1>8. ASSUME SourceSettled'
      PROVE  /\ SourceSettled /\ UNCHANGED log /\ ~\E v \in Operations : Publish(v)
             /\ (\E c \in Contents : Edit(c)) => Used("edit") = 0
  <2>1. Used("edit") <= 1 /\ ((\E c \in Contents : Edit(c)) => Used("edit") = 0)
    BY <1>2, <1>4, <1>6, <1>8 DEF SourceSettled, Used
  <2>2. ASSUME NEW v \in Operations
        PROVE  log[v] = << >> /\ log'[v] = log[v]
    <3>1. log'[v] = << >>
      BY <1>8 DEF SourceSettled
    <3>2. ASSUME NEW e \in [before : Trees, after : Trees, raced : BOOLEAN],
                 log'[v] = Append(log[v], e)
          PROVE  FALSE
      <4>1. log[v] \in Seq([before : Trees, after : Trees, raced : BOOLEAN])
        BY DEF WellFormed, TypeOK
      <4>2. Len(log'[v]) = Len(log[v]) + 1 /\ Len(log[v]) \in Nat
        BY <3>2, <4>1, AppendType
      <4> QED
        BY <3>1, <4>2
    <3>3. Publish(v) =>
            [before |-> source, after |-> staged[v], raced |-> cmd.raced]
              \in [before : Trees, after : Trees, raced : BOOLEAN]
      BY DEF Publish, At, Idle, WellFormed, TypeOK, Commands
    <3> QED
      BY <3>1, <3>2, <3>3, LogStep
  <2>3. ASSUME NEW v \in Operations, Publish(v)
        PROVE  FALSE
    <3> DEFINE e == [before |-> source, after |-> staged[v], raced |-> cmd.raced]
    <3>1. log'[v] = Append(log[v], e) /\ log[v] = << >> /\ log'[v] = << >>
      BY <2>2, <2>3 DEF Publish, WellFormed, TypeOK
    <3>2. e \in [before : Trees, after : Trees, raced : BOOLEAN]
      BY <2>3 DEF Publish, At, Idle, WellFormed, TypeOK, Commands
    <3> HIDE DEF e
    <3>3. log[v] \in Seq([before : Trees, after : Trees, raced : BOOLEAN])
      BY DEF WellFormed, TypeOK
    <3>4. Len(log'[v]) = Len(log[v]) + 1 /\ Len(log[v]) \in Nat
      BY <3>1, <3>2, <3>3, AppendType
    <3>5. Len(log'[v]) = Len(log[v])
      BY <3>1
    <3> QED
      BY <3>4, <3>5
  <2>4. UNCHANGED log
    BY <2>3, LogStep, <1>8, ZenonT(60) DEF Next, Phase, Inspect, Validate, Confirm, Apply, StartInspect,
       AskProviders, StartValidate, TakeSnapshot, StageCandidate, Run, SkipRunner, Recheck,
       BuildManifest, CompareCapabilities, CollectEvidence, StartConfirm, ConfirmSource,
       ConfirmArtifact, ConfirmAudit, ConfirmChange, StartApply, CheckCandidate, VerifySource,
       Recover, Environment, Interrupt, InterruptPublish, Edit, TamperSnapshot, TamperCandidate, vars
  <2> QED
    BY <2>1, <2>2, <2>3, <2>4 DEF SourceSettled
<1> QED
  BY <1>3, <1>5, <1>7, <1>8

\* An inspection is of the source as it was when it began, until an edit or the loss of
\* the source in an apply.
InspectionSettled(v) ==
  inspection[v] # NoDoc /\ Mode(v) # "CREATE" =>
    /\ inspection[v].baseline # NoTree
    /\ Used("edit") = 0 => source \in {inspection[v].baseline, NoTree}
    /\ inspection[v].baseline = source => inspection[v].described = source

InspectingSettled ==
  ~Idle /\ cmd.at = "providers" /\ cmd.draft.mode # "CREATE" =>
    /\ cmd.draft.baseline # NoTree
    /\ Used("edit") = 0 => cmd.draft.baseline = source

\* What is about to be published is what was validated, as long as nobody tampers.
PublishingArtifact ==
  Untampered /\ ~Idle /\ cmd.at \in {"verify", "publish"} =>
    staged[cmd.by] = validation[cmd.by].artifact

\* Nothing has come between the steps of this operation that it can still see.
Undisturbed(v) ==
  Untampered /\ (IsAudit(v) => SourceSettled /\ source = inspection[v].baseline)

DraftAboutTree ==
  ~Idle /\ cmd.at \in ValidateSteps /\ Undisturbed(cmd.by) =>
    /\ cmd.at # "stage" => ExecutionTree(cmd.by) = ArtifactTree(cmd.by)
    /\ cmd.draft.tested \subseteq {ArtifactTree(cmd.by)}
    /\ cmd.at \in {"capability", "collect"} => cmd.draft.artifact = ArtifactTree(cmd.by)

BundleAboutTree(v) ==
  validation[v] # NoDoc /\ Undisturbed(v) =>
    /\ validation[v].tested \subseteq {validation[v].artifact}
    /\ IsAudit(v) => validation[v].artifact = source

\* All an audit has read is its baseline.
AboutBaseline(v) ==
  validation[v].tested \cup {validation[v].artifact, inspection[v].described}
    = {inspection[v].baseline}

\* confirm has compared the source while it still showed an edit.
ConfirmingBaseline ==
  /\ SourceSettled /\ Untampered
  /\ ~Idle /\ cmd.at \in {"artifact", "gate"} /\ IsAudit(cmd.by) /\ cmd.unchanged
  => AboutBaseline(cmd.by)

TreeInv ==
  /\ BoundKept
  /\ PublishingArtifact
  /\ SourceSettled /\ Untampered =>
       InspectingSettled /\ \A v \in Operations : InspectionSettled(v)
  /\ DraftAboutTree
  /\ \A v \in Operations : BundleAboutTree(v)
  /\ ConfirmingBaseline
  /\ AuditIsAboutBaseline

LEMMA InspectionStep ==
  ASSUME WellFormed, [Next]_vars, NEW v \in Operations, inspection'[v] # NoDoc
  PROVE  \/ inspection[v] # NoDoc /\ inspection'[v] = inspection[v]
         \/ /\ At(v, "providers") /\ cmd.draft \in Inspections /\ UNCHANGED source
            /\ \E contract, capable \in BOOLEAN : inspection'[v] =
                 [cmd.draft EXCEPT
                    !.described = IF cmd.draft.mode = "CREATE" THEN NoTree ELSE source,
                    !.contract = contract, !.capable = capable]
<1>1. CASE inspection[v] # NoDoc
  BY <1>1, DocsStep
<1>2. CASE inspection[v] = NoDoc
  <2>1. PICK w \in Operations, contract \in BOOLEAN, capable \in BOOLEAN :
          AskProviders(w, contract, capable)
    BY <1>2, ZenonT(60) DEF Next, Inspect, Validate, Confirm, Apply, StartInspect,
       StartValidate, TakeSnapshot, StageCandidate, Run, SkipRunner, Recheck,
       BuildManifest, CompareCapabilities, CollectEvidence, StartConfirm, ConfirmSource,
       ConfirmArtifact, ConfirmAudit, ConfirmChange, StartApply, CheckCandidate, VerifySource,
       Publish, Recover, Environment, Interrupt, InterruptPublish, Edit, TamperSnapshot, TamperCandidate, docs, vars
  <2>2. w = v
    BY <1>2, <2>1 DEF AskProviders, WellFormed, TypeOK
  <2>3. cmd.draft \in Inspections
    BY <2>1 DEF AskProviders, At, WellFormed, DraftOK
  <2> QED
    BY <2>1, <2>2, <2>3 DEF AskProviders, WellFormed, TypeOK
<1> QED
  BY <1>1, <1>2

\* A step of the environment that neither ends a command nor touches the staged trees.
LEMMA EnvironmentTrees ==
  ASSUME WellFormed, Environment \/ UNCHANGED vars, ~Spend("tamper"), cmd' # NoDoc
  PROVE  /\ UNCHANGED <<staged, docs, log>>
         /\ ~Idle /\ cmd'.by = cmd.by /\ cmd'.at = cmd.at /\ cmd'.draft = cmd.draft
         /\ cmd'.copy = cmd.copy /\ cmd'.unchanged = cmd.unchanged
<1>1. cmd \in Commands \cup {NoDoc}
  BY DEF WellFormed, TypeOK
<1>2. ~Interrupt /\ ~\E v \in Operations : InterruptPublish(v)
  BY DEF Interrupt, InterruptPublish, Raise
<1>3. ASSUME NEW c \in Contents, Edit(c)
      PROVE  /\ UNCHANGED <<staged, docs, log>>
             /\ ~Idle /\ cmd'.by = cmd.by /\ cmd'.at = cmd.at /\ cmd'.draft = cmd.draft
             /\ cmd'.copy = cmd.copy /\ cmd'.unchanged = cmd.unchanged
  BY <1>1, <1>3 DEF Edit, Idle, Commands
<1>4. CASE UNCHANGED vars
  BY <1>4 DEF vars, Idle
<1> QED
  BY <1>2, <1>3, <1>4 DEF Environment, TamperSnapshot, TamperCandidate

LEMMA PublishingArtifactStep ==
  ASSUME WellFormed, TreeInv, [Next]_vars
  PROVE  PublishingArtifact'
<1> SUFFICES ASSUME NEW w, w = cmd'.by, Untampered', cmd' # NoDoc,
                    cmd'.at \in {"verify", "publish"}
             PROVE  staged'[w] = validation'[w].artifact
  BY DEF PublishingArtifact, Idle
<1>1. Untampered /\ ~Spend("tamper")
  BY SpentStep DEF TreeInv
<1>2. CASE Environment \/ UNCHANGED vars
  <2>1. /\ ~Idle /\ w = cmd.by /\ cmd'.at = cmd.at /\ UNCHANGED <<staged, docs>>
    BY <1>1, <1>2, EnvironmentTrees
  <2> QED
    BY <1>1, <2>1 DEF TreeInv, PublishingArtifact, docs
<1>3. ASSUME NEW v \in Operations, Phase(v)
      PROVE  staged'[w] = validation'[w].artifact
  <2>1. w = v /\ UNCHANGED docs
    BY <1>3, PhaseStep
  <2>2. CASE cmd'.at = "verify"
    <3>1. CheckCandidate(v)
      BY <1>3, <2>2, PhaseStep
    <3> QED
      BY <2>1, <3>1 DEF CheckCandidate, Raise, docs
  <2>3. CASE cmd'.at = "publish"
    <3>1. VerifySource(v)
      BY <1>3, <2>3, PhaseStep
    <3> QED
      BY <1>1, <2>1, <3>1 DEF VerifySource, At, TreeInv, PublishingArtifact, docs
  <2> QED
    BY <2>2, <2>3
<1> QED
  BY <1>2, <1>3 DEF Next, Phase

\* Without an install or tampering, the source changes by an edit, or is lost.
LEMMA SettledSource ==
  ASSUME WellFormed, TreeInv, [Next]_vars, SourceSettled', Untampered'
  PROVE  /\ SourceSettled /\ Untampered
         /\ \/ UNCHANGED source
            \/ cmd' = NoDoc /\ source' = NoTree
            \/ \E c \in Contents : Edit(c) /\ source' # source /\ Used("edit") = 0
         /\ (Used("edit") = 0)' => Used("edit") = 0 /\ ~\E c \in Contents : Edit(c)
<1>1. /\ SourceSettled /\ Untampered /\ ~\E v \in Operations : Publish(v)
      /\ (\E c \in Contents : Edit(c)) => Used("edit") = 0
      /\ (Used("edit") = 0)' => Used("edit") = 0 /\ ~\E c \in Contents : Edit(c)
  BY SpentStep DEF TreeInv
<1>2. \A c \in Contents : Edit(c) => source' # source
  BY DEF Edit
<1>3. ASSUME NEW v \in Operations, At(v, "publish")
      PROVE  staged[v] = validation[v].artifact
  BY <1>1, <1>3 DEF TreeInv, PublishingArtifact, At
<1> QED
  BY <1>1, <1>2, <1>3, SourceStep

\* The draft of an inspection begins with the digest of the source.
LEMMA InspectionsSettled ==
  ASSUME WellFormed, TreeInv, [Next]_vars, SourceSettled', Untampered'
  PROVE  InspectingSettled' /\ \A v \in Operations : InspectionSettled(v)'
<1>1. /\ SourceSettled /\ Untampered
      /\ \/ UNCHANGED source
         \/ cmd' = NoDoc /\ source' = NoTree
         \/ \E c \in Contents : Edit(c) /\ source' # source /\ Used("edit") = 0
      /\ (Used("edit") = 0)' => Used("edit") = 0 /\ ~\E c \in Contents : Edit(c)
  BY SettledSource
<1>2. InspectingSettled /\ \A v \in Operations : InspectionSettled(v)
  BY <1>1 DEF TreeInv
<1>3. ASSUME NEW v \in Operations
      PROVE  InspectionSettled(v)'
  <2> SUFFICES ASSUME inspection'[v] # NoDoc, inspection'[v].mode # "CREATE"
               PROVE  /\ inspection'[v].baseline # NoTree
                      /\ (Used("edit") = 0)' => source' \in {inspection'[v].baseline, NoTree}
                      /\ inspection'[v].baseline = source' => inspection'[v].described = source'
    BY DEF InspectionSettled, Mode
  <2>1. CASE inspection[v] # NoDoc /\ inspection'[v] = inspection[v]
    <3>1. /\ inspection[v].baseline # NoTree
          /\ Used("edit") = 0 => source \in {inspection[v].baseline, NoTree}
          /\ inspection[v].baseline = source => inspection[v].described = source
      BY <1>2, <2>1 DEF InspectionSettled, Mode
    <3>2. CASE source' = source \/ source' = NoTree
      BY <1>1, <2>1, <3>1, <3>2
    <3>3. ASSUME NEW c \in Contents, Edit(c), source' # source, Used("edit") = 0
          PROVE  inspection[v].baseline # source'
      BY <3>1, <3>3 DEF Edit
    <3> QED
      BY <1>1, <2>1, <3>1, <3>2, <3>3
  <2>2. CASE /\ At(v, "providers") /\ cmd.draft \in Inspections /\ UNCHANGED source
             /\ \E contract, capable \in BOOLEAN : inspection'[v] =
                  [cmd.draft EXCEPT
                     !.described = IF cmd.draft.mode = "CREATE" THEN NoTree ELSE source,
                     !.contract = contract, !.capable = capable]
    <3>1. /\ inspection'[v].mode = cmd.draft.mode
          /\ inspection'[v].baseline = cmd.draft.baseline
          /\ cmd.draft.mode # "CREATE" => inspection'[v].described = source
      BY <2>2 DEF Inspections
    <3>2. /\ cmd.draft.baseline # NoTree
          /\ Used("edit") = 0 => cmd.draft.baseline = source
      BY <1>2, <2>2, <3>1 DEF InspectingSettled, At
    <3> QED
      BY <1>1, <2>2, <3>1, <3>2
  <2> QED
    BY <2>1, <2>2, InspectionStep
<1>4. InspectingSettled'
  <2> SUFFICES ASSUME cmd' # NoDoc, cmd'.at = "providers", cmd'.draft.mode # "CREATE"
               PROVE  /\ cmd'.draft.baseline # NoTree
                      /\ (Used("edit") = 0)' => cmd'.draft.baseline = source'
    BY DEF InspectingSettled, Idle
  <2>1. CASE Environment \/ UNCHANGED vars
    <3>1. ~Idle /\ cmd'.at = cmd.at /\ cmd'.draft = cmd.draft
      BY <2>1, EnvironmentStep
    <3> QED
      BY <1>1, <1>2, <3>1 DEF InspectingSettled
  <2>2. ASSUME NEW v \in Operations, Phase(v)
        PROVE  /\ cmd'.draft.baseline # NoTree
               /\ (Used("edit") = 0)' => cmd'.draft.baseline = source'
    <3>1. PICK mode \in Modes, app \in Applicabilities : StartInspect(v, mode, app)
      BY <2>2, PhaseStep
    <3> QED
      BY <3>1 DEF StartInspect, Command
  <2> QED
    BY <2>1, <2>2 DEF Next, Phase
<1> QED
  BY <1>3, <1>4

\* An edit between two steps of an audit moves the source off its baseline.
LEMMA StillUndisturbed ==
  ASSUME WellFormed, TreeInv, [Next]_vars, NEW v \in Operations, inspection[v] # NoDoc,
         Undisturbed(v)', inspection'[v] = inspection[v]
  PROVE  /\ Undisturbed(v) /\ ~Spend("tamper")
         /\ IsAudit(v) => UNCHANGED source
<1>1. Untampered /\ ~Spend("tamper")
  BY SpentStep DEF TreeInv, Undisturbed
<1>2. IsAudit(v)' <=> IsAudit(v)
  BY DEF IsAudit, Mode
<1>3. ASSUME IsAudit(v)
      PROVE  SourceSettled /\ source = inspection[v].baseline /\ UNCHANGED source
  <2>1. SourceSettled' /\ Untampered' /\ source' = inspection[v].baseline
    BY <1>2, <1>3 DEF Undisturbed
  <2>2. /\ SourceSettled /\ Untampered
        /\ \/ UNCHANGED source
           \/ source' = NoTree
           \/ \E c \in Contents : Edit(c) /\ source' # source /\ Used("edit") = 0
    BY <2>1, SettledSource
  <2>3. /\ inspection[v].baseline # NoTree
        /\ Used("edit") = 0 => source \in {inspection[v].baseline, NoTree}
    BY <1>3, <2>2 DEF TreeInv, InspectionSettled, IsAudit
  <2>4. \A c \in Contents : Edit(c) => source # NoTree
    BY DEF Edit
  <2> QED
    BY <2>1, <2>2, <2>3, <2>4
<1> QED
  BY <1>1, <1>3 DEF Undisturbed

\* What a step of validate adds to the trees of its draft.
LEMMA DraftTrees ==
  ASSUME WellFormed, NEW v \in Operations, Validate(v), ~Idle, cmd' # NoDoc, cmd.at # "stage"
  PROVE  /\ cmd'.copy = cmd.copy /\ UNCHANGED staged
         /\ cmd'.draft.tested \subseteq cmd.draft.tested \cup {ExecutionTree(v)}
         /\ cmd'.at = "capability" => cmd'.draft.artifact = ArtifactTree(v)
         /\ cmd'.at = "collect" =>
              cmd.at = "capability" /\ cmd'.draft.artifact = cmd.draft.artifact
<1>1. cmd.draft \in Bundles /\ cmd'.copy = cmd.copy /\ UNCHANGED staged
  BY ValidateStep
<1>2. ExecutionTree(v) \in Trees
  BY TreeTypes DEF WellFormed
<1>3. ASSUME NEW r \in Runners, cmd'.at = AfterRunner(v, r),
             \/ cmd'.draft = SourceChecked(v, Note(cmd.draft, r,
                  IF ExecutionTree(v) \in Passes[r] THEN "PASS" ELSE "FAIL",
                  ExecutionTree(v)))
             \/ cmd'.draft = SourceChecked(v, [cmd.draft EXCEPT !.status[r] = "ERROR"])
      PROVE  /\ cmd'.draft.tested \subseteq cmd.draft.tested \cup {ExecutionTree(v)}
             /\ cmd'.at \notin {"capability", "collect"}
  <2> DEFINE s == IF ExecutionTree(v) \in Passes[r] THEN "PASS" ELSE "FAIL"
             noted == Note(cmd.draft, r, s, ExecutionTree(v))
             failed == [cmd.draft EXCEPT !.status[r] = "ERROR"]
  <2>1. noted \in Bundles /\ failed \in Bundles
    BY <1>1, <1>2, NoteType, CheckNames DEF Statuses
  <2>2. noted.tested = cmd.draft.tested \cup {ExecutionTree(v)}
        /\ failed.tested = cmd.draft.tested
    BY <1>1 DEF Note, Bundles
  <2>3. cmd'.draft = SourceChecked(v, noted) \/ cmd'.draft = SourceChecked(v, failed)
    BY <1>3
  <2> HIDE DEF s, noted, failed
  <2>4. cmd'.draft.tested = noted.tested \/ cmd'.draft.tested = failed.tested
    BY <2>1, <2>3, SourceCheckedType
  <2>5. cmd'.at \notin {"capability", "collect"}
    BY <1>3 DEF AfterRunner, Runners
  <2> QED
    BY <2>2, <2>4, <2>5
<1>4. ASSUME NEW r \in Runners, NEW s, cmd'.at = AfterRunner(v, r),
             cmd'.draft = [cmd.draft EXCEPT !.status[r] = s]
      PROVE  /\ cmd'.draft.tested = cmd.draft.tested
             /\ cmd'.at \notin {"capability", "collect"}
  BY <1>1, <1>4 DEF AfterRunner, Runners, Bundles
<1>5. ASSUME NEW s,
             \/ cmd'.draft = SourceChecked(v, cmd.draft)
             \/ cmd'.draft = cmd.draft
             \/ cmd'.draft = [cmd.draft EXCEPT !.status["capability"] = s]
             \/ cmd'.draft = Note(cmd.draft, "capability", s, ExecutionTree(v))
      PROVE  /\ cmd'.draft.tested \subseteq cmd.draft.tested \cup {ExecutionTree(v)}
             /\ cmd'.draft.artifact = cmd.draft.artifact
  <2>1. CASE cmd'.draft = SourceChecked(v, cmd.draft)
    BY <1>1, <2>1, SourceCheckedType
  <2>2. CASE cmd'.draft = [cmd.draft EXCEPT !.status["capability"] = s]
    BY <1>1, <2>2 DEF Bundles
  <2>3. CASE cmd'.draft = Note(cmd.draft, "capability", s, ExecutionTree(v))
    BY <1>1, <2>3 DEF Note, Bundles
  <2> QED
    BY <1>5, <2>1, <2>2, <2>3
<1>6. ASSUME cmd'.draft = [cmd.draft EXCEPT !.artifact = ArtifactTree(v)]
      PROVE  cmd'.draft.tested = cmd.draft.tested /\ cmd'.draft.artifact = ArtifactTree(v)
  BY <1>1, <1>6 DEF Bundles
<1>7. ASSUME NEW r \in Runners, cmd'.at = AfterRunner(v, r),
             cmd'.draft = [cmd.draft EXCEPT !.status[r] =
               IF Mandatory(v, r) THEN "NOT_EXECUTED" ELSE "none"]
      PROVE  /\ cmd'.draft.tested = cmd.draft.tested
             /\ cmd'.at \notin {"capability", "collect"}
  <2> DEFINE s == IF Mandatory(v, r) THEN "NOT_EXECUTED" ELSE "none"
  <2>1. cmd'.draft = [cmd.draft EXCEPT !.status[r] = s]
    BY <1>7
  <2> HIDE DEF s
  <2> QED
    BY <1>4, <1>7, <2>1
<1>8. CASE cmd'.draft = SourceChecked(v, cmd.draft) /\ cmd'.at = "manifest"
  BY <1>1, <1>5, <1>8
<1>9. CASE cmd.at = "capability" /\ cmd'.at = "collect"
  <2>1. \/ cmd'.draft = cmd.draft
        \/ cmd'.draft = [cmd.draft EXCEPT !.status["capability"] = "NOT_EXECUTED"]
        \/ cmd'.draft = Note(cmd.draft, "capability",
             CapabilityStatus(v, ExecutionTree(v)), ExecutionTree(v))
    BY <1>9, ValidateStep DEF Runners
  <2> QED
    BY <1>1, <1>5, <1>9, <2>1
<1> QED
  BY <1>1, <1>3, <1>6, <1>7, <1>8, <1>9, ValidateStep

LEMMA DraftAboutTreeStep ==
  ASSUME WellFormed, EvidenceInv, TreeInv, [Next]_vars
  PROVE  DraftAboutTree'
<1> SUFFICES ASSUME NEW w, w = cmd'.by, cmd' # NoDoc, cmd'.at \in ValidateSteps,
                    Undisturbed(w)'
             PROVE  /\ cmd'.at # "stage" => ExecutionTree(w)' = ArtifactTree(w)'
                    /\ cmd'.draft.tested \subseteq {ArtifactTree(w)'}
                    /\ cmd'.at \in {"capability", "collect"}
                         => cmd'.draft.artifact = ArtifactTree(w)'
  BY DEF DraftAboutTree, Idle, Undisturbed, ExecutionTree, ArtifactTree, IsAudit, Mode
<1>1. CASE Environment \/ UNCHANGED vars
  <2>1. ~Spend("tamper")
    BY SpentStep DEF TreeInv, Undisturbed
  <2>2. /\ ~Idle /\ w = cmd.by /\ cmd'.at = cmd.at /\ cmd'.draft = cmd.draft
        /\ cmd'.copy = cmd.copy /\ UNCHANGED <<staged, docs>> /\ cmd.by \in Operations
    BY <1>1, <2>1, EnvironmentTrees DEF WellFormed, TypeOK, Commands, Idle
  <2>3. inspection[cmd.by] # NoDoc /\ inspection'[cmd.by] = inspection[cmd.by]
    BY <2>2 DEF WellFormed, DocsOK, docs
  <2>4. Undisturbed(cmd.by) /\ (IsAudit(cmd.by) => UNCHANGED source)
        /\ (IsAudit(cmd.by)' <=> IsAudit(cmd.by))
    BY <2>2, <2>3, StillUndisturbed DEF IsAudit, Mode
  <2>5. /\ ExecutionTree(w)' = ExecutionTree(cmd.by)
        /\ ArtifactTree(w)' = ArtifactTree(cmd.by)
    BY <2>2, <2>4 DEF ExecutionTree, ArtifactTree
  <2> QED
    BY <2>2, <2>4, <2>5 DEF TreeInv, DraftAboutTree
<1>2. ASSUME NEW v \in Operations, Phase(v)
      PROVE  /\ cmd'.at # "stage" => ExecutionTree(w)' = ArtifactTree(w)'
             /\ cmd'.draft.tested \subseteq {ArtifactTree(w)'}
             /\ cmd'.at \in {"capability", "collect"}
                  => cmd'.draft.artifact = ArtifactTree(w)'
  <2>1. w = v /\ UNCHANGED <<source, docs>>
    BY <1>2, PhaseStep
  <2>2. CASE Idle
    BY <1>2, <2>2, ValidateOnly
  <2>3. CASE ~Idle
    <3>1. Validate(v) /\ cmd.at \in ValidateSteps /\ cmd'.at # "stage"
      BY <1>2, <2>3, ValidateOnly
    <3>2. cmd.by = v /\ inspection[v] # NoDoc /\ inspection'[v] = inspection[v]
      BY <2>1, <2>3, <3>1, ValidateStep DEF WellFormed, DocsOK, docs
    <3>3. Undisturbed(v) /\ (IsAudit(v)' <=> IsAudit(v))
      BY <2>1, <3>2, StillUndisturbed DEF IsAudit, Mode
    <3>4. CASE cmd.at = "stage"
      <4>1. /\ cmd'.at = "behavior" /\ cmd'.draft = cmd.draft
            /\ IsAudit(v) => cmd'.copy = source
        BY <2>3, <3>1, <3>4, ValidateStep DEF Runners
      <4>2. cmd.draft.tested = {}
        BY <2>3, <3>1, <3>4 DEF EvidenceInv, DraftProves
      <4>3. ExecutionTree(v)' = ArtifactTree(v)'
        BY <2>1, <3>3, <4>1 DEF ExecutionTree, ArtifactTree
      <4> QED
        BY <2>1, <4>1, <4>2, <4>3
    <3>5. CASE cmd.at # "stage"
      <4>1. /\ cmd'.copy = cmd.copy /\ UNCHANGED staged
            /\ cmd'.draft.tested \subseteq cmd.draft.tested \cup {ExecutionTree(v)}
            /\ cmd'.at = "capability" => cmd'.draft.artifact = ArtifactTree(v)
            /\ cmd'.at = "collect" =>
                 cmd.at = "capability" /\ cmd'.draft.artifact = cmd.draft.artifact
        BY <2>3, <3>1, <3>5, DraftTrees
      <4>2. /\ ExecutionTree(v)' = ExecutionTree(v) /\ ArtifactTree(v)' = ArtifactTree(v)
        BY <2>1, <3>3, <4>1 DEF ExecutionTree, ArtifactTree
      <4>3. /\ ExecutionTree(v) = ArtifactTree(v)
            /\ cmd.draft.tested \subseteq {ArtifactTree(v)}
            /\ cmd.at = "capability" => cmd.draft.artifact = ArtifactTree(v)
        BY <2>3, <3>1, <3>2, <3>3, <3>5 DEF TreeInv, DraftAboutTree
      <4> QED
        BY <2>1, <4>1, <4>2, <4>3
    <3> QED
      BY <3>4, <3>5
  <2> QED
    BY <2>2, <2>3
<1> QED
  BY <1>1, <1>2 DEF Next, Phase

LEMMA BundleAboutTreeStep ==
  ASSUME WellFormed, TreeInv, [Next]_vars, NEW v \in Operations
  PROVE  BundleAboutTree(v)'
<1> SUFFICES ASSUME validation'[v] # NoDoc, Undisturbed(v)'
             PROVE  /\ validation'[v].tested \subseteq {validation'[v].artifact}
                    /\ IsAudit(v)' => validation'[v].artifact = source'
  BY DEF BundleAboutTree
<1>1. inspection[v] # NoDoc /\ inspection'[v] = inspection[v]
  <2>1. At(v, "collect") => inspection[v] # NoDoc
    BY DEF At, WellFormed, DocsOK, ValidateSteps
  <2> QED
    BY <2>1, BundleStep, CollectEffect DEF WellFormed, DocsOK
<1>2. Undisturbed(v) /\ (IsAudit(v) => UNCHANGED source) /\ (IsAudit(v)' <=> IsAudit(v))
  BY <1>1, StillUndisturbed DEF IsAudit, Mode
<1>3. CASE validation[v] # NoDoc /\ validation'[v] = validation[v]
  BY <1>2, <1>3 DEF TreeInv, BundleAboutTree
<1>4. CASE CollectEvidence(v) /\ ~Idle /\ cmd.by = v /\ cmd.at = "collect"
  <2>1. /\ validation'[v].artifact = cmd.draft.artifact
        /\ validation'[v].tested \subseteq cmd.draft.tested \cup {ArtifactTree(v)}
    BY <1>4, BundleWritten
  <2>2. /\ cmd.draft.tested \subseteq {ArtifactTree(v)}
        /\ cmd.draft.artifact = ArtifactTree(v)
    BY <1>2, <1>4 DEF TreeInv, DraftAboutTree, ValidateSteps
  <2> QED
    BY <1>2, <2>1, <2>2 DEF ArtifactTree
<1> QED
  BY <1>3, <1>4, BundleStep

LEMMA ConfirmingBaselineStep ==
  ASSUME WellFormed, TreeInv, [Next]_vars
  PROVE  ConfirmingBaseline'
<1> SUFFICES ASSUME NEW w, w = cmd'.by, SourceSettled', Untampered', cmd' # NoDoc,
                    cmd'.at \in {"artifact", "gate"}, IsAudit(w)', cmd'.unchanged
             PROVE  AboutBaseline(w)'
  BY DEF ConfirmingBaseline, Idle, IsAudit, Mode, AboutBaseline
<1>1. SourceSettled /\ Untampered /\ ~Spend("tamper")
  BY SpentStep DEF TreeInv
<1>2. ASSUME UNCHANGED docs, AboutBaseline(w)
      PROVE  AboutBaseline(w)'
  BY <1>2 DEF AboutBaseline, docs
<1>3. CASE Environment \/ UNCHANGED vars
  <2>1. /\ ~Idle /\ w = cmd.by /\ cmd'.at = cmd.at /\ UNCHANGED docs
        /\ cmd'.unchanged = cmd.unchanged
    BY <1>1, <1>3, EnvironmentTrees
  <2>2. IsAudit(w)
    BY <2>1 DEF IsAudit, Mode, docs
  <2> QED
    BY <1>1, <1>2, <2>1, <2>2 DEF TreeInv, ConfirmingBaseline
<1>4. ASSUME NEW v \in Operations, Phase(v)
      PROVE  AboutBaseline(w)'
  <2>1. w = v /\ ~Idle /\ cmd.by = v /\ UNCHANGED docs /\ cmd \in Commands
    BY <1>4, PhaseStep DEF WellFormed, TypeOK, Idle
  <2>2. IsAudit(v)
    BY <2>1 DEF IsAudit, Mode, docs
  <2>3. CASE cmd'.at = "artifact"
    <3>1. ConfirmSource(v)
      BY <1>4, <2>3, PhaseStep
    <3>2. SourceMatches(v) /\ At(v, "source")
      BY <2>1, <2>2, <3>1 DEF ConfirmSource, Raise, Commands
    <3>3. validation[v] # NoDoc /\ inspection[v] # NoDoc
      BY <3>2 DEF At, WellFormed, DocsOK, ConfirmSteps
    <3>4. Undisturbed(v) /\ Mode(v) # "CREATE"
      BY <1>1, <2>2, <3>2 DEF Undisturbed, SourceMatches, IsAudit
    <3>5. /\ validation[v].tested \subseteq {source} /\ validation[v].artifact = source
          /\ inspection[v].baseline = source
      BY <2>2, <3>3, <3>4 DEF TreeInv, BundleAboutTree, Undisturbed
    <3>6. inspection[v].described = source
      BY <1>1, <3>3, <3>4, <3>5 DEF TreeInv, InspectionSettled
    <3> QED
      BY <1>2, <2>1, <3>5, <3>6 DEF AboutBaseline
  <2>4. CASE cmd'.at = "gate"
    <3>1. ConfirmArtifact(v)
      BY <1>4, <2>4, PhaseStep
    <3>2. cmd.at = "artifact" /\ cmd.unchanged
      BY <2>1, <2>2, <3>1 DEF ConfirmArtifact, Advance, At, Commands
    <3> QED
      BY <1>1, <1>2, <2>1, <2>2, <3>2 DEF TreeInv, ConfirmingBaseline
  <2> QED
    BY <2>3, <2>4
<1> QED
  BY <1>3, <1>4 DEF Next, Phase

LEMMA AuditIsAboutBaselineStep ==
  ASSUME WellFormed, TreeInv, [Next]_vars
  PROVE  AuditIsAboutBaseline'
<1> SUFFICES ASSUME SourceSettled', Untampered', NEW v \in Operations, outcome'[v] # NoDoc,
                    IsAudit(v)', outcome'[v].lifecycle # "AUDIT_INCOMPLETE"
             PROVE  AboutBaseline(v)'
  BY DEF AuditIsAboutBaseline, AboutBaseline, Untampered
<1>1. SourceSettled /\ Untampered
  BY SpentStep DEF TreeInv
<1>2. validation[v] # NoDoc
  BY DocsStep, AtGate DEF WellFormed, DocsOK
<1>3. inspection'[v] = inspection[v] /\ validation'[v] = validation[v] /\ IsAudit(v)
  BY <1>2, DocsStep DEF IsAudit, Mode
<1>4. SUFFICES AboutBaseline(v)
  BY <1>3 DEF AboutBaseline
<1>5. CASE outcome'[v] = outcome[v]
  BY <1>1, <1>3, <1>5 DEF TreeInv, AuditIsAboutBaseline, AboutBaseline, Untampered
<1>6. CASE ConfirmAudit(v) /\ outcome'[v] = AuditOutcome(v, cmd.unchanged, cmd.agrees)
  <2>1. AuditLifecycle(v, cmd.unchanged) # "AUDIT_INCOMPLETE"
    BY <1>6 DEF AuditOutcome
  <2>2. cmd.unchanged /\ ~Idle /\ cmd.by = v /\ cmd.at = "gate"
    BY <1>6, <2>1, AtGate DEF AuditLifecycle
  <2> QED
    BY <1>1, <1>3, <2>2 DEF TreeInv, ConfirmingBaseline
<1>7. ~ConfirmChange(v)
  BY <1>3 DEF ConfirmChange
<1> QED
  BY <1>5, <1>6, <1>7, DocsStep

LEMMA TreeInvariant == Spec => []TreeInv
<1>1. Init => TreeInv
  BY PipelineOK DEF Init, TreeInv, BoundKept, PublishingArtifact, InspectingSettled, InspectionSettled, DraftAboutTree,
         BundleAboutTree, ConfirmingBaseline, AuditIsAboutBaseline, Idle
<1>2. WellFormed /\ EvidenceInv /\ TreeInv /\ [Next]_vars => TreeInv'
  BY SpentStep, PublishingArtifactStep, InspectionsSettled, DraftAboutTreeStep, BundleAboutTreeStep,
     ConfirmingBaselineStep, AuditIsAboutBaselineStep
  DEF TreeInv
<1> QED
  BY <1>1, <1>2, WellFormedAlways, EvidenceInvariant, PTL DEF Spec

\* An audit that is complete is about its baseline and nothing else, with one edit
\* of the source at any moment (_audit_terminal_state, confirm).
THEOREM AuditsAreAboutBaseline == Spec => []AuditIsAboutBaseline
<1>1. TreeInv => AuditIsAboutBaseline
  BY DEF TreeInv
<1> QED
  BY <1>1, TreeInvariant, PTL

\* A vetted bundle whose evidence is about one tree: that tree passes.
LEMMA VettedPasses ==
  ASSUME NEW v \in Operations, validation[v] # NoDoc, EvidenceInv, Vetted(v), NEW t,
         validation[v].tested \subseteq {t}
  PROVE  /\ validation[v].tested = {t} /\ t \in Passes["structure"]
         /\ \A r \in Runners : Counts(v, r) => t \in Passes[r]
<1>1. Proves(validation[v], Runners) /\ StructureTested(validation[v])
  BY DEF EvidenceInv, BundleProves
<1>2. validation[v].tested = {t} /\ t \in Passes["structure"]
  BY <1>1 DEF StructureTested, Vetted
<1>3. ASSUME NEW r \in Runners, Counts(v, r)
      PROVE  t \in Passes[r]
  <2>1. validation[v].status[r] = "PASS"
    BY <1>1, <1>3 DEF Proves, Counts, Vetted
  <2> QED
    BY <1>1, <2>1 DEF Proves
<1> QED
  BY <1>2, <1>3

\* What is installed passed, as it is, every runner it was given and the structure
\* check, unless another program changed a staged tree (orchestrator.py validate, apply).
THEOREM InstallsWereTested == Spec => []AppliedWasTested
<1>1. WellFormed /\ ApplyInv /\ EvidenceInv /\ TreeInv => AppliedWasTested
  <2> SUFFICES ASSUME WellFormed, ApplyInv, EvidenceInv, TreeInv, Untampered,
                      NEW v \in Operations, NEW i \in DOMAIN log[v]
               PROVE  /\ validation[v].tested = {log[v][i].after}
                      /\ log[v][i].after \in Passes["structure"]
                      /\ \A r \in Runners : Counts(v, r) => log[v][i].after \in Passes[r]
    BY DEF AppliedWasTested, Untampered, Counts
  <2>1. log[v] # << >> /\ (Len(log[v]) = 1 => i = 1)
    BY DEF WellFormed, TypeOK
  <2>2. /\ validation[v] # NoDoc /\ ~IsAudit(v) /\ Vetted(v)
        /\ log[v][i].after = validation[v].artifact
    BY <2>1 DEF ApplyInv, Installed, Receipts, ReceiptMeans
  <2>3. validation[v].tested \subseteq {log[v][i].after}
    BY <2>2 DEF TreeInv, BundleAboutTree, Undisturbed
  <2> QED
    BY <2>2, <2>3, VettedPasses
<1> QED
  BY <1>1, WellFormedAlways, ApplyInvariant, EvidenceInvariant, TreeInvariant, PTL

\* A Skill that status calls MANAGED was confirmed and passes what it was given
\* (managed_status, completion_receipt).
THEOREM ManagedIsTested == Spec => []ManagedIsValidated
<1>1. WellFormed /\ ApplyInv /\ EvidenceInv /\ TreeInv => ManagedIsValidated
  <2> SUFFICES ASSUME WellFormed, ApplyInv, EvidenceInv, TreeInv, Untampered,
                      NEW v \in Operations, Managed(v), IsAudit(v) => SourceSettled
               PROVE  /\ outcome[v].confirmed /\ source \in Passes["structure"]
                      /\ \A r \in Runners : Counts(v, r) => source \in Passes[r]
    BY DEF ManagedIsValidated, Untampered, Counts
  <2>1. /\ outcome[v] # NoDoc /\ outcome[v].formal /\ validation[v].artifact = source
        /\ outcome[v].confirmed /\ Vetted(v)
        /\ IsAudit(v) => outcome[v].lifecycle = "AUDIT_COMPLETE_VALID"
    BY DEF Managed, ApplyInv, Receipts, ReceiptMeans
  <2>2. validation[v] # NoDoc
    BY <2>1 DEF WellFormed, DocsOK
  <2>3. validation[v].tested \subseteq {source}
    <3>1. CASE IsAudit(v)
      <4>1. AboutBaseline(v)
        BY <2>1, <3>1 DEF TreeInv, AuditIsAboutBaseline, AboutBaseline, Untampered
      <4> QED
        BY <2>1, <4>1 DEF AboutBaseline
    <3>2. CASE ~IsAudit(v)
      BY <2>1, <2>2, <3>2 DEF TreeInv, BundleAboutTree, Undisturbed
    <3> QED
      BY <3>1, <3>2
  <2> QED
    BY <2>1, <2>2, <2>3, VettedPasses
<1> QED
  BY <1>1, WellFormedAlways, ApplyInvariant, EvidenceInvariant, TreeInvariant, PTL
=============================================================================
