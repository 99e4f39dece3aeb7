# Verification of Skill Engineering

TLA+ specifications of the engine under `src/engine/` and its command line scripts
under `src/scripts/`, the TLC instances that model-check them, and theorems about
them proved with TLAPS. `PROJECT.json` lists components, runs, mutants, hazards,
theorems and, for every definition that models code, the lines it stands for.

    tlc -workers 2 -config solo.cfg MCSafeApply      # one run
    tlapm SafeApplyProofs.tla                        # one module of proofs

## 1. The system

Skill Engineering is a plugin that audits, repairs, refactors and creates Skills:
directories of instructions for a coding agent. A host agent drives it by commands;
every command is a process of its own, and the state that outlives a command is in
JSON documents and in directories.

    bootstrap --> inspect --> validate --> confirm --> apply
     runtime      Providers    staging     gate        atomic replacement
                  baseline     runners     receipt     recovery
                               evidence

| Component (`src/`) | State | Operations | Interacts by | Hard behaviour | What makes it correct |
|---|---|---|---|---|---|
| Bootstrap (`scripts/bootstrap_skill_engineering.py`) | runtime directory, marker, lock file, all shared | provision, verify, launch | starts every command; calls uv | processes at once, kills, a stale lock taken over | one process provisions; the marker says the truth; nobody waits for ever |
| Pipeline (`engine/orchestrator.py`, `scripts/skill_engineering.py`) | inspection, validation, outcome; staged trees | `inspect`, `validate`, `confirm`, `apply` | calls every other part; documents between processes | the source, the staged tree and the documents change between and during commands | all evidence is about one tree; what is applied is what was tested and confirmed and replaces what was inspected |
| Safe apply (`engine/workspace.py`) | applied path, backup, staging directory | `apply_atomic` | last step of `apply` | any file operation fails, kills, edits, two applies at once, retries | the old tree is never lost; recovery restores it; all or nothing |
| Evidence collector, quality gate (`engine/evidence.py`, `engine/quality_gate.py`) | accepted and rejected results | `add`, `adjudicate`, `load_gate_policy` | called by `confirm` | order, repetition, contradiction, malformed results, project policies | nothing hides a failure; a pass is earned; advice never decides |
| Managed completion (`engine/managed_completion.py`) | receipt, kept by the caller | `completion_receipt`, `managed_status` | `confirm`, `status` | the tree changes after the receipt | MANAGED means validated, as it is |
| Deliverable contract (`engine/deliverable_contract.py`) | none | validate | evidence of `validate` | contract and artifact of different phases | a valid contract covers |
| Provider process (`engine/host_adapters.py`) | child process and what it starts, pipes, the answer file, a job object on Windows | `invoke`, `_run_subprocess` | called by the gateway, once per attempt | an answer that races the deadline, full pipes, interrupts, a host that is killed | an answer is final when it is taken; no process is left behind; the call ends |
| Provider gateway (`engine/providers.py`) | registered adapters | `invoke` | `inspect`, `validate`; its reply becomes a record of the inspection | Providers that are missing, unpinned, degraded, failing; a fallback | a reply without an answer names everyone who was tried; a formal pass rests on a pinned Provider |
| Capability preflight and evidence (`engine/capabilities.py`, `engine/equivalence_contracts.py`, `validators/capability_fallbacks.py`) | none: computed from the records of the inspection and from the artifact | preflight, built-in checks, promotion of Provider verdicts, gaps | the middle of `validate` | stages that raise, several sources for one verdict, records that are older than the artifact | every capability is judged once; a defect found blocks; nothing passes that did not run |
| Capability comparison (`engine/capability_diff.py`, `engine/capability_decisions.py`, `engine/capability_manifest.py`) | manifests and the user's decision, kept in documents | compare, decide | `inspect`, `validate`, `confirm` | a decision made for one comparison and used in another | nothing is given up that was not agreed to |
| Governance interface (`engine/governance_api.py`) | none | `evaluate` | other engines call it | half-given inputs, trees that change | a publication is authorised on proof only |
| Lifecycle table (`engine/state_machine.py`) | the caller's state and context | `allowed_targets`, `transition` | documented; the orchestrator records states beside it | remediation cycles, facts learnt late | a verdict is about the last attempt |
| Rule governance (`engine/rule_governance.py`, `engine/rule_bloat.py`) | findings and decisions of the inspection | scan, decide | `inspect`, `validate` | the candidate is edited after its scan; ids that are reused | what is found guilty was reviewed |
| Applicability, mechanism selection, Skill sources | none | decisions over one record | `inspect`, `validate` | tables of cases | agreement with their documented rules |

The lines at which these behaviours bite are in `PROJECT.json` under `hazards`.

## 2. Modules

| Module | Models | Checked by | Proved in |
|---|---|---|---|
| `AtomicApply` | what an apply promises: replace in one step or leave alone | `refine` | `SafeApplyProofs` |
| `SafeApply` | `apply_atomic`, sessions, environment | `solo`, `pair`, `refine`, `bug_recovery` | `SafeApplyProofs` |
| `GateRules` | evidence collection, policies, verdict: operators only | through the next two | |
| `QualityGate` | a stream of results into the gate | `gate` | `QualityGateProofs` |
| `Pipeline` | the four commands, composed with `GateRules` | `pipeline`, `operations`, `audit_valid`, `contract_bound` | `PipelineProofs` |
| `Bootstrap` | lock, marker, provisioning | `bootstrap` | `BootstrapProofs` |
| `ProviderProcess` | one invocation of a Provider process | through the next one | `ProviderGatewayProofs` |
| `ProviderGateway` | the selection of a Provider over `ProviderProcess` | `parts` | `ProviderGatewayProofs` |
| `CoreCapabilities` | tables and rules of the capability checks: operators only | through the next one | |
| `CapabilityPreflight` | from the answers of Providers to the evidence of a validation | `parts`, `executables` | `CapabilityProofs` |
| `CapabilityEvolution` | what a Skill can do over a chain of repairs | `parts` | `CapabilityProofs` |
| `GovernanceApi` | an evaluation of a request over two trees | `parts` | `GovernanceProofs` |
| `Lifecycle` | the table of transitions and a caller that keeps its context | `parts` | `GovernanceProofs` |
| `RuleGovernance` | findings, decisions, the scan of the candidate and of its copy | `parts` | `GovernanceProofs` |
| `EngineParts` | the six of these, one per behavior | `parts` | `EnginePartsProofs` |

The MC modules give the constants their values. The definitions called
"Mutant of D" are plausible wrong versions of `D`, each listed in `PROJECT.json` with the property that refutes it; no
specification uses them.

### SafeApply

`files` maps the applied path, the backup path, the place of a source that is kept
elsewhere, and the path `None` (see section 6) to trees; a tree is its content, as
`digest_tree` tells contents apart, or `Partial`, what an interrupted `rmtree`
leaves. `pc[s]` is the point of `apply_atomic` a session has reached; `keeps` and
`moved` are its locals `backup` and `moved_backup`; `staging[s]` its candidate.
There is an action for each access to the file system: `CheckCandidate`,
`CheckSource`, `PlanBackup`, `ProbeApplied`, `ClearBackup`, `FinishClearBackup`,
`MoveAside`, `Install`, `Verify`, and in the recovery branch `RecoverRemove`,
`FinishRecoverRemove`, `Restore`. `OperationFails` makes the operation at hand
raise; `AfterException` is the `except` clause. `Crash`, `Retry`, `Edit` and `Tamper`
are the environment: a kill, the user's second `apply`, an editor, a change of the
staged tree; `left` bounds how often each happens. `origin` says whether a session
has its source at the applied path, elsewhere, or none (a creation). `prior` and
`raced` only observe: the tree a session moved away, and who has overlapped.

### GateRules and QualityGate

A result is a record of what the gate reads: check, subject, source, whether it is
required, status, quality of its evidence, whether it cites a blocking policy,
whether it is well formed. `Collect` is `EvidenceCollector.add` as
`_collect_valid_evidence` calls it; `Merge` with `PolicyAccepted` is
`load_gate_policy`; `MissingRequired`, `InvalidRequired`, `FrameworkErrors`,
`IncompleteResults`, `BlockingResults`, `Warnings`, `RegressionProven` are the parts
of `_adjudicate_findings`; `Verdict`, `ApplyAuthorized` and `Outcome` those of
`adjudicate`. `QualityGate` delivers results one by one (`Deliver`) and closes with
`Adjudicate`.

### Pipeline

`source` is the tree at the path of the Skill, `staged[v]` the candidate of an
operation, `inspection`, `validation` and `outcome` its three documents, `cmd` the
running command with its locals, `log` what was applied. `StartInspect` and
`AskProviders` are `inspect`; `StartValidate`, `TakeSnapshot`, `StageCandidate`,
`Run`, `SkipRunner`, `Recheck`, `BuildManifest`, `CompareCapabilities` and
`CollectEvidence` are `validate`; `StartConfirm`, `ConfirmSource`, `ConfirmArtifact`,
`ConfirmAudit` and `ConfirmChange` are `confirm`; `StartApply` with the same and
`CheckCandidate`, `VerifySource`, `Publish`, `Recover` are `apply`. Between two steps
the owner may `Edit`, a program may change the staged tree (`TamperCandidate`) or the
snapshot (`TamperSnapshot`), and the command may be killed or raise (`Interrupt`).
`Recover` and `InterruptPublish` are the failures and the kills of the replacement: the
source is put back, or it is lost, by a kill between the two moves or by a failure before
the first of them. A Skill that is lost stays so in the model.
The verdict is that of `GateRules`, on the evidence the bundle would give. A check is
the set of contents that pass it; three contents are enough to tell them apart: one
that is well formed and wrong, one that is right, one that fails everything.

Assumptions of this module: the target is the directory of the source (the default of
the command line); one command runs at a time; the documents are not edited by
hand; a replacement that succeeds is one step with one window before it, which is what
`SafeApply` and its refinement of `AtomicApply` justify, and one that does not leaves the
trees `SafeApply` lets it leave; the recovery itself does not fail; a Provider answers or
does not; the outcomes AUTHORIZATION_REQUIRED and CAPABILITY_UNVERIFIABLE are left
to `QualityGate`; governance and dependency checks that end a command are
`Interrupt`; the project policy does not change during an operation.

### Bootstrap

`lock` is the lock file with its owner and age, `runtime` the directory (absent,
without an interpreter, with an interpreter and not all packages, complete),
`marker` whether its marker is there and names this identity. A process goes through
the loop of `_provision_lock` (`Acquire`, `SeeMarker`, `SeeAge`, `Steal`,
`Deadline`), `_provision` (`Recheck`, `Inspect`, `Clear`, `Venv`, `Sync`, `Install`,
`Check`, `Mark`), `Release`, and `Launch`. `SeeAge` and `Steal` are two steps since
`stat` and `unlink` are two calls. `Tick` is the clock, in units of the waiting time
of 120 s; the stale age of 600 s is the constant `StaleAge`. `overtaken`
observes whose lock was removed while they were at work.

### ProviderProcess and ProviderGateway

`pc` is the step of the host in `CodexSkillProviderAdapter.invoke` and
`_run_subprocess`, `child` the Provider process. The host starts it (`Spawn`), puts it
in a job object (`Bind`, Windows), writes the prompt piece by piece (`Send`), starts the
threads that drain its output (`StartDrains`, `Drain`), and goes round the loop `Poll`,
the look at the answer file (`NoticeAnswer`, `KeepWatching`, `StopStable`),
`CheckDeadline`; then `Reap`, `Join`, `Finally` and, where no job object has ended the
process, `Linger`, the two seconds it is given before it is killed; then `ReadAnswer`.
Pipes hold `PipeSize`
pieces, `seen` and `age` are the signature of the answer file and how long it has been
the same. The process is external: it reads, prints, writes the file, starts processes
of its own (`heirs`), closes its standard input (`CloseInput`: a write to it breaks while
the process runs) and exits when it likes, and may ignore SIGTERM. `Interrupt` is a Ctrl-C
at any step: in the body of the `try` the `finally` block follows, between `Popen` and the
`try` and in the `finally` block itself it leaves `_run_subprocess` with the process as it
is (`escaped`). `HostKilled` is the death of the host.
`ProviderGateway` walks the adapters (`SkipOther`, `SkipUnavailable`, `RefuseUnfit`,
`InvokeAdapter`, `AdapterFails`, `AdapterAnswers`), ends in `NoFallback`, `UseFallback`
or `Propagate`, and makes the record of the reply (`RecordStatus`). `attempted` is a local:
what of it reaches the caller is `reply.named`, all of it from `NoFallback` and
`UseFallback` and nothing from `AdapterAnswers`.

### CoreCapabilities and CapabilityPreflight

`AskProvider` collects the answers of the inspection in the order of the adapters.
`Validate` is the part of `validate` that turns them into evidence: `Preflight` selects
for each capability a Provider, the core or a fallback; `InternalChecks` are the
built-in checks where the core was selected, `ProviderChecks` the verdicts of Providers,
`ContractChecks` the deliverable contract, `FrameworkChecks` what raised, `Gaps` what no
one executed. A request carries the two parameters the level of a fallback depends on:
the fallbacks the engine is built with and the levels a caller overrides
(`EffectiveLevel`). `Observations` says of an artifact what the validators and rubrics find
and what the runners return; the text analysis itself is left out. The set
`bundle.checks` is what the gate is given.

### CapabilityEvolution, GovernanceApi, Lifecycle, RuleGovernance

`CapabilityEvolution`: `version` is the published Skill as the set of its capabilities,
`baseline` and `described` are the manifests of the inspection and of the candidate,
`decision` what the user agreed to and for which two manifests. `StartRepair`, `Author`,
`ValidateChange`, `Decide` and `ApplyChange` may repeat in any order their guards allow;
`Kind` is `capability_diff` with its public scope field by field, one of which may shrink
while another grows (`Narrower`), `DecisionStatus` is `validate_capability_change_decision`.

`GovernanceApi`: `Evaluate` answers a request over the trees at the two paths, which
anyone may change (`ChangeTree`). An answer keeps what it was computed from (`seen`).

`Lifecycle`: `AllowedTargets` is the row of the table without what `allowed_targets`
takes away; `Transition`, `Remediate` and `Learn` are a caller that keeps its
`TransitionContext` honestly. `since` observes what was done after the last failure.

`RuleGovernance`: `DecideRules`, `ScanCandidate`, `StageCopy` and `AnalyseRules` are the
places where `inspect` and `validate` handle rules, `WriteCandidate` is the author, who may
write between two of them. A detector is a function from trees to findings.

`EngineParts` takes these six as they are. They share no state, so that a behavior
runs one of them, named by `part`, and the others stay where they began; the run has
the sum of their states and not the product.

## 3. Runs

| Run | States (about) | Question and answer |
|---|---|---|
| `solo` | 42,000 | One apply (in place, of a Skill kept elsewhere, of a new Skill), two failing operations, a kill, an edit, a changed candidate, a repeated call: the old tree is never lost (`BackupKeepsPrior`), recovery restores exactly it (`RestoresWhatItMoved`), a changed candidate does not stay installed (`NoUnconfirmedLeft`), one mishap is always recoverable (`OneMishapIsRecoverable`), the command ends (`ApplyTerminates`). |
| `pair` | 318,000 | Two sessions with no lock between them: a session that was not overlapped keeps its backup (`UnracedBackupKept`), and of two that both installed something new over one source one at least has overlapped another (`SerialAppliesConflict`). |
| `refine` | 9,800 | A lone in-place apply whose failures come after the old tree was moved implements `AtomicApply` (`AtomicSpec`). |
| `bug_recovery` | violation | `OriginalRestored`, see section 5. |
| `gate` | 1,130,000 | Three of twenty-five results in any order, fifty-two contexts, three project policies and none: no failure is hidden, a pass is earned, advice and project policies never weaken the verdict, a late pass comes from a check that was missing. |
| `pipeline` | 3,262,000 | Every audit, repair and creation of one Skill, the deliverable contract required, not required or in compatibility mode, the regression check required or recommended, one edit, one change of a staged tree, one fault, kills that may lose the Skill, repeated commands: an audit that is complete is about one tree (`AuditIsAboutBaseline`), what is installed, which without a required contract is a creation or a tree that differs from its baseline, is formal and tested (`AppliedIsFormal`, `AppliedWasTested`), what is MANAGED was validated (`ManagedIsValidated`). |
| `operations` | 629,000 | Two operations on one Skill, commands interleaved, no contract required and the regression check recommended: neither overwrites what it did not inspect (`ReplacesItsBaseline`), none is applied twice (`AppliedOnce`). |
| `audit_valid`, `contract_bound` | violation | See section 5. |
| `bootstrap` | 62,000 | Two processes, every runtime and lock an earlier process may have left, one kill, two failures of uv; the deadline and the stale age are in the proportion of the code, 1 to 5: until a lock is taken from a process at work one process provisions, the marker is written into a complete runtime and engines keep theirs (`OneProvisions`, `MarksWhatIsReady`, `EngineHasRuntime`); every bootstrap ends and one starts the engine unless uv fails (`BootstrapEnds`, `SomeoneLaunches`). |
| `parts` | 364,000 | Six parts, one per behavior. The gateway: where no registered Provider answered the reply names everyone who offers the capability (`NobodyPassedOver`), a formal pass is that of a pinned Provider (`FormalPassIsPinned`), an answer is final when it is taken (`AnswerIsFinal`), nothing is left running but by a Ctrl-C in two windows (`NoOrphans`, section 6), the call ends unless one of two waits without a limit lasts (`GatewayCallEnds`). The evidence: every capability is established exactly once (`EveryCapabilityProven`), a Provider's defect blocks (`FindingBlocks`), a pass is never that of something that did not run (`NothingVacuous`). Repairs: nothing is given up unasked (`NothingGivenUpUnasked`), kept scopes keep their validation (`ValidationKept`). The interface authorises on proof (`AuthorizedIsProven`), a verdict of the lifecycle is fresh (`VerdictIsFresh`), findings in what is validated were reviewed (`FindingsReviewed`). |
| `executables` | violation | See section 5. |

Bounds. One session or operation meets every branch of its code, and two are what the
races named in the hazards need; the theorems that matter hold for any number. Each
kind of interference happens once (failures of `solo` and of uv twice, since the
recovery branch may fail as well): an interference more repeats a case, except for an
edit and its reversal, which no comparison of digests can see, so that
`AuditIsAboutBaseline` and `ManagedIsValidated` speak of one edit only. An OPTIONAL contract
is in no run: its coverage is computed as for REQUIRED and it binds as little as
COMPATIBILITY, both of which `pipeline` has; with it the run would take too long.
Three results
let a pass be made, contradicted and repeated. A third bootstrap process adds a
second waiter; its races are in the proofs. In `parts`, pipes of one piece, a prompt and an
output of two let both pipes fill up; a timeout of two ticks and a stable time of one
let the answer come before, at and after the deadline; two writes let the answer
change while it is watched; registries of up to three adapters have every way of passing over
one before one that can be invoked. The requests, answers and observations of the
evidence are one in order and one for each thing that may be out of order, with the
combinations the properties speak of. Two capabilities, eight states of one and two
inspections let a decision outlive its comparison, and one of the states exchanges an
entry point for a template; two remediation cycles let a
verdict be older than a failure; five trees with two finding ids let an id be reused.

`CHECK_DEADLOCK FALSE` is in every configuration: all of these programs end.

Fairness. `ApplyTerminates` assumes that a session that has not been killed takes its
next step: `apply_atomic` waits for nobody. `BootstrapEnds` and `SomeoneLaunches`
assume the same of each bootstrap process (hence that a call of uv ends: it has no
timeout) and that time passes. Nothing is assumed of the environment. `GatewayCallEnds` assumes that the
caller and the host take their steps, that the drain threads run and that time passes;
nothing is assumed of the Provider process, which may hang, print for ever or ignore
SIGTERM. There is no
fairness in `Pipeline` and `QualityGate`, which have safety properties only.

## 4. Proofs

Every safety property that a passing run checks is also a theorem, for every value of
the constants; the runs are where its hypotheses and its interesting cases are seen to
occur. Eight modules hold the proofs.

`SafeApplyProofs`, for any sessions, contents and bounds:

* Type correctness. `UnracedBackupKept`, from the inductive invariant `BackupInv`. It adds
  that `moved` is only set at the program points after the move, and that of two sessions
  at work one at least is in `raced`, for a session alone could not otherwise exclude the
  steps of others.
* For a lone session (`Alone`): `BackupKeepsPrior` and `RestoresWhatItMoved` follow; the
  second needs that what was moved aside was a tree (`MovedATree`).
  `OneMishapIsRecoverable` needs to know at each program point whether the only mishap has
  already happened; `NoUnconfirmedLeft` what may stand at the path at any moment
  (`LeavesExpected`), the old tree in the backup included.
* For any number: `SerialAppliesConflict`, from `AppliedStays`: after a session that
  nobody overlapped has installed something new, its tree stays and every other session
  has ended or is going to find the wrong source. It asks that one of the two was
  overlapped and not both: with three sessions the recovery of the third can put the old
  tree back after the first has gone, so that the second finds what it expects.
* `ApplyIsAtomic`: a lone call in place, not repeated, whose operations before the move do
  not fail (`SingleCall`), implements `AtomicApply`. `Verify` that succeeds is mapped to
  `Commit`, a refusal, a failure that was recovered or a kill to `Abort`, all between to a
  stutter. The condition on the failures is needed: see
  `bug_recovery`. The run `refine` is one instance of it.

`QualityGateProofs`, for any checks, policies, contexts and streams: type
correctness; `NoFailureHidden`, from `Kept`: every result delivered is accepted or
rejected, whatever its order; `PassIsEarned`; `ProjectPolicyNeverWeakens`,
from the monotonicity of the parts of the verdict in the policy (`BlocksMore`,
`StrongerPolicy`); `OptionalEvidenceIsAdvisory`; `LatePassSuppliesEvidence`, from their
monotonicity in the evidence (`CollectAdds`, `PassWasPass`).

`PipelineProofs`, for any number of operations, any trees, checks, runners and bounds. The
documents are read long after they were written, so that no property is inductive; the
invariants say what each document and each program point still stands for.

* `WellFormed`: types, with the draft of the running command typed by its phase, and each
  phase has the documents it reads and has not written its own. `TypeOK` follows.
* `ApplyInv`: a bundle of a change names a tree (`StagingInv`); what was installed was
  installed once, with a formal outcome (`Installed`, `NotYetInstalled`); what `apply` has
  compared before the move (`ReadyToApply`); what a receipt means (`Receipts`).
  `ReplacesItsBaseline`, `AppliedIsFormal`, `AppliedOnce` follow, with edits, tampering and
  kills between any two steps.
* `EvidenceInv`: a runner that has passed has passed on a tree its bundle lists as tested
  (`DraftProves`, `BundleProves`).
* `TreeInv`: while no one else could change the trees without being seen, what an operation
  reads is one tree, at each step of `inspect`, `validate` and `confirm` of its own
  (`InspectionSettled`, `DraftAboutTree`, `BundleAboutTree`, `ConfirmingBaseline`); the source
  is the inspected tree or, after a replacement that was killed or failed, missing
  (`SettledSource`), and only an operation that installs can lose it
  (`PublishingArtifact`). With
  `EvidenceInv` it gives `AuditIsAboutBaseline`, `AppliedWasTested`, `ManagedIsValidated`.
  "Could change without being seen" is part of the properties: an edit and its reversal, an
  install by another operation during an audit (`SourceSettled`), a staged tree that was
  changed (`Used("tamper")`); section 6 says what the code does then.

`BootstrapProofs`, for any number of processes, any deadline and stale age: type
correctness; `OneProvisions`, `EngineHasRuntime`, `MarksWhatIsReady`. None of them is
inductive. `IInv` adds, while nobody has been overtaken: the process that created the
lock has it (`HoldersLock`); a waiter that goes on without it finds the marker
(`GuestsSeeMarker`), which is why the second look at the marker is needed; nobody
works on a marked runtime (`StepsInOrder`); who leaves without an exception leaves a
marked runtime (`LeavesMarked`).

`ProviderGatewayProofs`, for any registry, any sizes of prompt, output and pipes, any
timeout: type correctness, `NobodyPassedOver`, `FormalPassIsPinned`, `AnswerIsFinal`,
`NoOrphans`, all without the fairness of `GatewaySpec` (`GatewaySafety`). `PInv` is
about the process: from `Spawn` on there is one, it has ended before the file is read,
the job is closed with it, an answer is held only at the end. `SInv` is about the
selection: what lies behind `pos` and offers the capability is named in `attempted`, what
is invoked fits, and nothing is started while none fits (`StartsWhatFits`). Neither mentions
the other's variables but for the end of the invocation.

`CapabilityProofs`:

* for any capabilities, versions and number of inspections, `NothingGivenUpUnasked` and
  `ValidationKept`. `EInv` adds that the two manifests are those of the published version
  and of the draft, in the current inspection, and that a check that passed was made of
  them and of the present decision: without it an authorisation could serve a draft that
  was rewritten after its comparison;
* for any requests, answers of Providers and artifacts, the types of the evidence,
  `EveryCapabilityProven`, `FindingBlocks` and `NothingVacuous`. `PreflightInv` says that the
  records answer for distinct capabilities among those asked so far, and that the bundle
  is the evaluation of the records. Two facts carry the rest: the preflight selects one
  source for a capability, so that its verdicts from Providers, from the core and as a
  gap exclude each other; and of the verdicts of one Provider the first is taken, a least
  index, which exists by the well-foundedness of the naturals (`LeastMember`).

`GovernanceProofs`: for each of three specifications its types and one property.
`AuthorizedIsProven`, for any request and trees, from the fact that every answer is an
evaluation of its request. `FindingsReviewed`, for any detector and trees, from `RInv`: all
findings of the inspection are decided, what passed the scan has no further ids, and
verdicts are about the copy. `VerdictIsFresh`, for any number of cycles: `IInv` adds that no
noted cycle is ahead of the current one, and that what was noted in a later cycle than the
failure was done after it.

`EnginePartsProofs`: a behavior of `EngineParts` is one of each of its six parts
(`PartsAreApart`), hence its types and all safety of the parts hold of the whole
(`PartsTypeCorrect`, `PartsAreSafe`), which is the specification the run `parts` checks.

The assumptions on the constants are `ConstantsOK`, those of `GateRules` and
`QualityGate`, those of `Pipeline`, `BootstrapOK`, and the one of each part; TLC evaluates
them in the runs. Those worth a look:

* `RulesOK` and `PipelineOK`: the ids of the core checks and of the structure check are not
  those of rule signals or rule bloat, which have their own prefixes.
* `PreflightOK`: the capabilities of the gateway are distinct (`gateway.capabilities` is a
  `frozenset`, sorted by its user) and its answer is for the capability it was asked for
  (`normalize_provider_result` refuses another); the domains of a Skill are not names of
  core capabilities. That no Provider is registered as `internal.core` or `none` is not
  checked by the code: these are names the model and the records use for no Provider.

Model-checked only: liveness (`ApplyTerminates`, `BootstrapEnds`, `SomeoneLaunches`,
`GatewayCallEnds`), which is out of the prover's reach. Types of `QualityGate` and `Bootstrap`
are proved and not repeated in their runs.

## 5. Findings

* `bug_recovery`: when the rename of the old tree to the backup fails,
  `moved_backup` is false and the recovery branch (`workspace.py:378`) removes the
  applied path, which still is the old tree, and then reports "safe apply failed;
  original restored". It needs a single failing rename.
* `audit_valid`: the terminal state of an audit (`orchestrator.py:1206`) is computed
  without verdict and confirmation; the design requires both for
  `AUDIT_COMPLETE_VALID`.
* `contract_bound`: the deliverable contract names the digest of the baseline and is
  validated against the manifest of the candidate (`deliverable_contract.py:116`); a
  repair that changes a file never has FULL coverage when a contract is required.

* `executables`: the check of the capability manifest is a command result
  (`orchestrator.py:532`), and any command result counts as an execution
  (`capability_fallbacks.py:400`). With a Provider of manifests, which
  `config/providers.yaml` configures, a Skill with executables passes the capabilities
  that are about execution although nothing ran; `docs/verification/product-semantics-alignment-2026-09-18.md:61`
  says that this gives a required NOT_EXECUTED.

## 6. Limits of the code the properties step around

They are in the models unless an item says otherwise, and the properties say where they
stop. A hazard in `PROJECT.json` without a property is one of these: nothing in the code
meets it, so that no property that holds could be about it, and its note says which
property excludes it.

* An edit between the last comparison of the source digest and the rename is
  replaced; it survives in the backup (`log[v][i].raced` in `Pipeline`).
* `applied.exists()` is read twice; a tree that appears in between is moved to
  `str(None)` in the working directory (`files["stray"]`).
* The artifact is digested after the runners: a runner that writes to the staged tree
  changes what it has tested and the result is what gets confirmed (`Used("tamper")`).
* A lock that is 600 s old is taken from its owner even when that one is at work, and
  two waiters that see one stale lock may remove each other's new lock; what two
  provisioners then do to one directory is not promised (`overtaken`).
* A runtime whose marker is in place and whose packages are damaged is believed by
  every bootstrap and refused by every verification: none repairs it (excluded in
  `SomeoneLaunches`).
* Runners and uv are started without a timeout.
* The host waits without a limit for a Provider to take its prompt, which is written
  before the drain threads run and before the deadline is set, and for it to obey SIGTERM
  (`Blocked` in `ProviderGateway`).
* A host that is killed between the start of a Provider and `Bind` leaves it running
  (`lost`), and so does one that gets a Ctrl-C there, where `_run_subprocess` catches an
  `Exception` only (`escaped`); what the Provider starts before it is in its job is in no
  job (`early`).
* In the `finally` block, which on POSIX waits up to two seconds, a second Ctrl-C leaves the
  Provider running (`escaped`). `NoOrphans` speaks of the invocations that end otherwise.
* A Provider that answers after others were tried and failed does not name them in its
  reply: `attempted` is dropped (`providers.py:311`). `NobodyPassedOver` speaks of the
  replies no registered Provider gave.
* A failure before the first move of an apply, and a kill between its two moves, leaves
  nothing at the path of the Skill (`source = NoTree` in `Pipeline`); the next audit raises
  when it takes the digest.
* A configured fallback is invoked whatever its descriptor says (`FormalPassIsPinned`
  exempts it).
* The verdict of a Provider is looked up by the Provider's id and the first one is
  taken: one Skill that answers for two capabilities loses what it said of the second
  (`DistinctSpeakers` in `FindingBlocks`).
* A Provider that is missing or unpinned is replaced by the core without a look at its
  equivalence contract; only one that failed at run time demands a proven fallback.
* What Providers said of the baseline is promoted as evidence of the candidate. Only
  the deliverable contract is bound to a digest.
* In a comparison one entry point exchanged for another is a modification, for a
  template a narrowing, and a capability that is narrowed and has lost its validation counts
  as narrowed only.
* A result the host declares for a capability is taken before any observation of it
  (`AuthorizedIsProven` admits it), and nothing binds an authorisation to the trees after
  they were read.
* Findings are numbered by position: a new one may take the id of one that was reviewed
  (`IdsAgree` in `FindingsReviewed`). A Provider that answers AUDIT_SKILL speaks of the rules
  of the baseline.
* The orchestrator records states beside the table of the lifecycle: STAGED before
  VALIDATED_PENDING_CONFIRMATION and READY_TO_APPLY, which no row of the table leads to.

## 7. Not modelled

Paths and their checks, file formats, schemas, prompts and their snapshot of a Skill,
text analysis (validators, rubrics, the detection of rule bloat), the toolchain, the
adapters of Skill sources, mechanism selection, `run()` and the legacy command line,
which chain the same four phases in one process. `digest_tree` is one read: a digest mixed
from two trees equals none of them, as that of a further content would. The record of
CAPABILITY_CONTRACT is outside `CapabilityPreflight` (its manifests are in
`CapabilityEvolution`); a repair without a manifest of its baseline compares nothing and
is outside `CapabilityEvolution`; `RuleGovernance` is about the modes that modify. That the
command line builds the gateway of `validate` with the default adapters only is not
modelled: a manifest that is missing stands for it.

## 8. Plan

1. Done: `SafeApply` with `AtomicApply`, the gate, the pipeline, the bootstrap, the six
   parts of `EngineParts`; the proofs of all safety properties and of the refinement.
2. Composition: the bundle of `CapabilityPreflight` as the evidence of `Pipeline`, whose
   verdicts it abstracts today, with a theorem that its checks are results `GateRules`
   accepts and that what `Blocks` there keeps the verdict from PASS here.
3. A refinement of `AtomicApply` for more than one call, where a repeated apply is a step
   that is refused.
