------------------------------- MODULE GateRules -------------------------------
(***************************************************************************)
(* engine/quality_gate.py and the part of engine/evidence.py it rests on:  *)
(* the rules that turn the evidence of a validation into a verdict.        *)
(*                                                                         *)
(* A CheckResult is abstracted to what the rules read: "quality" stands    *)
(* for deterministic, reproducible, confidence, evidence and               *)
(* artifact_reference together, "cites" for evidence text that maps to an  *)
(* internal policy, "wellFormed" for the check-result contract.            *)
(***************************************************************************)
EXTENDS Naturals

CONSTANTS
  Checks,        \* check ids, "B07" (the regression check) among them
  Subjects,
  CheckPolicy,   \* _CHECK_POLICY: [core check ids -> {"B02", "B03", "B11"}]
  SignalChecks,  \* check ids that start with "rule-signal."
  BloatChecks,   \* check ids that start with "rule-bloat" or "rule_bloat"
  NoResult

CorePolicies == {"B01", "B02", "B03", "B04", "B05", "B06",
                 "B07", "B08", "B09", "B10", "B11", "B12"}

ASSUME RulesOK ==
  /\ "B07" \in Checks /\ "none" \notin Checks
  /\ CheckPolicy \in [DOMAIN CheckPolicy -> {"B02", "B03", "B11"}]
  /\ DOMAIN CheckPolicy \subseteq Checks \ {"B07"}
  /\ SignalChecks \subseteq Checks \ ({"B07"} \cup CorePolicies)
  /\ BloatChecks \subseteq Checks \ ({"B07"} \cup CorePolicies)
  /\ (SignalChecks \cup BloatChecks) \cap DOMAIN CheckPolicy = {}

ErrorStatuses == {"ERROR", "SKIP", "NOT_EXECUTED"}

Results ==
  [check : Checks, subject : Subjects, required : BOOLEAN,
   source : {"engine", "framework", "internal", "provider"},
   status : {"PASS", "WARN", "FAIL"} \cup ErrorStatuses,
   quality : {"reproducible", "reported", "none"},
   cites : BOOLEAN, wellFormed : BOOLEAN]

Intents == {"CREATE", "TARGETED_REPAIR", "AUDIT_REPAIR", "AUDIT"}
ChangeIntents == Intents \ {"AUDIT"}

\* GateContext; disposition and promptRule are what is read of the decision.
Contexts ==
  [intent : Intents, validated : BOOLEAN, authorized : BOOLEAN,
   requiresApply : BOOLEAN, applicable : BOOLEAN, applyRequested : BOOLEAN,
   disposition : {"UNDECIDED", "REQUIRED", "RECOMMENDED", "NOT_APPLICABLE"},
   promptRule : {"absent", "allowed", "unjustified"},
   confirmed : BOOLEAN, fullRequired : BOOLEAN,
   coverage : {"FULL", "PARTIAL", "COMPATIBILITY"},
   preservation : {"UNKNOWN", "CAPABILITY_PRESERVED", "CAPABILITY_REGRESSION",
                   "AUTHORIZATION_REQUIRED", "CAPABILITY_UNVERIFIABLE"}]

Policies == [required : SUBSET Checks, blocking : SUBSET (CorePolicies \cup Checks)]

-----------------------------------------------------------------------------
\* Mutant of Merge: the values of the core are taken for duplicates.
MergeExtensionsOnly(core, project) ==
  [required |-> project.required \ core.required,
   blocking |-> core.blocking \cup project.blocking]

\* load_gate_policy: a project policy that drops a core value is rejected, ...
PolicyAccepted(core, project) ==
  /\ core.required \subseteq project.required
  /\ core.blocking \subseteq project.blocking

\* ... and any other is merged into the core.
Merge(core, project) ==
  [required |-> core.required \cup project.required,
   blocking |-> core.blocking \cup project.blocking]

-----------------------------------------------------------------------------
(***************************************************************************)
(* EvidenceCollector.add as _collect_valid_evidence calls it.  Collected   *)
(* evidence is [accepted, rejected, regression], "regression" the first    *)
(* accepted result of B07.                                                 *)
(***************************************************************************)

NoEvidence == [accepted |-> {}, rejected |-> {}, regression |-> NoResult]

Ignored(ctx) == IF ctx.disposition = "NOT_APPLICABLE" THEN {"B07"} ELSE {}

SameIdentity(q, r) == q.check = r.check /\ q.subject = r.subject

Acceptable(ev, r) ==
  r.wellFormed /\ \A q \in ev.accepted : SameIdentity(q, r) => q = r

Accept(ev, r) ==
  [ev EXCEPT !.accepted = @ \cup {r},
             !.regression = IF r.check = "B07" /\ @ = NoResult THEN r ELSE @]

\* Mutant of Collect: of two results of one identity the later one counts.
CollectOverwriting(ctx, ev, r) ==
  IF r.check \in Ignored(ctx) THEN ev
  ELSE IF r.wellFormed
  THEN Accept([ev EXCEPT !.accepted = {q \in @ : ~SameIdentity(q, r)}], r)
  ELSE [ev EXCEPT !.rejected = @ \cup {r}]

\* Mutant of Collect: contradictory evidence is dropped.
CollectDropping(ctx, ev, r) ==
  IF r.check \in Ignored(ctx) \/ ~Acceptable(ev, r) THEN ev ELSE Accept(ev, r)

Collect(ctx, ev, r) ==
  IF r.check \in Ignored(ctx) THEN ev
  ELSE IF Acceptable(ev, r) THEN Accept(ev, r)
  ELSE [ev EXCEPT !.rejected = @ \cup {r}]

\* Whether rejected evidence is an error of required evidence.
CountsRequired(ctx, r) ==
  CASE r.check = "B07" /\ ctx.disposition = "REQUIRED"    -> TRUE
    [] r.check = "B07" /\ ctx.disposition = "RECOMMENDED" -> FALSE
    [] OTHER -> r.required

-----------------------------------------------------------------------------
(***************************************************************************)
(* What a single result amounts to.                                        *)
(***************************************************************************)

\* _is_trustworthy
Trustworthy(r) ==
  \/ r.quality = "reproducible"
  \/ /\ r.quality = "reported" /\ r.source = "provider"
     /\ r.required /\ r.status \in {"PASS", "FAIL"}

\* _blocking_policy_for, "none" for no policy
BlockingPolicyFor(r, policy) ==
  CASE r.check \in BloatChecks        -> "none"
    [] r.check \in DOMAIN CheckPolicy -> CheckPolicy[r.check]
    [] r.check \notin BloatChecks \cup DOMAIN CheckPolicy ->
         CASE r.source # "internal" /\ r.cites -> "B12"
           [] r.source # "internal" /\ ~r.cites ->
                IF r.check \in policy.blocking \ CorePolicies THEN r.check ELSE "none"
           [] r.source = "internal" ->
                IF r.check \in policy.blocking THEN r.check
                ELSE IF r.required THEN "B04" ELSE "none"

Advisory(r) == r.check \in SignalChecks \cup BloatChecks

\* Mutant of Unusable: an optional check that did not run counts like a required one.
UnusableAny(r) == r.status \in ErrorStatuses \/ ~Trustworthy(r)

\* A required result that errs, is missing its execution or cannot be trusted.
Unusable(r) == r.required /\ (r.status \in ErrorStatuses \/ ~Trustworthy(r))

\* The results the loop of _adjudicate_findings judges.
Judged(ctx, ev) ==
  {r \in ev.accepted : r.check = "B07" =>
     ctx.disposition \notin {"RECOMMENDED", "NOT_APPLICABLE"}}

FrameworkErrors(ctx, ev) ==
  {r \in Judged(ctx, ev) :
     Unusable(r) /\ r.status = "ERROR" /\ r.source = "framework"}

IncompleteResults(ctx, ev) ==
  {r \in Judged(ctx, ev) : Unusable(r)} \ FrameworkErrors(ctx, ev)

Blocks(r, policy) ==
  /\ ~Unusable(r) /\ r.status = "FAIL"
  /\ \/ r.required /\ ~Advisory(r)
     \/ /\ BlockingPolicyFor(r, policy) \in policy.blocking
        /\ BlockingPolicyFor(r, policy) = "B11" => r.required

BlockingResults(ctx, policy, ev) == {r \in Judged(ctx, ev) : Blocks(r, policy)}

Warnings(ctx, policy, ev) ==
  {r \in Judged(ctx, ev) :
     ~Unusable(r) /\ ~Blocks(r, policy) /\ r.status # "PASS"}
  \cup {r \in ev.accepted \ Judged(ctx, ev) :
     ctx.disposition = "RECOMMENDED" /\ (r.status # "PASS" \/ ~Trustworthy(r))}

-----------------------------------------------------------------------------
(***************************************************************************)
(* _adjudicate_findings and adjudicate.                                    *)
(***************************************************************************)

\* Mutant of MissingRequired: an optional result of the check will do.
MissingUnlessSeen(policy, ev) == policy.required \ {r.check : r \in ev.accepted}

MissingRequired(policy, ev) ==
  policy.required \ {r.check : r \in {q \in ev.accepted : q.required}}

InvalidRequired(ctx, ev) == \E r \in ev.rejected : CountsRequired(ctx, r)

RegressionProven(ev) ==
  /\ ev.regression # NoResult
  /\ ev.regression.required /\ ev.regression.status = "PASS"
  /\ Trustworthy(ev.regression)

\* B07, with a B08 of its own when the regression is optional or not trusted.
RegressionIncomplete(ctx, ev) ==
  /\ ctx.disposition = "REQUIRED" /\ ev.regression # NoResult
  /\ ~ev.regression.required \/ ~Trustworthy(ev.regression)

ExceedsAuthorization(ctx) ==
  ctx.requiresApply /\ ctx.intent \in ChangeIntents /\ ~ctx.authorized

\* Findings of _adjudicate_findings alone: the coverage rule looks at these.
FindsBlocking(ctx, policy, ev) ==
  \/ BlockingResults(ctx, policy, ev) # {}
  \/ ctx.promptRule = "unjustified"
  \/ ctx.disposition = "REQUIRED" /\ ~RegressionProven(ev)
  \/ ExceedsAuthorization(ctx)

Blocking(ctx, policy, ev) ==
  \/ FindsBlocking(ctx, policy, ev)
  \/ ctx.preservation \in {"AUTHORIZATION_REQUIRED", "CAPABILITY_REGRESSION"}

Incomplete(ctx, policy, ev) ==
  \/ IncompleteResults(ctx, ev) # {}
  \/ InvalidRequired(ctx, ev)
  \/ MissingRequired(policy, ev) # {}
  \/ RegressionIncomplete(ctx, ev)
  \/ ~ctx.confirmed
  \/ ctx.fullRequired /\ ctx.coverage # "FULL" /\ ~FindsBlocking(ctx, policy, ev)
  \/ ctx.preservation = "CAPABILITY_UNVERIFIABLE"

Verdict(ctx, policy, ev) ==
  IF FrameworkErrors(ctx, ev) # {} THEN "ERROR"
  ELSE IF Incomplete(ctx, policy, ev) THEN "INCOMPLETE"
  ELSE IF Blocking(ctx, policy, ev) THEN "FAIL" ELSE "PASS"

ApplyAuthorized(ctx, policy, ev) ==
  /\ Verdict(ctx, policy, ev) = "PASS"
  /\ ctx.intent \in ChangeIntents
  /\ ctx.authorized /\ ctx.requiresApply /\ ctx.applicable /\ ctx.validated
  /\ ctx.applyRequested
  /\ ctx.fullRequired => ctx.coverage = "FULL"

Outcome(ctx, policy, ev) ==
  LET verdict == Verdict(ctx, policy, ev)
  IN CASE verdict \in {"ERROR", "INCOMPLETE"} -> verdict
       [] verdict = "FAIL" -> IF ctx.intent = "AUDIT"
                              THEN "UNCHANGED_BLOCKED" ELSE "REMEDIATION_REQUIRED"
       [] verdict = "PASS" ->
            IF ApplyAuthorized(ctx, policy, ev) THEN "READY_TO_APPLY"
            ELSE IF ctx.intent = "AUDIT" THEN "UNCHANGED_VALIDATED"
            ELSE IF ~ctx.requiresApply \/ ~ctx.applyRequested THEN "VALIDATED"
            ELSE "REMEDIATION_REQUIRED"
=============================================================================
