------------------------------ MODULE QualityGate ------------------------------
(***************************************************************************)
(* One run of adjudicate (engine/quality_gate.py): the results of a        *)
(* validation reach the collector one by one, in any order, contradicting  *)
(* and repeating each other, and the verdict is drawn from what it kept.   *)
(***************************************************************************)
EXTENDS GateRules

CONSTANTS
  Offered,        \* the results that may be delivered
  GateContexts,   \* the contexts of the run
  CorePolicy,     \* config/gate-policy.yaml
  Extensions,     \* project policies
  MaxDelivered    \* bound: how many results are delivered at most

ASSUME GateOK ==
  /\ Offered \subseteq Results /\ NoResult \notin Results
  /\ GateContexts \subseteq Contexts
  /\ CorePolicy \in Policies /\ Extensions \subseteq Policies
  /\ CorePolicies \subseteq CorePolicy.blocking
  /\ MaxDelivered \in Nat

VARIABLES
  ctx,         \* the GateContext
  policy,      \* the effective policy
  delivered,   \* every result handed over so far
  count,       \* how many of them
  evidence,    \* what the collector holds
  result       \* [verdict, outcome, authorized], "none" before the end

vars == <<ctx, policy, delivered, count, evidence, result>>

NoVerdict == [verdict |-> "none", outcome |-> "none", authorized |-> FALSE]

\* confirm calls adjudicate with policy=load_gate_policy(project_policy)
Init ==
  /\ ctx \in GateContexts
  /\ policy \in {CorePolicy} \cup
       {Merge(CorePolicy, x) : x \in {y \in Extensions : PolicyAccepted(CorePolicy, y)}}
  /\ delivered = {} /\ count = 0
  /\ evidence = NoEvidence
  /\ result = NoVerdict

Deliver(r) ==
  /\ result = NoVerdict /\ count < MaxDelivered
  /\ evidence' = Collect(ctx, evidence, r)
  /\ delivered' = delivered \cup {r}
  /\ count' = count + 1
  /\ UNCHANGED <<ctx, policy, result>>

Adjudicate ==
  /\ result = NoVerdict
  /\ result' = [verdict    |-> Verdict(ctx, policy, evidence),
                outcome    |-> Outcome(ctx, policy, evidence),
                authorized |-> ApplyAuthorized(ctx, policy, evidence)]
  /\ UNCHANGED <<ctx, policy, delivered, count, evidence>>

Next == (\E r \in Offered : Deliver(r)) \/ Adjudicate

Spec == Init /\ [][Next]_vars

-----------------------------------------------------------------------------
(***************************************************************************)
(* Properties.                                                             *)
(***************************************************************************)

TypeOK ==
  /\ ctx \in Contexts
  /\ policy \in Policies
  /\ delivered \subseteq Results
  /\ count \in Nat
  /\ evidence \in [accepted : SUBSET Results, rejected : SUBSET Results,
                   regression : Results \cup {NoResult}]
  /\ result \in [verdict : {"none", "PASS", "FAIL", "INCOMPLETE", "ERROR"},
                 outcome : {"none", "ERROR", "INCOMPLETE", "UNCHANGED_BLOCKED",
                            "REMEDIATION_REQUIRED", "READY_TO_APPLY", "VALIDATED",
                            "UNCHANGED_VALIDATED"},
                 authorized : BOOLEAN]

Passed == result.verdict = "PASS"

\* The regression check is judged by the decision, not by its own flag.
LeftToDecision(r) ==
  r.check = "B07" /\ ctx.disposition \in {"RECOMMENDED", "NOT_APPLICABLE"}

\* A required failure, error or malformed result that was delivered at any
\* moment keeps the gate from passing: no later, repeated or contradictory
\* evidence hides it.
NoFailureHidden ==
  Passed => \A r \in delivered :
    r.required /\ ~LeftToDecision(r)
    => r.wellFormed /\ (r.status \in {"PASS", "WARN"} \/ (r.status = "FAIL" /\ Advisory(r)))

\* A pass means that each check the policy requires has run, required and
\* trusted, that a required regression passed, and that the artifact is
\* confirmed, authorized, covered and free of capability regressions.
PassIsEarned ==
  Passed =>
    /\ \A c \in policy.required : c # "B07" =>
         \E r \in delivered : r.check = c /\ r.required /\ Trustworthy(r)
                              /\ r.status \notin ErrorStatuses
    /\ ctx.disposition = "REQUIRED" =>
         \E r \in delivered : r.check = "B07" /\ r.required /\ Trustworthy(r)
                              /\ r.status = "PASS"
    /\ ctx.confirmed /\ ctx.promptRule # "unjustified"
    /\ ctx.fullRequired => ctx.coverage = "FULL"
    /\ ctx.preservation \in {"UNKNOWN", "CAPABILITY_PRESERVED"}
    /\ ctx.requiresApply /\ ctx.intent \in ChangeIntents => ctx.authorized

\* A result the design calls advisory: optional, from outside the internal
\* policy, not a core check and not cited or listed as blocking.
OnlyAdvice(r) ==
  /\ ~r.required /\ r.source # "internal" /\ ~r.cites
  /\ r.check \notin DOMAIN CheckPolicy \cup policy.blocking \cup {"B07"}

\* I12 and I14 of the design: such a result (a rule-bloat signal, what an optional
\* Provider says) never changes the verdict, even when it is malformed.
OptionalEvidenceIsAdvisory ==
  [][\A r \in Offered :
       delivered' = delivered \cup {r} /\ r \notin delivered /\ OnlyAdvice(r)
       => Verdict(ctx, policy, evidence') = Verdict(ctx, policy, evidence)]_vars

\* More evidence turns the verdict into a pass only by supplying a check that
\* was missing: what was found before is never taken back.
LatePassSuppliesEvidence ==
  [][Verdict(ctx, policy, evidence) # "PASS" /\ Verdict(ctx, policy, evidence') = "PASS"
     => \/ MissingRequired(policy, evidence) # {}
        \/ ctx.disposition = "REQUIRED" /\ evidence.regression = NoResult]_vars

\* I18 of the design: what passes under a project policy passes under the core.
ProjectPolicyNeverWeakens ==
  Passed => Verdict(ctx, CorePolicy, evidence) = "PASS"
=============================================================================
