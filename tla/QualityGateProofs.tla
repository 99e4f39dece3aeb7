--------------------------- MODULE QualityGateProofs ---------------------------
(***************************************************************************)
(* What QualityGate promises for every set of checks, results, contexts    *)
(* and policies, and for evidence of any length.                           *)
(***************************************************************************)
EXTENDS QualityGate, TLAPS

\* Collecting keeps the evidence well typed.
LEMMA CollectType ==
  ASSUME NEW c \in Contexts, NEW r \in Results,
         NEW ev \in [accepted : SUBSET Results, rejected : SUBSET Results,
                     regression : Results \cup {NoResult}]
  PROVE  Collect(c, ev, r) \in [accepted : SUBSET Results, rejected : SUBSET Results,
                                regression : Results \cup {NoResult}]
BY DEF Collect, Accept, Acceptable, Ignored

\* The policies a run starts with are policies, no weaker than the core.
LEMMA EffectivePolicy ==
  ASSUME NEW p \in {CorePolicy} \cup
           {Merge(CorePolicy, x) : x \in {y \in Extensions : PolicyAccepted(CorePolicy, y)}}
  PROVE  p \in Policies /\ PolicyAccepted(CorePolicy, p)
BY GateOK DEF Merge, PolicyAccepted, Policies

\* The verdicts and outcomes are the ones the type invariant names.
LEMMA VerdictType ==
  ASSUME NEW c, NEW p, NEW ev
  PROVE  /\ Verdict(c, p, ev) \in {"PASS", "FAIL", "INCOMPLETE", "ERROR"}
         /\ Outcome(c, p, ev) \in {"ERROR", "INCOMPLETE", "UNCHANGED_BLOCKED",
              "REMEDIATION_REQUIRED", "READY_TO_APPLY", "VALIDATED", "UNCHANGED_VALIDATED"}
<1>1. Verdict(c, p, ev) \in {"PASS", "FAIL", "INCOMPLETE", "ERROR"}
  BY DEF Verdict
<1>2. QED BY <1>1 DEF Outcome

LEMMA ApplyAuthorizedType ==
  ASSUME NEW c, NEW p, NEW ev
  PROVE  ApplyAuthorized(c, p, ev) \in BOOLEAN
BY DEF ApplyAuthorized

\* Type correctness of the gate machine (adjudicate, quality_gate.py).
THEOREM GateTypeCorrect == Spec => []TypeOK
<1>1. Init => TypeOK
  <2> SUFFICES ASSUME Init PROVE TypeOK OBVIOUS
  <2>1. policy \in Policies BY EffectivePolicy DEF Init
  <2>2. evidence \in [accepted : SUBSET Results, rejected : SUBSET Results,
                      regression : Results \cup {NoResult}]
    BY DEF Init, NoEvidence
  <2>3. QED BY <2>1, <2>2, GateOK DEF Init, TypeOK, NoVerdict
<1>2. TypeOK /\ [Next]_vars => TypeOK'
  <2> SUFFICES ASSUME TypeOK, [Next]_vars PROVE TypeOK' OBVIOUS
  <2>1. ASSUME NEW r \in Offered, Deliver(r) PROVE TypeOK'
    <3>1. r \in Results BY GateOK
    <3>2. evidence' \in [accepted : SUBSET Results, rejected : SUBSET Results,
                         regression : Results \cup {NoResult}]
      BY <2>1, <3>1, CollectType DEF Deliver, TypeOK
    <3>3. QED BY <2>1, <3>1, <3>2 DEF Deliver, TypeOK
  <2>2. CASE Adjudicate
    <3>1. result' \in [verdict : {"none", "PASS", "FAIL", "INCOMPLETE", "ERROR"},
                       outcome : {"none", "ERROR", "INCOMPLETE", "UNCHANGED_BLOCKED",
                            "REMEDIATION_REQUIRED", "READY_TO_APPLY", "VALIDATED",
                            "UNCHANGED_VALIDATED"},
                       authorized : BOOLEAN]
      BY <2>2, VerdictType, ApplyAuthorizedType DEF Adjudicate
    <3>2. QED BY <2>2, <3>1 DEF Adjudicate, TypeOK
  <2>3. CASE UNCHANGED vars BY <2>3 DEF vars, TypeOK
  <2>4. QED BY <2>1, <2>2, <2>3 DEF Next
<1>3. QED BY <1>1, <1>2, PTL DEF Spec

-----------------------------------------------------------------------------
(***************************************************************************)
(* The collector loses nothing: what was delivered is accepted, rejected   *)
(* or ignored by the decision, and a verdict is the one of the evidence.   *)
(***************************************************************************)

Kept ==
  /\ \A r \in delivered :
       r \in evidence.accepted \cup evidence.rejected \/ r.check \in Ignored(ctx)
  /\ \A r \in evidence.accepted : r \in delivered /\ r.wellFormed
  /\ evidence.regression # NoResult =>
       evidence.regression \in delivered /\ evidence.regression.check = "B07"
  /\ result = NoVerdict \/ result.verdict = Verdict(ctx, policy, evidence)
  /\ PolicyAccepted(CorePolicy, policy)

LEMMA CollectKeeps ==
  ASSUME NEW c \in Contexts, NEW r \in Results,
         NEW ev \in [accepted : SUBSET Results, rejected : SUBSET Results,
                     regression : Results \cup {NoResult}]
  PROVE  /\ ev.accepted \subseteq Collect(c, ev, r).accepted
         /\ ev.rejected \subseteq Collect(c, ev, r).rejected
         /\ \A q \in Collect(c, ev, r).accepted :
              q \in ev.accepted \/ (q = r /\ r.wellFormed)
         /\ \/ Collect(c, ev, r).regression = ev.regression
            \/ Collect(c, ev, r).regression = r /\ r.check = "B07"
         /\ \/ r.check \in Ignored(c)
            \/ r \in Collect(c, ev, r).accepted \cup Collect(c, ev, r).rejected
BY DEF Collect, Accept, Acceptable

LEMMA KeptInvariant == Spec => []Kept
<1>1. Init => Kept
  BY EffectivePolicy DEF Init, Kept, NoEvidence
<1>2. TypeOK /\ Kept /\ [Next]_vars => Kept'
  <2> SUFFICES ASSUME TypeOK, Kept, [Next]_vars PROVE Kept' OBVIOUS
  <2>1. ASSUME NEW r \in Offered, Deliver(r) PROVE Kept'
    <3>1. r \in Results BY GateOK
    <3>2. /\ evidence.accepted \subseteq evidence'.accepted
          /\ evidence.rejected \subseteq evidence'.rejected
          /\ \A q \in evidence'.accepted :
               q \in evidence.accepted \/ (q = r /\ r.wellFormed)
          /\ evidence'.regression = evidence.regression
             \/ (evidence'.regression = r /\ r.check = "B07")
          /\ r.check \in Ignored(ctx) \/ r \in evidence'.accepted \cup evidence'.rejected
      BY <2>1, <3>1, CollectKeeps DEF Deliver, TypeOK
    <3>3. QED BY <2>1, <3>2 DEF Deliver, Kept, Ignored
  <2>2. CASE Adjudicate BY <2>2 DEF Adjudicate, Kept, Ignored
  <2>3. CASE UNCHANGED vars BY <2>3 DEF vars, Kept, Ignored
  <2>4. QED BY <2>1, <2>2, <2>3 DEF Next
<1>3. QED BY <1>1, <1>2, GateTypeCorrect, PTL DEF Spec

-----------------------------------------------------------------------------
LEMMA PassMeans ==
  ASSUME NEW c, NEW p, NEW ev, Verdict(c, p, ev) = "PASS"
  PROVE  /\ FrameworkErrors(c, ev) = {}
         /\ ~Incomplete(c, p, ev)
         /\ ~Blocking(c, p, ev)
BY DEF Verdict

\* Under a pass an accepted required result is usable and blocks nothing.
LEMMA PassJudges ==
  ASSUME NEW c, NEW p, NEW ev, Verdict(c, p, ev) = "PASS",
         NEW r \in Judged(c, ev)
  PROVE  ~Unusable(r) /\ ~Blocks(r, p)
<1>1. IncompleteResults(c, ev) = {} /\ FrameworkErrors(c, ev) = {}
  BY PassMeans DEF Incomplete
<1>2. ~Unusable(r) BY <1>1 DEF IncompleteResults
<1>3. BlockingResults(c, p, ev) = {} BY PassMeans DEF Blocking, FindsBlocking
<1>4. QED BY <1>2, <1>3 DEF BlockingResults

\* No required failure that was delivered is hidden by other evidence.
THEOREM FailuresNeverHidden == Spec => []NoFailureHidden
<1>1. TypeOK /\ Kept => NoFailureHidden
  <2> SUFFICES ASSUME TypeOK, Kept, Passed, NEW r \in delivered,
                      r.required, ~LeftToDecision(r)
               PROVE  /\ r.wellFormed
                      /\ r.status \in {"PASS", "WARN"} \/ (r.status = "FAIL" /\ Advisory(r))
    BY DEF NoFailureHidden
  <2>1. Verdict(ctx, policy, evidence) = "PASS" BY DEF Kept, Passed, NoVerdict
  <2>2. r.check \notin Ignored(ctx) BY DEF LeftToDecision, Ignored
  <2>3. r \notin evidence.rejected
    <3> SUFFICES ASSUME r \in evidence.rejected PROVE FALSE OBVIOUS
    <3>1. CountsRequired(ctx, r) BY DEF CountsRequired, LeftToDecision
    <3>2. QED BY <2>1, <3>1, PassMeans DEF Incomplete, InvalidRequired
  <2>4. r \in evidence.accepted /\ r.wellFormed BY <2>2, <2>3 DEF Kept
  <2>5. r \in Judged(ctx, evidence) BY <2>4 DEF Judged, LeftToDecision
  <2>6. ~Unusable(r) /\ ~Blocks(r, policy) BY <2>1, <2>5, PassJudges
  <2>7. r.status \in {"PASS", "WARN", "FAIL"}
    BY <2>6 DEF Unusable, TypeOK, Results, ErrorStatuses
  <2>8. QED BY <2>4, <2>6, <2>7 DEF Blocks
<1>2. QED BY <1>1, GateTypeCorrect, KeptInvariant, PTL

-----------------------------------------------------------------------------
\* A stronger policy maps a result to a policy that blocks at least as often.
LEMMA BlocksMore ==
  ASSUME NEW p \in Policies, PolicyAccepted(CorePolicy, p), NEW r \in Results
  PROVE  Blocks(r, CorePolicy) => Blocks(r, p)
<1> SUFFICES ASSUME BlockingPolicyFor(r, CorePolicy) \in CorePolicy.blocking,
                    BlockingPolicyFor(r, CorePolicy) = "B11" => r.required
             PROVE  /\ BlockingPolicyFor(r, p) \in p.blocking
                    /\ BlockingPolicyFor(r, p) = "B11" => r.required
  BY DEF Blocks
<1>1. CorePolicy.blocking \subseteq p.blocking BY DEF PolicyAccepted
<1>2. "none" \notin CorePolicy.blocking
  BY RulesOK, GateOK DEF Policies, CorePolicies
<1>3. BlockingPolicyFor(r, p) = BlockingPolicyFor(r, CorePolicy) \/
      (BlockingPolicyFor(r, CorePolicy) = "B04" /\ BlockingPolicyFor(r, p) = r.check
         /\ r.check \in p.blocking /\ r.required)
  BY <1>1, <1>2 DEF BlockingPolicyFor, Results
<1>4. QED BY <1>1, <1>3

LEMMA StrongerPolicy ==
  ASSUME NEW c \in Contexts, NEW p \in Policies, PolicyAccepted(CorePolicy, p),
         NEW ev \in [accepted : SUBSET Results, rejected : SUBSET Results,
                     regression : Results \cup {NoResult}],
         Verdict(c, p, ev) = "PASS"
  PROVE  Verdict(c, CorePolicy, ev) = "PASS"
<1>1. FrameworkErrors(c, ev) = {} /\ ~Incomplete(c, p, ev) /\ ~Blocking(c, p, ev)
  BY PassMeans
<1>2. BlockingResults(c, CorePolicy, ev) \subseteq BlockingResults(c, p, ev)
  BY BlocksMore DEF BlockingResults, Judged
<1>3. ~Blocking(c, CorePolicy, ev)
  BY <1>1, <1>2 DEF Blocking, FindsBlocking
<1>4. MissingRequired(CorePolicy, ev) = {}
  BY <1>1 DEF Incomplete, MissingRequired, PolicyAccepted
<1>5. ~Incomplete(c, CorePolicy, ev)
  <2>1. ~FindsBlocking(c, p, ev) BY <1>1 DEF Blocking
  <2>2. QED BY <1>1, <1>4, <2>1 DEF Incomplete
<1>6. QED BY <1>1, <1>3, <1>5 DEF Verdict

\* I18: a project policy never lets through what the core would stop.
THEOREM PolicyOnlyStrengthens == Spec => []ProjectPolicyNeverWeakens
<1>1. TypeOK /\ Kept => ProjectPolicyNeverWeakens
  <2> SUFFICES ASSUME TypeOK, Kept, Passed
               PROVE  Verdict(ctx, CorePolicy, evidence) = "PASS"
    BY DEF ProjectPolicyNeverWeakens
  <2>1. Verdict(ctx, policy, evidence) = "PASS" BY DEF Kept, Passed, NoVerdict
  <2>2. QED BY <2>1, StrongerPolicy DEF TypeOK, Kept
<1>2. QED BY <1>1, GateTypeCorrect, KeptInvariant, PTL

-----------------------------------------------------------------------------
\* A pass has every required check, the regression and the clearances.
THEOREM PassesAreEarned == Spec => []PassIsEarned
<1>1. TypeOK /\ Kept => PassIsEarned
  <2> SUFFICES ASSUME TypeOK, Kept, Passed PROVE PassIsEarned BY DEF PassIsEarned
  <2>1. Verdict(ctx, policy, evidence) = "PASS" BY DEF Kept, Passed, NoVerdict
  <2>2. ~Incomplete(ctx, policy, evidence) /\ ~Blocking(ctx, policy, evidence)
    BY <2>1, PassMeans
  <2>3. ASSUME NEW c \in policy.required, c # "B07"
        PROVE  \E r \in delivered : r.check = c /\ r.required /\ Trustworthy(r)
                                    /\ r.status \notin ErrorStatuses
    <3>1. PICK r \in evidence.accepted : r.required /\ r.check = c
      BY <2>2 DEF Incomplete, MissingRequired
    <3>2. r \in Judged(ctx, evidence) BY <2>3, <3>1 DEF Judged
    <3>3. ~Unusable(r) BY <2>1, <3>2, PassJudges
    <3>4. QED BY <3>1, <3>3 DEF Unusable, Kept
  <2>4. ctx.disposition = "REQUIRED" => RegressionProven(evidence)
    BY <2>2 DEF Blocking, FindsBlocking
  <2>5. ctx.disposition = "REQUIRED" =>
          \E r \in delivered : r.check = "B07" /\ r.required /\ Trustworthy(r)
                               /\ r.status = "PASS"
    BY <2>4 DEF RegressionProven, Kept
  <2>6. /\ ctx.confirmed /\ ctx.promptRule # "unjustified"
        /\ ctx.fullRequired => ctx.coverage = "FULL"
        /\ ctx.requiresApply /\ ctx.intent \in ChangeIntents => ctx.authorized
    BY <2>2 DEF Incomplete, Blocking, FindsBlocking, ExceedsAuthorization
  <2>7. ctx.preservation \in {"UNKNOWN", "CAPABILITY_PRESERVED"}
    BY <2>2 DEF Incomplete, Blocking, TypeOK, Contexts
  <2>8. QED BY <2>3, <2>5, <2>6, <2>7 DEF PassIsEarned
<1>2. QED BY <1>1, GateTypeCorrect, KeptInvariant, PTL

-----------------------------------------------------------------------------
\* Collecting an optional result from outside the policy leaves the verdict.
LEMMA AdviceStep ==
  ASSUME NEW c \in Contexts, NEW p \in Policies, NEW r \in Results,
         NEW ev \in [accepted : SUBSET Results, rejected : SUBSET Results,
                     regression : Results \cup {NoResult}],
         ~r.required, r.source # "internal", ~r.cites,
         r.check \notin DOMAIN CheckPolicy \cup p.blocking \cup {"B07"}
  PROVE  Verdict(c, p, Collect(c, ev, r)) = Verdict(c, p, ev)
<1> DEFINE new == Collect(c, ev, r)
<1>1. /\ new.regression = ev.regression
      /\ ev.accepted \subseteq new.accepted /\ new.accepted \subseteq ev.accepted \cup {r}
      /\ ev.rejected \subseteq new.rejected /\ new.rejected \subseteq ev.rejected \cup {r}
  BY DEF Collect, Accept
<1>2. ~Unusable(r) BY DEF Unusable
<1>3. BlockingPolicyFor(r, p) = "none" BY DEF BlockingPolicyFor
<1>4. "none" \notin p.blocking BY RulesOK DEF Policies, CorePolicies
<1>5. ~Blocks(r, p) BY <1>3, <1>4 DEF Blocks
<1>6. FrameworkErrors(c, new) = FrameworkErrors(c, ev)
  BY <1>1, <1>2 DEF FrameworkErrors, Judged
<1>7. IncompleteResults(c, new) = IncompleteResults(c, ev)
  BY <1>1, <1>2, <1>6 DEF IncompleteResults, Judged
<1>8. BlockingResults(c, p, new) = BlockingResults(c, p, ev)
  BY <1>1, <1>5 DEF BlockingResults, Judged
<1>9. ~CountsRequired(c, r)
  BY DEF CountsRequired
<1>10. InvalidRequired(c, new) <=> InvalidRequired(c, ev)
  BY <1>1, <1>9 DEF InvalidRequired
<1>11. MissingRequired(p, new) = MissingRequired(p, ev)
  BY <1>1 DEF MissingRequired
<1>12. FindsBlocking(c, p, new) <=> FindsBlocking(c, p, ev)
  BY <1>1, <1>8 DEF FindsBlocking, RegressionProven
<1>13. Incomplete(c, p, new) <=> Incomplete(c, p, ev)
  BY <1>1, <1>7, <1>10, <1>11, <1>12 DEF Incomplete, RegressionIncomplete
<1>14. QED BY <1>6, <1>12, <1>13 DEF Verdict, Blocking

\* I12 and I14: advice never changes the verdict.
THEOREM AdviceIsHarmless == Spec => OptionalEvidenceIsAdvisory
<1>1. TypeOK /\ [Next]_vars =>
        [\A r \in Offered :
           delivered' = delivered \cup {r} /\ r \notin delivered /\ OnlyAdvice(r)
           => Verdict(ctx, policy, evidence') = Verdict(ctx, policy, evidence)]_vars
  <2> SUFFICES ASSUME TypeOK, Next, NEW r \in Offered, r \notin delivered,
                      delivered' = delivered \cup {r}, OnlyAdvice(r)
               PROVE  Verdict(ctx, policy, evidence') = Verdict(ctx, policy, evidence)
    OBVIOUS
  <2>1. ~Adjudicate BY DEF Adjudicate
  <2>2. PICK q \in Offered : Deliver(q) BY <2>1 DEF Next
  <2>3. q = r BY <2>2 DEF Deliver
  <2>4. evidence' = Collect(ctx, evidence, r) BY <2>2, <2>3 DEF Deliver
  <2>5. r \in Results BY GateOK
  <2>6. QED BY <2>4, <2>5, AdviceStep DEF TypeOK, OnlyAdvice
<1>2. QED BY <1>1, GateTypeCorrect, PTL DEF Spec, OptionalEvidenceIsAdvisory

-----------------------------------------------------------------------------
\* Collecting takes back no result and never replaces a regression result.
LEMMA CollectAdds ==
  ASSUME NEW c \in Contexts, NEW r \in Results,
         NEW ev \in [accepted : SUBSET Results, rejected : SUBSET Results,
                     regression : Results \cup {NoResult}]
  PROVE  /\ ev.accepted \subseteq Collect(c, ev, r).accepted
         /\ ev.rejected \subseteq Collect(c, ev, r).rejected
         /\ ev.regression # NoResult => Collect(c, ev, r).regression = ev.regression
BY DEF Collect, Accept, Acceptable

\* With nothing missing, what passes after one more result passed before it.
LEMMA PassWasPass ==
  ASSUME NEW c \in Contexts, NEW p \in Policies, NEW r \in Results,
         NEW ev \in [accepted : SUBSET Results, rejected : SUBSET Results,
                     regression : Results \cup {NoResult}],
         Verdict(c, p, Collect(c, ev, r)) = "PASS",
         MissingRequired(p, ev) = {},
         ~(c.disposition = "REQUIRED" /\ ev.regression = NoResult)
  PROVE  Verdict(c, p, ev) = "PASS"
<1> DEFINE new == Collect(c, ev, r)
<1>1. /\ ev.accepted \subseteq new.accepted /\ ev.rejected \subseteq new.rejected
      /\ c.disposition = "REQUIRED" => new.regression = ev.regression
  BY CollectAdds
<1> HIDE DEF new
<1>2. FrameworkErrors(c, new) = {} /\ ~Incomplete(c, p, new) /\ ~Blocking(c, p, new)
  BY PassMeans DEF new
<1>3. Judged(c, ev) \subseteq Judged(c, new) BY <1>1 DEF Judged
<1>4. FrameworkErrors(c, ev) = {} BY <1>2, <1>3 DEF FrameworkErrors
<1>5. IncompleteResults(c, ev) = {}
  BY <1>2, <1>3 DEF Incomplete, IncompleteResults, FrameworkErrors
<1>6. ~InvalidRequired(c, ev) BY <1>1, <1>2 DEF Incomplete, InvalidRequired
<1>7. ~RegressionIncomplete(c, ev)
  BY <1>1, <1>2 DEF Incomplete, RegressionIncomplete
<1>8. ~FindsBlocking(c, p, ev)
  <2>1. BlockingResults(c, p, ev) = {}
    BY <1>2, <1>3 DEF Blocking, FindsBlocking, BlockingResults
  <2>2. c.disposition = "REQUIRED" => RegressionProven(ev)
    BY <1>1, <1>2 DEF Blocking, FindsBlocking, RegressionProven
  <2>3. QED BY <1>2, <2>1, <2>2 DEF Blocking, FindsBlocking
<1>9. ~Blocking(c, p, ev) BY <1>2, <1>8 DEF Blocking
<1>10. c.fullRequired => c.coverage = "FULL"
  BY <1>2 DEF Incomplete, Blocking
<1>11. ~Incomplete(c, p, ev)
  BY <1>2, <1>5, <1>6, <1>7, <1>10 DEF Incomplete
<1>12. QED BY <1>4, <1>9, <1>11 DEF Verdict

\* The gate is monotone: late evidence makes a pass only where it was missing.
THEOREM LatePassesSupply == Spec => LatePassSuppliesEvidence
<1>1. TypeOK /\ [Next]_vars =>
        [Verdict(ctx, policy, evidence) # "PASS"
         /\ Verdict(ctx, policy, evidence') = "PASS"
         => \/ MissingRequired(policy, evidence) # {}
            \/ ctx.disposition = "REQUIRED" /\ evidence.regression = NoResult]_vars
  <2> SUFFICES ASSUME TypeOK, Next,
                      Verdict(ctx, policy, evidence) # "PASS",
                      Verdict(ctx, policy, evidence') = "PASS",
                      MissingRequired(policy, evidence) = {},
                      ~(ctx.disposition = "REQUIRED" /\ evidence.regression = NoResult)
               PROVE  FALSE
    OBVIOUS
  <2>1. ~Adjudicate BY DEF Adjudicate
  <2>2. PICK r \in Offered : Deliver(r) BY <2>1 DEF Next
  <2>3. r \in Results /\ evidence' = Collect(ctx, evidence, r)
    BY <2>2, GateOK DEF Deliver
  <2>4. QED BY <2>3, PassWasPass DEF TypeOK
<1>2. QED BY <1>1, GateTypeCorrect, PTL DEF Spec, LatePassSuppliesEvidence
=============================================================================
