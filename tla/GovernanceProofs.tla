----------------------------- MODULE GovernanceProofs -----------------------------
(***************************************************************************)
(* The governance interface, the decisions about rules and the lifecycle    *)
(* table, proved for every request, every set of trees, every detector and  *)
(* every number of remediation cycles.                                     *)
(*                                                                         *)
(* An answer of the interface is an evaluation of its request over the      *)
(* trees it has read: what the answer authorises follows from the cases of  *)
(* the evaluation.  A verdict about rules is one about the staged copy,     *)
(* whose findings the scan before it and the decisions have bounded.  A     *)
(* verdict of the lifecycle is fresh: that is not inductive, and needs that *)
(* the cycles of the last audit, validation and failure never pass the      *)
(* current one, so that a later cycle than that of the failure means a      *)
(* later step.                                                             *)
(***************************************************************************)
EXTENDS GovernanceApi, RuleGovernance, Lifecycle, TLAPS

-----------------------------------------------------------------------------
(***************************************************************************)
(* GovernanceApi                                                           *)
(***************************************************************************)

AnswerIsEvaluation ==
  answer # NoAnswer => /\ answer.seen \in [Sides -> Trees \cup {NoDirectory}]
                       /\ answer = Evaluation(govRequest, answer.seen)

GInv ==
  /\ govRequest \in GovernanceRequests
  /\ trees \in [Sides -> Trees \cup {NoDirectory}]
  /\ AnswerIsEvaluation

\* Nothing fails and nothing is unknown behind a gate that passes.
LEMMA GateIsEarned ==
  ASSUME NEW r, NEW t, Gate(r, t) = "PASS"
  PROVE  /\ Integrity(r, t) \notin {"FAIL", "UNKNOWN"}
         /\ \A j \in Required(r) : j \notin {"FAIL", "UNKNOWN"}
  BY DEF Gate

\* A required capability that neither fails nor is unknown was declared to pass, or was
\* observed to.
LEMMA JudgedWell ==
  ASSUME NEW c \in CapabilityInputs, CapabilityJudgement(c) \notin {"FAIL", "UNKNOWN"}
  PROVE  \/ c.result = "PASS"
         \/ /\ c.result = "none" /\ c.selected /\ c.available /\ c.executed
            /\ c.valid /\ c.status = "PASS"
  BY DEF CapabilityJudgement, CapabilityInputs, Judgements

\* The integrity passes only when each side passes or was not asked about.
LEMMA SidesMatch ==
  ASSUME NEW r, NEW t, NEW side \in Sides, Integrity(r, t) \notin {"FAIL", "UNKNOWN"},
         r.paths[side] \in BOOLEAN
  PROVE  /\ (r.digests[side] = "none") = ~r.paths[side]
         /\ r.paths[side] => t[side] = r.digests[side]
  <1>1. "FAIL" \notin SideStatus(r, side, t[side]) /\ "UNKNOWN" \notin SideStatus(r, side, t[side])
    BY DEF Integrity, Worst
  <1>2. (r.digests[side] = "none") = ~r.paths[side]
    BY <1>1 DEF SideStatus
  <1>3. ASSUME r.paths[side] PROVE t[side] = r.digests[side]
    <2>1. r.digests[side] # "none"
      BY <1>2, <1>3
    <2>2. SideStatus(r, side, t[side]) =
            IF t[side] = NoDirectory THEN {"UNKNOWN"}
            ELSE IF t[side] = r.digests[side] THEN {"PASS"} ELSE {"FAIL"}
      BY <1>2, <1>3, <2>1 DEF SideStatus
    <2> QED  BY <1>1, <2>2
  <1> QED  BY <1>2, <1>3

LEMMA GovernanceInitial == GovernanceInit => GInv
  BY DEF GovernanceInit, GInv, AnswerIsEvaluation

LEMMA GovernanceStep == GInv /\ [GovernanceNext]_governanceVars => GInv'
  <1> SUFFICES ASSUME GInv, [GovernanceNext]_governanceVars PROVE GInv'
    OBVIOUS
  <1>1. CASE Evaluate
    <2>1. answer'.seen = trees
      BY <1>1 DEF Evaluate, Evaluation
    <2>2. answer' = Evaluation(govRequest', answer'.seen)
      BY <1>1, <2>1 DEF Evaluate
    <2> QED  BY <1>1, <2>1, <2>2 DEF Evaluate, GInv, AnswerIsEvaluation
  <1>2. ASSUME NEW side \in Sides, NEW tree \in Trees \cup {NoDirectory}, ChangeTree(side, tree)
        PROVE  GInv'
    BY <1>2 DEF ChangeTree, GInv, AnswerIsEvaluation
  <1>3. CASE UNCHANGED governanceVars
    BY <1>3 DEF governanceVars, GInv, AnswerIsEvaluation
  <1> QED  BY <1>1, <1>2, <1>3 DEF GovernanceNext

\* An answer is always an evaluation of its request.
THEOREM AnswersAreEvaluations == GovernanceSpec => []GInv
  BY GovernanceInitial, GovernanceStep, PTL DEF GovernanceSpec

\* For every request and all trees: a publication is authorised only for trees with the
\* digests of the request and on required capabilities that are proven or declared.
THEOREM AuthorizationsAreProven == GovernanceSpec => []AuthorizedIsProven
  <1>1. GInv => AuthorizedIsProven
    <2> SUFFICES ASSUME GInv, answer # NoAnswer, answer.publish
                 PROVE  /\ \A side \in Sides :
                             /\ (govRequest.digests[side] = "none") = ~govRequest.paths[side]
                             /\ govRequest.paths[side] =>
                                  answer.seen[side] = govRequest.digests[side]
                        /\ \A x \in DOMAIN govRequest.capabilities :
                             LET c == govRequest.capabilities[x] IN
                             c.need = "required" =>
                               \/ c.result = "PASS"
                               \/ /\ c.result = "none" /\ c.selected /\ c.available
                                  /\ c.executed /\ c.valid /\ c.status = "PASS"
                        /\ govRequest.mode = "ENFORCED" /\ ~govRequest.audit
      BY DEF AuthorizedIsProven
    <2>1. answer = Evaluation(govRequest, answer.seen)
      BY DEF GInv, AnswerIsEvaluation
    <2>2. Evaluation(govRequest, answer.seen).publish
      BY <2>1
    <2>3. /\ Gate(govRequest, answer.seen) = "PASS"
          /\ ~govRequest.audit /\ govRequest.mode = "ENFORCED"
      BY <2>2 DEF Evaluation
    <2>4. /\ Integrity(govRequest, answer.seen) \notin {"FAIL", "UNKNOWN"}
          /\ \A j \in Required(govRequest) : j \notin {"FAIL", "UNKNOWN"}
      BY <2>3, GateIsEarned
    <2>5. /\ govRequest.paths \in [Sides -> BOOLEAN]
          /\ govRequest.capabilities \in [DOMAIN govRequest.capabilities -> CapabilityInputs]
      BY GovernanceOK DEF GInv
    <2>6. ASSUME NEW side \in Sides
          PROVE  /\ (govRequest.digests[side] = "none") = ~govRequest.paths[side]
                 /\ govRequest.paths[side] => answer.seen[side] = govRequest.digests[side]
      BY <2>4, <2>5, SidesMatch
    <2>7. ASSUME NEW x \in DOMAIN govRequest.capabilities,
                 govRequest.capabilities[x].need = "required"
          PROVE  LET c == govRequest.capabilities[x] IN
                 \/ c.result = "PASS"
                 \/ /\ c.result = "none" /\ c.selected /\ c.available
                    /\ c.executed /\ c.valid /\ c.status = "PASS"
      <3>1. CapabilityJudgement(govRequest.capabilities[x]) \in Required(govRequest)
        BY <2>7 DEF Required
      <3> QED  BY <2>4, <2>5, <3>1, JudgedWell
    <2> QED  BY <2>3, <2>6, <2>7
  <1> QED  BY <1>1, AnswersAreEvaluations, PTL

\* For every request and all trees the variables keep their types.
THEOREM GovernanceTypeCorrect == GovernanceSpec => []GovernanceTypeOK
  <1>1. GInv => GovernanceTypeOK
    <2> SUFFICES ASSUME GInv, answer # NoAnswer
                 PROVE  /\ answer.gate \in {"PASS", "BLOCKED", "INCOMPLETE"}
                        /\ answer.publish \in BOOLEAN
                        /\ answer.seen \in [Sides -> Trees \cup {NoDirectory}]
      BY DEF GInv, GovernanceTypeOK
    <2>1. /\ answer.seen \in [Sides -> Trees \cup {NoDirectory}]
          /\ answer = Evaluation(govRequest, answer.seen)
      BY DEF GInv, AnswerIsEvaluation
    <2>2. \A r, t : /\ Evaluation(r, t).gate \in {"PASS", "BLOCKED", "INCOMPLETE"}
                   /\ Evaluation(r, t).publish \in BOOLEAN
      BY DEF Evaluation, Gate
    <2> QED  BY <2>1, <2>2
  <1> QED  BY <1>1, AnswersAreEvaluations, PTL

-----------------------------------------------------------------------------
(***************************************************************************)
(* RuleGovernance                                                          *)
(***************************************************************************)

\* Every finding of the inspection has been decided on.
AllDecided ==
  ruleStep # "decide" => governed.decided = Ids(inspected)

\* What passed the scan has no finding of another id.
ScanIsBounded ==
  ruleStep \in {"scanned", "staged", "analysed"} => Ids(scanned) \subseteq Ids(inspected)

\* Verdicts are given on the copy and on the decisions that were made.
VerdictsAreEarned ==
  /\ verdicts.governance = "PASS" =>
       ruleStep = "analysed" /\ (provider \/ Ids(copied) \subseteq governed.decided)
  /\ verdicts.decisions = "PASS" => ruleStep = "analysed" /\ governed.blocking = {}

RInv == AllDecided /\ ScanIsBounded /\ VerdictsAreEarned

LEMMA RuleInitial == RuleInit => RInv
  BY DEF RuleInit, NoVerdicts, RInv, AllDecided, ScanIsBounded, VerdictsAreEarned

LEMMA RuleStep == RInv /\ [RuleNext]_ruleVars => RInv'
  <1> SUFFICES ASSUME RInv, [RuleNext]_ruleVars PROVE RInv'
    OBVIOUS
  <1>1. ASSUME NEW t \in RuleTrees, WriteCandidate(t) PROVE RInv'
    BY <1>1 DEF WriteCandidate, RInv, AllDecided, ScanIsBounded, VerdictsAreEarned, Ids
  <1>2. ASSUME NEW ids \in SUBSET FindingIds, NEW blocking \in SUBSET FindingIds,
               DecideRules(ids, blocking)
        PROVE  RInv'
    BY <1>2 DEF DecideRules, RInv, AllDecided, ScanIsBounded, VerdictsAreEarned, Ids
  <1>3. CASE ScanCandidate
    BY <1>3 DEF ScanCandidate, RInv, AllDecided, ScanIsBounded, VerdictsAreEarned, Ids
  <1>4. CASE StageCopy
    BY <1>4 DEF StageCopy, RInv, AllDecided, ScanIsBounded, VerdictsAreEarned, Ids
  <1>5. CASE AnalyseRules
    <2>1. /\ verdicts'.governance = "PASS" => provider \/ Ids(copied) \subseteq governed.decided
          /\ verdicts'.decisions = "PASS" => governed.blocking = {}
      BY <1>5 DEF AnalyseRules, DecisionVerdict
    <2> QED
      BY <1>5, <2>1 DEF AnalyseRules, RInv, AllDecided, ScanIsBounded, VerdictsAreEarned, Ids
  <1>6. CASE UNCHANGED ruleVars
    BY <1>6 DEF ruleVars, RInv, AllDecided, ScanIsBounded, VerdictsAreEarned, Ids
  <1> QED  BY <1>1, <1>2, <1>3, <1>4, <1>5, <1>6 DEF RuleNext

\* What is decided, scanned and judged fits together in every step.
THEOREM RulesInvariant == RuleSpec => []RInv
  BY RuleInitial, RuleStep, PTL DEF RuleSpec

\* What the types of the rules rest on: decisions are about ids of findings.
LEMMA RuleTypeStep == RuleTypeOK /\ [RuleNext]_ruleVars => RuleTypeOK'
  <1> SUFFICES ASSUME RuleTypeOK, [RuleNext]_ruleVars PROVE RuleTypeOK'
    OBVIOUS
  <1> USE DEF RuleTypeOK
  <1>1. ASSUME NEW t \in RuleTrees, WriteCandidate(t) PROVE RuleTypeOK'
    BY <1>1 DEF WriteCandidate
  <1>2. ASSUME NEW ids \in SUBSET FindingIds, NEW blocking \in SUBSET FindingIds,
               DecideRules(ids, blocking)
        PROVE  RuleTypeOK'
    BY <1>2 DEF DecideRules
  <1>3. CASE ScanCandidate
    BY <1>3 DEF ScanCandidate
  <1>4. CASE StageCopy
    BY <1>4 DEF StageCopy
  <1>5. CASE AnalyseRules
    BY <1>5 DEF AnalyseRules, DecisionVerdict
  <1>6. CASE UNCHANGED ruleVars
    BY <1>6 DEF ruleVars
  <1> QED  BY <1>1, <1>2, <1>3, <1>4, <1>5, <1>6 DEF RuleNext

\* For every detector and all trees the variables keep their types.
THEOREM RulesTypeCorrect == RuleSpec => []RuleTypeOK
  <1>1. RuleInit => RuleTypeOK
    BY DEF RuleInit, NoVerdicts, RuleTypeOK
  <1> QED  BY <1>1, RuleTypeStep, PTL DEF RuleSpec

\* For every detector and all trees: rules found guilty in what is validated were found
\* in the source and not blocked.
THEOREM FindingsAreReviewed == RuleSpec => []FindingsReviewed
  <1>1. RInv => FindingsReviewed
    <2> SUFFICES ASSUME RInv, verdicts.governance = "PASS", verdicts.decisions = "PASS",
                        provider => copied = scanned, IdsAgree(inspected, copied),
                        NEW id \in Ids(copied)
                 PROVE  \E i \in governed.decided \ governed.blocking :
                          Detected[inspected][i] = Detected[copied][id]
      BY DEF FindingsReviewed
    <2>1. /\ ruleStep = "analysed" /\ governed.blocking = {}
          /\ governed.decided = Ids(inspected)
      BY DEF RInv, VerdictsAreEarned, AllDecided
    <2>2. Ids(copied) \subseteq Ids(inspected)
      BY <2>1 DEF RInv, VerdictsAreEarned, ScanIsBounded
    <2>3. Detected[inspected][id] = Detected[copied][id]
      BY <2>2 DEF IdsAgree
    <2> QED  BY <2>1, <2>2, <2>3
  <1> QED  BY <1>1, RulesInvariant, PTL

-----------------------------------------------------------------------------
(***************************************************************************)
(* Lifecycle                                                               *)
(***************************************************************************)

\* No cycle that was noted is ahead of the current one.
CyclesPast ==
  /\ context.audit <= context.cycle /\ context.validation <= context.cycle
  /\ context.failed <= context.cycle

\* What was noted in a cycle after the failed one was done after the failure.
LaterIsSince ==
  /\ context.audit > context.failed => "AUDITED" \in since
  /\ context.validation > context.failed => "VALIDATED" \in since

Judged == state \in {"GATE_PASSED", "APPLIED", "UNCHANGED_VALIDATED"}

JudgedLate ==
  Judged => context.audit > context.failed /\ context.validation > context.failed

\* No row of the table leads to READY_TO_APPLY, from which an apply could start.
NeverReady == state # "READY_TO_APPLY"

\* What the caller notes of a transition to t in the cycle that stands for target.
Noted(t, target, before) == IF t = target THEN context.cycle ELSE before

IInv == LifecycleTypeOK /\ CyclesPast /\ LaterIsSince /\ JudgedLate /\ NeverReady

-----------------------------------------------------------------------------
\* The targets of the table.
LEMMA BaseTargets ==
  ASSUME NEW t, t \in AllowedTargets(state, context)
  PROVE  /\ state \in DOMAIN Base /\ t \in Base[state]
         /\ t \in UNION {Base[s] : s \in DOMAIN Base}
         /\ t # "READY_TO_APPLY"
  <1>1. t \in Targets(state)
    BY DEF AllowedTargets
  <1>2. state \in DOMAIN Base /\ t \in Base[state]
    BY <1>1 DEF Targets
  <1>3. \A s \in DOMAIN Base : "READY_TO_APPLY" \notin Base[s]
    BY DEF Base, AuditEnds
  <1> QED  BY <1>2, <1>3

\* A gate is passed from a fresh validation only, and its verdicts are reached from it.
LEMMA VerdictFrom ==
  ASSUME NEW t, t \in AllowedTargets(state, context), NeverReady,
         t \in {"GATE_PASSED", "APPLIED", "UNCHANGED_VALIDATED"}
  PROVE  (state = "VALIDATED" /\ Fresh(context)) \/ state = "GATE_PASSED"
  <1>1. state \in DOMAIN Base /\ t \in Base[state]
    BY BaseTargets
  <1>2. state = "VALIDATED" \/ state = "GATE_PASSED"
    BY <1>1 DEF Base, AuditEnds, NeverReady
  <1>3. CASE state = "VALIDATED"
    <2>1. t = "GATE_PASSED"
      BY <1>1, <1>3 DEF Base
    <2>2. t \notin BarredVerdict(state, context)
      BY DEF AllowedTargets
    <2> QED  BY <1>3, <2>1, <2>2 DEF BarredVerdict
  <1> QED  BY <1>2, <1>3

LEMMA LifecycleInitial == LifecycleInit => IInv
  <1> SUFFICES ASSUME LifecycleInit PROVE IInv
    OBVIOUS
  <1>1. PICK intent \in Intents, authorized \in BOOLEAN :
          context = [intent |-> intent, authorized |-> authorized, defect |-> FALSE,
                     needed |-> FALSE, staging |-> FALSE, cycle |-> 1, audit |-> 0,
                     validation |-> 0, failed |-> 0]
    BY DEF LifecycleInit
  <1>2. context \in Contexts
    BY <1>1, LifecycleOK DEF Contexts
  <1>3. state = "DISCOVERED" /\ state \in DOMAIN Base
    BY DEF LifecycleInit, Base
  <1> QED
    BY <1>1, <1>2, <1>3
       DEF LifecycleInit, IInv, LifecycleTypeOK, CyclesPast, LaterIsSince, JudgedLate, Judged,
           NeverReady

LEMMA LifecycleStep == IInv /\ [LifecycleNext]_lifecycleVars => IInv'
  <1> SUFFICES ASSUME IInv, [LifecycleNext]_lifecycleVars PROVE IInv'
    OBVIOUS
  <1>0. context \in Contexts /\ since \subseteq {"AUDITED", "VALIDATED"}
    BY DEF IInv, LifecycleTypeOK
  <1>a. /\ context.cycle \in 1..MaxCycle /\ context.audit \in 0..MaxCycle
        /\ context.validation \in 0..MaxCycle /\ context.failed \in 0..MaxCycle
    BY <1>0 DEF Contexts
  <1>1. ASSUME NEW t, Transition(t) PROVE IInv'
    <2>1. t \in AllowedTargets(state, context) /\ state' = t
      BY <1>1 DEF Transition
    <2>2. t \in UNION {Base[s] : s \in DOMAIN Base} /\ t # "READY_TO_APPLY"
      BY <2>1, BaseTargets
    <2>3. context' = [context EXCEPT !.audit = Noted(t, "AUDITED", context.audit),
                                     !.validation = Noted(t, "VALIDATED", context.validation),
                                     !.failed = Noted(t, "GATE_FAILED", context.failed)]
      BY <1>1 DEF Transition, Noted
    <2>4. /\ Noted(t, "AUDITED", context.audit) \in 0..MaxCycle
          /\ Noted(t, "VALIDATED", context.validation) \in 0..MaxCycle
          /\ Noted(t, "GATE_FAILED", context.failed) \in 0..MaxCycle
      BY <1>a, LifecycleOK DEF Noted
    <2>a. context' \in Contexts
      BY <1>0, <2>3, <2>4 DEF Contexts
    <2>b. /\ context'.cycle = context.cycle
          /\ context'.audit = Noted(t, "AUDITED", context.audit)
          /\ context'.validation = Noted(t, "VALIDATED", context.validation)
          /\ context'.failed = Noted(t, "GATE_FAILED", context.failed)
      BY <1>0, <2>3 DEF Contexts
    <2>5. since' = IF t = "GATE_FAILED" THEN {} ELSE since \cup ({t} \cap {"AUDITED", "VALIDATED"})
      BY <1>1 DEF Transition
    <2>6. LifecycleTypeOK'
      BY <1>0, <2>1, <2>2, <2>a, <2>5 DEF LifecycleTypeOK
    <2>7. CyclesPast'
      BY <1>a, <2>b DEF IInv, CyclesPast, Noted
    <2>8. LaterIsSince'
      <3>1. CASE t = "GATE_FAILED"
        <4>1. context'.audit = context.audit /\ context'.validation = context.validation
              /\ context'.failed = context.cycle
          BY <2>b, <3>1 DEF Noted
        <4>2. ~(context'.audit > context'.failed) /\ ~(context'.validation > context'.failed)
          BY <1>a, <4>1 DEF IInv, CyclesPast
        <4> QED  BY <4>2 DEF LaterIsSince
      <3>2. CASE t = "AUDITED"
        <4>1. context'.validation = context.validation /\ context'.failed = context.failed
          BY <2>b, <3>2 DEF Noted
        <4>2. since' = since \cup {"AUDITED"}
          BY <2>5, <3>2
        <4> QED  BY <4>1, <4>2 DEF IInv, LaterIsSince
      <3>3. CASE t = "VALIDATED"
        <4>1. context'.audit = context.audit /\ context'.failed = context.failed
          BY <2>b, <3>3 DEF Noted
        <4>2. since' = since \cup {"VALIDATED"}
          BY <2>5, <3>3
        <4> QED  BY <4>1, <4>2 DEF IInv, LaterIsSince
      <3>4. CASE t \notin {"GATE_FAILED", "AUDITED", "VALIDATED"}
        <4>1. /\ context'.audit = context.audit /\ context'.validation = context.validation
              /\ context'.failed = context.failed
          BY <2>b, <3>4 DEF Noted
        <4>2. since' = since
          BY <2>5, <3>4
        <4> QED  BY <4>1, <4>2 DEF IInv, LaterIsSince
      <3> QED  BY <3>1, <3>2, <3>3, <3>4
    <2>9. JudgedLate'
      <3> SUFFICES ASSUME Judged' PROVE context'.audit > context'.failed
                                        /\ context'.validation > context'.failed
        BY DEF JudgedLate
      <3>1. t \in {"GATE_PASSED", "APPLIED", "UNCHANGED_VALIDATED"}
        BY <2>1 DEF Judged
      <3>2. (state = "VALIDATED" /\ Fresh(context)) \/ state = "GATE_PASSED"
        BY <2>1, <3>1, VerdictFrom DEF IInv
      <3>3. context.audit > context.failed /\ context.validation > context.failed
        BY <1>a, <3>2 DEF Fresh, IInv, JudgedLate, Judged
      <3> QED  BY <2>b, <3>1, <3>3 DEF Noted
    <2> QED  BY <2>1, <2>2, <2>6, <2>7, <2>8, <2>9 DEF IInv, NeverReady
  <1>2. CASE Remediate
    <2>1. /\ context' = [context EXCEPT !.cycle = context.cycle + 1]
          /\ context.cycle < MaxCycle /\ state' = state /\ since' = since
      BY <1>2 DEF Remediate
    <2>2. context' \in Contexts
      BY <1>0, <1>a, <2>1, LifecycleOK DEF Contexts
    <2>3. /\ context'.cycle = context.cycle + 1 /\ context'.audit = context.audit
          /\ context'.validation = context.validation /\ context'.failed = context.failed
      BY <1>0, <2>1 DEF Contexts
    <2> QED
      BY <1>a, <2>1, <2>2, <2>3
         DEF IInv, LifecycleTypeOK, CyclesPast, LaterIsSince, JudgedLate, Judged, NeverReady
  <1>3. ASSUME NEW fact \in {"authorized", "defect", "needed", "staging"}, Learn(fact)
        PROVE  IInv'
    <2>1. context' = [context EXCEPT ![fact] = ~context[fact]]
          /\ state' = state /\ since' = since
      BY <1>3 DEF Learn
    <2>2. context' \in Contexts
      BY <1>0, <1>3, <2>1 DEF Contexts
    <2>3. /\ context'.cycle = context.cycle /\ context'.audit = context.audit
          /\ context'.validation = context.validation /\ context'.failed = context.failed
      BY <1>0, <1>3, <2>1 DEF Contexts
    <2> QED
      BY <2>1, <2>2, <2>3
         DEF IInv, LifecycleTypeOK, CyclesPast, LaterIsSince, JudgedLate, Judged, NeverReady
  <1>4. CASE UNCHANGED lifecycleVars
    BY <1>4 DEF lifecycleVars, IInv, LifecycleTypeOK, CyclesPast, LaterIsSince, JudgedLate,
                Judged, NeverReady
  <1> QED  BY <1>1, <1>2, <1>3, <1>4 DEF LifecycleNext

\* Whatever a caller of the table does, the inductive invariant holds.
THEOREM LifecycleInvariant == LifecycleSpec => []IInv
  BY LifecycleInitial, LifecycleStep, PTL DEF LifecycleSpec

\* Types, for every number of cycles.
THEOREM LifecycleTypeCorrect == LifecycleSpec => []LifecycleTypeOK
  <1>1. IInv => LifecycleTypeOK
    BY DEF IInv
  <1> QED  BY <1>1, LifecycleInvariant, PTL

\* A gate is passed, and a result applied or left as valid, only on an audit and a
\* validation later than the last failure, for every number of remediation cycles.
THEOREM VerdictsAreFresh == LifecycleSpec => []VerdictIsFresh
  <1>1. IInv => VerdictIsFresh
    <2> SUFFICES ASSUME IInv, Judged PROVE since = {"AUDITED", "VALIDATED"}
                                           /\ context.audit > context.failed
      BY DEF VerdictIsFresh, Judged
    <2>1. context.audit > context.failed /\ context.validation > context.failed
      BY DEF IInv, JudgedLate
    <2>2. "AUDITED" \in since /\ "VALIDATED" \in since
      BY <2>1 DEF IInv, LaterIsSince
    <2> QED  BY <2>1, <2>2 DEF IInv, LifecycleTypeOK
  <1> QED  BY <1>1, LifecycleInvariant, PTL
=============================================================================
