----------------------------- MODULE RuleGovernance -----------------------------
(***************************************************************************)
(* Rules and the decisions about them, from inspect to validate             *)
(* (engine/rule_governance.py, engine/rule_bloat.py, and the use that       *)
(* engine/orchestrator.py makes of them).  inspect scans the source, Codex  *)
(* decides on each finding and writes a candidate, validate scans the       *)
(* candidate where Codex wrote it, copies it, and scans the copy.           *)
(*                                                                         *)
(* A finding is what a rule is found guilty of, known by an id only: the    *)
(* detector numbers duplicates, conflicts and near-duplicates in the order  *)
(* it meets them and gives every other kind one name, so that the same id   *)
(* may mean different rules in two trees.  Confidence 0 (no git history)    *)
(* is left out: such a finding is never actionable.                        *)
(***************************************************************************)
EXTENDS FiniteSets

CONSTANTS
  FindingIds,
  RuleTrees,   \* contents of a Skill
  Detected,    \* [RuleTrees -> [subset of FindingIds -> rules found guilty]]
  Blockers     \* the ids that stand for a duplicate or a conflict

ASSUME RuleGovernanceOK ==
  /\ Blockers \subseteq FindingIds
  /\ \A t \in RuleTrees : DOMAIN Detected[t] \subseteq FindingIds

VARIABLES
  ruleStep,    \* where the operation is
  inspected,   \* the tree inspect scanned
  governed,    \* the ids Codex decided on, and those it decided to block
  authored,    \* the candidate as Codex keeps it
  scanned,     \* the candidate as it was when it was scanned
  copied,      \* the staged copy
  provider,    \* AUDIT_SKILL was answered by a Provider that found nothing wrong
  verdicts     \* the statuses validate gives, per check

ruleVars == <<ruleStep, inspected, governed, authored, scanned, copied, provider, verdicts>>

Ids(tree) == DOMAIN Detected[tree]

NoVerdicts == [governance |-> "none", duplication |-> "none", decisions |-> "none"]

RuleInit ==
  /\ ruleStep = "decide"
  /\ inspected \in RuleTrees
  /\ governed = [decided |-> {}, blocking |-> {}]
  /\ authored = inspected /\ scanned = inspected /\ copied = inspected
  /\ provider \in BOOLEAN
  /\ verdicts = NoVerdicts

WriteCandidate(tree) ==
  /\ ruleStep \in {"decide", "scanned"}
  /\ authored' = tree
  /\ UNCHANGED <<ruleStep, inspected, governed, scanned, copied, provider, verdicts>>

\* validate_governance_decisions, and the test that every actionable finding of the
\* inspection has its decision.
DecideRules(ids, blocking) ==
  /\ ruleStep = "decide" /\ ids = Ids(inspected) /\ blocking \subseteq ids
  /\ governed' = [decided |-> ids, blocking |-> blocking]
  /\ ruleStep' = "scan"
  /\ UNCHANGED <<inspected, authored, scanned, copied, provider, verdicts>>

\* Mutant of ScanCandidate: new findings are left to the validation.
ScanNothing ==
  /\ ruleStep = "scan"
  /\ ruleStep' = "scanned" /\ scanned' = authored
  /\ UNCHANGED <<inspected, governed, authored, copied, provider, verdicts>>

\* A candidate with findings that were not inspected is refused.
ScanCandidate ==
  /\ ruleStep = "scan"
  /\ ruleStep' = IF Ids(authored) \subseteq Ids(inspected) THEN "scanned" ELSE "refused"
  /\ scanned' = authored
  /\ UNCHANGED <<inspected, governed, authored, copied, provider, verdicts>>

StageCopy ==
  /\ ruleStep = "scanned"
  /\ copied' = authored /\ ruleStep' = "staged"
  /\ UNCHANGED <<inspected, governed, authored, scanned, provider, verdicts>>

\* governance_evidence: a decision to block is required to pass and fails.
DecisionVerdict == IF governed.blocking # {} THEN "FAIL" ELSE "PASS"

\* The copy is scanned again.  A Provider that answers AUDIT_SKILL speaks for rule
\* governance and for duplication, and the results of the core are dropped.
AnalyseRules ==
  /\ ruleStep = "staged"
  /\ verdicts' =
       [governance |-> IF provider \/ Ids(copied) \subseteq governed.decided
                       THEN "PASS" ELSE "FAIL",
        duplication |-> IF ~provider /\ Ids(copied) \cap Blockers # {} THEN "FAIL"
                        ELSE IF provider \/ Ids(copied) = {} THEN "PASS" ELSE "WARN",
        decisions |-> DecisionVerdict]
  /\ ruleStep' = "analysed"
  /\ UNCHANGED <<inspected, governed, authored, scanned, copied, provider>>

RuleNext ==
  \/ \E t \in RuleTrees : WriteCandidate(t)
  \/ \E ids, blocking \in SUBSET FindingIds : DecideRules(ids, blocking)
  \/ ScanCandidate \/ StageCopy \/ AnalyseRules

RuleSpec == RuleInit /\ [][RuleNext]_ruleVars
-----------------------------------------------------------------------------
\* Types of the variables of this module.
RuleTypeOK ==
  /\ ruleStep \in {"decide", "scan", "scanned", "refused", "staged", "analysed"}
  /\ {inspected, authored, scanned, copied} \subseteq RuleTrees
  /\ governed.blocking \subseteq governed.decided /\ governed.decided \subseteq FindingIds
  /\ provider \in BOOLEAN
  /\ \A c \in DOMAIN verdicts : verdicts[c] \in {"none", "PASS", "WARN", "FAIL"}

\* An id stands for the same rules in the two trees.
IdsAgree(s, t) == \A id \in Ids(s) \cap Ids(t) : Detected[s][id] = Detected[t][id]

\* Rules that are found guilty in what is validated were found in the source and
\* decided on, when rule governance passes and nothing is blocked: on the word of the
\* core for whatever was staged, on that of a Provider for a candidate that was not
\* edited between its scan and its copy.  It takes ids that mean the same rules in
\* both trees, which the detector does not promise.
FindingsReviewed ==
  /\ verdicts.governance = "PASS" /\ verdicts.decisions = "PASS"
  /\ provider => copied = scanned
  /\ IdsAgree(inspected, copied)
  => {Detected[copied][id] : id \in Ids(copied)}
       \subseteq {Detected[inspected][id] : id \in governed.decided \ governed.blocking}
=============================================================================
