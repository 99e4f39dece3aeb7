------------------------------ MODULE MCPipeline ------------------------------
(***************************************************************************)
(* Instances of Pipeline for TLC.                                          *)
(***************************************************************************)
EXTENDS Pipeline, TLC

CONSTANTS o1, o2, orig, fixed, broken, noTree, noDoc, Edits, Tampers, Faults

MCChecks == {"behavior", "B07", "contract", "structure", "references",
             "deliverable", "capability", "B10", "framework"}
MCSubjects == {"skill"}
MCCheckPolicy == ("structure" :> "B02")
MCCore == [required |-> {"structure"}, blocking |-> CorePolicies]

MCContents == {orig, fixed, broken}

\* "orig" is well formed but does not do what it should, "fixed" is right in
\* every way, "broken" fails whatever can fail and has lost a capability.
MCPasses == [a \in Aspects |->
  IF a \in {"structure", "deliverables"} THEN {orig, fixed} ELSE {fixed}]
MCPreserving == {<<orig, orig>>, <<orig, fixed>>, <<fixed, fixed>>, <<broken, broken>>,
                 <<broken, orig>>, <<broken, fixed>>}

Audits  == {"AUDIT"}
Repairs == {"TARGETED_REPAIR"}
CreateAndRepair == {"CREATE", "TARGETED_REPAIR"}
AuditCreateRepair == {"AUDIT", "CREATE", "TARGETED_REPAIR"}

RequiredOrNot == {"REQUIRED", "NOT_REQUIRED", "COMPATIBILITY"}
NotRequired == {"NOT_REQUIRED"}
Required == {"REQUIRED"}

MayOrMustRegress == {"REQUIRED", "RECOMMENDED"}
MayRegress == {"RECOMMENDED"}
NoRegression == {"NOT_APPLICABLE"}

AllOrNone == {Runners, {}}
BehaviorOnly == {{"behavior"}}

MCBound == [b \in {"edit", "tamper", "fault"} |->
  CASE b = "edit" -> Edits [] b = "tamper" -> Tampers [] b = "fault" -> Faults]
=============================================================================
