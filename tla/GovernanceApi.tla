------------------------------ MODULE GovernanceApi ------------------------------
(***************************************************************************)
(* engine/governance_api.py: GovernanceEngine.evaluate, the programmatic    *)
(* entry for a host that owns the lifecycle.  The host builds a request     *)
(* that names digests and paths, the trees change as they like, and each    *)
(* evaluation reads them again.                                            *)
(*                                                                         *)
(* Spellings of statuses are abstracted to what _status and _coverage make  *)
(* of them; the two spellings of the deliverable contract are kept, since   *)
(* the code treats them differently.                                       *)
(***************************************************************************)
EXTENDS Naturals

CONSTANTS
  GovernanceRequests, \* the requests of the run
  Trees,              \* contents of an artifact
  NoDirectory             \* no directory at the path

Sides == {"source", "candidate"}

Judgements == {"PASS", "FAIL", "UNKNOWN"}

\* A selected observation of a capability, or none; result is capability_results.
CapabilityInputs ==
  [need : {"required", "optional"},
   selected : BOOLEAN, available : BOOLEAN, executed : BOOLEAN, valid : BOOLEAN,
   status : Judgements, result : Judgements \cup {"none"}]

ASSUME GovernanceOK ==
  /\ NoDirectory \notin Trees
  /\ \A r \in GovernanceRequests :
       /\ r.mode \in {"ENFORCED", "SHADOW", "OFF"} /\ r.audit \in BOOLEAN
       /\ r.validation \in Judgements /\ r.integrity \in Judgements \cup {"none"}
       /\ r.coverage \in {"COMPLETE", "INCOMPLETE", "UNKNOWN"}
       /\ r.capabilities \in [DOMAIN r.capabilities -> CapabilityInputs]
       /\ r.contract \in {"none", "PASS", "FAIL", "other"}
       \* How the contract is asked for: not at all, as the code spells it, or in other
       \* letters, which _capabilities reads and _deliverable_contract does not.
       /\ r.contractNeed \in {"none", "required", "misspelt"}
       /\ r.contractNeed # "none" =>
            /\ "DELIVERABLE_CONTRACT" \in DOMAIN r.capabilities
            /\ r.capabilities["DELIVERABLE_CONTRACT"].need = "required"
       /\ r.digests \in [Sides -> Trees \cup {"none"}]
       /\ r.paths \in [Sides -> BOOLEAN]

VARIABLES
  govRequest,  \* the request
  trees,       \* what is at the two paths
  answer       \* the GovernanceResult of the last evaluation, or NoAnswer

governanceVars == <<govRequest, trees, answer>>

NoAnswer == [gate |-> "none", publish |-> FALSE, seen |-> NoDirectory]

GovernanceInit ==
  /\ govRequest \in GovernanceRequests
  /\ trees \in [Sides -> Trees \cup {NoDirectory}]
  /\ answer = NoAnswer

-----------------------------------------------------------------------------
\* Worst of a set: a failure counts over what is not known.
Worst(S) == IF "FAIL" \in S THEN "FAIL" ELSE IF "UNKNOWN" \in S \/ S = {} THEN "UNKNOWN" ELSE "PASS"

\* Mutant of SideStatus: a missing half is no reason to doubt.
SideStatusLenient(r, side, tree) ==
  CASE r.digests[side] = "none" \/ ~r.paths[side] -> {}
    [] r.digests[side] # "none" /\ r.paths[side] /\ tree = NoDirectory -> {"UNKNOWN"}
    [] OTHER -> IF tree = r.digests[side] THEN {"PASS"} ELSE {"FAIL"}

\* One side of _integrity: nothing was said of it, one half is missing, the directory
\* cannot be read, or the digests are compared.
SideStatus(r, side, tree) ==
  CASE r.digests[side] = "none" /\ ~r.paths[side] -> {}
    [] (r.digests[side] = "none") # ~r.paths[side] -> {"UNKNOWN"}
    [] OTHER -> IF tree = NoDirectory THEN {"UNKNOWN"}
                ELSE IF tree = r.digests[side] THEN {"PASS"} ELSE {"FAIL"}

Integrity(r, t) ==
  Worst(UNION {SideStatus(r, side, t[side]) : side \in Sides} \cup ({r.integrity} \ {"none"}))

\* One turn of _capabilities: a declared result is taken before any observation.
CapabilityJudgement(c) ==
  CASE c.result # "none" -> c.result
    [] c.result = "none" /\ ~c.selected -> "UNKNOWN"
    [] OTHER -> IF ~c.available THEN "FAIL"
                ELSE IF ~c.executed THEN "UNKNOWN"
                ELSE IF ~c.valid THEN "FAIL" ELSE c.status

\* The judgements of the required capabilities, the contract among them however its
\* name is spelt.
Required(r) ==
  {CapabilityJudgement(r.capabilities[c]) :
     c \in {x \in DOMAIN r.capabilities : r.capabilities[x].need = "required"}}

\* _deliverable_contract
ContractJudgement(r) ==
  CASE r.contractNeed # "required" -> "PASS"
    [] r.contractNeed = "required" /\ r.contract \in {"PASS", "FAIL"} -> r.contract
    [] OTHER -> "UNKNOWN"

Gate(r, t) ==
  IF "FAIL" \in {r.validation, Integrity(r, t), ContractJudgement(r)} \cup Required(r)
  THEN "BLOCKED"
  ELSE IF \/ "UNKNOWN" \in {r.validation, Integrity(r, t), ContractJudgement(r)} \cup Required(r)
          \/ r.coverage # "COMPLETE"
  THEN "INCOMPLETE" ELSE "PASS"

\* evaluate; seen: history, what it read.
Evaluation(r, t) ==
  [gate |-> IF r.mode = "OFF" THEN "INCOMPLETE" ELSE Gate(r, t),
   publish |-> Gate(r, t) = "PASS" /\ ~r.audit /\ r.mode = "ENFORCED",
   seen |-> t]

-----------------------------------------------------------------------------
Evaluate ==
  /\ answer' = Evaluation(govRequest, trees)
  /\ UNCHANGED <<govRequest, trees>>

\* The trees are not the engine's: anyone may change or remove them.
ChangeTree(side, tree) ==
  /\ trees' = [trees EXCEPT ![side] = tree]
  /\ UNCHANGED <<govRequest, answer>>

GovernanceNext ==
  \/ Evaluate
  \/ \E side \in Sides, tree \in Trees \cup {NoDirectory} : ChangeTree(side, tree)

GovernanceSpec == GovernanceInit /\ [][GovernanceNext]_governanceVars

-----------------------------------------------------------------------------
\* Types of the variables of this module.
GovernanceTypeOK ==
  /\ govRequest \in GovernanceRequests
  /\ trees \in [Sides -> Trees \cup {NoDirectory}]
  /\ answer # NoAnswer =>
       /\ answer.gate \in {"PASS", "BLOCKED", "INCOMPLETE"} /\ answer.publish \in BOOLEAN
       /\ answer.seen \in [Sides -> Trees \cup {NoDirectory}]

\* A publication is authorised only for trees that had the digests of the request, when
\* they were named, and on capabilities each of which the host declared to have passed
\* or a Provider was selected for that was available, ran and gave valid evidence.
AuthorizedIsProven ==
  answer # NoAnswer /\ answer.publish =>
    /\ \A side \in Sides :
         /\ (govRequest.digests[side] = "none") = ~govRequest.paths[side]
         /\ govRequest.paths[side] => answer.seen[side] = govRequest.digests[side]
    /\ \A x \in DOMAIN govRequest.capabilities :
         LET c == govRequest.capabilities[x] IN
         c.need = "required" =>
           \/ c.result = "PASS"
           \/ /\ c.result = "none" /\ c.selected /\ c.available /\ c.executed
              /\ c.valid /\ c.status = "PASS"
    /\ govRequest.mode = "ENFORCED" /\ ~govRequest.audit

=============================================================================
