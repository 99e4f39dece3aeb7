-------------------------------- MODULE Lifecycle --------------------------------
(***************************************************************************)
(* engine/state_machine.py: the table of lifecycle transitions and the      *)
(* context that narrows it.  The module of the code is pure; its caller     *)
(* keeps the context, and keeps it honestly: it says what is staged,        *)
(* whether a defect was found, and in which remediation cycle the last      *)
(* audit, validation and failure were.  The orchestrator records states     *)
(* beside this table and does not consult it.                              *)
(***************************************************************************)
EXTENDS Naturals

CONSTANT MaxCycle \* bound: remediation cycles in a behavior

ASSUME LifecycleOK == MaxCycle \in Nat \ {0}

VARIABLES
  state,    \* the lifecycle state
  context,  \* the TransitionContext; cycles count from 1, 0 is None
  since     \* history: which of AUDITED, VALIDATED were entered since the last failure

lifecycleVars == <<state, context, since>>

AuditEnds == {"AUDIT_COMPLETE_VALID", "AUDIT_COMPLETE_FINDINGS",
              "AUDIT_COMPLETE_BLOCKING_FINDINGS", "AUDIT_INCOMPLETE"}

\* BASE_TRANSITIONS; a state without a row has no targets.
Base ==
  [DISCOVERED |-> {"INSPECTED", "STAGED", "AUDITED", "CLASSIFIED"},
   INSPECTED |-> {"CLASSIFIED"},
   STAGED |-> {"CLASSIFIED", "AUDITED"},
   AUDITED |-> {"STAGED", "CLASSIFIED", "VALIDATED"},
   CLASSIFIED |-> {"MECHANISM_SELECTED"},
   MECHANISM_SELECTED |-> {"STAGED", "AUDITED", "VALIDATED_PENDING_CONFIRMATION"},
   VALIDATED_PENDING_CONFIRMATION |-> {"VALIDATED", "GATE_FAILED"} \cup AuditEnds,
   VALIDATED |-> {"AUDITED", "GATE_PASSED", "GATE_FAILED"},
   GATE_PASSED |-> {"APPLIED", "UNCHANGED_VALIDATED"},
   READY_TO_APPLY |-> {"APPLIED", "APPLY_FAILED_RECOVERED", "APPLY_FAILED_UNRECOVERABLE"},
   GATE_FAILED |-> {"CLASSIFIED", "MECHANISM_SELECTED", "STAGED", "AUDITED", "VALIDATED",
                    "UNCHANGED_BLOCKED"}]

Targets(s) == IF s \in DOMAIN Base THEN Base[s] ELSE {}

StagingFirst == {"CREATE", "TARGETED_REPAIR"}

Intents == {"AUDIT", "AUDIT_REPAIR", "TARGETED_REPAIR", "CREATE"}

Contexts ==
  [intent : Intents,
   authorized : BOOLEAN, defect : BOOLEAN, needed : BOOLEAN, staging : BOOLEAN,
   cycle : 1..MaxCycle, audit : 0..MaxCycle, validation : 0..MaxCycle,
   failed : 0..MaxCycle]

-----------------------------------------------------------------------------
(***************************************************************************)
(* What allowed_targets takes away from a row                              *)
(***************************************************************************)

BarredByIntent(s, x) ==
  IF x.intent = "AUDIT"
  THEN {"STAGED", "APPLIED"} \cup (IF s = "VALIDATED_PENDING_CONFIRMATION"
                                   THEN {"VALIDATED"} ELSE {})
  ELSE {"UNCHANGED_BLOCKED"}
         \cup (IF x.intent # "AUDIT_REPAIR" \/ x.needed THEN {"UNCHANGED_VALIDATED"} ELSE {})
         \cup (IF s = "VALIDATED_PENDING_CONFIRMATION" THEN AuditEnds ELSE {})
         \cup (IF x.intent \in StagingFirst /\ s = "DISCOVERED"
               THEN {"CLASSIFIED", "AUDITED"} ELSE {})
         \cup (IF x.intent \in StagingFirst /\ s = "AUDITED" THEN {"CLASSIFIED"} ELSE {})

BarredByStaging(s, x) ==
  IF ~x.authorized \/ ~x.staging \/ (s = "DISCOVERED" /\ x.intent = "AUDIT_REPAIR")
  THEN {"STAGED"} ELSE {}

\* Mutant of Fresh: the cycle that failed will do.
FreshSameCycle(x) ==
  x.audit = x.cycle /\ x.validation = x.cycle /\ x.cycle >= x.failed

\* The audit and the validation of this cycle, which is later than the failed one.
Fresh(x) ==
  x.audit = x.cycle /\ x.validation = x.cycle /\ x.cycle > x.failed

BarredVerdict(s, x) ==
  IF /\ s = "VALIDATED"
     /\ \/ ~Fresh(x)
        \/ /\ ~x.staging /\ x.intent # "AUDIT"
           /\ x.needed \/ x.intent \in StagingFirst
  THEN {"GATE_PASSED", "GATE_FAILED"} ELSE {}

BarredByOutcome(s, x) ==
  (IF s = "GATE_PASSED" /\ (x.defect \/ x.needed) THEN {"UNCHANGED_VALIDATED"} ELSE {})
    \cup (IF s = "GATE_PASSED" /\ (~x.authorized \/ ~x.staging) THEN {"APPLIED"} ELSE {})
    \cup (IF s = "GATE_FAILED" /\ (x.intent # "AUDIT" \/ x.authorized)
          THEN {"UNCHANGED_BLOCKED"} ELSE {})

AllowedTargets(s, x) ==
  Targets(s) \ (BarredByIntent(s, x) \cup BarredByStaging(s, x) \cup BarredVerdict(s, x)
                  \cup BarredByOutcome(s, x))

-----------------------------------------------------------------------------
LifecycleInit ==
  /\ state = "DISCOVERED"
  /\ \E intent \in Intents, authorized \in BOOLEAN :
       context = [intent |-> intent, authorized |-> authorized, defect |-> FALSE,
                  needed |-> FALSE, staging |-> FALSE, cycle |-> 1, audit |-> 0,
                  validation |-> 0, failed |-> 0]
  /\ since = {}

\* transition, and what its caller notes of it.
Transition(t) ==
  /\ t \in AllowedTargets(state, context)
  /\ state' = t
  /\ context' = [context EXCEPT
       !.audit = IF t = "AUDITED" THEN context.cycle ELSE @,
       !.validation = IF t = "VALIDATED" THEN context.cycle ELSE @,
       !.failed = IF t = "GATE_FAILED" THEN context.cycle ELSE @]
  /\ since' = IF t = "GATE_FAILED" THEN {}
              ELSE since \cup ({t} \cap {"AUDITED", "VALIDATED"})

\* A remediation begins.
Remediate ==
  /\ context.cycle < MaxCycle
  /\ context' = [context EXCEPT !.cycle = @ + 1]
  /\ UNCHANGED <<state, since>>

\* A candidate is staged or discarded, a defect found or repaired, a change turns out
\* to be needed, the user authorises or withdraws.
Learn(fact) ==
  /\ context' = [context EXCEPT ![fact] = ~@]
  /\ UNCHANGED <<state, since>>

LifecycleNext ==
  \/ \E t \in UNION {Base[s] : s \in DOMAIN Base} : Transition(t)
  \/ Remediate
  \/ \E fact \in {"authorized", "defect", "needed", "staging"} : Learn(fact)

LifecycleSpec == LifecycleInit /\ [][LifecycleNext]_lifecycleVars

-----------------------------------------------------------------------------
\* Types of the variables of this module.
LifecycleTypeOK ==
  /\ state \in DOMAIN Base \cup UNION {Base[s] : s \in DOMAIN Base}
  /\ context \in Contexts
  /\ since \subseteq {"AUDITED", "VALIDATED"}

\* A gate is passed, and a result applied or left unchanged as valid, only when the
\* artifact was audited and validated anew after the last failure of the gate,
\* whatever detour the operation took and whenever its cycle was counted on.
VerdictIsFresh ==
  state \in {"GATE_PASSED", "APPLIED", "UNCHANGED_VALIDATED"} =>
    since = {"AUDITED", "VALIDATED"} /\ context.audit > context.failed
=============================================================================
