------------------------------- MODULE EngineParts -------------------------------
(***************************************************************************)
(* The parts of the engine that share no state: a call of the Provider      *)
(* gateway, the evidence of one validation, the capabilities of a Skill     *)
(* over a chain of repairs, the governance interface, the lifecycle table   *)
(* and the decisions about rules.  A behavior is a behavior of one of them, *)
(* chosen at the start; the others stay in their first state.              *)
(***************************************************************************)
EXTENDS ProviderGateway, CapabilityPreflight, CapabilityEvolution, GovernanceApi,
        Lifecycle, RuleGovernance

VARIABLE part   \* the part that runs

allVars == <<part, gatewayVars, preflightVars, evolutionVars, governanceVars,
             lifecycleVars, ruleVars>>

Parts == {"gateway", "preflight", "evolution", "governance", "lifecycle", "rules"}

\* The first states of the parts that do not run.
Idle(p) ==
  CASE p = "gateway" -> /\ windows = FALSE /\ formal = FALSE
                        /\ adapters = CHOOSE r \in Registries : TRUE
                        /\ GatewayInit
    [] p = "preflight" -> request = (CHOOSE r \in Requests : TRUE) /\ PreflightInit
    [] p = "evolution" -> version = (CHOOSE v \in Versions : TRUE) /\ EvolutionInit
    [] p = "governance" -> /\ govRequest = CHOOSE r \in GovernanceRequests : TRUE
                           /\ trees = [side \in Sides |-> NoDirectory]
                           /\ GovernanceInit
    [] p = "lifecycle" -> LifecycleInit /\ context.intent = "AUDIT" /\ ~context.authorized
    [] p = "rules" -> /\ inspected = CHOOSE t \in RuleTrees : TRUE
                      /\ provider = FALSE
                      /\ RuleInit

Others(p) ==
  /\ part = p
  /\ UNCHANGED part
  /\ p # "gateway" => UNCHANGED gatewayVars
  /\ p # "preflight" => UNCHANGED preflightVars
  /\ p # "evolution" => UNCHANGED evolutionVars
  /\ p # "governance" => UNCHANGED governanceVars
  /\ p # "lifecycle" => UNCHANGED lifecycleVars
  /\ p # "rules" => UNCHANGED ruleVars

Init ==
  /\ part \in Parts
  /\ IF part = "gateway" THEN GatewayInit ELSE Idle("gateway")
  /\ IF part = "preflight" THEN PreflightInit ELSE Idle("preflight")
  /\ IF part = "evolution" THEN EvolutionInit ELSE Idle("evolution")
  /\ IF part = "governance" THEN GovernanceInit ELSE Idle("governance")
  /\ IF part = "lifecycle" THEN LifecycleInit ELSE Idle("lifecycle")
  /\ IF part = "rules" THEN RuleInit ELSE Idle("rules")

Next ==
  \/ Others("gateway") /\ GatewayNext
  \/ Others("preflight") /\ PreflightNext
  \/ Others("evolution") /\ EvolutionNext
  \/ Others("governance") /\ GovernanceNext
  \/ Others("lifecycle") /\ LifecycleNext
  \/ Others("rules") /\ RuleNext

\* Only the gateway is scheduled by the engine; the other parts are called.
Spec ==
  Init /\ [][Next]_allVars
    /\ \A s \in Scheduled : WF_gatewayVars(part = "gateway" /\ FairStep(s))

-----------------------------------------------------------------------------
\* Types of the variables of the part that runs; the others keep their first values.
TypeOK ==
  CASE part = "gateway" -> GatewayTypeOK
    [] part = "preflight" -> PreflightTypeOK
    [] part = "evolution" -> EvolutionTypeOK
    [] part = "governance" -> GovernanceTypeOK
    [] part = "lifecycle" -> LifecycleTypeOK
    [] part = "rules" -> RuleTypeOK

\* CallEnds, of the behaviors of the gateway.
GatewayCallEnds == part = "gateway" => CallEnds
=============================================================================
