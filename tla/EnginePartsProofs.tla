---------------------------- MODULE EnginePartsProofs ----------------------------
(***************************************************************************)
(* The parts that share no state, together: whatever the part that runs,    *)
(* each of them behaves as its own specification allows, so that what is    *)
(* proved of each of them alone holds of EngineParts.                      *)
(***************************************************************************)
EXTENDS EngineParts, ProviderGatewayProofs, CapabilityProofs, GovernanceProofs, TLAPS

LEMMA PartsInitial ==
  ASSUME Init
  PROVE  /\ part \in Parts /\ GatewayInit /\ PreflightInit /\ EvolutionInit
         /\ GovernanceInit /\ LifecycleInit /\ RuleInit
  <1>1. /\ Idle("gateway") => GatewayInit
        /\ Idle("preflight") => PreflightInit
        /\ Idle("evolution") => EvolutionInit
        /\ Idle("governance") => GovernanceInit
        /\ Idle("lifecycle") => LifecycleInit
        /\ Idle("rules") => RuleInit
    BY DEF Idle
  <1> QED  BY <1>1 DEF Init

LEMMA PartsStep ==
  ASSUME [Next]_allVars
  PROVE  /\ part' = part
         /\ [GatewayNext]_gatewayVars /\ [PreflightNext]_preflightVars
         /\ [EvolutionNext]_evolutionVars /\ [GovernanceNext]_governanceVars
         /\ [LifecycleNext]_lifecycleVars /\ [RuleNext]_ruleVars
  BY DEF Next, Others, allVars

\* Each part, in whatever behavior of the whole, is a behavior of its specification.
THEOREM PartsAreApart ==
  Spec => /\ GatewaySafety /\ PreflightSpec /\ EvolutionSpec /\ GovernanceSpec
          /\ LifecycleSpec /\ RuleSpec /\ [](part \in Parts)
  <1>1. Init => /\ part \in Parts /\ GatewayInit /\ PreflightInit /\ EvolutionInit
                /\ GovernanceInit /\ LifecycleInit /\ RuleInit
    BY PartsInitial
  <1>2. [Next]_allVars =>
          /\ part \in Parts => (part \in Parts)'
          /\ [GatewayNext]_gatewayVars /\ [PreflightNext]_preflightVars
          /\ [EvolutionNext]_evolutionVars /\ [GovernanceNext]_governanceVars
          /\ [LifecycleNext]_lifecycleVars /\ [RuleNext]_ruleVars
    BY PartsStep
  <1> QED
    BY <1>1, <1>2, PTL
       DEF Spec, GatewaySafety, PreflightSpec, EvolutionSpec, GovernanceSpec, LifecycleSpec,
           RuleSpec

\* For all values of all constants the variables of the part that runs have their types.
THEOREM PartsTypeCorrect == Spec => []TypeOK
  <1>1. EInv => EvolutionTypeOK
    BY DEF EInv
  <1>2. /\ part \in Parts /\ GatewayTypeOK /\ PreflightTypeOK /\ EvolutionTypeOK
        /\ GovernanceTypeOK /\ LifecycleTypeOK /\ RuleTypeOK
        => TypeOK
    BY DEF TypeOK, Parts
  <1> QED
    BY <1>1, <1>2, PartsAreApart, GatewayTypeCorrect, PreflightTypeCorrect, EvolutionInvariant,
       GovernanceTypeCorrect, LifecycleTypeCorrect, RulesTypeCorrect, PTL

\* What is proved of the parts, of the whole: the safety that the run checks.
THEOREM PartsAreSafe ==
  Spec => /\ [](NobodyPassedOver /\ FormalPassIsPinned /\ AnswerIsFinal /\ NoOrphans)
          /\ [](EveryCapabilityProven /\ FindingBlocks /\ NothingVacuous)
          /\ [](AuthorizedIsProven /\ VerdictIsFresh /\ FindingsReviewed)
          /\ ValidationKept /\ NothingGivenUpUnasked
  BY PartsAreApart, NobodyIsPassedOver, FormalPassesArePinned, AnswersAreFinal,
     NothingIsOrphaned, CapabilitiesAreProven, FindingsBlock, NothingIsVacuous,
     AuthorizationsAreProven, VerdictsAreFresh, FindingsAreReviewed, ValidationIsKept,
     GivenUpIsAgreed, PTL
=============================================================================
