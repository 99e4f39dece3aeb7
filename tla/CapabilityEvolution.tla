--------------------------- MODULE CapabilityEvolution ---------------------------
(***************************************************************************)
(* What a Skill can do, over a chain of repairs.  inspect has a Provider    *)
(* describe the baseline, validate has it describe the candidate, compares  *)
(* the two (engine/capability_diff.py), holds the difference against the    *)
(* decision the user authorised (engine/capability_decisions.py), and an    *)
(* apply makes the candidate the next baseline.                            *)
(*                                                                         *)
(* A version is what is true of it: the capabilities it has, each with a    *)
(* record.  A description is a manifest of it that carries the inspection   *)
(* it was made in, as capability_manifest_digest does.                     *)
(***************************************************************************)
EXTENDS Naturals

CONSTANTS
  CapabilityIds,
  Versions,           \* what the Skill may be: a record or Absent for each id
  Absent,             \* no record of a capability
  MaxInspections      \* bound: inspections in a behavior

\* _PUBLIC_SCOPE_FIELDS: each lists what of its kind the capability offers.
ScopeFields ==
  {"entrypoints", "supported_profiles", "supported_deliverables", "templates", "schemas"}

CapabilityRecordType ==
  [implemented : BOOLEAN,           \* implementation_status = "implemented"
   scope : [ScopeFields -> SUBSET {"a", "b"}],
   proven : SUBSET {"t"},           \* validation_coverage
   verifiable : BOOLEAN]            \* evidence_state is not UNVERIFIABLE

ASSUME EvolutionOK ==
  /\ Versions \subseteq [CapabilityIds -> CapabilityRecordType \cup {Absent}]
  /\ Absent \notin CapabilityRecordType
  /\ MaxInspections \in Nat

NoManifest == [inspection |-> 0, role |-> "NONE", of |-> Absent]

VARIABLES
  version,    \* the published Skill
  number,     \* how many inspections there were: the current inspection_id
  baseline,   \* the baseline manifest of the inspection, or NoManifest
  draft,      \* the candidate
  described,  \* the manifest of the candidate in the last validation, or NoManifest
  check,      \* the status of capability_decision_check
  decision    \* the user's CapabilityChangeDecision

evolutionVars ==
  <<version, number, baseline, draft, described, check, decision>>

\* A manifest: the digest of one is the manifest itself.
Manifest(n, role, v) == [inspection |-> n, role |-> role, of |-> v]

NoDecision == [before |-> NoManifest, after |-> NoManifest, ids |-> {}, authorised |-> FALSE]

-----------------------------------------------------------------------------
(***************************************************************************)
(* capability_diff                                                         *)
(***************************************************************************)

Smaller(S, T) == S \subseteq T /\ S # T

\* One field that shrinks narrows, whatever the other fields gain.
Narrower(after, before) == \E f \in ScopeFields : Smaller(after[f], before[f])

\* The kind of a change, first match first: lost coverage counts only where the
\* scope did not shrink.
Kind(b, a) ==
  IF b = Absent THEN IF a = Absent THEN "PRESERVED" ELSE "ADDED"
  ELSE IF a = Absent THEN "REMOVED"
  ELSE IF ~a.verifiable THEN "UNVERIFIABLE"
  ELSE IF b.implemented /\ ~a.implemented THEN "BROKEN"
  ELSE IF Narrower(a.scope, b.scope) THEN "NARROWED"
  ELSE IF Smaller(a.proven, b.proven) THEN "BROKEN"
  ELSE IF a = b THEN "PRESERVED" ELSE "MODIFIED"

OfKind(before, after, kinds) ==
  {c \in CapabilityIds : Kind(before.of[c], after.of[c]) \in kinds}

GivenUp(before, after) == OfKind(before, after, {"REMOVED", "NARROWED"})

\* Mutant of Authorised: the decision names capabilities, not manifests.
AuthorisedForIds(d, before, after) == d.authorised /\ d.ids = GivenUp(before, after)

\* validate_capability_change_decision, its last part: an AUTHORIZED status with its
\* evidence and plans, for these digests and exactly these capabilities.
Authorised(d, before, after) ==
  /\ d.before = before /\ d.after = after
  /\ d.ids = GivenUp(before, after)
  /\ d.authorised

DecisionStatus(before, after, d) ==
  IF OfKind(before, after, {"BROKEN"}) # {} THEN "FAIL"
  ELSE IF OfKind(before, after, {"UNVERIFIABLE"}) # {} THEN "NOT_EXECUTED"
  ELSE IF GivenUp(before, after) = {} \/ Authorised(d, before, after)
  THEN "PASS" ELSE "FAIL"

-----------------------------------------------------------------------------
EvolutionInit ==
  /\ version \in Versions
  /\ number = 0
  /\ baseline = NoManifest
  /\ draft = version /\ described = NoManifest
  /\ check = "none" /\ decision = NoDecision

\* inspect of a repair, with a manifest of the baseline that is valid for this very
\* inspection.  A repair without one compares nothing, and no completion of it counts as
\* managed: it is left out.
StartRepair ==
  /\ number < MaxInspections
  /\ number' = number + 1
  /\ baseline' = Manifest(number + 1, "BASELINE", version)
  /\ draft' = version /\ described' = NoManifest /\ check' = "none"
  /\ UNCHANGED <<version, decision>>

\* Codex writes the candidate, before or after a validation.
Author(v) ==
  /\ baseline # NoManifest /\ v # draft
  /\ draft' = v /\ described' = NoManifest /\ check' = "none"
  /\ UNCHANGED <<version, number, baseline, decision>>

\* The user decides on what the last validation has shown, whatever comes next.
Decide(ids, agrees) ==
  /\ described # NoManifest /\ check # "PASS"
  /\ decision' = [before |-> baseline, after |-> described, ids |-> ids,
                  authorised |-> agrees]
  /\ UNCHANGED <<version, number, baseline, draft, described, check>>

\* The Provider of the inspection describes the candidate, or its manifest is missing
\* or refused, or another Provider answers.
ValidateChange ==
  /\ baseline # NoManifest
  /\ \/ /\ described' = Manifest(number, "CANDIDATE", draft)
        /\ check' = DecisionStatus(baseline, described', decision)
     \/ described' = NoManifest /\ check' = "NOT_EXECUTED"
  /\ UNCHANGED <<version, number, baseline, draft, decision>>

\* capability_preservation_status
Preserved ==
  /\ described # NoManifest
  /\ OfKind(baseline, described, {"BROKEN", "UNVERIFIABLE"}) = {}
  /\ GivenUp(baseline, described) = {} \/ check = "PASS"

\* Mutant of ApplyChange: the preservation is read and the check is not required.
ApplyUndecided ==
  /\ described # NoManifest
  /\ OfKind(baseline, described, {"UNVERIFIABLE"}) = {}
  /\ version' = draft
  /\ baseline' = NoManifest /\ described' = NoManifest /\ check' = "none"
  /\ UNCHANGED <<number, draft, decision>>

\* The gate passes on the check and the preservation, and the candidate is applied.
\* The inspection is spent: its baseline is no longer the source.
ApplyChange ==
  /\ check = "PASS" /\ Preserved
  /\ version' = draft
  /\ baseline' = NoManifest /\ described' = NoManifest /\ check' = "none"
  /\ UNCHANGED <<number, draft, decision>>

EvolutionNext ==
  \/ StartRepair \/ ValidateChange \/ ApplyChange
  \/ \E v \in Versions : Author(v)
  \/ \E ids \in SUBSET CapabilityIds, agrees \in BOOLEAN : Decide(ids, agrees)

EvolutionSpec == EvolutionInit /\ [][EvolutionNext]_evolutionVars

-----------------------------------------------------------------------------
Manifests(role) ==
  {NoManifest} \cup [inspection : 1..MaxInspections, role : {role}, of : Versions]

\* Types of the variables of this module.
EvolutionTypeOK ==
  /\ version \in Versions /\ draft \in Versions
  /\ number \in 0..MaxInspections
  /\ baseline \in Manifests("BASELINE")
  /\ described \in Manifests("CANDIDATE")
  /\ check \in {"none", "PASS", "FAIL", "NOT_EXECUTED"}
  /\ decision.before \in Manifests("BASELINE") /\ decision.after \in Manifests("CANDIDATE")
  /\ decision.ids \subseteq CapabilityIds /\ decision.authorised \in BOOLEAN

Implements(v, c) == v[c] # Absent /\ v[c].implemented

\* A published version lacks, or implements with less of some public field, what the
\* one before it implemented only where the user agreed to exactly the difference between these two,
\* for this very inspection: an old authorisation serves no other repair and no other
\* candidate.  An entry point that is exchanged for another counts as a modification
\* and needs no agreement.
NothingGivenUpUnasked ==
  [][\A c \in CapabilityIds :
       \/ Implements(version, c) /\ ~Implements(version', c)
       \/ /\ version[c] # Absent /\ version'[c] # Absent
          /\ Narrower(version'[c].scope, version[c].scope)
       => /\ c \in decision.ids /\ decision.authorised
          /\ decision.before = Manifest(number, "BASELINE", version)
          /\ decision.after = Manifest(number, "CANDIDATE", version')]_evolutionVars

\* What is published never lost the validation of a capability whose scope was kept.
ValidationKept ==
  [][\A c \in CapabilityIds :
       version[c] # Absent /\ version'[c] # Absent
       /\ ~Narrower(version'[c].scope, version[c].scope) =>
            ~Smaller(version'[c].proven, version[c].proven)]_evolutionVars
=============================================================================
