------------------------------ MODULE MCPreflight ------------------------------
(***************************************************************************)
(* An audit of a Skill that owns executables, without a runner, where the   *)
(* only Provider is that of CAPABILITY_CONTRACT or there is none.          *)
(***************************************************************************)
EXTENDS CapabilityPreflight

MCRequests ==
  {[mode |-> "AUDIT", adapters |-> << >>, declared |-> {}, applicability |-> "NOT_REQUIRED",
    complete |-> Core, kept |-> Core, override |-> [c \in Core |-> "unset"]]}

NoAnswers == << >>

\* The check of the capability manifest is the only command.
MCObserved ==
  {[structure |-> {"PASS"}, scripts |-> {"PASS"}, references |-> {"PASS"},
    scriptReferences |-> {"PASS"}, defects |-> {}, findings |-> {}, governed |-> TRUE,
    executables |-> TRUE, raised |-> {}, disposition |-> "NOT_APPLICABLE",
    behavior |-> "absent", regression |-> "absent", contract |-> "absent",
    manifest |-> m, changed |-> FALSE] : m \in {"none", "PASS"}}
=============================================================================
