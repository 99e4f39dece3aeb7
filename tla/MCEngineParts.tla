------------------------------ MODULE MCEngineParts ------------------------------
(***************************************************************************)
(* An instance of EngineParts for TLC.                                     *)
(***************************************************************************)
EXTENDS EngineParts

CONSTANTS absent, noDirectory, good, other, ruleA, ruleB

-----------------------------------------------------------------------------
\* Registries of up to three adapters: each way of passing over one, before one that
\* can be invoked, which may be a degraded one.
Adapter(offers, availability, pinned) ==
  [offers |-> offers, availability |-> availability, pinned |-> pinned]

MCRegistries ==
  LET pinned == Adapter(TRUE, "AVAILABLE", TRUE)
      unpinned == Adapter(TRUE, "AVAILABLE", FALSE)
      degraded == Adapter(TRUE, "DEGRADED", TRUE)
      missing == Adapter(TRUE, "UNAVAILABLE", FALSE)
      elsewhere == Adapter(FALSE, "AVAILABLE", TRUE)
  IN {<< >>, <<elsewhere, missing, pinned>>, <<unpinned, degraded>>}

-----------------------------------------------------------------------------
\* The answers to a request for a capability: a verdict of p, a clean one of q, an
\* answer with limitations, a failed run, an unfit Provider and none at all.
Answer(c, who, status, avail, execution, valid, contract) ==
  [capability |-> c, provider |-> who, status |-> status, available |-> avail,
   execution |-> execution, valid |-> valid, contract |-> contract]

Verdicts(c) ==
  {Answer(c, "p", s, TRUE, "EXECUTED", TRUE, NoContract) : s \in {"PASS", "FAIL", "NOT_EXECUTED"}}
    \cup {Answer(c, "q", "PASS", TRUE, "EXECUTED", TRUE, NoContract),
          Answer(c, NoProvider, "NOT_EXECUTED", TRUE, "FAILED", FALSE, NoContract),
          Answer(c, NoProvider, "NOT_EXECUTED", FALSE, "NOT_STARTED", FALSE, NoContract)}

\* Where Providers that do not fit, and a fallback that failed, answer as well.
AllAnswers(c) ==
  Verdicts(c)
    \cup {Answer(c, NoProvider, "NOT_EXECUTED", TRUE, "NOT_STARTED", FALSE, NoContract)}
    \cup {Answer(c, "fallback", s, TRUE, "FAILED", TRUE, NoContract) :
            s \in {"FAIL", "NOT_EXECUTED"}}

Agreement(identity, applies, defects) ==
  [identity |-> identity, applies |-> applies, defects |-> defects]

ContractAnswers ==
  {Answer("DELIVERABLE_CONTRACT", "d", "PASS", TRUE, "EXECUTED", TRUE, k) :
     k \in {NoContract, Agreement("current", "yes", {}), Agreement("current", "no", {}),
            Agreement("current", "no", {"evidence"}), Agreement("current", "unknown", {}),
            Agreement("stale", "yes", {})}
       \cup {Agreement("current", "yes", {x}) :
               x \in {"paths", "conflict", "undelivered", "unproved"}}}
    \cup {Answer("DELIVERABLE_CONTRACT", NoProvider, "NOT_EXECUTED", TRUE, "FAILED", FALSE,
                 NoContract)}

MCProviderAnswers ==
  [c \in {"AUDIT_SKILL", "CHECK_SKILL_CONFORMANCE", "CREATE_CANDIDATE",
          "DELIVERABLE_CONTRACT", "GOVERN_AGENT_INSTRUCTIONS", "PDF_VALIDATION"} |->
     CASE c = "DELIVERABLE_CONTRACT" -> ContractAnswers
       [] c = "CHECK_SKILL_CONFORMANCE" -> AllAnswers(c)
       [] OTHER -> Verdicts(c)]

Asking(mode, offered, declared, applicability, complete, kept) ==
  [mode |-> mode, adapters |-> offered, declared |-> declared,
   applicability |-> applicability, complete |-> complete, kept |-> kept,
   override |-> [c \in Core |-> "unset"]]

\* A capability whose fallback is lost, and what an override makes of it.
Lost == "skill_structure"

Overriding(asking, level) == [asking EXCEPT !.override[Lost] = level]

MCRequests ==
  {Asking(mode, offered, {}, "NOT_REQUIRED", Core, Core) :
     mode \in Modes, offered \in {<< >>, <<"AUDIT_SKILL", "CREATE_CANDIDATE">>}}
  \cup {Asking(mode, <<"CHECK_SKILL_CONFORMANCE">>, {}, "NOT_REQUIRED", complete, kept) :
          mode \in {"AUDIT", "CREATE"},
          complete \in {Core, Core \ {Lost}}, kept \in {Core, Core \ {Lost}}}
  \cup {Overriding(Asking("AUDIT", <<"CHECK_SKILL_CONFORMANCE">>, {}, "NOT_REQUIRED", complete,
                           Core), level) :
          complete \in {Core, Core \ {Lost}}, level \in FallbackLevels}
  \cup {Asking("AUDIT", <<"CHECK_SKILL_CONFORMANCE", "CREATE_CANDIDATE">>, {}, "NOT_REQUIRED",
               Core, Core)}
  \cup {Asking("AUDIT", <<"AUDIT_SKILL", "PDF_VALIDATION">>, declared, "COMPATIBILITY",
               Core, Core) : declared \in SUBSET {"PDF_VALIDATION"}}
  \cup {Asking(mode, <<"DELIVERABLE_CONTRACT">>, {}, applicability, Core, Core) :
          mode \in {"AUDIT", "TARGETED_REPAIR"}, applicability \in Applicabilities}
  \cup {Asking("AUDIT", <<"DELIVERABLE_CONTRACT", "GOVERN_AGENT_INSTRUCTIONS">>, {}, "REQUIRED",
               Core, Core)}

\* A repaired artifact in order, and what one thing out of order makes of it.
InOrder ==
  [structure |-> {"PASS"}, scripts |-> {"PASS"}, references |-> {"PASS"},
   scriptReferences |-> {"PASS"}, defects |-> {}, findings |-> {}, governed |-> TRUE,
   executables |-> FALSE, raised |-> {}, disposition |-> "NOT_APPLICABLE",
   behavior |-> "PASS", regression |-> "absent", contract |-> "absent",
   manifest |-> "none", changed |-> TRUE]

Deviations ==
  {InOrder}
    \cup {[InOrder EXCEPT !.structure = {"FAIL"}], [InOrder EXCEPT !.scripts = {"SKIP"}],
          [InOrder EXCEPT !.references = {"PASS", "WARN"}],
          [InOrder EXCEPT !.scriptReferences = {"FAIL"}],
          [InOrder EXCEPT !.findings = {"advisory"}, !.governed = FALSE],
          [InOrder EXCEPT !.findings = {"blocking"}],
          [InOrder EXCEPT !.findings = {"advisory"}]}
    \cup {[InOrder EXCEPT !.defects = {x}] : x \in Rubrics}
    \cup {[InOrder EXCEPT !.raised = {s}] : s \in Stages}
    \cup {[InOrder EXCEPT !.behavior = x] : x \in RunnerOutcomes}
    \cup {[InOrder EXCEPT !.contract = x] : x \in RunnerOutcomes}
    \cup {[InOrder EXCEPT !.disposition = "REQUIRED", !.regression = x] : x \in RunnerOutcomes}
    \cup {[InOrder EXCEPT !.executables = TRUE, !.behavior = x, !.manifest = k] :
            x \in {"absent", "PASS"}, k \in {"none", "PASS", "NOT_EXECUTED"}}

MCObserved == {[o EXCEPT !.changed = x] : o \in Deviations, x \in BOOLEAN}

-----------------------------------------------------------------------------
\* A capability in full, without its test, narrowed, with another entry point, with a
\* template in exchange for an entry point, no longer implemented, and one that cannot
\* be verified; a second that is there or not.
Scope(entrypoints, templates) ==
  [f \in ScopeFields |-> CASE f = "entrypoints" -> entrypoints
                           [] f = "templates" -> templates
                           [] OTHER -> {}]

Able(implemented, scope, proven, verifiable) ==
  [implemented |-> implemented, scope |-> scope, proven |-> proven,
   verifiable |-> verifiable]

Whole == Scope({"a"}, {})
Full == Able(TRUE, Whole, {"t"}, TRUE)

MCVersions ==
  LET first == {absent, Full, Able(TRUE, Whole, {}, TRUE),
                Able(FALSE, Whole, {"t"}, TRUE), Able(TRUE, Whole, {"t"}, FALSE)}
                 \cup {Able(TRUE, s, {"t"}, TRUE) :
                         s \in {Scope({}, {}), Scope({"b"}, {}), Scope({}, {"a"})}}
  IN {[c1 |-> x, c2 |-> Full] : x \in first}
       \cup {[c1 |-> Full, c2 |-> absent]}

-----------------------------------------------------------------------------
\* A capability an observation was selected for, each condition on it failing in turn.
Input(need, selected, avail, executed, valid, status, declared) ==
  [need |-> need, selected |-> selected, available |-> avail, executed |-> executed,
   valid |-> valid, status |-> status, result |-> declared]

Inputs(need) ==
  {Input(need, TRUE, TRUE, TRUE, TRUE, s, "none") : s \in Judgements}
    \cup {Input(need, FALSE, TRUE, TRUE, TRUE, "PASS", "none"),
          Input(need, TRUE, FALSE, TRUE, TRUE, "PASS", "none"),
          Input(need, TRUE, TRUE, FALSE, TRUE, "PASS", "none"),
          Input(need, TRUE, TRUE, TRUE, FALSE, "PASS", "none"),
          Input(need, TRUE, FALSE, TRUE, TRUE, "FAIL", "PASS"),
          Input(need, TRUE, TRUE, TRUE, TRUE, "PASS", "FAIL")}

Governed(mode, audit, capabilities, contract, contractNeed, digests, paths) ==
  [mode |-> mode, audit |-> audit, validation |-> "PASS", integrity |-> "none",
   coverage |-> "COMPLETE", capabilities |-> capabilities, contract |-> contract,
   contractNeed |-> contractNeed, digests |-> digests, paths |-> paths]

Both(x) == [side \in Sides |-> x]
Plain == Governed("ENFORCED", FALSE, << >>, "none", "none", Both(good), Both(TRUE))

Wanting(inputs) == {[DELIVERABLE_CONTRACT |-> i] : i \in inputs}

MCGovernanceRequests ==
  {Governed(mode, audit, << >>, "none", "none", Both(good), Both(TRUE)) :
     mode \in {"ENFORCED", "SHADOW", "OFF"}, audit \in BOOLEAN}
  \cup {Governed("ENFORCED", FALSE, [x |-> i, y |-> j], "none", "none",
                 [source |-> "none", candidate |-> good], [source |-> FALSE, candidate |-> TRUE]) :
          i \in Inputs("required"), j \in Inputs("optional")}
  \cup {Governed("ENFORCED", FALSE, w, k, need, Both(good), Both(TRUE)) :
          w \in Wanting(Inputs("required")), k \in {"none", "PASS", "FAIL", "other"},
          need \in {"required", "misspelt"}}
  \cup {Governed("ENFORCED", FALSE, << >>, "none", "none", d, q) :
          d \in [Sides -> {good, "none"}], q \in [Sides -> BOOLEAN]}
  \cup {[Plain EXCEPT !.validation = x] : x \in Judgements}
  \cup {[Plain EXCEPT !.integrity = x] : x \in Judgements}
  \cup {[Plain EXCEPT !.coverage = x] : x \in {"INCOMPLETE", "UNKNOWN"}}

-----------------------------------------------------------------------------
\* Skills without findings, with one, with the same id for another rule, with two.
MCDetections ==
  [clean |-> << >>,
   one |-> [exact1 |-> ruleA],
   renumbered |-> [exact1 |-> ruleB],
   two |-> [exact1 |-> ruleA, similar2 |-> ruleB],
   second |-> [similar2 |-> ruleB]]

MCRuleTrees == DOMAIN MCDetections
=============================================================================
