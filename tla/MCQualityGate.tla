----------------------------- MODULE MCQualityGate -----------------------------
(***************************************************************************)
(* Instances of QualityGate for TLC: each kind of check the rules tell     *)
(* apart, with the results that matter for it, and contexts that vary the  *)
(* decision and one other field around a context that can pass.            *)
(***************************************************************************)
EXTENDS QualityGate, TLC

MCChecks == {"structure", "assets", "B07", "custom", "signal", "bloat", "advice"}
MCSubjects == {"skill", "other"}
MCCheckPolicy == ("structure" :> "B02") @@ ("assets" :> "B11")
MCSignals == {"signal"}
MCBloat == {"bloat"}

Result(check, source, required, status) ==
  [check |-> check, subject |-> "skill", source |-> source, required |-> required,
   status |-> status, quality |-> "reproducible", cites |-> FALSE, wellFormed |-> TRUE]

Structure == Result("structure", "engine", TRUE, "PASS")
Assets    == Result("assets", "engine", TRUE, "PASS")
Regression == Result("B07", "engine", TRUE, "PASS")
Advice    == Result("advice", "provider", FALSE, "FAIL")

CoreResults ==
  {Structure, Assets,
   [Structure EXCEPT !.status = "FAIL"],
   [Structure EXCEPT !.required = FALSE],
   [Structure EXCEPT !.wellFormed = FALSE],
   [Assets EXCEPT !.status = "NOT_EXECUTED"],
   [Assets EXCEPT !.status = "FAIL", !.required = FALSE],
   [Assets EXCEPT !.status = "WARN"]}

RegressionResults ==
  {Regression,
   [Regression EXCEPT !.status = "FAIL"],
   [Regression EXCEPT !.required = FALSE],
   [Regression EXCEPT !.quality = "none"],
   [Regression EXCEPT !.subject = "other"],
   [Regression EXCEPT !.wellFormed = FALSE]}

OtherResults ==
  {Result("custom", "internal", TRUE, "PASS"),
   Result("custom", "internal", FALSE, "FAIL"),
   Result("custom", "provider", TRUE, "ERROR"),
   [Result("custom", "provider", TRUE, "PASS") EXCEPT !.quality = "reported"],
   Result("signal", "engine", FALSE, "WARN"),
   [Result("signal", "engine", FALSE, "SKIP") EXCEPT !.quality = "none"],
   Result("bloat", "engine", TRUE, "FAIL"),
   Result("advice", "framework", TRUE, "ERROR"),
   Advice,
   [Advice EXCEPT !.cites = TRUE],
   [Advice EXCEPT !.wellFormed = FALSE]}

MCOffered == CoreResults \cup RegressionResults \cup OtherResults

Repair ==
  [intent |-> "TARGETED_REPAIR", validated |-> TRUE, authorized |-> TRUE,
   requiresApply |-> TRUE, applicable |-> TRUE, applyRequested |-> TRUE,
   disposition |-> "UNDECIDED", promptRule |-> "absent", confirmed |-> TRUE,
   fullRequired |-> TRUE, coverage |-> "FULL", preservation |-> "CAPABILITY_PRESERVED"]

\* Repair and the contexts that differ from it in one way.
Variants ==
  {Repair,
   [Repair EXCEPT !.authorized = FALSE],
   [Repair EXCEPT !.applyRequested = FALSE],
   [Repair EXCEPT !.applicable = FALSE],
   [Repair EXCEPT !.promptRule = "unjustified"],
   [Repair EXCEPT !.confirmed = FALSE],
   [Repair EXCEPT !.coverage = "PARTIAL"],
   [Repair EXCEPT !.coverage = "COMPATIBILITY", !.fullRequired = FALSE],
   [Repair EXCEPT !.preservation = "UNKNOWN"],
   [Repair EXCEPT !.preservation = "CAPABILITY_REGRESSION"],
   [Repair EXCEPT !.preservation = "AUTHORIZATION_REQUIRED"],
   [Repair EXCEPT !.preservation = "CAPABILITY_UNVERIFIABLE"],
   [Repair EXCEPT !.intent = "AUDIT", !.authorized = FALSE, !.requiresApply = FALSE,
                  !.applicable = FALSE, !.applyRequested = FALSE]}

Decided(disposition) == {[c EXCEPT !.disposition = disposition] : c \in Variants}

MCGateContexts ==
  UNION {Decided(d) : d \in {"UNDECIDED", "REQUIRED", "RECOMMENDED", "NOT_APPLICABLE"}}

\* One required check, so that three results can make a pass and contradict it.
MCCore == [required |-> {"structure"}, blocking |-> CorePolicies]
MCExtensions ==
  {[required |-> {"structure", "custom"}, blocking |-> CorePolicies],
   [required |-> {"structure"}, blocking |-> CorePolicies \cup {"custom", "advice"}],
   [required |-> {}, blocking |-> CorePolicies]}
=============================================================================
