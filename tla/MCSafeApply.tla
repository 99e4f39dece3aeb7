----------------------------- MODULE MCSafeApply -----------------------------
(***************************************************************************)
(* Instances of SafeApply for TLC.                                         *)
(***************************************************************************)
EXTENDS SafeApply, TLC

CONSTANTS
  s1, s2,            \* sessions
  orig, prev, edited, candidate1, candidate2, noTree, partial,
  Faults, Crashes, Edits, Tampers, Retries

MCContents == {orig, prev, edited, candidate1, candidate2}
SoloContents == {orig, prev, edited, candidate1}

SoloConfirmed == (s1 :> candidate1)
PairConfirmed == (s1 :> candidate1) @@ (s2 :> candidate2)

\* A repair in place, a repair of a Skill kept in another directory than the
\* target, and a creation, which has no source.
SoloOrigins == {(s1 :> o) : o \in {"applied", "elsewhere", "none"}}
SoloInPlace == {(s1 :> "applied")}
\* Two repairs of one Skill; a repair and a creation of the same name.
PairOrigins == {(s1 :> "applied") @@ (s2 :> o) : o \in {"applied", "none"}}

AllOps == Running
\* Only the rename of the old tree to the backup path.
RenameOldTree == {"aside"}
\* Every operation but those before the old tree has been moved aside.
OpsAfterMove == Running \ {"probe", "clear", "clearing", "aside"}

MCBound == [b \in Budgets |->
  CASE b = "fault"  -> Faults
    [] b = "crash"  -> Crashes
    [] b = "edit"   -> Edits
    [] b = "tamper" -> Tampers
    [] b = "retry"  -> Retries]
=============================================================================
