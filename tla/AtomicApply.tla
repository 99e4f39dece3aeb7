----------------------------- MODULE AtomicApply -----------------------------
(***************************************************************************)
(* What "apply" promises to the owner of a source Skill: the version of    *)
(* record is replaced by the confirmed candidate in a single step or it is *)
(* not touched, and the verdict the session reports says which.            *)
(***************************************************************************)
CONSTANTS Sessions, Contents, Original, Confirmed

VARIABLES
  version,   \* the content of record of the Skill
  verdict    \* [Sessions -> {"pending", "applied", "failed"}]

vars == <<version, verdict>>

Init ==
  /\ version = Original
  /\ verdict = [s \in Sessions |-> "pending"]

Commit(s) ==
  /\ verdict[s] = "pending"
  /\ version' = Confirmed[s]
  /\ verdict' = [verdict EXCEPT ![s] = "applied"]

\* A refusal, a failure or a killed process: the version of record stays.
Abort(s) ==
  /\ verdict[s] = "pending"
  /\ verdict' = [verdict EXCEPT ![s] = "failed"]
  /\ UNCHANGED version

\* Somebody else changes the Skill.
Edit ==
  /\ version' \in Contents
  /\ UNCHANGED verdict

Next == Edit \/ \E s \in Sessions : Commit(s) \/ Abort(s)

Spec == Init /\ [][Next]_vars
=============================================================================
