------------------------------- MODULE SafeApply -------------------------------
(***************************************************************************)
(* engine/workspace.py: apply_atomic, one action per point at which it     *)
(* reads or changes the file system.  A session replaces the directory     *)
(* "applied" (staging.parent / name) by its confirmed staged candidate:    *)
(* it moves the present tree to "backup", moves the candidate in, checks   *)
(* what it moved and on any exception runs the recovery branch.  Nothing   *)
(* locks the directory, so the steps of several sessions, of an editor of  *)
(* the trees and of a process kill interleave freely.                      *)
(*                                                                         *)
(* A tree is abstracted to its content (what digest_tree tells apart),     *)
(* "partial" is what an unfinished recursive removal leaves.               *)
(***************************************************************************)
EXTENDS Naturals

CONSTANTS
  Sessions,     \* safe-apply sessions that share one target directory
  Contents,     \* intact tree contents, told apart by digest_tree
  NoTree,       \* nothing at the path
  Partial,      \* a tree some of whose entries have been removed
  Original,     \* the source content every session inspected
  Previous,     \* what an earlier apply may have left in the backup
  Confirmed,    \* [Sessions -> Contents]: content bound by bind_confirmed_artifact
  Origins,      \* where the sessions may have their source Skill, see origin
  FaultyOps,    \* the labels whose file operation may raise
  Bound         \* [Budgets -> Nat]: how often the environment may interfere

Budgets == {"fault", "crash", "edit", "tamper", "retry"}

\* Program points: the checks, the try block, the recovery branch, the ends.
Checking   == {"candidate", "source", "plan"}
Publishing == {"probe", "clear", "clearing", "aside", "install", "verify"}
Recovering == {"recover", "removing", "restore"}
Running    == Checking \cup Publishing \cup Recovering
Ended      == {"refused", "applied", "recovered", "unrecoverable", "crashed"}

ASSUME ConstantsOK ==
  /\ {Original, Previous} \subseteq Contents
  /\ Confirmed \in [Sessions -> Contents]
  /\ Origins \subseteq [Sessions -> {"applied", "elsewhere", "none"}]
  /\ FaultyOps \subseteq Running
  /\ Bound \in [Budgets -> Nat]
  /\ NoTree \notin Contents /\ Partial \notin Contents /\ NoTree # Partial

Trees == Contents \cup {NoTree, Partial}

\* "stray" is the path "None" in the working directory: str(backup) of no backup.
Paths == {"applied", "backup", "elsewhere", "stray"}

VARIABLES
  origin,   \* [Sessions -> ...]: the source is at the applied path, elsewhere, or none
  files,    \* [Paths -> Trees]
  staging,  \* [Sessions -> Trees]: each session's staged candidate
  pc,       \* [Sessions -> Running \cup Ended]
  keeps,    \* keeps[s]: the local `backup` of s is a path, not None
  moved,    \* moved[s]: the local `moved_backup` of s
  prior,    \* what s last saw at the applied path before it moved it away
  raced,    \* the sessions that have run while another one was running
  left      \* what the environment may still do

vars == <<origin, files, staging, pc, keeps, moved, prior, raced, left>>

Init ==
  /\ origin \in Origins
  /\ \E old \in {NoTree, Previous},
        here \in IF \E s \in Sessions : origin[s] = "applied"
                 THEN {Original} ELSE {NoTree, Original} :
       files = [p \in Paths |-> CASE p = "applied"   -> here
                                  [] p = "backup"    -> old
                                  [] p = "elsewhere" -> Original
                                  [] p = "stray"     -> NoTree]
  /\ staging = Confirmed
  /\ pc    = [s \in Sessions |-> "candidate"]
  /\ keeps = [s \in Sessions |-> FALSE]
  /\ moved = [s \in Sessions |-> FALSE]
  /\ prior = [s \in Sessions |-> NoTree]
  /\ raced = {}
  /\ left  = Bound

Goto(s, label) == pc' = [pc EXCEPT ![s] = label]

Exists(p) == files[p] # NoTree

Spend(what) == /\ left[what] > 0
               /\ left' = [left EXCEPT ![what] = @ - 1]

\* Sessions past their first step and not yet at an end.
Active(s) == pc[s] \in Running \ {"candidate"}

(***************************************************************************)
(* The checks before the try block.                                        *)
(***************************************************************************)

CandidateMatches(s) == staging[s] = Confirmed[s]

\* Mutant of SourceMatches: the source is not compared again.
SourceMatchesUnchecked(s) == TRUE

\* session.verify_source_unchanged; a create session has no source.
SourceMatches(s) ==
  origin[s] # "none" => files[origin[s]] = Original

\* Staging present, digest of the candidate equal to the confirmed one.
CheckCandidate(s) ==
  /\ pc[s] = "candidate"
  /\ Goto(s, IF CandidateMatches(s) THEN "source" ELSE "refused")
  /\ LET others == {r \in Sessions \ {s} : Active(r)}
     IN  raced' = IF CandidateMatches(s) /\ others # {}
                  THEN raced \cup others \cup {s} ELSE raced
  /\ UNCHANGED <<origin, files, staging, keeps, moved, prior, left>>

CheckSource(s) ==
  /\ pc[s] = "source"
  /\ Goto(s, IF SourceMatches(s) THEN "plan" ELSE "refused")
  /\ UNCHANGED <<origin, files, staging, keeps, moved, prior, raced, left>>

\* backup = applied.name + ".backup" if applied.exists() else None
PlanBackup(s) ==
  /\ pc[s] = "plan"
  /\ Goto(s, "probe")
  /\ keeps' = [keeps EXCEPT ![s] = Exists("applied")]
  /\ prior' = [prior EXCEPT ![s] = files["applied"]]
  /\ UNCHANGED <<origin, files, staging, moved, raced, left>>

(***************************************************************************)
(* The try block.                                                          *)
(***************************************************************************)

\* The second applied.exists().
ProbeApplied(s) ==
  /\ pc[s] = "probe"
  /\ Goto(s, IF Exists("applied") THEN "clear" ELSE "install")
  /\ UNCHANGED <<origin, files, staging, keeps, moved, prior, raced, left>>

\* _remove_exact(backup), entry by entry: first some of it is gone, then all.
ClearBackup(s) ==
  /\ pc[s] = "clear"
  /\ IF keeps[s] /\ Exists("backup")
     THEN Goto(s, "clearing") /\ files' = [files EXCEPT !["backup"] = Partial]
     ELSE Goto(s, "aside") /\ UNCHANGED files
  /\ UNCHANGED <<origin, staging, keeps, moved, prior, raced, left>>

FinishClearBackup(s) ==
  /\ pc[s] = "clearing"
  /\ Goto(s, "aside")
  /\ files' = [files EXCEPT !["backup"] = NoTree]
  /\ UNCHANGED <<origin, staging, keeps, moved, prior, raced, left>>

BackupPath(s) == IF keeps[s] THEN "backup" ELSE "stray"

\* os.replace(applied, backup): a directory is never renamed over a tree.
MoveAside(s) ==
  /\ pc[s] = "aside"
  /\ IF Exists("applied") /\ ~Exists(BackupPath(s))
     THEN /\ files' = [files EXCEPT !["applied"] = NoTree,
                                    ![BackupPath(s)] = files["applied"]]
          /\ moved' = [moved EXCEPT ![s] = TRUE]
          /\ prior' = [prior EXCEPT ![s] = files["applied"]]
          /\ Goto(s, "install")
     ELSE Goto(s, "recover") /\ UNCHANGED <<files, moved, prior>>
  /\ UNCHANGED <<origin, staging, keeps, raced, left>>

\* os.replace(target, applied)
Install(s) ==
  /\ pc[s] = "install"
  /\ IF staging[s] # NoTree /\ ~Exists("applied")
     THEN /\ files' = [files EXCEPT !["applied"] = staging[s]]
          /\ staging' = [staging EXCEPT ![s] = NoTree]
          /\ Goto(s, "verify")
     ELSE Goto(s, "recover") /\ UNCHANGED <<files, staging>>
  /\ UNCHANGED <<origin, keeps, moved, prior, raced, left>>

\* Mutant of Verify: waits until the digest of the installed tree is right.
VerifyByPolling(s) ==
  /\ pc[s] = "verify" /\ files["applied"] = Confirmed[s]
  /\ Goto(s, "applied")
  /\ UNCHANGED <<origin, files, staging, keeps, moved, prior, raced, left>>

\* Mutant of Verify: the digest of the installed tree is not compared.
VerifyLoadableOnly(s) ==
  /\ pc[s] = "verify"
  /\ Goto(s, IF files["applied"] \in Contents THEN "applied" ELSE "recover")
  /\ UNCHANGED <<origin, files, staging, keeps, moved, prior, raced, left>>

\* SKILL.md present and manifest digest equal to the candidate digest.
Verify(s) ==
  /\ pc[s] = "verify"
  /\ Goto(s, IF files["applied"] = Confirmed[s] THEN "applied" ELSE "recover")
  /\ UNCHANGED <<origin, files, staging, keeps, moved, prior, raced, left>>

(***************************************************************************)
(* The recovery branch.                                                    *)
(***************************************************************************)

\* Mutant of RecoverRemove: the failed candidate is left in place.
RecoverKeepingCandidate(s) ==
  /\ pc[s] = "recover"
  /\ Goto(s, "restore")
  /\ UNCHANGED <<origin, files, staging, keeps, moved, prior, raced, left>>

RecoverRemove(s) ==
  /\ pc[s] = "recover"
  /\ IF Exists("applied")
     THEN Goto(s, "removing") /\ files' = [files EXCEPT !["applied"] = Partial]
     ELSE Goto(s, "restore") /\ UNCHANGED files
  /\ UNCHANGED <<origin, staging, keeps, moved, prior, raced, left>>

\* Mutant of FinishRecoverRemove: the clean-up takes the backup along.
FinishRecoverRemoveBoth(s) ==
  /\ pc[s] = "removing"
  /\ Goto(s, "restore")
  /\ files' = [files EXCEPT !["applied"] = NoTree, !["backup"] = NoTree]
  /\ UNCHANGED <<origin, staging, keeps, moved, prior, raced, left>>

FinishRecoverRemove(s) ==
  /\ pc[s] = "removing"
  /\ Goto(s, "restore")
  /\ files' = [files EXCEPT !["applied"] = NoTree]
  /\ UNCHANGED <<origin, staging, keeps, moved, prior, raced, left>>

\* Mutant of Restore: the recovery never moves the backup back.
RestoreNothing(s) ==
  /\ pc[s] = "restore"
  /\ Goto(s, "recovered")
  /\ UNCHANGED <<origin, files, staging, keeps, moved, prior, raced, left>>

\* os.replace(backup, applied) when this session moved a backup
Restore(s) ==
  /\ pc[s] = "restore"
  /\ IF moved[s] /\ keeps[s] /\ Exists("backup")
     THEN IF Exists("applied")
          THEN Goto(s, "unrecoverable") /\ UNCHANGED files
          ELSE /\ files' = [files EXCEPT !["applied"] = files["backup"],
                                         !["backup"] = NoTree]
               /\ Goto(s, "recovered")
     ELSE Goto(s, "recovered") /\ UNCHANGED files
  /\ UNCHANGED <<origin, staging, keeps, moved, prior, raced, left>>

(***************************************************************************)
(* What may go wrong: a file operation raises (a lock, an I/O error), the  *)
(* process is killed, someone edits a tree, the user runs apply again.     *)
(***************************************************************************)

\* Mutant of AfterException: no except clause around the try block.
PropagatedException(label) == "raised"

AfterException(label) ==
  CASE label \in Checking   -> "refused"
    [] label \in Publishing -> "recover"
    [] label \in Recovering -> "unrecoverable"

OperationFails(s) ==
  /\ pc[s] \in FaultyOps
  /\ Spend("fault")
  /\ Goto(s, AfterException(pc[s]))
  /\ UNCHANGED <<origin, files, staging, keeps, moved, prior, raced>>

Crash(s) ==
  /\ pc[s] \in Running
  /\ Spend("crash")
  /\ Goto(s, "crashed")
  /\ UNCHANGED <<origin, files, staging, keeps, moved, prior, raced>>

\* CLI apply reloads the outcome and runs confirm again: source and candidate
\* must still match, and apply_atomic starts with fresh locals.
Retry(s) ==
  /\ pc[s] \in Ended
  /\ Spend("retry")
  /\ SourceMatches(s) /\ CandidateMatches(s)
  /\ Goto(s, "candidate")
  /\ keeps' = [keeps EXCEPT ![s] = FALSE]
  /\ moved' = [moved EXCEPT ![s] = FALSE]
  /\ prior' = [prior EXCEPT ![s] = NoTree]
  /\ UNCHANGED <<origin, files, staging, raced>>

\* Somebody else changes the tree at the applied path or a separate source.
Edit(p, c) ==
  /\ Exists(p) /\ files[p] # c
  /\ Spend("edit")
  /\ files' = [files EXCEPT ![p] = c]
  /\ UNCHANGED <<origin, staging, pc, keeps, moved, prior, raced>>

Tamper(s, c) ==
  /\ staging[s] \notin {NoTree, c}
  /\ Spend("tamper")
  /\ staging' = [staging EXCEPT ![s] = c]
  /\ UNCHANGED <<origin, files, pc, keeps, moved, prior, raced>>

\* What the process running s does by itself.
Step(s) ==
  \/ CheckCandidate(s) \/ CheckSource(s) \/ PlanBackup(s)
  \/ ProbeApplied(s) \/ ClearBackup(s) \/ FinishClearBackup(s)
  \/ MoveAside(s) \/ Install(s) \/ Verify(s)
  \/ RecoverRemove(s) \/ FinishRecoverRemove(s) \/ Restore(s)

Next ==
  \/ \E s \in Sessions : Step(s) \/ OperationFails(s) \/ Crash(s) \/ Retry(s)
  \/ \E p \in {"applied", "elsewhere"}, c \in Contents : Edit(p, c)
  \/ \E s \in Sessions, c \in Contents : Tamper(s, c)

\* A running process keeps running: apply_atomic waits for nobody.
Fairness == \A s \in Sessions : WF_vars(Step(s))

Spec == Init /\ [][Next]_vars /\ Fairness

-----------------------------------------------------------------------------
(***************************************************************************)
(* Properties.                                                             *)
(***************************************************************************)

TypeOK ==
  /\ origin \in [Sessions -> {"applied", "elsewhere", "none"}]
  /\ files \in [Paths -> Trees]
  /\ staging \in [Sessions -> Trees]
  /\ pc \in [Sessions -> Running \cup Ended]
  /\ keeps \in [Sessions -> BOOLEAN]
  /\ moved \in [Sessions -> BOOLEAN]
  /\ prior \in [Sessions -> Trees]
  /\ raced \subseteq Sessions
  /\ left \in [Budgets -> Nat]

\* One session at most works in the directory.
Alone == \A r, s \in Sessions : r = s

Used(what) == Bound[what] - left[what]

\* From the moment a lone session has moved the old tree aside until its
\* recovery has put it back, that tree is intact in the backup: whatever
\* operation fails, whatever is edited or tampered with, wherever the process
\* is killed (lines 357-381 of workspace.py).
BackupKeepsPrior ==
  \A s \in Sessions :
    moved[s] /\ keeps[s] /\ pc[s] # "recovered" => files["backup"] = prior[s]

\* With several sessions the same holds while a session runs, as long as no
\* other one has overlapped with it; after it has ended a later apply may
\* rightly replace the one backup.
UnracedBackupKept ==
  \A s \in Sessions \ raced :
    moved[s] /\ keeps[s] /\ pc[s] \in Running => files["backup"] = prior[s]

\* A lone session that reports APPLY_FAILED_RECOVERED after it moved the old
\* tree aside has put exactly that tree back.
RestoresWhatItMoved ==
  [][\A s \in Sessions :
       /\ pc[s] # "recovered" /\ pc'[s] = "recovered"
       /\ moved[s] /\ keeps[s]
       => files'["applied"] = prior[s]]_vars

\* A candidate changed after its confirmation does not stay, as an intact tree,
\* at the applied path once a lone session has ended by itself: the digests read before and after
\* the move, and the recovery, catch the change wherever it falls.
NoUnconfirmedLeft ==
  /\ Used("edit") = 0
  /\ \A s \in Sessions : pc[s] \in {"refused", "applied", "recovered"}
  => files["applied"] \in {NoTree, Partial, Original} \cup {Confirmed[s] : s \in Sessions}

\* One mishap (a failing operation, an edit or a changed candidate) never
\* drives a lone session into APPLY_FAILED_UNRECOVERABLE.
OneMishapIsRecoverable ==
  Used("fault") + Used("edit") + Used("tamper") <= 1
  => \A s \in Sessions : pc[s] # "unrecoverable"

\* Of two repairs of one Skill, both reported APPLIED, one at least has overlapped
\* with another session: applies that run one after the other are kept apart by
\* the source digest alone, crashes and repeated calls included.
SerialAppliesConflict ==
  Used("edit") = 0 /\ (\A t \in Sessions : origin[t] = "applied") =>
  \A r, s \in Sessions :
    /\ r # s /\ pc[r] = "applied" /\ pc[s] = "applied"
    /\ Confirmed[r] # Original /\ Confirmed[s] # Original
    => r \in raced \/ s \in raced

\* A started apply ends: no step of it waits for another session.
ApplyTerminates == \A s \in Sessions : pc[s] \in Running ~> pc[s] \in Ended

\* workspace.py:404, "safe apply failed; original restored".
OriginalRestored ==
  \A s \in Sessions : pc[s] = "recovered" => files["applied"] = prior[s]

(***************************************************************************)
(* Refinement.  The version of record is the tree at the applied path, or, *)
(* while a lone in-place session is between moving it away and its end,    *)
(* the tree it moved; AtomicApply changes it in a single step.             *)
(***************************************************************************)

InFlight(s) == moved[s] /\ pc[s] \notin {"applied", "recovered"}

Version ==
  IF \E s \in Sessions : InFlight(s)
  THEN prior[CHOOSE s \in Sessions : InFlight(s)]
  ELSE files["applied"]

Verdict == [s \in Sessions |->
  IF pc[s] = "applied" THEN "applied" ELSE
  IF pc[s] \in Running THEN "pending" ELSE "failed"]

Atomic == INSTANCE AtomicApply WITH version <- Version, verdict <- Verdict

AtomicSpec == Atomic!Spec
=============================================================================
