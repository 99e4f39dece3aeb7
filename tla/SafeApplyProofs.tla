--------------------------- MODULE SafeApplyProofs ---------------------------
(***************************************************************************)
(* Theorems about SafeApply for every set of sessions, every content and   *)
(* every bound on the environment.                                         *)
(***************************************************************************)
EXTENDS SafeApply, TLAPS

USE DEF Goto, Exists, Budgets, Paths, Checking, Publishing, Recovering, Running, Ended

-----------------------------------------------------------------------------
(***************************************************************************)
(* Types.                                                                  *)
(***************************************************************************)

\* What the environment may do is only ever used up (Spend).
LEMMA SpendType ==
  ASSUME TypeOK, NEW b \in Budgets, Spend(b)
  PROVE  left' \in [Budgets -> Nat]
  BY DEF TypeOK, Spend

\* Every step of a session keeps the types.
LEMMA StepType ==
  ASSUME TypeOK, NEW s \in Sessions, Step(s)
  PROVE  TypeOK'
<1> USE DEF TypeOK, Trees
<1>1. CASE CheckCandidate(s)
  BY <1>1 DEF CheckCandidate
<1>2. CASE CheckSource(s)
  BY <1>2 DEF CheckSource
<1>3. CASE PlanBackup(s)
  BY <1>3 DEF PlanBackup
<1>4. CASE ProbeApplied(s)
  BY <1>4 DEF ProbeApplied
<1>5. CASE ClearBackup(s)
  BY <1>5 DEF ClearBackup
<1>6. CASE FinishClearBackup(s)
  BY <1>6 DEF FinishClearBackup
<1>7. CASE MoveAside(s)
  <2>1. BackupPath(s) \in Paths /\ files["applied"] \in Trees
    BY DEF BackupPath
  <2>2. files' \in [Paths -> Trees]
    BY <1>7, <2>1 DEF MoveAside
  <2>3. moved' \in [Sessions -> BOOLEAN] /\ prior' \in [Sessions -> Trees]
    BY <1>7, <2>1 DEF MoveAside
  <2> QED
    BY <1>7, <2>2, <2>3 DEF MoveAside
<1>8. CASE Install(s)
  BY <1>8 DEF Install
<1>9. CASE Verify(s)
  BY <1>9 DEF Verify
<1>10. CASE RecoverRemove(s)
  BY <1>10 DEF RecoverRemove
<1>11. CASE FinishRecoverRemove(s)
  BY <1>11 DEF FinishRecoverRemove
<1>12. CASE Restore(s)
  BY <1>12 DEF Restore
<1> QED
  BY <1>1, <1>2, <1>3, <1>4, <1>5, <1>6, <1>7, <1>8, <1>9, <1>10, <1>11, <1>12
  DEF Step

\* Every step of the environment keeps the types.
LEMMA EnvironmentType ==
  ASSUME TypeOK, NEW s \in Sessions,
         \/ OperationFails(s) \/ Crash(s) \/ Retry(s)
         \/ \E c \in Contents : Tamper(s, c)
  PROVE  TypeOK'
<1>1. CASE OperationFails(s)
  <2>1. left' \in [Budgets -> Nat]
    BY <1>1, SpendType DEF OperationFails
  <2>2. pc[s] \in Running
    BY <1>1, ConstantsOK DEF OperationFails
  <2>3. AfterException(pc[s]) \in Running \cup Ended
    BY <2>2 DEF AfterException
  <2> QED
    BY <1>1, <2>1, <2>3 DEF OperationFails, TypeOK
<1>2. CASE Crash(s)
  BY <1>2, SpendType DEF Crash, TypeOK
<1>3. CASE Retry(s)
  BY <1>3, SpendType DEF Retry, TypeOK, Trees
<1>4. CASE \E c \in Contents : Tamper(s, c)
  BY <1>4, SpendType DEF Tamper, TypeOK, Trees
<1> QED
  BY <1>1, <1>2, <1>3, <1>4

\* Every variable keeps its type (workspace.py apply_atomic and what may
\* interfere with it).
THEOREM TypeCorrect == Spec => []TypeOK
<1>1. Init => TypeOK
  BY ConstantsOK DEF Init, TypeOK, Trees
<1>2. TypeOK /\ [Next]_vars => TypeOK'
  <2> SUFFICES ASSUME TypeOK, [Next]_vars
               PROVE  TypeOK'
    OBVIOUS
  <2>1. CASE \E s \in Sessions : Step(s)
    BY <2>1, StepType
  <2>2. CASE \E s \in Sessions : OperationFails(s) \/ Crash(s) \/ Retry(s)
    BY <2>2, EnvironmentType
  <2>3. CASE \E s \in Sessions, c \in Contents : Tamper(s, c)
    BY <2>3, EnvironmentType
  <2>4. CASE \E p \in {"applied", "elsewhere"}, c \in Contents : Edit(p, c)
    BY <2>4, SpendType DEF Edit, TypeOK, Trees
  <2>5. CASE UNCHANGED vars
    BY <2>5 DEF vars, TypeOK
  <2> QED
    BY <2>1, <2>2, <2>3, <2>4, <2>5 DEF Next
<1> QED
  BY <1>1, <1>2, PTL DEF Spec

-----------------------------------------------------------------------------
(***************************************************************************)
(* The backup.  A session has moved_backup set only from the candidate's   *)
(* own move on, so it never clears the backup it made; and while a session *)
(* that nobody has overlapped with runs, nobody else touches the files.    *)
(***************************************************************************)

MovedLate ==
  \A s \in Sessions :
    moved[s] => pc[s] \in {"install", "verify"} \cup Recovering \cup Ended

UnracedAlone ==
  \A s \in Sessions \ raced :
    Active(s) => \A r \in Sessions \ {s} : ~Active(r)

BackupInv == TypeOK /\ MovedLate /\ UnracedAlone /\ UnracedBackupKept

\* A session's own step keeps where its moved_backup may be set.
LEMMA StepMovedLate ==
  ASSUME TypeOK, MovedLate, [Next]_vars
  PROVE  MovedLate'
<1> USE DEF TypeOK, MovedLate
<1>1. ASSUME NEW s \in Sessions, Step(s)
      PROVE  MovedLate'
  <2>1. CASE CheckCandidate(s) \/ CheckSource(s) \/ PlanBackup(s) \/ ProbeApplied(s)
             \/ ClearBackup(s) \/ FinishClearBackup(s)
    BY <2>1 DEF CheckCandidate, CheckSource, PlanBackup, ProbeApplied, ClearBackup,
                FinishClearBackup
  <2>2. CASE MoveAside(s) \/ Install(s) \/ Verify(s)
    BY <2>2 DEF MoveAside, Install, Verify
  <2>3. CASE RecoverRemove(s) \/ FinishRecoverRemove(s) \/ Restore(s)
    BY <2>3 DEF RecoverRemove, FinishRecoverRemove, Restore
  <2> QED
    BY <1>1, <2>1, <2>2, <2>3 DEF Step
<1>2. ASSUME NEW s \in Sessions, OperationFails(s) \/ Crash(s) \/ Retry(s)
      PROVE  MovedLate'
  <2>1. CASE OperationFails(s)
    BY <2>1, ConstantsOK DEF OperationFails, AfterException
  <2>2. CASE Crash(s) \/ Retry(s)
    BY <2>2 DEF Crash, Retry
  <2> QED
    BY <1>2, <2>1, <2>2
<1>3. CASE \E s \in Sessions, c \in Contents : Tamper(s, c)
  BY <1>3 DEF Tamper
<1>4. CASE \E p \in {"applied", "elsewhere"}, c \in Contents : Edit(p, c)
  BY <1>4 DEF Edit
<1>5. CASE UNCHANGED vars
  BY <1>5 DEF vars
<1> QED
  BY <1>1, <1>2, <1>3, <1>4, <1>5 DEF Next

\* Only CheckCandidate makes a session active, and it records the overlap.
LEMMA StepUnracedAlone ==
  ASSUME TypeOK, UnracedAlone, [Next]_vars
  PROVE  UnracedAlone'
<1> USE DEF TypeOK, UnracedAlone, Active
<1>1. ASSUME NEW s \in Sessions, CheckCandidate(s)
      PROVE  UnracedAlone'
  BY <1>1 DEF CheckCandidate
<1>2. ASSUME raced' = raced,
             \A r \in Sessions : Active(r)' => Active(r)
      PROVE  UnracedAlone'
  BY <1>2
<1>3. ASSUME NEW s \in Sessions, Step(s), ~CheckCandidate(s)
      PROVE  raced' = raced /\ \A r \in Sessions : Active(r)' => Active(r)
  BY <1>3 DEF Step, CheckSource, PlanBackup, ProbeApplied, ClearBackup, FinishClearBackup,
              MoveAside, Install, Verify, RecoverRemove, FinishRecoverRemove, Restore
<1>4. ASSUME NEW s \in Sessions, OperationFails(s) \/ Crash(s) \/ Retry(s)
      PROVE  raced' = raced /\ \A r \in Sessions : Active(r)' => Active(r)
  BY <1>4, ConstantsOK DEF OperationFails, Crash, Retry, AfterException
<1>5. CASE \E s \in Sessions, c \in Contents : Tamper(s, c)
  BY <1>5 DEF Tamper
<1>6. CASE \E p \in {"applied", "elsewhere"}, c \in Contents : Edit(p, c)
  BY <1>6 DEF Edit
<1>7. CASE UNCHANGED vars
  BY <1>7 DEF vars
<1> QED
  BY <1>1, <1>2, <1>3, <1>4, <1>5, <1>6, <1>7 DEF Next

\* What session s has moved aside and still answers for.
Keeping(s) == moved[s] /\ keeps[s]

\* A step of s itself, once it has moved the old tree aside, leaves the backup
\* alone unless it restores it; the step that moves it aside makes the backup.
LEMMA OwnStepKeepsBackup ==
  ASSUME TypeOK, MovedLate, NEW s \in Sessions,
         Step(s) \/ OperationFails(s) \/ Crash(s) \/ Retry(s),
         Keeping(s) => pc[s] = "recovered" \/ files["backup"] = prior[s]
  PROVE  Keeping(s)' => pc'[s] = "recovered" \/ files'["backup"] = prior'[s]
<1> USE DEF TypeOK, MovedLate, Keeping
<1>1. CASE CheckCandidate(s) \/ CheckSource(s) \/ PlanBackup(s) \/ ProbeApplied(s)
           \/ ClearBackup(s) \/ FinishClearBackup(s)
  BY <1>1 DEF CheckCandidate, CheckSource, PlanBackup, ProbeApplied, ClearBackup,
              FinishClearBackup
<1>2. CASE MoveAside(s)
  BY <1>2 DEF MoveAside, BackupPath
<1>3. CASE Install(s) \/ Verify(s)
  BY <1>3 DEF Install, Verify
<1>4. CASE RecoverRemove(s) \/ FinishRecoverRemove(s) \/ Restore(s)
  BY <1>4 DEF RecoverRemove, FinishRecoverRemove, Restore
<1>5. CASE OperationFails(s) \/ Crash(s) \/ Retry(s)
  BY <1>5, ConstantsOK DEF OperationFails, Crash, Retry
<1> QED
  BY <1>1, <1>2, <1>3, <1>4, <1>5 DEF Step

\* A step of another session that touches the backup is a step of an active one,
\* and leaves what s knows alone.
LEMMA OtherStepNeedsActive ==
  ASSUME TypeOK, NEW s \in Sessions, NEW r \in Sessions \ {s},
         Step(r) \/ OperationFails(r) \/ Crash(r) \/ Retry(r)
  PROVE  /\ <<pc[s], keeps[s], moved[s], prior[s]>>'
              = <<pc[s], keeps[s], moved[s], prior[s]>>
         /\ Active(r) \/ UNCHANGED files
<1> USE DEF TypeOK, Active
<1>1. CASE CheckCandidate(r) \/ CheckSource(r) \/ PlanBackup(r) \/ ProbeApplied(r)
           \/ ClearBackup(r) \/ FinishClearBackup(r)
  BY <1>1 DEF CheckCandidate, CheckSource, PlanBackup, ProbeApplied, ClearBackup,
              FinishClearBackup
<1>2. CASE MoveAside(r) \/ Install(r) \/ Verify(r)
  BY <1>2 DEF MoveAside, Install, Verify
<1>3. CASE RecoverRemove(r) \/ FinishRecoverRemove(r) \/ Restore(r)
  BY <1>3 DEF RecoverRemove, FinishRecoverRemove, Restore
<1>4. CASE OperationFails(r) \/ Crash(r) \/ Retry(r)
  BY <1>4 DEF OperationFails, Crash, Retry
<1> QED
  BY <1>1, <1>2, <1>3, <1>4 DEF Step

\* Editors and tampering do not reach the backup.
LEMMA OutsideStepKeepsBackup ==
  ASSUME TypeOK,
         \/ \E s \in Sessions, c \in Contents : Tamper(s, c)
         \/ \E p \in {"applied", "elsewhere"}, c \in Contents : Edit(p, c)
         \/ UNCHANGED vars
  PROVE  /\ UNCHANGED <<pc, keeps, moved, prior, raced>>
         /\ files'["backup"] = files["backup"]
<1>1. CASE \E s \in Sessions, c \in Contents : Tamper(s, c)
  BY <1>1 DEF Tamper
<1>2. CASE \E p \in {"applied", "elsewhere"}, c \in Contents : Edit(p, c)
  BY <1>2 DEF Edit, TypeOK
<1>3. CASE UNCHANGED vars
  BY <1>3 DEF vars
<1> QED
  BY <1>1, <1>2, <1>3

\* The overlap record only grows.
LEMMA RacedGrows ==
  ASSUME [Next]_vars
  PROVE  raced \subseteq raced'
<1>1. ASSUME NEW s \in Sessions, Step(s)
      PROVE  raced \subseteq raced'
  BY <1>1 DEF Step, CheckCandidate, CheckSource, PlanBackup, ProbeApplied, ClearBackup,
              FinishClearBackup, MoveAside, Install, Verify, RecoverRemove,
              FinishRecoverRemove, Restore
<1> QED
  BY <1>1 DEF Next, OperationFails, Crash, Retry, Edit, Tamper, vars

LEMMA StepUnracedBackup ==
  ASSUME BackupInv, [Next]_vars
  PROVE  UnracedBackupKept'
<1> SUFFICES ASSUME NEW s \in Sessions, s \notin raced',
                    moved'[s], keeps'[s], pc'[s] \in Running
             PROVE  files'["backup"] = prior'[s]
  BY DEF UnracedBackupKept
<1>1. s \notin raced
  BY RacedGrows
<1>2. moved[s] /\ keeps[s] /\ pc[s] \in Running => files["backup"] = prior[s]
  BY <1>1 DEF BackupInv, UnracedBackupKept
<1>3. CASE Step(s) \/ OperationFails(s) \/ Crash(s) \/ Retry(s)
  <2>1. CASE Retry(s)
    BY <2>1 DEF Retry, BackupInv, TypeOK
  <2>2. CASE pc[s] \in Running
    BY <1>2, <1>3, <2>2, OwnStepKeepsBackup DEF BackupInv, Keeping
  <2>3. CASE pc[s] \in Ended /\ ~Retry(s)
    BY <1>3, <2>3, ConstantsOK
    DEF Step, CheckCandidate, CheckSource, PlanBackup, ProbeApplied, ClearBackup,
        FinishClearBackup, MoveAside, Install, Verify, RecoverRemove,
        FinishRecoverRemove, Restore, OperationFails, Crash
  <2> QED
    BY <2>1, <2>2, <2>3 DEF BackupInv, TypeOK
<1>4. ASSUME NEW r \in Sessions \ {s},
             Step(r) \/ OperationFails(r) \/ Crash(r) \/ Retry(r)
      PROVE  files'["backup"] = prior'[s]
  <2>1. /\ pc'[s] = pc[s] /\ keeps'[s] = keeps[s]
        /\ moved'[s] = moved[s] /\ prior'[s] = prior[s]
        /\ Active(r) \/ UNCHANGED files
    BY <1>4, OtherStepNeedsActive DEF BackupInv
  <2>2. Active(s)
    BY <2>1 DEF BackupInv, MovedLate, Active
  <2>3. ~Active(r)
    BY <1>1, <2>2 DEF BackupInv, UnracedAlone
  <2> QED
    BY <1>2, <2>1, <2>3
<1>5. CASE \/ \E r \in Sessions, c \in Contents : Tamper(r, c)
           \/ \E p \in {"applied", "elsewhere"}, c \in Contents : Edit(p, c)
           \/ UNCHANGED vars
  BY <1>2, <1>5, OutsideStepKeepsBackup DEF BackupInv
<1> QED
  BY <1>3, <1>4, <1>5 DEF Next

\* While a session runs that no other has overlapped with, the tree it moved
\* aside is intact in the backup, for every number of sessions and every
\* schedule of failures, crashes and edits (workspace.py:352-381).
THEOREM UnracedBackup == Spec => []UnracedBackupKept
<1>1. Init => BackupInv
  BY ConstantsOK DEF Init, BackupInv, TypeOK, Trees, MovedLate, UnracedAlone, Active,
                     UnracedBackupKept
<1>2. BackupInv /\ [Next]_vars /\ TypeOK' => BackupInv'
  BY StepMovedLate, StepUnracedAlone, StepUnracedBackup DEF BackupInv
<1>3. BackupInv => UnracedBackupKept
  BY DEF BackupInv
<1> QED
  BY <1>1, <1>2, <1>3, TypeCorrect, PTL DEF Spec

LEMMA StepLoneBackup ==
  ASSUME Alone, TypeOK, MovedLate, BackupKeepsPrior, [Next]_vars
  PROVE  BackupKeepsPrior'
<1> SUFFICES ASSUME NEW s \in Sessions, moved'[s], keeps'[s], pc'[s] # "recovered"
             PROVE  files'["backup"] = prior'[s]
  BY DEF BackupKeepsPrior
<1>1. Keeping(s) => pc[s] = "recovered" \/ files["backup"] = prior[s]
  BY DEF BackupKeepsPrior, Keeping
<1>2. CASE Step(s) \/ OperationFails(s) \/ Crash(s) \/ Retry(s)
  BY <1>1, <1>2, OwnStepKeepsBackup DEF Keeping
<1>3. CASE \/ \E r \in Sessions, c \in Contents : Tamper(r, c)
           \/ \E p \in {"applied", "elsewhere"}, c \in Contents : Edit(p, c)
           \/ UNCHANGED vars
  BY <1>1, <1>3, OutsideStepKeepsBackup DEF Keeping
<1> QED
  BY <1>2, <1>3 DEF Next, Alone

\* From the move aside on, a lone session never loses the tree it replaced: it
\* is in the backup until the recovery has put it back, a crash at any point
\* and any later refused retry included (workspace.py:357-381).
THEOREM LoneBackup == Alone => (Spec => []BackupKeepsPrior)
<1> SUFFICES ASSUME Alone
             PROVE  Spec => []BackupKeepsPrior
  OBVIOUS
<1>1. Init => MovedLate /\ BackupKeepsPrior
  BY DEF Init, MovedLate, BackupKeepsPrior
<1>2. TypeOK /\ MovedLate /\ BackupKeepsPrior /\ [Next]_vars
      => (MovedLate /\ BackupKeepsPrior)'
  BY StepMovedLate, StepLoneBackup
<1> QED
  BY <1>1, <1>2, TypeCorrect, PTL DEF Spec

\* What a session has moved aside was a tree.
MovedATree == \A s \in Sessions : moved[s] => prior[s] # NoTree

LEMMA StepMovedATree ==
  ASSUME TypeOK, MovedLate, MovedATree, [Next]_vars
  PROVE  MovedATree'
<1> USE DEF TypeOK, MovedLate, MovedATree
<1>1. ASSUME NEW s \in Sessions, Step(s)
      PROVE  MovedATree'
  <2>1. CASE PlanBackup(s)
    BY <2>1 DEF PlanBackup
  <2>2. CASE MoveAside(s)
    BY <2>2 DEF MoveAside
  <2>3. CASE UNCHANGED <<moved, prior>>
    BY <2>3
  <2> QED
    BY <1>1, <2>1, <2>2, <2>3
    DEF Step, CheckCandidate, CheckSource, ProbeApplied, ClearBackup, FinishClearBackup,
        Install, Verify, RecoverRemove, FinishRecoverRemove, Restore
<1>2. ASSUME NEW s \in Sessions, OperationFails(s) \/ Crash(s) \/ Retry(s)
      PROVE  MovedATree'
  BY <1>2 DEF OperationFails, Crash, Retry
<1>3. CASE UNCHANGED <<moved, prior>>
  BY <1>3
<1> QED
  BY <1>1, <1>2, <1>3 DEF Next, Tamper, Edit, vars

\* When a lone session reports APPLY_FAILED_RECOVERED after it had moved the
\* old tree aside, exactly that tree is back (workspace.py:376-404).
THEOREM LoneRestore == Alone => (Spec => RestoresWhatItMoved)
<1> SUFFICES ASSUME Alone
             PROVE  Spec => RestoresWhatItMoved
  OBVIOUS
<1>1. Init => MovedLate /\ MovedATree
  BY DEF Init, MovedLate, MovedATree
<1>2. TypeOK /\ MovedLate /\ MovedATree /\ [Next]_vars => (MovedLate /\ MovedATree)'
  BY StepMovedLate, StepMovedATree
<1>3. TypeOK /\ BackupKeepsPrior /\ MovedATree /\ [Next]_vars
      => [\A s \in Sessions :
            /\ pc[s] # "recovered" /\ pc'[s] = "recovered"
            /\ moved[s] /\ keeps[s]
            => files'["applied"] = prior[s]]_vars
  <2> SUFFICES ASSUME TypeOK, BackupKeepsPrior, MovedATree, Next, NEW s \in Sessions,
                      pc[s] # "recovered", pc'[s] = "recovered", moved[s], keeps[s]
               PROVE  files'["applied"] = prior[s]
    OBVIOUS
  <2>1. files["backup"] = prior[s] /\ prior[s] # NoTree
    BY DEF BackupKeepsPrior, MovedATree
  <2>2. CASE Restore(s)
    BY <2>1, <2>2 DEF Restore, TypeOK
  <2>3. ASSUME Step(s)
        PROVE  Restore(s)
    BY <2>3 DEF Step, CheckCandidate, CheckSource, PlanBackup, ProbeApplied, ClearBackup,
                FinishClearBackup, MoveAside, Install, Verify, RecoverRemove,
                FinishRecoverRemove, TypeOK
  <2>4. ~(OperationFails(s) \/ Crash(s) \/ Retry(s))
    BY ConstantsOK DEF OperationFails, AfterException, Crash, Retry, TypeOK
  <2>5. ASSUME NEW r \in Sessions, NEW c \in Contents
        PROVE  ~Tamper(r, c) /\ \A p \in {"applied", "elsewhere"} : ~Edit(p, c)
    BY DEF Tamper, Edit
  <2> QED
    BY <2>2, <2>3, <2>4, <2>5 DEF Next, Alone
<1> QED
  BY <1>1, <1>2, <1>3, TypeCorrect, LoneBackup, PTL DEF Spec, RestoresWhatItMoved

-----------------------------------------------------------------------------
(***************************************************************************)
(* A lone session.  What it found at the applied path cannot appear or      *)
(* vanish behind its back (an edit changes a tree, it makes none), so none  *)
(* of its moves fails by itself: whatever goes wrong is a mishap that has   *)
(* been counted, and the candidate it moves in is the one it has checked.  *)
(***************************************************************************)

BoundKept == \A b \in Budgets : left[b] <= Bound[b]

LEMMA SpendCounts ==
  ASSUME TypeOK, BoundKept, NEW b \in Budgets, Spend(b)
  PROVE  BoundKept' /\ Used(b)' = Used(b) + 1 /\ \A x \in Budgets \ {b} : Used(x)' = Used(x)
<1>1. \A x \in Budgets : left[x] \in Nat /\ Bound[x] \in Nat
  BY ConstantsOK DEF TypeOK
<1>2. left'[b] = left[b] - 1 /\ \A x \in Budgets \ {b} : left'[x] = left[x]
  BY DEF Spend, TypeOK
<1> QED
  BY <1>1, <1>2 DEF BoundKept, Used

LEMMA UsedType ==
  ASSUME TypeOK, BoundKept
  PROVE  \A b \in Budgets : Used(b) \in Nat
BY ConstantsOK DEF TypeOK, BoundKept, Used

LEMMA UsedSame ==
  ASSUME UNCHANGED left
  PROVE  (BoundKept' <=> BoundKept) /\ \A b \in Budgets : Used(b)' = Used(b)
BY DEF BoundKept, Used

\* Which budget a step draws on.
LEMMA StepSpends ==
  ASSUME [Next]_vars
  PROVE  \/ UNCHANGED left /\ \/ \E s \in Sessions : Step(s)
                              \/ UNCHANGED vars
         \/ Spend("fault") /\ \E s \in Sessions : OperationFails(s)
         \/ Spend("crash") /\ \E s \in Sessions : Crash(s)
         \/ Spend("retry") /\ \E s \in Sessions : Retry(s)
         \/ Spend("edit") /\ \E p \in {"applied", "elsewhere"}, c \in Contents : Edit(p, c)
         \/ Spend("tamper") /\ \E s \in Sessions, c \in Contents : Tamper(s, c)
<1>1. \A s \in Sessions : Step(s) => UNCHANGED left
  BY DEF Step, CheckCandidate, CheckSource, PlanBackup, ProbeApplied, ClearBackup,
         FinishClearBackup, MoveAside, Install, Verify, RecoverRemove,
         FinishRecoverRemove, Restore
<1> QED
  BY <1>1 DEF Next, OperationFails, Crash, Retry, Edit, Tamper, vars

LEMMA BoundKeptAlways == Spec => []BoundKept
<1>1. Init => BoundKept
  BY ConstantsOK DEF Init, BoundKept
<1>2. TypeOK /\ BoundKept /\ [Next]_vars => BoundKept'
  BY StepSpends, SpendCounts, UsedSame
<1> QED
  BY <1>1, <1>2, TypeCorrect, PTL DEF Spec

LoneState(s) ==
  /\ pc[s] = "probe" => keeps[s] = Exists("applied")
  /\ pc[s] \in {"clear", "clearing", "aside"} => keeps[s] /\ Exists("applied")
  /\ pc[s] = "aside" => ~Exists("backup")
  /\ pc[s] \in {"install", "restore"} => ~Exists("applied")
  /\ pc[s] \in {"source", "plan", "probe", "clear", "clearing", "aside", "install"}
       => staging[s] # NoTree

LoneStates == \A s \in Sessions : LoneState(s)

LEMMA StepLoneState ==
  ASSUME Alone, TypeOK, LoneStates, [Next]_vars
  PROVE  LoneStates'
<1> SUFFICES ASSUME NEW s \in Sessions
             PROVE  LoneState(s)'
  BY DEF LoneStates
<1> USE DEF TypeOK, LoneState
<1>1. LoneState(s) /\ Confirmed[s] # NoTree /\ Partial # NoTree
      /\ \A c \in Contents : c # NoTree
  BY ConstantsOK DEF LoneStates
<1>2. CASE CheckCandidate(s) \/ CheckSource(s) \/ PlanBackup(s) \/ ProbeApplied(s)
  BY <1>1, <1>2 DEF CheckCandidate, CandidateMatches, CheckSource, PlanBackup, ProbeApplied
<1>3. CASE ClearBackup(s) \/ FinishClearBackup(s)
  BY <1>1, <1>3 DEF ClearBackup, FinishClearBackup
<1>4. CASE MoveAside(s)
  BY <1>1, <1>4 DEF MoveAside, BackupPath
<1>5. CASE Install(s) \/ Verify(s)
  BY <1>1, <1>5 DEF Install, Verify
<1>6. CASE RecoverRemove(s) \/ FinishRecoverRemove(s) \/ Restore(s)
  BY <1>1, <1>6 DEF RecoverRemove, FinishRecoverRemove, Restore
<1>7. CASE OperationFails(s) \/ Crash(s) \/ Retry(s)
  BY <1>1, <1>7, ConstantsOK DEF OperationFails, AfterException, Crash, Retry
<1>8. CASE \E c \in Contents : Tamper(s, c)
  BY <1>1, <1>8 DEF Tamper
<1>9. CASE \E p \in {"applied", "elsewhere"}, c \in Contents : Edit(p, c)
  BY <1>1, <1>9 DEF Edit
<1>10. CASE UNCHANGED vars
  BY <1>1, <1>10 DEF vars
<1> QED
  BY <1>2, <1>3, <1>4, <1>5, <1>6, <1>7, <1>8, <1>9, <1>10 DEF Next, Step, Alone

LEMMA LoneStateAlways == Alone => (Spec => []LoneStates)
<1> SUFFICES ASSUME Alone
             PROVE  Spec => []LoneStates
  OBVIOUS
<1>1. Init => LoneStates
  BY DEF Init, LoneStates, LoneState
<1>2. TypeOK /\ LoneStates /\ [Next]_vars => LoneStates'
  BY StepLoneState
<1> QED
  BY <1>1, <1>2, TypeCorrect, PTL DEF Spec

Mishaps == Used("fault") + Used("edit") + Used("tamper")

\* Until something goes wrong the candidate stays the confirmed one; a recovery
\* has had its mishap, and one that cannot go on has had another.
MishapState(s) ==
  /\ Mishaps = 0 =>
       /\ pc[s] \in {"source", "plan", "probe", "clear", "clearing", "aside", "install"}
            => staging[s] = Confirmed[s]
       /\ pc[s] = "verify" => files["applied"] = Confirmed[s]
  /\ pc[s] \in Recovering => Mishaps >= 1
  /\ pc[s] = "unrecoverable" => Mishaps >= 2

MishapStates == \A s \in Sessions : MishapState(s)

LEMMA StepMishapState ==
  ASSUME Alone, TypeOK, BoundKept, LoneStates, MishapStates, [Next]_vars
  PROVE  MishapStates'
<1> SUFFICES ASSUME NEW s \in Sessions
             PROVE  MishapState(s)'
  BY DEF MishapStates
<1>1. MishapState(s) /\ LoneState(s) /\ Mishaps \in Nat
  BY UsedType DEF MishapStates, LoneStates, Mishaps
<1>2. ASSUME Spend("fault") \/ Spend("edit") \/ Spend("tamper")
      PROVE  Mishaps' = Mishaps + 1
  BY <1>2, SpendCounts, UsedType DEF Mishaps
<1>3. ASSUME UNCHANGED left \/ Spend("crash") \/ Spend("retry")
      PROVE  Mishaps' = Mishaps
  BY <1>3, SpendCounts, UsedSame DEF Mishaps
<1>4. ASSUME Step(s), UNCHANGED left
      PROVE  MishapState(s)'
  <2>1. Mishaps' = Mishaps
    BY <1>3, <1>4
  <2> HIDE DEF Mishaps
  <2> USE <1>1, <2>1 DEF TypeOK, MishapState, LoneState
  <2>2. CASE CheckCandidate(s) \/ CheckSource(s) \/ PlanBackup(s) \/ ProbeApplied(s)
             \/ ClearBackup(s) \/ FinishClearBackup(s)
    BY <2>2 DEF CheckCandidate, CandidateMatches, CheckSource, PlanBackup, ProbeApplied,
                ClearBackup, FinishClearBackup
  <2>3. CASE MoveAside(s)
    BY <2>3 DEF MoveAside, BackupPath
  <2>4. CASE Install(s)
    BY <2>4 DEF Install
  <2>5. CASE Verify(s)
    BY <2>5 DEF Verify
  <2>6. CASE RecoverRemove(s) \/ FinishRecoverRemove(s) \/ Restore(s)
    BY <2>6 DEF RecoverRemove, FinishRecoverRemove, Restore
  <2> QED
    BY <1>4, <2>2, <2>3, <2>4, <2>5, <2>6 DEF Step
<1>5. CASE OperationFails(s)
  <2>1. Mishaps' = Mishaps + 1
    BY <1>2, <1>5 DEF OperationFails
  <2> HIDE DEF Mishaps
  <2>2. pc'[s] = AfterException(pc[s]) /\ pc[s] \in Running
    BY <1>5, ConstantsOK DEF OperationFails, TypeOK
  <2>3. pc'[s] = "unrecoverable" => pc[s] \in Recovering
    BY <2>2 DEF AfterException
  <2> QED
    BY <1>1, <2>1, <2>2, <2>3 DEF MishapState
<1>6. CASE Crash(s) \/ Retry(s)
  <2>1. Mishaps' = Mishaps
    BY <1>3, <1>6 DEF Crash, Retry
  <2> QED
    BY <1>1, <1>6, <2>1 DEF Crash, Retry, MishapState, TypeOK
<1>7. CASE \/ \E c \in Contents : Tamper(s, c)
           \/ \E p \in {"applied", "elsewhere"}, c \in Contents : Edit(p, c)
  <2>1. Mishaps' = Mishaps + 1 /\ UNCHANGED pc
    BY <1>2, <1>7 DEF Tamper, Edit
  <2> QED
    BY <1>1, <2>1 DEF MishapState
<1>8. CASE UNCHANGED vars
  <2>1. Mishaps' = Mishaps /\ UNCHANGED <<pc, staging, files>>
    BY <1>3, <1>8 DEF vars
  <2> QED
    BY <1>1, <2>1 DEF MishapState
<1> QED
  BY <1>4, <1>5, <1>6, <1>7, <1>8, StepSpends DEF Alone

\* One mishap, wherever it falls, leaves a lone session a way back: no call of
\* apply ends in APPLY_FAILED_UNRECOVERABLE (workspace.py:374-404).
THEOREM LoneMishap == Alone => (Spec => []OneMishapIsRecoverable)
<1> SUFFICES ASSUME Alone
             PROVE  Spec => []OneMishapIsRecoverable
  OBVIOUS
<1>1. Init => MishapStates
  <2> SUFFICES ASSUME Init, NEW s \in Sessions
               PROVE  MishapState(s)
    BY DEF MishapStates
  <2>1. pc[s] = "candidate"
    BY DEF Init
  <2> QED
    BY <2>1 DEF MishapState
<1>2. TypeOK /\ BoundKept /\ LoneStates /\ MishapStates /\ [Next]_vars => MishapStates'
  BY StepMishapState
<1>3. TypeOK /\ BoundKept /\ MishapStates => OneMishapIsRecoverable
  <2> SUFFICES ASSUME TypeOK, BoundKept, MishapStates, Mishaps <= 1, NEW s \in Sessions
               PROVE  pc[s] # "unrecoverable"
    BY DEF OneMishapIsRecoverable, Mishaps
  <2>1. Mishaps \in Nat
    BY UsedType DEF Mishaps
  <2> QED
    BY <2>1 DEF MishapStates, MishapState
<1> QED
  BY <1>1, <1>2, <1>3, TypeCorrect, BoundKeptAlways, LoneStateAlways, PTL DEF Spec

-----------------------------------------------------------------------------
(***************************************************************************)
(* What a lone session leaves behind.  A tree nobody confirmed reaches the  *)
(* applied path only with the session's own move, which empties the staging *)
(* directory: no later call gets past its check of the candidate, and this  *)
(* one does not end before it has looked at what it moved.                 *)
(***************************************************************************)

\* What may stand at the applied path when nobody has edited it.
Expected == {NoTree, Partial, Original} \cup {Confirmed[s] : s \in Sessions}

LeavesExpected ==
  Used("edit") = 0 =>
    /\ \/ files["applied"] \in Expected
       \/ \E s \in Sessions : /\ staging[s] = NoTree
                              /\ pc[s] \in {"verify", "recover", "crashed", "unrecoverable"}
    /\ \A s \in Sessions : moved[s] => prior[s] \in Expected

LEMMA StepLeavesExpected ==
  ASSUME Alone, TypeOK, BoundKept, LoneStates, BackupKeepsPrior, LeavesExpected, [Next]_vars
  PROVE  LeavesExpected'
<1> DEFINE Unchecked == {"verify", "recover", "crashed", "unrecoverable"}
<1>1. CASE Spend("edit")
  <2>1. Used("edit")' # 0
    BY <1>1, SpendCounts, UsedType
  <2> QED
    BY <2>1 DEF LeavesExpected
<1>2. CASE ~Spend("edit")
  <2>1. Used("edit")' = Used("edit")
    BY <1>2, StepSpends, SpendCounts, UsedSame
  <2> SUFFICES ASSUME Used("edit") = 0
               PROVE  /\ \/ files'["applied"] \in Expected
                         \/ \E s \in Sessions : staging'[s] = NoTree /\ pc'[s] \in Unchecked
                      /\ \A s \in Sessions : moved'[s] => prior'[s] \in Expected
    BY <2>1 DEF LeavesExpected, Expected
  <2>2. /\ \/ files["applied"] \in Expected
           \/ \E s \in Sessions : staging[s] = NoTree /\ pc[s] \in Unchecked
        /\ \A s \in Sessions : moved[s] => prior[s] \in Expected
    BY DEF LeavesExpected
  <2>3. ASSUME NEW s \in Sessions, Step(s) \/ OperationFails(s) \/ Crash(s) \/ Retry(s)
                                   \/ \E c \in Contents : Tamper(s, c)
        PROVE  /\ \/ files'["applied"] \in Expected
                  \/ staging'[s] = NoTree /\ pc'[s] \in Unchecked
               /\ moved'[s] => prior'[s] \in Expected
    <3>1. /\ \/ files["applied"] \in Expected
             \/ staging[s] = NoTree /\ pc[s] \in Unchecked
          /\ moved[s] => prior[s] \in Expected
          /\ {NoTree, Partial, Original, Confirmed[s]} \subseteq Expected
          /\ Confirmed[s] # NoTree
      BY <2>2, ConstantsOK DEF Alone, Expected
    <3> HIDE DEF Expected
    <3> USE <3>1 DEF TypeOK
    <3>2. CASE CheckCandidate(s) \/ CheckSource(s) \/ PlanBackup(s) \/ ProbeApplied(s)
      BY <3>2 DEF CheckCandidate, CheckSource, PlanBackup, ProbeApplied, LoneStates, LoneState
    <3>3. CASE ClearBackup(s) \/ FinishClearBackup(s)
      BY <3>3 DEF ClearBackup, FinishClearBackup
    <3>4. CASE MoveAside(s)
      BY <3>4 DEF MoveAside, BackupPath
    <3>5. CASE Install(s) \/ Verify(s)
      BY <3>5 DEF Install, Verify
    <3>6. CASE RecoverRemove(s) \/ FinishRecoverRemove(s)
      BY <3>6 DEF RecoverRemove, FinishRecoverRemove
    <3>7. CASE Restore(s)
      BY <3>7 DEF Restore, BackupKeepsPrior
    <3>8. CASE OperationFails(s)
      BY <3>8, ConstantsOK DEF OperationFails, AfterException
    <3>9. CASE Crash(s) \/ Retry(s)
      BY <3>9 DEF Crash, Retry, CandidateMatches
    <3>10. CASE \E c \in Contents : Tamper(s, c)
      BY <3>10 DEF Tamper
    <3> QED
      BY <2>3, <3>2, <3>3, <3>4, <3>5, <3>6, <3>7, <3>8, <3>9, <3>10 DEF Step
  <2>4. CASE UNCHANGED vars
    BY <2>2, <2>4 DEF vars
  <2> QED
    BY <1>2, <2>3, <2>4 DEF Next, Alone, Edit
<1> QED
  BY <1>1, <1>2

\* A candidate changed after its confirmation never stays as an intact tree where a
\* lone session reports an end of its own (workspace.py apply_atomic).
THEOREM LoneLeavesConfirmed == Alone => (Spec => []NoUnconfirmedLeft)
<1> SUFFICES ASSUME Alone
             PROVE  Spec => []NoUnconfirmedLeft
  OBVIOUS
<1>1. Init => LeavesExpected
  BY DEF Init, LeavesExpected, Expected
<1>2. TypeOK /\ BoundKept /\ LoneStates /\ BackupKeepsPrior /\ LeavesExpected /\ [Next]_vars
      => LeavesExpected'
  BY StepLeavesExpected
<1>3. LeavesExpected => NoUnconfirmedLeft
  BY DEF LeavesExpected, NoUnconfirmedLeft, Expected
<1> QED
  BY <1>1, <1>2, <1>3, TypeCorrect, BoundKeptAlways, LoneStateAlways, LoneBackup, PTL DEF Spec

-----------------------------------------------------------------------------
(***************************************************************************)
(* Applies that run one after the other.  While a session that nobody has   *)
(* overlapped with is APPLIED over Original, its candidate stands at the    *)
(* applied path and no other repair of the same Skill gets past its check.  *)
(***************************************************************************)

Serial == Used("edit") = 0 /\ \A t \in Sessions : origin[t] = "applied"

\* s has installed something new, with nobody else at work.
AppliedAlone(s) == s \notin raced /\ pc[s] = "applied" /\ Confirmed[s] # Original

AppliedStays ==
  Serial => \A s \in Sessions : AppliedAlone(s) =>
    /\ files["applied"] = Confirmed[s]
    /\ \A r \in Sessions \ {s} :
         pc[r] \in {"candidate", "source"} \cup Ended /\ ~AppliedAlone(r)

LEMMA OriginFixed ==
  ASSUME [Next]_vars
  PROVE  UNCHANGED origin
<1>1. \A s \in Sessions : Step(s) => UNCHANGED origin
  BY DEF Step, CheckCandidate, CheckSource, PlanBackup, ProbeApplied, ClearBackup,
         FinishClearBackup, MoveAside, Install, Verify, RecoverRemove,
         FinishRecoverRemove, Restore
<1> QED
  BY <1>1 DEF Next, OperationFails, Crash, Retry, Edit, Tamper, vars

LEMMA StepAppliedStays ==
  ASSUME TypeOK, BoundKept, UnracedAlone, AppliedStays, [Next]_vars
  PROVE  AppliedStays'
<1> SUFFICES ASSUME Serial', NEW s \in Sessions, AppliedAlone(s)'
             PROVE  /\ files'["applied"] = Confirmed[s]
                    /\ \A r \in Sessions \ {s} :
                         pc'[r] \in {"candidate", "source"} \cup Ended /\ ~AppliedAlone(r)'
  BY DEF AppliedStays
<1>1. Serial /\ ~Spend("edit")
  BY OriginFixed, StepSpends, SpendCounts, UsedSame, UsedType DEF Serial
<1>2. s \notin raced /\ s \notin raced' /\ pc'[s] = "applied" /\ Confirmed[s] # Original
      /\ raced \subseteq raced'
  BY RacedGrows DEF AppliedAlone
<1>3. CASE pc[s] = "applied"
  <2>1. /\ files["applied"] = Confirmed[s]
        /\ \A r \in Sessions \ {s} :
             pc[r] \in {"candidate", "source"} \cup Ended /\ ~AppliedAlone(r)
    BY <1>1, <1>2, <1>3 DEF AppliedStays, AppliedAlone
  <2>2. \A r \in Sessions : ~SourceMatches(r) /\ pc[r] \in {"candidate", "source"} \cup Ended
    BY <1>1, <1>2, <1>3, <2>1 DEF Serial, SourceMatches
  <2>3. ASSUME NEW r \in Sessions, Step(r)
        PROVE  CheckCandidate(r) \/ CheckSource(r)
    BY <2>2, <2>3 DEF Step, PlanBackup, ProbeApplied, ClearBackup, FinishClearBackup,
       MoveAside, Install, Verify, RecoverRemove, FinishRecoverRemove, Restore
  <2>4. ASSUME NEW r \in Sessions, CheckCandidate(r) \/ CheckSource(r)
        PROVE  UNCHANGED files /\ \E end \in {"source", "refused"} : pc' = [pc EXCEPT ![r] = end]
    BY <2>2, <2>4 DEF CheckCandidate, CheckSource
  <2>5. ASSUME NEW r \in Sessions, OperationFails(r) \/ Crash(r)
        PROVE  UNCHANGED files /\ \E end \in {"refused", "crashed"} : pc' = [pc EXCEPT ![r] = end]
    <3>1. pc[r] \in Running
      BY <2>5, ConstantsOK DEF OperationFails, Crash
    <3> QED
      BY <2>2, <2>5, <3>1 DEF OperationFails, AfterException, Crash
  <2>6. \A r \in Sessions : ~Retry(r)
    BY <2>2 DEF Retry
  <2>7. ASSUME UNCHANGED files,
               UNCHANGED pc \/ \E r \in Sessions, end \in {"source", "refused", "crashed"} :
                                pc' = [pc EXCEPT ![r] = end]
        PROVE  /\ files'["applied"] = Confirmed[s]
               /\ \A r \in Sessions \ {s} :
                    pc'[r] \in {"candidate", "source"} \cup Ended /\ ~AppliedAlone(r)'
    BY <1>2, <2>1, <2>7 DEF AppliedAlone, TypeOK
  <2>8. CASE \E r \in Sessions, c \in Contents : Tamper(r, c)
    BY <2>7, <2>8 DEF Tamper
  <2>9. CASE UNCHANGED vars
    BY <2>7, <2>9 DEF vars
  <2> QED
    BY <1>1, <2>3, <2>4, <2>5, <2>6, <2>7, <2>8, <2>9 DEF Next, Edit
<1>4. CASE pc[s] # "applied"
  <2>1. ASSUME NEW r \in Sessions, Step(r) \/ OperationFails(r) \/ Crash(r) \/ Retry(r)
        PROVE  r = s
    BY <1>2, <1>4, <2>1, OtherStepNeedsActive
  <2>2. ASSUME OperationFails(s) \/ Crash(s) \/ Retry(s)
        PROVE  FALSE
    BY <1>2, <2>2, ConstantsOK DEF OperationFails, AfterException, Crash, Retry, TypeOK
  <2>3. ASSUME Step(s)
        PROVE  Verify(s)
    BY <1>2, <1>4, <2>3
    DEF Step, CheckCandidate, CheckSource, PlanBackup, ProbeApplied, ClearBackup,
        FinishClearBackup, MoveAside, Install, RecoverRemove, FinishRecoverRemove, Restore,
        TypeOK
  <2>4. Verify(s)
    BY <1>2, <1>4, <2>1, <2>2, <2>3 DEF Next, Edit, Tamper, vars
  <2>5. /\ files["applied"] = Confirmed[s] /\ UNCHANGED files
        /\ \A r \in Sessions \ {s} : pc'[r] = pc[r]
        /\ pc[s] = "verify"
    BY <1>2, <2>4 DEF Verify, TypeOK
  <2>6. \A r \in Sessions \ {s} : pc[r] \in {"candidate"} \cup Ended
    BY <1>2, <2>5 DEF UnracedAlone, Active, TypeOK
  <2>7. \A r \in Sessions \ {s} : ~AppliedAlone(r)
    BY <1>1, <2>5 DEF AppliedStays
  <2>8. \A r \in Sessions \ {s} : ~AppliedAlone(r)'
    BY <1>2, <2>5, <2>7 DEF AppliedAlone
  <2> QED
    BY <2>5, <2>6, <2>8
<1> QED
  BY <1>3, <1>4

\* Repairs of one Skill that are both APPLIED have overlapped with something: one
\* after the other, the source digest keeps the second out (apply_atomic).
THEOREM SerialConflict == Spec => []SerialAppliesConflict
<1>1. Init => UnracedAlone /\ AppliedStays
  BY DEF Init, UnracedAlone, Active, AppliedStays, AppliedAlone
<1>2. TypeOK /\ BoundKept /\ UnracedAlone /\ AppliedStays /\ [Next]_vars
      => (UnracedAlone /\ AppliedStays)'
  BY StepUnracedAlone, StepAppliedStays
<1>3. AppliedStays => SerialAppliesConflict
  BY DEF AppliedStays, AppliedAlone, Serial, SerialAppliesConflict
<1> QED
  BY <1>1, <1>2, <1>3, TypeCorrect, BoundKeptAlways, PTL DEF Spec

-----------------------------------------------------------------------------
(***************************************************************************)
(* The promise.  One call of apply on a Skill in place, whose operations    *)
(* may fail from the move on, implements AtomicApply: until the old tree is *)
(* aside nothing is changed, from then on what counts is the tree that was  *)
(* moved, until the call has verified the new one or put the old one back.  *)
(* (A rename of the old tree that fails breaks it: see OriginalRestored.)   *)
(***************************************************************************)

\* The calls that keep the promise.
SingleCall ==
  /\ Alone /\ Sessions # {}
  /\ Origins \subseteq [Sessions -> {"applied"}]
  /\ FaultyOps \cap {"probe", "clear", "clearing", "aside"} = {}
  /\ Bound["retry"] = 0

\* Until the move the tree is there; from then on the session has it in the backup.
CallState(s) ==
  /\ pc[s] \in Checking \cup {"probe", "clear", "clearing", "aside", "refused"}
       => ~moved[s] /\ Exists("applied")
  /\ pc[s] \in {"install", "verify", "applied", "recovered", "unrecoverable"} \cup Recovering
       => moved[s] /\ keeps[s]

CallInv == left["retry"] = 0 /\ \A s \in Sessions : CallState(s)

LEMMA StepCallState ==
  ASSUME SingleCall, TypeOK, LoneStates, CallInv, [Next]_vars
  PROVE  CallInv'
<1>0. left'["retry"] = 0 /\ \A r \in Sessions : ~Retry(r)
  <2>1. ~Spend("retry")
    BY DEF Spend, CallInv
  <2> QED
    BY <2>1, StepSpends DEF Spend, CallInv, TypeOK, vars, Retry
<1> SUFFICES ASSUME NEW s \in Sessions
             PROVE  CallState(s)'
  BY <1>0 DEF CallInv
<1> USE DEF TypeOK, CallState
<1>1. /\ CallState(s) /\ LoneState(s) /\ Partial # NoTree
      /\ \A c \in Contents : c # NoTree
  BY ConstantsOK DEF CallInv, LoneStates
<1>2. CASE CheckCandidate(s) \/ CheckSource(s) \/ PlanBackup(s)
  BY <1>1, <1>2 DEF CheckCandidate, CheckSource, PlanBackup
<1>3. CASE ProbeApplied(s) \/ ClearBackup(s) \/ FinishClearBackup(s)
  BY <1>1, <1>3 DEF ProbeApplied, ClearBackup, FinishClearBackup
<1>4. CASE MoveAside(s)
  BY <1>1, <1>4 DEF MoveAside, BackupPath, LoneState
<1>5. CASE Install(s) \/ Verify(s)
  BY <1>1, <1>5 DEF Install, Verify
<1>6. CASE RecoverRemove(s) \/ FinishRecoverRemove(s) \/ Restore(s)
  BY <1>1, <1>6 DEF RecoverRemove, FinishRecoverRemove, Restore
<1>7. CASE OperationFails(s)
  <2>1. pc[s] \in Running \ {"probe", "clear", "clearing", "aside"}
    BY <1>7, ConstantsOK DEF OperationFails, SingleCall
  <2> QED
    BY <1>1, <1>7, <2>1 DEF OperationFails, AfterException
<1>8. CASE Crash(s)
  BY <1>1, <1>8 DEF Crash
<1>9. CASE \E c \in Contents : Tamper(s, c)
  BY <1>1, <1>9 DEF Tamper
<1>10. CASE \E p \in {"applied", "elsewhere"}, c \in Contents : Edit(p, c)
  BY <1>1, <1>10 DEF Edit
<1>11. CASE UNCHANGED vars
  BY <1>1, <1>11 DEF vars
<1> QED
  BY <1>0, <1>2, <1>3, <1>4, <1>5, <1>6, <1>7, <1>8, <1>9, <1>10, <1>11
  DEF Next, Step, SingleCall, Alone

\* The mapped variables of a lone session.
VersionOf(s) == IF InFlight(s) THEN prior[s] ELSE files["applied"]

VerdictOf(s) ==
  IF pc[s] = "applied" THEN "applied" ELSE
  IF pc[s] \in Running THEN "pending" ELSE "failed"

LEMMA MappedState ==
  ASSUME Alone, NEW s \in Sessions
  PROVE  /\ Version = VersionOf(s) /\ Version' = VersionOf(s)'
         /\ Verdict = [r \in Sessions |-> VerdictOf(s)]
         /\ Verdict' = [r \in Sessions |-> VerdictOf(s)']
<1>1. \A r \in Sessions : r = s
  BY DEF Alone
<1>2. Version = VersionOf(s)
  BY <1>1 DEF Version, VersionOf
<1>3. Version' = VersionOf(s)'
  BY <1>1 DEF Version, VersionOf
<1>4. Verdict = [r \in Sessions |-> VerdictOf(s)]
  BY <1>1 DEF Verdict, VerdictOf
<1>5. Verdict' = [r \in Sessions |-> VerdictOf(s)']
  BY <1>1 DEF Verdict, VerdictOf
<1> QED
  BY <1>2, <1>3, <1>4, <1>5

\* What a step of the call does to them: nothing, an abort, the commit, an edit.
LEMMA MappedStep ==
  ASSUME SingleCall, TypeOK, LoneStates, BackupKeepsPrior, MovedATree, CallInv, [Next]_vars,
         NEW s \in Sessions
  PROVE  \/ /\ VersionOf(s)' = VersionOf(s)
            /\ \/ VerdictOf(s)' = VerdictOf(s)
               \/ VerdictOf(s) = "pending" /\ VerdictOf(s)' = "failed"
         \/ /\ VersionOf(s)' = Confirmed[s]
            /\ VerdictOf(s) = "pending" /\ VerdictOf(s)' = "applied"
         \/ VersionOf(s)' \in Contents /\ VerdictOf(s)' = VerdictOf(s)
<1> USE DEF TypeOK, VersionOf, VerdictOf, InFlight, CallState
<1>1. CallState(s) /\ LoneState(s) /\ (moved[s] => prior[s] # NoTree)
      /\ (moved[s] /\ keeps[s] /\ pc[s] # "recovered" => files["backup"] = prior[s])
  BY DEF CallInv, LoneStates, MovedATree, BackupKeepsPrior
<1>2. CASE CheckCandidate(s) \/ CheckSource(s) \/ PlanBackup(s)
  BY <1>1, <1>2 DEF CheckCandidate, CheckSource, PlanBackup
<1>3. CASE ProbeApplied(s) \/ ClearBackup(s) \/ FinishClearBackup(s)
  BY <1>1, <1>3 DEF ProbeApplied, ClearBackup, FinishClearBackup
<1>4. CASE MoveAside(s)
  BY <1>1, <1>4 DEF MoveAside, BackupPath, LoneState
<1>5. CASE Install(s) \/ Verify(s)
  BY <1>1, <1>5 DEF Install, Verify
<1>6. CASE RecoverRemove(s) \/ FinishRecoverRemove(s)
  BY <1>1, <1>6 DEF RecoverRemove, FinishRecoverRemove
<1>7. CASE Restore(s)
  BY <1>1, <1>7 DEF Restore
<1>8. CASE OperationFails(s)
  <2>1. pc[s] \in Running \ {"probe", "clear", "clearing", "aside"}
    BY <1>8, ConstantsOK DEF OperationFails, SingleCall
  <2> QED
    BY <1>1, <1>8, <2>1 DEF OperationFails, AfterException
<1>9. CASE Crash(s)
  BY <1>1, <1>9 DEF Crash
<1>10. ~Retry(s)
  BY DEF Retry, Spend, CallInv
<1>11. CASE \E c \in Contents : Tamper(s, c)
  BY <1>1, <1>11 DEF Tamper
<1>12. CASE \E p \in {"applied", "elsewhere"}, c \in Contents : Edit(p, c)
  BY <1>1, <1>12 DEF Edit
<1>13. CASE UNCHANGED vars
  BY <1>13 DEF vars
<1> QED
  BY <1>2, <1>3, <1>4, <1>5, <1>6, <1>7, <1>8, <1>9, <1>10, <1>11, <1>12, <1>13
  DEF Next, Step, SingleCall, Alone

LEMMA StepImplements ==
  ASSUME SingleCall, TypeOK, LoneStates, BackupKeepsPrior, MovedATree, CallInv, [Next]_vars
  PROVE  [Atomic!Next]_Atomic!vars
<1>1. PICK s \in Sessions : TRUE
  BY DEF SingleCall
<1> DEFINE v == VersionOf(s)
           d == VerdictOf(s)
<1>2. /\ Version = v /\ Version' = v'
      /\ Verdict = [r \in Sessions |-> d] /\ Verdict' = [r \in Sessions |-> d']
      /\ \A r \in Sessions : r = s
  BY MappedState DEF SingleCall, Alone
<1>3. CASE v' = v /\ d' = d
  BY <1>2, <1>3 DEF Atomic!vars
<1>4. CASE v' = v /\ d = "pending" /\ d' = "failed"
  <2>1. Atomic!Abort(s)
    BY <1>2, <1>4 DEF Atomic!Abort
  <2> QED
    BY <2>1 DEF Atomic!Next
<1>5. CASE v' = Confirmed[s] /\ d = "pending" /\ d' = "applied"
  <2>1. Atomic!Commit(s)
    BY <1>2, <1>5 DEF Atomic!Commit
  <2> QED
    BY <2>1 DEF Atomic!Next
<1>6. CASE v' \in Contents /\ d' = d
  <2>1. Atomic!Edit
    BY <1>2, <1>6 DEF Atomic!Edit
  <2> QED
    BY <2>1 DEF Atomic!Next
<1> QED
  BY <1>3, <1>4, <1>5, <1>6, MappedStep

\* A single call of apply on a Skill in place is atomic: the confirmed candidate
\* replaces the version of record in one step, or the record is not touched, and
\* the verdict says which (workspace.py apply_atomic).
THEOREM ApplyIsAtomic == SingleCall => (Spec => AtomicSpec)
<1> SUFFICES ASSUME SingleCall
             PROVE  Spec => AtomicSpec
  OBVIOUS
<1>1. Alone
  BY DEF SingleCall
<1>2. Init => MovedLate /\ MovedATree /\ CallInv
  <2> SUFFICES ASSUME Init
               PROVE  MovedLate /\ MovedATree /\ CallInv
    OBVIOUS
  <2>1. \A s \in Sessions : origin[s] = "applied"
    BY ConstantsOK DEF Init, SingleCall
  <2>2. files["applied"] = Original /\ Original # NoTree
    BY <2>1, ConstantsOK DEF Init, SingleCall
  <2> QED
    BY <2>2, ConstantsOK DEF Init, MovedLate, MovedATree, CallInv, CallState, SingleCall
<1>3. TypeOK /\ LoneStates /\ MovedLate /\ MovedATree /\ CallInv /\ [Next]_vars
      => (MovedLate /\ MovedATree /\ CallInv)'
  BY StepMovedLate, StepMovedATree, StepCallState
<1>4. Init => Atomic!Init
  <2> SUFFICES ASSUME Init
               PROVE  Atomic!Init
    OBVIOUS
  <2>1. PICK s \in Sessions : TRUE
    BY DEF SingleCall
  <2>2. files["applied"] = Original /\ pc[s] = "candidate" /\ ~moved[s]
    BY ConstantsOK DEF Init, SingleCall
  <2>3. VersionOf(s) = Original /\ VerdictOf(s) = "pending"
    BY <2>2 DEF VersionOf, VerdictOf, InFlight
  <2> QED
    BY <1>1, <2>3, MappedState DEF Atomic!Init
<1>5. /\ TypeOK /\ LoneStates /\ BackupKeepsPrior /\ MovedATree /\ CallInv /\ [Next]_vars
      => [Atomic!Next]_Atomic!vars
  BY StepImplements
<1> QED
  BY <1>1, <1>2, <1>3, <1>4, <1>5, TypeCorrect, LoneStateAlways, LoneBackup, PTL
  DEF Spec, AtomicSpec, Atomic!Spec
=============================================================================
