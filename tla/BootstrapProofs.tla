---------------------------- MODULE BootstrapProofs ----------------------------
(***************************************************************************)
(* Theorems about Bootstrap for every set of processes, every age and      *)
(* deadline and every bound on crashes and faults.                         *)
(***************************************************************************)
EXTENDS Bootstrap, TLAPS

USE DEF files, Goto, Waiting, Provisioning, Running, Ended

-----------------------------------------------------------------------------
(***************************************************************************)
(* Types.                                                                  *)
(***************************************************************************)

\* An age never leaves its range.
LEMMA OlderType ==
  ASSUME NEW limit \in Nat, NEW age \in 0..limit
  PROVE  Older(age, limit) \in 0..limit
  BY DEF Older

\* Time keeps the types.
LEMMA TickType ==
  ASSUME TypeOK, Tick
  PROVE  TypeOK'
<1>1. lock' \in {NoLock} \cup [by : Procs \cup {Nobody}, age : 0..StaleAge]
  <2>1. CASE lock = NoLock
    BY <2>1 DEF Tick
  <2>2. CASE lock # NoLock
    <3>1. lock \in [by : Procs \cup {Nobody}, age : 0..StaleAge]
      BY <2>2 DEF TypeOK
    <3>2. Older(lock.age, StaleAge) \in 0..StaleAge
      BY <3>1, OlderType, BootstrapOK
    <3> QED
      BY <2>2, <3>1, <3>2 DEF Tick
  <2> QED
    BY <2>1, <2>2
<1>2. waited' \in [Procs -> 0..Patience]
  <2>1. \A p \in Procs : waited[p] \in 0..Patience
    BY DEF TypeOK
  <2>2. \A p \in Procs : Older(waited[p], Patience) \in 0..Patience
    BY <2>1, OlderType, BootstrapOK
  <2> QED
    BY <2>1, <2>2 DEF Tick
<1> QED
  BY <1>1, <1>2 DEF Tick, TypeOK

\* The faults and crashes that are left are only ever used up.
LEMMA LeftType ==
  ASSUME TypeOK, NEW b \in {"crash", "fault"}, left[b] > 0,
         left' = [left EXCEPT ![b] = @ - 1]
  PROVE  left' \in [{"crash", "fault"} -> Nat]
  BY DEF TypeOK

\* A process keeps the types, and so does what may happen to it.
LEMMA StepType ==
  ASSUME TypeOK, NEW p \in Procs, Step(p) \/ UvFails(p) \/ Crash(p)
  PROVE  TypeOK'
<1> USE DEF TypeOK
<1>1. CASE Start(p) \/ SeeMarker(p) \/ SeeAge(p) \/ Deadline(p)
  BY <1>1 DEF Start, SeeMarker, SeeAge, Deadline
<1>2. CASE Acquire(p)
  <2>1. 0 \in 0..StaleAge
    BY BootstrapOK
  <2>2. [by |-> p, age |-> 0] \in [by : Procs \cup {Nobody}, age : 0..StaleAge]
    BY <2>1
  <2>3. CASE lock = NoLock
    BY <1>2, <2>2, <2>3 DEF Acquire
  <2>4. CASE lock # NoLock
    BY <1>2, <2>4 DEF Acquire
  <2> QED
    BY <2>3, <2>4
<1>3. CASE Steal(p)
  BY <1>3 DEF Steal
<1>4. CASE Recheck(p) \/ Inspect(p) \/ Check(p)
  BY <1>4 DEF Recheck, Inspect, Check
<1>5. CASE Clear(p) \/ Venv(p)
  BY <1>5 DEF Clear, Venv
<1>6. CASE Sync(p)
  BY <1>6 DEF Sync
<1>7. CASE Install(p)
  <2>1. left' \in [{"crash", "fault"} -> Nat]
    BY <1>7, LeftType DEF Install
  <2> QED
    BY <1>7, <2>1 DEF Install
<1>8. CASE Mark(p)
  BY <1>8 DEF Mark
<1>9. CASE Release(p)
  BY <1>9 DEF Release
<1>10. CASE Launch(p)
  BY <1>10 DEF Launch
<1>11. CASE UvFails(p)
  BY <1>11, LeftType DEF UvFails
<1>12. CASE Crash(p)
  BY <1>12, LeftType DEF Crash
<1> QED
  BY <1>1, <1>2, <1>3, <1>4, <1>5, <1>6, <1>7, <1>8, <1>9, <1>10, <1>11, <1>12
  DEF Step

\* Whatever was left behind has its type.
LEMMA InitType == Init => TypeOK
<1> SUFFICES ASSUME Init
             PROVE  TypeOK
  OBVIOUS
<1>1. lock \in {NoLock} \cup [by : Procs \cup {Nobody}, age : 0..StaleAge]
  BY DEF Init
<1>2. waited \in [Procs -> 0..Patience]
  <2>1. 0 \in 0..Patience
    BY BootstrapOK
  <2> QED
    BY <2>1 DEF Init
<1>3. marker \in BOOLEAN
  BY DEF Init
<1> QED
  BY <1>1, <1>2, <1>3, BootstrapOK DEF Init, TypeOK

\* Every variable of the bootstrap keeps its type.
THEOREM BootstrapTypeCorrect == Spec => []TypeOK
<1>1. Init => TypeOK
  BY InitType
<1>2. TypeOK /\ [Next]_vars => TypeOK'
  <2> SUFFICES ASSUME TypeOK, [Next]_vars
               PROVE  TypeOK'
    OBVIOUS
  <2>1. CASE Tick
    BY <2>1, TickType
  <2>2. CASE \E p \in Procs : Step(p) \/ UvFails(p) \/ Crash(p)
    BY <2>2, StepType
  <2>3. CASE UNCHANGED vars
    BY <2>3 DEF vars, TypeOK
  <2> QED
    BY <2>1, <2>2, <2>3 DEF Next
<1> QED
  BY <1>1, <1>2, PTL DEF Spec

-----------------------------------------------------------------------------
(***************************************************************************)
(* What keeps the processes apart as long as no lock is taken from a       *)
(* process that is still at work.                                          *)
(***************************************************************************)

\* A process that created the lock has it until it releases it.
HoldersLock ==
  \A p \in Procs : pc[p] \in Provisioning /\ locked[p] => lock # NoLock /\ lock.by = p

\* A process that goes on without the lock does so in a marked runtime.
GuestsSeeMarker ==
  \A p \in Procs : pc[p] \in Provisioning /\ ~locked[p]
    => pc[p] \in {"recheck", "release"} /\ MarkerMatches

\* Nobody works on a runtime that is marked, and each step finds what the one
\* before has left.
StepsInOrder ==
  \A p \in Procs :
    /\ Working(p) => ~MarkerMatches
    /\ pc[p] = "clear" => runtime = "broken"
    /\ pc[p] = "venv" => runtime = "broken" /\ ~marker
    /\ pc[p] = "mark" => runtime = "ready"

\* Who leaves without an exception leaves a marked runtime, and that is what the
\* engine runs in.
LeavesMarked ==
  \A p \in Procs :
    /\ pc[p] = "release" /\ ~raised[p] => MarkerMatches
    /\ pc[p] = "verify" => MarkerMatches
    /\ pc[p] = "engine" => marker /\ runtime = "ready"

\* Whoever waits has no lock; there is no marker in a directory that is not there.
Waiters ==
  /\ \A p \in Procs : pc[p] \in {"start"} \cup Waiting => ~locked[p]
  /\ runtime = "absent" => ~marker

Apart == HoldersLock /\ GuestsSeeMarker /\ StepsInOrder /\ LeavesMarked

IInv == TypeOK /\ Waiters /\ (overtaken = {} => Apart)

\* Working processes hold the lock, so they are one.
LEMMA ApartWorkers ==
  ASSUME HoldersLock, GuestsSeeMarker,
         NEW p \in Procs, NEW q \in Procs, Working(p), Working(q)
  PROVE  p = q
  BY DEF HoldersLock, GuestsSeeMarker, Working

\* Time and a crash keep the processes apart.
LEMMA TickApart ==
  ASSUME IInv, Tick, overtaken' = {}
  PROVE  Apart'
<1> USE DEF Tick, IInv, Apart, TypeOK, Working, MarkerMatches, HasPython
<1>1. HoldersLock'
  <2> SUFFICES ASSUME NEW p \in Procs, pc[p] \in Provisioning, locked[p]
               PROVE  lock' # NoLock /\ lock'.by = p
    BY DEF HoldersLock
  <2>1. lock # NoLock /\ lock.by = p
    BY DEF HoldersLock
  <2>2. lock \in [by : Procs \cup {Nobody}, age : 0..StaleAge]
    BY <2>1
  <2>3. Older(lock.age, StaleAge) \in 0..StaleAge
    BY <2>2, OlderType, BootstrapOK
  <2>4. lock' = [lock EXCEPT !.age = Older(@, StaleAge)]
    BY <2>1
  <2>5. lock'.by = p /\ lock' \in [by : Procs \cup {Nobody}, age : 0..StaleAge]
    BY <2>1, <2>2, <2>3, <2>4
  <2> QED
    BY <2>5, BootstrapOK
<1>2. GuestsSeeMarker' /\ StepsInOrder' /\ LeavesMarked'
  BY DEF GuestsSeeMarker, StepsInOrder, LeavesMarked
<1> QED
  BY <1>1, <1>2

\* Steps that wait, decide or give up and leave the files alone.
LEMMA WaitingApart ==
  ASSUME IInv, overtaken' = {}, NEW p \in Procs,
         \/ Start(p) \/ SeeMarker(p) \/ SeeAge(p) \/ Deadline(p)
         \/ Crash(p) \/ UvFails(p) \/ Launch(p)
  PROVE  Apart'
<1> USE DEF Start, SeeMarker, SeeAge, Deadline, Crash, UvFails, Launch,
            IInv, Apart, TypeOK, Working, MarkerMatches, HasPython
<1>1. HoldersLock'
  BY DEF HoldersLock, Waiters
<1>2. GuestsSeeMarker'
  BY DEF GuestsSeeMarker
<1>3. StepsInOrder'
  BY DEF StepsInOrder
<1>4. LeavesMarked'
  BY DEF LeavesMarked
<1> QED
  BY <1>1, <1>2, <1>3, <1>4

\* Creating the lock file: nobody else has it.
LEMMA AcquireApart ==
  ASSUME IInv, overtaken' = {}, NEW p \in Procs, Acquire(p)
  PROVE  Apart'
<1> USE DEF Acquire, IInv, Apart, TypeOK, Working, MarkerMatches, HasPython
<1>1. HoldersLock'
  <2>1. [by |-> p, age |-> 0] # NoLock
    <3>1. 0 \in 0..StaleAge
      BY BootstrapOK
    <3>2. [by |-> p, age |-> 0] \in [by : Procs \cup {Nobody}, age : 0..StaleAge]
      BY <3>1
    <3> QED
      BY <3>2, BootstrapOK
  <2>2. CASE lock = NoLock
    BY <2>1, <2>2 DEF HoldersLock
  <2>3. CASE lock # NoLock
    BY <2>3 DEF HoldersLock, Waiters
  <2> QED
    BY <2>2, <2>3
<1>2. GuestsSeeMarker'
  BY DEF GuestsSeeMarker
<1>3. StepsInOrder'
  BY DEF StepsInOrder
<1>4. LeavesMarked'
  BY DEF LeavesMarked
<1> QED
  BY <1>1, <1>2, <1>3, <1>4

\* Removing a lock that nobody at work has.
LEMMA StealApart ==
  ASSUME IInv, overtaken' = {}, NEW p \in Procs, Steal(p)
  PROVE  Apart'
<1> USE DEF Steal, IInv, Apart, TypeOK, Working, MarkerMatches, HasPython
<1>1. HoldersLock'
  BY DEF HoldersLock
<1>2. GuestsSeeMarker'
  BY DEF GuestsSeeMarker
<1>3. StepsInOrder'
  BY DEF StepsInOrder
<1>4. LeavesMarked'
  BY DEF LeavesMarked
<1> QED
  BY <1>1, <1>2, <1>3, <1>4

\* Looking at the runtime under the lock.
LEMMA LookingApart ==
  ASSUME IInv, overtaken' = {}, NEW p \in Procs, Recheck(p) \/ Inspect(p) \/ Check(p)
  PROVE  Apart'
<1> USE DEF Recheck, Inspect, Check,
            IInv, Apart, TypeOK, Working, MarkerMatches, HasPython
<1>1. HoldersLock'
  BY DEF HoldersLock
<1>2. GuestsSeeMarker'
  BY DEF GuestsSeeMarker
<1>3. StepsInOrder'
  BY DEF StepsInOrder
<1>4. LeavesMarked'
  BY DEF LeavesMarked
<1> QED
  BY <1>1, <1>2, <1>3, <1>4

\* Changing the runtime or its marker: whoever does is alone.
LEMMA ChangingApart ==
  ASSUME IInv, overtaken' = {}, NEW p \in Procs,
         Clear(p) \/ Venv(p) \/ Sync(p) \/ Install(p) \/ Mark(p)
  PROVE  Apart'
<1> USE DEF Clear, Venv, Sync, Install, Mark, IInv, Apart, TypeOK
<1>1. Working(p) /\ ~MarkerMatches
  BY DEF Working, StepsInOrder
<1>2. \A q \in Procs : q # p => ~Working(q)
  BY <1>1, ApartWorkers
<1>3. \A q \in Procs : q # p => pc[q] \notin {"engine", "verify"}
  BY <1>1 DEF LeavesMarked, MarkerMatches, HasPython
<1>4. HoldersLock'
  BY DEF HoldersLock
<1>5. GuestsSeeMarker'
  BY <1>1 DEF GuestsSeeMarker, Working
<1>6. StepsInOrder'
  BY <1>1, <1>2 DEF StepsInOrder, Working, MarkerMatches, HasPython, Waiters
<1>7. LeavesMarked'
  BY <1>1, <1>3, ZenonT(60) DEF LeavesMarked, StepsInOrder, Working, MarkerMatches, HasPython
<1> QED
  BY <1>4, <1>5, <1>6, <1>7

\* Removing the lock at the end: it is one's own.
LEMMA ReleaseApart ==
  ASSUME IInv, overtaken' = {}, NEW p \in Procs, Release(p)
  PROVE  Apart'
<1> USE DEF Release, IInv, Apart, TypeOK, Working, MarkerMatches, HasPython
<1>1. HoldersLock'
  BY DEF HoldersLock
<1>2. GuestsSeeMarker'
  BY DEF GuestsSeeMarker
<1>3. StepsInOrder'
  BY DEF StepsInOrder
<1>4. LeavesMarked'
  BY DEF LeavesMarked
<1> QED
  BY <1>1, <1>2, <1>3, <1>4

\* Waiters have no lock, whoever takes a step.
LEMMA WaitersStep ==
  ASSUME IInv, NEW p \in Procs, Step(p) \/ UvFails(p) \/ Crash(p)
  PROVE  Waiters'
<1> USE DEF IInv, TypeOK, Waiters
<1>1. CASE Start(p) \/ Acquire(p) \/ SeeMarker(p) \/ SeeAge(p) \/ Steal(p) \/ Deadline(p)
  BY <1>1 DEF Start, Acquire, SeeMarker, SeeAge, Steal, Deadline
<1>2. CASE Recheck(p) \/ Inspect(p) \/ Check(p) \/ Release(p) \/ Launch(p)
  BY <1>2 DEF Recheck, Inspect, Check, Release, Launch
<1>3. CASE Clear(p) \/ Venv(p) \/ Sync(p) \/ Install(p) \/ Mark(p)
  BY <1>3 DEF Clear, Venv, Sync, Install, Mark, HasPython
<1>4. CASE UvFails(p) \/ Crash(p)
  BY <1>4 DEF UvFails, Crash
<1> QED
  BY <1>1, <1>2, <1>3, <1>4 DEF Step

\* IInv is an inductive invariant.
LEMMA Inductive == Spec => []IInv
<1>1. Init => IInv
  <2> SUFFICES ASSUME Init
               PROVE  IInv
    OBVIOUS
  <2>1. TypeOK
    BY InitType
  <2>2. Waiters
    BY DEF Init, Waiters
  <2>3. Apart
    BY DEF Init, Apart, HoldersLock, GuestsSeeMarker, StepsInOrder, LeavesMarked, Working
  <2> QED
    BY <2>1, <2>2, <2>3 DEF IInv
<1>2. IInv /\ [Next]_vars => IInv'
  <2> SUFFICES ASSUME IInv, [Next]_vars
               PROVE  IInv'
    OBVIOUS
  <2>1. CASE Tick
    <3>1. TypeOK'
      BY <2>1, TickType DEF IInv
    <3>2. Waiters'
      BY <2>1 DEF IInv, Waiters, Tick
    <3> QED
      BY <2>1, <3>1, <3>2, TickApart DEF IInv
  <2>2. ASSUME NEW p \in Procs, Step(p) \/ UvFails(p) \/ Crash(p)
        PROVE  IInv'
    <3>1. TypeOK'
      BY <2>2, StepType DEF IInv
    <3>2. Waiters'
      BY <2>2, WaitersStep
    <3>3. overtaken' = {} => Apart'
      BY <2>2, WaitingApart, AcquireApart, StealApart, LookingApart, ChangingApart,
         ReleaseApart DEF Step
    <3> QED
      BY <3>1, <3>2, <3>3 DEF IInv
  <2>3. CASE UNCHANGED vars
    BY <2>3 DEF vars, IInv, TypeOK, Waiters, Apart, HoldersLock, GuestsSeeMarker,
       StepsInOrder, LeavesMarked, Working, MarkerMatches, HasPython
  <2> QED
    BY <2>1, <2>2, <2>3 DEF Next
<1> QED
  BY <1>1, <1>2, PTL DEF Spec

\* As long as no lock is taken from a process at work, one process at most works
\* on the runtime (_provision_lock and the second look at the marker).
THEOREM ProvisionersAreOne == Spec => []OneProvisions
<1>1. IInv => OneProvisions
  BY ApartWorkers DEF IInv, Apart, OneProvisions
<1> QED
  BY <1>1, Inductive, PTL

\* Under the same condition the engine runs in a complete runtime, which nobody
\* clears or rebuilds under it (_verify_runtime before the launch).
THEOREM EngineIsProvisioned == Spec => []EngineHasRuntime
<1>1. IInv => EngineHasRuntime
  BY DEF IInv, Apart, LeavesMarked, EngineHasRuntime
<1> QED
  BY <1>1, Inductive, PTL

\* Under the same condition the marker is only written into a complete runtime
\* (_write_marker after _verify_runtime).
THEOREM MarkerIsEarned == Spec => MarksWhatIsReady
<1>1. IInv /\ [Next]_vars => [overtaken = {} /\ ~marker /\ marker' => runtime = "ready"]_vars
  <2> SUFFICES ASSUME IInv, Next, overtaken = {}, ~marker, marker'
               PROVE  runtime = "ready"
    OBVIOUS
  <2>1. PICK p \in Procs : Mark(p)
    BY DEF Next, Step, Tick, Start, Acquire, SeeMarker, SeeAge, Steal, Deadline,
       Recheck, Inspect, Clear, Venv, Sync, Install, Check, Release, Launch, UvFails, Crash
  <2> QED
    BY <2>1 DEF Mark, IInv, Apart, StepsInOrder
<1> QED
  BY <1>1, Inductive, PTL DEF Spec, MarksWhatIsReady
=============================================================================
