------------------------------- MODULE Bootstrap -------------------------------
(***************************************************************************)
(* scripts/bootstrap_skill_engineering.py: every engine command is started *)
(* through a bootstrap process that provisions, once, the runtime that all *)
(* of them share.  A lock file created with O_EXCL keeps them apart, a     *)
(* marker file written last says that the runtime is complete; a lock that *)
(* is older than ten minutes is taken for abandoned and removed.           *)
(*                                                                         *)
(* Time is counted in waits of two minutes and runs at its own pace: a     *)
(* process may be slow, suspended or killed at any point.                  *)
(***************************************************************************)
EXTENDS Naturals

CONSTANTS
  Procs,      \* bootstrap processes of one plugin version and platform
  Nobody,     \* an earlier process, which has been killed
  NoLock,     \* there is no lock file
  Patience,   \* deadline: how long a process waits for the lock
  StaleAge,   \* how old a lock is when it is taken for abandoned
  Bound       \* [{"crash", "fault"} -> Nat]

ASSUME BootstrapOK ==
  /\ Nobody \notin Procs
  /\ Patience \in Nat \ {0} /\ StaleAge \in Nat \ {0}
  /\ Bound \in [{"crash", "fault"} -> Nat]
  /\ NoLock \notin [by : Procs \cup {Nobody}, age : 0..StaleAge]

VARIABLES
  lock,      \* the lock file: who created it and its age, or NoLock
  runtime,   \* "absent", "broken" (no interpreter), "partial" or "ready"
  marker,    \* the marker file is there and names this identity
  pc,        \* [Procs -> Running \cup Ended]
  locked,    \* locked[p]: p created the lock, not only seen the marker
  raised,    \* raised[p]: p leaves the lock with an exception
  waited,    \* [Procs -> 0..Patience]
  overtaken, \* the processes whose lock was removed while they provisioned
  left       \* what the environment may still do

files == <<lock, runtime, marker>>
vars == <<files, pc, locked, raised, waited, overtaken, left>>

\* The loop that waits for the lock, the steps under the lock, the ends.
Waiting      == {"acquire", "marked", "age", "steal", "deadline"}
Provisioning == {"recheck", "inspect", "clear", "venv", "sync", "install", "check",
                 "mark", "release"}
Running      == {"start", "verify"} \cup Waiting \cup Provisioning
Ended        == {"engine", "failed", "crashed"}

\* What an earlier process, or somebody who upgraded Python, may have left.
Init ==
  /\ lock \in {NoLock} \cup [by : {Nobody}, age : 0..StaleAge]
  /\ runtime \in {"absent", "broken", "partial", "ready"}
  /\ marker \in IF runtime = "absent" THEN {FALSE} ELSE BOOLEAN
  /\ pc = [p \in Procs |-> "start"]
  /\ locked = [p \in Procs |-> FALSE]
  /\ raised = [p \in Procs |-> FALSE]
  /\ waited = [p \in Procs |-> 0]
  /\ overtaken = {}
  /\ left = Bound

Goto(p, label) == pc' = [pc EXCEPT ![p] = label]

HasPython == runtime \in {"partial", "ready"}

MarkerMatches == marker /\ HasPython

-----------------------------------------------------------------------------
(***************************************************************************)
(* _provision_lock                                                         *)
(***************************************************************************)

Start(p) ==
  /\ pc[p] = "start"
  /\ Goto(p, IF MarkerMatches THEN "verify" ELSE "acquire")
  /\ UNCHANGED <<files, locked, raised, waited, overtaken, left>>

\* Mutant of Acquire: an existing lock file is opened like a new one.
AcquireShared(p) ==
  /\ pc[p] = "acquire"
  /\ lock' = [by |-> p, age |-> 0]
  /\ locked' = [locked EXCEPT ![p] = TRUE]
  /\ Goto(p, "recheck")
  /\ UNCHANGED <<runtime, marker, raised, waited, overtaken, left>>

\* os.open(lock_path, O_CREAT | O_EXCL | O_WRONLY)
Acquire(p) ==
  /\ pc[p] = "acquire"
  /\ IF lock = NoLock
     THEN /\ lock' = [by |-> p, age |-> 0]
          /\ locked' = [locked EXCEPT ![p] = TRUE]
          /\ Goto(p, "recheck")
     ELSE Goto(p, "marked") /\ UNCHANGED <<lock, locked>>
  /\ UNCHANGED <<runtime, marker, raised, waited, overtaken, left>>

\* A waiter that sees the marker goes on without the lock.
SeeMarker(p) ==
  /\ pc[p] = "marked"
  /\ Goto(p, IF MarkerMatches THEN "recheck" ELSE "age")
  /\ UNCHANGED <<files, locked, raised, waited, overtaken, left>>

SeeAge(p) ==
  /\ pc[p] = "age"
  /\ Goto(p, IF lock # NoLock /\ lock.age = StaleAge THEN "steal" ELSE "deadline")
  /\ UNCHANGED <<files, locked, raised, waited, overtaken, left>>

\* Mutant of Steal: the lock is not removed, the deadline not looked at.
StealNothing(p) ==
  /\ pc[p] = "steal"
  /\ Goto(p, "acquire")
  /\ UNCHANGED <<files, locked, raised, waited, overtaken, left>>

\* lock_path.unlink() removes whatever lock is there by now.
Steal(p) ==
  /\ pc[p] = "steal"
  /\ IF lock # NoLock
     THEN /\ overtaken' = overtaken \cup
               {q \in Procs : q = lock.by /\ pc[q] \in Provisioning}
          /\ lock' = NoLock
          /\ Goto(p, "acquire")
     ELSE Goto(p, "deadline") /\ UNCHANGED <<lock, overtaken>>
  /\ UNCHANGED <<runtime, marker, locked, raised, waited, left>>

Deadline(p) ==
  /\ pc[p] = "deadline"
  /\ Goto(p, IF waited[p] = Patience THEN "failed" ELSE "acquire")
  /\ UNCHANGED <<files, locked, raised, waited, overtaken, left>>

-----------------------------------------------------------------------------
(***************************************************************************)
(* _provision, and the two calls of uv.                                    *)
(***************************************************************************)

Recheck(p) ==
  /\ pc[p] = "recheck"
  /\ Goto(p, IF MarkerMatches THEN "release" ELSE "inspect")
  /\ UNCHANGED <<files, locked, raised, waited, overtaken, left>>

\* Mutant of Inspect: a directory without an interpreter is not repaired.
InspectNothing(p) ==
  /\ pc[p] = "inspect"
  /\ Goto(p, "sync")
  /\ UNCHANGED <<files, locked, raised, waited, overtaken, left>>

Inspect(p) ==
  /\ pc[p] = "inspect"
  /\ Goto(p, IF runtime = "broken" THEN "clear" ELSE "sync")
  /\ UNCHANGED <<files, locked, raised, waited, overtaken, left>>

\* uv venv --clear empties the directory, ...
Clear(p) ==
  /\ pc[p] = "clear"
  /\ runtime' = "broken" /\ marker' = FALSE
  /\ Goto(p, "venv")
  /\ UNCHANGED <<lock, locked, raised, waited, overtaken, left>>

\* ... and makes an environment without packages.
Venv(p) ==
  /\ pc[p] = "venv"
  /\ runtime' = IF HasPython THEN runtime ELSE "partial"
  /\ Goto(p, "sync")
  /\ UNCHANGED <<lock, marker, locked, raised, waited, overtaken, left>>

\* uv sync makes the environment unless there is one, and refuses a directory
\* that is none, ...
Sync(p) ==
  /\ pc[p] = "sync"
  /\ IF runtime = "broken"
     THEN /\ Goto(p, "release") /\ raised' = [raised EXCEPT ![p] = TRUE]
          /\ UNCHANGED runtime
     ELSE /\ runtime' = IF runtime = "absent" THEN "partial" ELSE runtime
          /\ Goto(p, "install") /\ UNCHANGED raised
  /\ UNCHANGED <<lock, marker, locked, waited, overtaken, left>>

\* ... and installs the locked packages, some of which may fail to import.
Install(p) ==
  /\ pc[p] = "install"
  /\ \/ /\ runtime' = IF HasPython THEN "ready" ELSE runtime
        /\ UNCHANGED left
     \/ /\ left["fault"] > 0 /\ left' = [left EXCEPT !["fault"] = @ - 1]
        /\ UNCHANGED runtime
  /\ Goto(p, "check")
  /\ UNCHANGED <<lock, marker, locked, raised, waited, overtaken>>

\* Mutant of Check: the exit code of uv is believed.
CheckNothing(p) ==
  /\ pc[p] = "check"
  /\ Goto(p, "mark")
  /\ UNCHANGED <<files, locked, raised, waited, overtaken, left>>

\* The interpreter is there and _verify_runtime imports the packages.
Check(p) ==
  /\ pc[p] = "check"
  /\ IF runtime = "ready" THEN Goto(p, "mark") /\ UNCHANGED raised
     ELSE Goto(p, "release") /\ raised' = [raised EXCEPT ![p] = TRUE]
  /\ UNCHANGED <<files, locked, waited, overtaken, left>>

\* _write_marker, in a directory that is there.
Mark(p) ==
  /\ pc[p] = "mark"
  /\ marker' = (marker \/ runtime # "absent")
  /\ raised' = [raised EXCEPT ![p] = runtime = "absent"]
  /\ Goto(p, "release")
  /\ UNCHANGED <<lock, runtime, locked, waited, overtaken, left>>

\* uv fails, or cannot be started.
UvFails(p) ==
  /\ pc[p] \in {"clear", "venv", "sync", "install"}
  /\ left["fault"] > 0 /\ left' = [left EXCEPT !["fault"] = @ - 1]
  /\ raised' = [raised EXCEPT ![p] = TRUE]
  /\ Goto(p, "release")
  /\ UNCHANGED <<files, locked, waited, overtaken>>

\* The finally clause unlinks the lock file, whoever has created it.
Release(p) ==
  /\ pc[p] = "release"
  /\ lock' = IF locked[p] THEN NoLock ELSE lock
  /\ Goto(p, IF raised[p] THEN "failed" ELSE "verify")
  /\ UNCHANGED <<runtime, marker, locked, raised, waited, overtaken, left>>

\* Mutant of Launch: the runtime is not verified again.
LaunchUnverified(p) ==
  /\ pc[p] = "verify"
  /\ Goto(p, "engine")
  /\ UNCHANGED <<files, locked, raised, waited, overtaken, left>>

\* run: _verify_runtime, then the engine.
Launch(p) ==
  /\ pc[p] = "verify"
  /\ Goto(p, IF runtime = "ready" THEN "engine" ELSE "failed")
  /\ UNCHANGED <<files, locked, raised, waited, overtaken, left>>

-----------------------------------------------------------------------------
Crash(p) ==
  /\ pc[p] \in Running
  /\ left["crash"] > 0 /\ left' = [left EXCEPT !["crash"] = @ - 1]
  /\ Goto(p, "crashed")
  /\ UNCHANGED <<files, locked, raised, waited, overtaken>>

\* Ages beyond the limit are not told apart.
Older(age, limit) == IF age < limit THEN age + 1 ELSE age

Tick ==
  /\ lock' = IF lock = NoLock THEN lock ELSE [lock EXCEPT !.age = Older(@, StaleAge)]
  /\ waited' = [p \in Procs |->
       IF pc[p] \in Waiting THEN Older(waited[p], Patience) ELSE waited[p]]
  /\ <<lock, waited>>' # <<lock, waited>>
  /\ UNCHANGED <<runtime, marker, pc, locked, raised, overtaken, left>>

Step(p) ==
  \/ Start(p) \/ Acquire(p) \/ SeeMarker(p) \/ SeeAge(p) \/ Steal(p) \/ Deadline(p)
  \/ Recheck(p) \/ Inspect(p) \/ Clear(p) \/ Venv(p) \/ Sync(p) \/ Install(p)
  \/ Check(p) \/ Mark(p) \/ Release(p) \/ Launch(p)

Next == Tick \/ \E p \in Procs : Step(p) \/ UvFails(p) \/ Crash(p)

\* Processes that have not been killed go on, uv ends, and time passes.
Fairness == WF_vars(Tick) /\ \A p \in Procs : WF_vars(Step(p))

Spec == Init /\ [][Next]_vars /\ Fairness

-----------------------------------------------------------------------------
(***************************************************************************)
(* Properties.                                                             *)
(***************************************************************************)

TypeOK ==
  /\ lock \in {NoLock} \cup [by : Procs \cup {Nobody}, age : 0..StaleAge]
  /\ runtime \in {"absent", "broken", "partial", "ready"}
  /\ marker \in BOOLEAN
  /\ pc \in [Procs -> Running \cup Ended]
  /\ locked \in [Procs -> BOOLEAN]
  /\ raised \in [Procs -> BOOLEAN]
  /\ waited \in [Procs -> 0..Patience]
  /\ overtaken \subseteq Procs
  /\ left \in [{"crash", "fault"} -> Nat]

\* The steps that read or change the runtime.
Working(p) == pc[p] \in Provisioning \ {"recheck", "release"}

\* As long as no lock is taken from a process that is still at work, one process
\* at most works on the runtime: the lock alone keeps them apart, a waiter that
\* goes on without it included.
OneProvisions ==
  overtaken = {} => \A p, q \in Procs : Working(p) /\ Working(q) => p = q

\* Under the same condition the marker is only written into a runtime that has
\* been verified and is still so.
MarksWhatIsReady ==
  [][overtaken = {} /\ ~marker /\ marker' => runtime = "ready"]_vars

\* Under the same condition the engine runs in a complete runtime, and nobody
\* clears or rebuilds it while it does.
EngineHasRuntime ==
  overtaken = {} => \A p \in Procs : pc[p] = "engine" => runtime = "ready"

\* Every bootstrap ends, whoever has been killed, overtaken or suspended.
BootstrapEnds == \A p \in Procs : pc[p] \in Running ~> pc[p] \in Ended

\* From any directory but one that is marked and damaged (which no bootstrap
\* repairs), and with no lock left behind, some process starts the engine unless
\* uv fails or a process is killed.
SomeoneLaunches ==
  lock = NoLock /\ ~(marker /\ runtime = "partial")
  => <>(left # Bound \/ \E p \in Procs : pc[p] = "engine")
=============================================================================
