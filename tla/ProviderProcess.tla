--------------------------- MODULE ProviderProcess ---------------------------
(***************************************************************************)
(* One invocation of CodexSkillProviderAdapter (engine/host_adapters.py):  *)
(* the host starts a Provider process, writes the prompt to its standard   *)
(* input, drains its output with two threads, watches the file the answer  *)
(* is to appear in, stops the process when the answer has been stable for  *)
(* StableTime or when Timeout has passed, and reads the file.              *)
(*                                                                         *)
(* The Provider process is external: it reads, prints, writes the file,    *)
(* starts processes of its own (heirs) and exits when and as it likes.     *)
(* Sizes are in buffers of a pipe's granularity, times in ticks.           *)
(***************************************************************************)
EXTENDS Naturals

CONSTANTS
  PipeSize,    \* what a pipe holds before a writer blocks
  PromptSize,  \* the prompt
  OutputSize,  \* bound: what the process prints before it exits
  Timeout,     \* timeout_seconds
  StableTime,  \* the 0.25 s the answer must not change
  Rewrites     \* bound: how often the process writes the answer file

ASSUME ProviderProcessOK ==
  /\ {PromptSize, OutputSize, StableTime, Rewrites} \subseteq Nat
  /\ {PipeSize, Timeout} \subseteq Nat \ {0}

\* The provider_status of an accepted answer; INCOMPATIBLE stands for the four of
\* _FAILURE_STATUSES.
Answers == {"AVAILABLE", "DEGRADED", "INCOMPATIBLE"}

\* Unparsable, or JSON that a check after the parse refuses (schema, identity,
\* a missing marker of this invocation, a self-reported fallback).
Json == Answers \cup {"refused"}
Texts == Json \cup {"none", "torn"}

Raised == {"timeout", "error", "interrupted"}

VARIABLES
  windows,   \* os.name = "nt"
  pc,        \* the step of the host
  child,     \* the Provider process; "deaf" is one that has closed its standard input
  told,      \* it was sent SIGTERM
  printing,  \* it is inside a write to its standard output
  heirs,     \* which of its own processes run: started before or after it was
             \* put in the job object
  unsent,    \* what is left of the prompt
  stdin, stdout, \* what the pipes hold
  printed,   \* what the process has printed
  file,      \* the answer file: its text and its signature (size, mtime)
  seen,      \* stable_output_signature
  age,       \* time since stable_output_since
  time,      \* time since the deadline was set
  stopped,   \* structured_output_completed
  result     \* what invoke returns or raises

pipes == <<printing, unsent, stdin, stdout, printed>>
watch == <<seen, age, time>>
procVars == <<windows, pc, child, told, heirs, pipes, file, watch, stopped, result>>

Listening == child = "running"
Running == child \in {"running", "deaf"}
InLoop == pc \in {"poll", "file", "clock"}

\* Where the lifetime of the process is the host's concern.
Inside == InLoop \/ pc \in {"write", "reap", "join"}

NoProcess ==
  /\ child = "none" /\ told = FALSE /\ printing = FALSE /\ heirs = {}
  /\ unsent = PromptSize /\ stdin = 0 /\ stdout = 0 /\ printed = 0
  /\ file = [text |-> "none", sig |-> 0]
  /\ seen = 0 /\ age = 0 /\ time = 0 /\ stopped = FALSE /\ result = "none"

ProcInit == windows \in BOOLEAN /\ pc = "idle" /\ NoProcess

Forget ==
  /\ child' = "none" /\ told' = FALSE /\ printing' = FALSE
  /\ unsent' = PromptSize /\ stdin' = 0 /\ stdout' = 0 /\ printed' = 0
  /\ file' = [text |-> "none", sig |-> 0]
  /\ seen' = 0 /\ age' = 0 /\ time' = 0 /\ stopped' = FALSE /\ result' = "none"

\* The process ends: what is left in its pipes concerns nobody.
End(code) ==
  /\ child' = code /\ told' = FALSE
  /\ printing' = FALSE /\ stdin' = 0 /\ stdout' = 0 /\ printed' = 0
  /\ UNCHANGED unsent

Kill == IF Running THEN End("failed") ELSE UNCHANGED <<child, told, pipes>>

\* The locals of the watch loop.
Leave == seen' = 0 /\ age' = 0 /\ time' = 0

-----------------------------------------------------------------------------
(***************************************************************************)
(* The host                                                                *)
(***************************************************************************)

\* invoke: a fresh nonce and a fresh directory; complete says that the request
\* names a directory and every required file fits in the snapshot.
Invoke(complete) ==
  /\ pc = "idle"
  /\ Forget
  /\ heirs' = {}
  /\ IF complete THEN pc' = "spawn" ELSE pc' = "refuse"
  /\ UNCHANGED windows

Fail == result' = "error" /\ pc' = "done"

Refuse ==
  /\ pc = "refuse"
  /\ Fail
  /\ UNCHANGED <<windows, child, told, heirs, pipes, file, watch, stopped>>

Spawn ==
  /\ pc = "spawn"
  /\ \/ child' = "running" /\ pc' = "bind" /\ UNCHANGED result
     \/ Fail /\ UNCHANGED child
  /\ UNCHANGED <<windows, told, heirs, pipes, file, watch, stopped>>

\* _provider_process_lifetime: a job object on Windows, nothing elsewhere; a
\* process that cannot be put in the job is killed.
Bind ==
  /\ pc = "bind"
  /\ \/ pc' = "write" /\ UNCHANGED <<child, told, pipes, result>>
     \/ windows /\ Kill /\ Fail
  /\ UNCHANGED <<windows, heirs, file, watch, stopped>>

\* The prompt is written before the drain threads start and before the deadline
\* is set.
Send ==
  /\ pc = "write" /\ unsent > 0 /\ Listening /\ stdin < PipeSize
  /\ unsent' = unsent - 1 /\ stdin' = stdin + 1
  /\ UNCHANGED <<windows, pc, child, told, heirs, printing, stdout, printed, file,
                 watch, stopped, result>>

\* BrokenPipeError: nobody holds the other end, be the process alive or not.
SendBroken ==
  /\ pc = "write" /\ unsent > 0 /\ ~Listening
  /\ result' = "error" /\ pc' = "finally"
  /\ UNCHANGED <<windows, child, told, heirs, pipes, file, watch, stopped>>

StartDrains ==
  /\ pc = "write" /\ unsent = 0
  /\ pc' = "poll"
  /\ UNCHANGED <<windows, child, told, heirs, pipes, file, watch, stopped, result>>

\* The drain threads.
Drain ==
  /\ InLoop \/ pc \in {"reap", "join"}
  /\ stdout > 0
  /\ stdout' = stdout - 1
  /\ UNCHANGED <<windows, pc, child, told, heirs, printing, unsent, stdin, printed,
                 file, watch, stopped, result>>

Poll ==
  /\ pc = "poll"
  /\ pc' = IF Running THEN "file" ELSE "join"
  /\ UNCHANGED <<windows, child, told, heirs, pipes, file, watch, stopped, result>>

Parses == file.text \in Json

NoticeAnswer ==
  /\ pc = "file" /\ Parses /\ file.sig # seen
  /\ seen' = file.sig /\ age' = 0 /\ pc' = "clock"
  /\ UNCHANGED <<windows, child, told, heirs, pipes, file, time, stopped, result>>

\* TerminateProcess ends the process; SIGTERM only asks it to end.
Terminate ==
  IF windows THEN Kill ELSE told' = Running /\ UNCHANGED <<child, pipes>>

\* Mutant of StopStable: the answer is read without waiting for the process.
StopWithoutWait ==
  /\ pc = "file" /\ Parses /\ file.sig = seen /\ age >= StableTime
  /\ stopped' = TRUE /\ pc' = "read"
  /\ Terminate
  /\ UNCHANGED <<windows, heirs, file, watch, result>>

StopStable ==
  /\ pc = "file" /\ Parses /\ file.sig = seen /\ age >= StableTime
  /\ stopped' = TRUE /\ pc' = "reap"
  /\ Terminate
  /\ UNCHANGED <<windows, heirs, file, watch, result>>

KeepWatching ==
  /\ pc = "file"
  /\ ~Parses \/ (file.sig = seen /\ age < StableTime)
  /\ pc' = "clock"
  /\ UNCHANGED <<windows, child, told, heirs, pipes, file, watch, stopped, result>>

\* Mutant of CheckDeadline: the deadline counts only for a process that answered.
CheckDeadlineOnAnswer ==
  /\ pc = "clock"
  /\ IF time < Timeout \/ ~Parses
     THEN pc' = "poll" /\ UNCHANGED <<child, told, pipes, result>>
     ELSE result' = "timeout" /\ pc' = "join" /\ Kill
  /\ UNCHANGED <<windows, heirs, file, watch, stopped>>

CheckDeadline ==
  /\ pc = "clock"
  /\ IF time < Timeout
     THEN pc' = "poll" /\ UNCHANGED <<child, told, pipes, result>>
     ELSE result' = "timeout" /\ pc' = "join" /\ Kill
  /\ UNCHANGED <<windows, heirs, file, watch, stopped>>

\* process.wait() after terminate(): no timeout.
Reap ==
  /\ pc = "reap" /\ ~Running
  /\ pc' = "join"
  /\ UNCHANGED <<windows, child, told, heirs, pipes, file, watch, stopped, result>>

\* Each thread is given two seconds.
Join ==
  /\ pc = "join"
  /\ pc' = "finally"
  /\ Leave
  /\ UNCHANGED <<windows, child, told, heirs, pipes, file, stopped, result>>

\* KeyboardInterrupt.  In the body of the try the finally block follows.  Between
\* Popen and the try, where only an Exception is caught, and in the finally block
\* itself it leaves _run_subprocess with the process as it is.
Interrupt ==
  /\ \/ Inside /\ pc' = "finally"
     \/ pc \in {"refuse", "spawn", "read"} /\ pc' = "done"
     \/ pc \in {"bind", "finally", "linger"} /\ pc' = "escaped"
  /\ result' = "interrupted"
  /\ Leave
  /\ UNCHANGED <<windows, child, told, heirs, pipes, file, stopped>>

\* An exception goes on, a process that has ended is looked at.
Onward == IF result \in Raised THEN "done" ELSE "read"

\* The finally block: closing the last handle of the job kills what is in it; a
\* process that still runs, which it can where there is no job, is waited for.
Finally ==
  /\ pc = "finally"
  /\ heirs' = IF windows THEN heirs \ {"late"} ELSE heirs
  /\ IF windows THEN Kill ELSE UNCHANGED <<child, told, pipes>>
  /\ pc' = IF Running /\ ~windows THEN "linger" ELSE Onward
  /\ UNCHANGED <<windows, file, watch, stopped, result>>

\* Mutant of Linger: two seconds are enough for a process to end.
LingerOnly ==
  /\ pc = "linger"
  /\ pc' = Onward
  /\ UNCHANGED <<windows, child, told, heirs, pipes, file, watch, stopped, result>>

\* wait(timeout=2): by then it has ended or it is killed.
Linger ==
  /\ pc = "linger"
  /\ Kill
  /\ pc' = Onward
  /\ UNCHANGED <<windows, heirs, file, watch, stopped, result>>

\* What invoke makes of a process that ended without a timeout.
Outcome ==
  IF (child = "failed" /\ ~stopped) \/ file.text \notin Answers
  THEN "error" ELSE file.text

ReadAnswer ==
  /\ pc = "read"
  /\ result' = Outcome /\ pc' = "done"
  /\ UNCHANGED <<windows, child, told, heirs, pipes, file, watch, stopped>>

\* The host process is killed; Windows closes its handles, and with the last one
\* the job.  Before Bind there is no job.
HostKilled ==
  /\ Inside \/ pc \in {"bind", "finally", "linger", "read"}
  /\ pc' = IF pc = "bind" THEN "lost" ELSE "dead"
  /\ LET job == windows /\ pc # "bind" IN
     /\ heirs' = IF job THEN heirs \ {"late"} ELSE heirs
     /\ IF job THEN Kill ELSE UNCHANGED <<child, told, pipes>>
  /\ Leave
  /\ UNCHANGED <<windows, file, stopped, result>>

Tick ==
  /\ InLoop /\ time < Timeout
  /\ time' = time + 1
  /\ age' = IF seen # 0 /\ age < StableTime THEN age + 1 ELSE age
  /\ UNCHANGED <<windows, pc, child, told, heirs, pipes, file, seen, stopped, result>>

HostStep ==
  \/ Refuse \/ Spawn \/ Bind \/ Send \/ SendBroken \/ StartDrains \/ Poll
  \/ NoticeAnswer \/ StopStable \/ KeepWatching \/ CheckDeadline \/ Reap \/ Join
  \/ Finally \/ Linger \/ ReadAnswer

-----------------------------------------------------------------------------
(***************************************************************************)
(* The Provider process                                                    *)
(***************************************************************************)

ReadPrompt ==
  /\ Listening /\ ~printing /\ stdin > 0
  /\ stdin' = stdin - 1
  /\ UNCHANGED <<windows, pc, child, told, heirs, printing, unsent, stdout, printed,
                 file, watch, stopped, result>>

CloseInput ==
  /\ Listening /\ ~printing
  /\ child' = "deaf"
  /\ UNCHANGED <<windows, pc, told, heirs, pipes, file, watch, stopped, result>>

StartPrint ==
  /\ Running /\ ~printing /\ printed < OutputSize
  /\ printing' = TRUE /\ printed' = printed + 1
  /\ UNCHANGED <<windows, pc, child, told, heirs, unsent, stdin, stdout, file, watch,
                 stopped, result>>

EndPrint ==
  /\ Running /\ printing /\ stdout < PipeSize
  /\ printing' = FALSE /\ stdout' = stdout + 1
  /\ UNCHANGED <<windows, pc, child, told, heirs, unsent, stdin, printed, file, watch,
                 stopped, result>>

\* An accepted answer repeats the nonce, so the prompt was read to its end.
WriteAnswer(text) ==
  /\ Running /\ ~printing /\ file.sig < Rewrites
  /\ text \in Answers => unsent = 0 /\ stdin = 0
  /\ file' = [text |-> text, sig |-> file.sig + 1]
  /\ UNCHANGED <<windows, pc, child, told, heirs, pipes, seen, age, time, stopped, result>>

StartHeir ==
  /\ Running /\ ~printing /\ heirs = {}
  /\ heirs' = {IF pc = "bind" THEN "early" ELSE "late"}
  /\ UNCHANGED <<windows, pc, child, told, pipes, file, watch, stopped, result>>

Exit(code) ==
  /\ Running /\ ~printing
  /\ End(code)
  /\ UNCHANGED <<windows, pc, heirs, file, watch, stopped, result>>

\* SIGTERM interrupts a blocked write, unless the process ignores it.
Comply ==
  /\ Running /\ told
  /\ End("failed")
  /\ UNCHANGED <<windows, pc, heirs, file, watch, stopped, result>>

ChildStep ==
  \/ ReadPrompt \/ CloseInput \/ StartPrint \/ EndPrint \/ StartHeir \/ Comply
  \/ \E text \in Texts \ {"none"} : WriteAnswer(text)
  \/ \E code \in {"finished", "failed"} : Exit(code)

ProcNext == HostStep \/ Drain \/ Tick \/ Interrupt \/ HostKilled \/ ChildStep

-----------------------------------------------------------------------------
\* Types of the variables of this module.
ProcTypeOK ==
  /\ windows \in BOOLEAN
  /\ pc \in {"idle", "refuse", "spawn", "bind", "write", "poll", "file", "clock",
             "reap", "join", "finally", "linger", "read", "done", "escaped", "dead",
             "lost"}
  /\ child \in {"none", "running", "deaf", "finished", "failed"}
  /\ told \in BOOLEAN /\ printing \in BOOLEAN /\ stopped \in BOOLEAN
  /\ heirs \subseteq {"early", "late"}
  /\ unsent \in 0..PromptSize /\ printed \in 0..OutputSize
  /\ stdin \in 0..PipeSize /\ stdout \in 0..PipeSize
  /\ file \in [text : Texts, sig : 0..Rewrites]
  /\ seen \in 0..Rewrites /\ time \in 0..Timeout
  /\ age \in 0..StableTime
  /\ result \in Answers \cup Raised \cup {"none"}
=============================================================================
