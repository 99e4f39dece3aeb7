--------------------------- MODULE ProviderGateway ---------------------------
(***************************************************************************)
(* ProviderGateway.invoke (engine/providers.py) over the adapters of       *)
(* ProviderProcess, and the ProviderEvidence the orchestrator makes of the *)
(* reply (_provider_record).  The adapters are tried in the order they     *)
(* were registered; a configured fallback is the last resort.              *)
(***************************************************************************)
EXTENDS ProviderProcess, Integers, Sequences

CONSTANTS
  Registries,  \* the sequences of descriptors a gateway may hold
  Fallbacks    \* SUBSET {"none", "configured"}

Descriptors ==
  [offers : BOOLEAN,   \* descriptor.capability is the capability asked for
   availability : {"AVAILABLE", "DEGRADED", "UNAVAILABLE"},
   pinned : BOOLEAN]   \* source_identity and revision_or_version are not blank

ASSUME ProviderGatewayOK ==
  /\ Registries \subseteq Seq(Descriptors)
  /\ Fallbacks \subseteq {"none", "configured"}

VARIABLES
  adapters,   \* self._adapters
  formal,     \* formal_run
  phase,      \* where invoke is
  pos,        \* the adapter it looks at
  attempted,  \* the positions in attempted
  available,  \* provider_available
  started,    \* invocation_started
  reply       \* the ProviderResult

config == <<adapters, formal>>
gwVars == <<config, phase, pos, attempted, available, started, reply>>
gatewayVars == <<procVars, gwVars>>

Positions == 1..Len(adapters)

\* Who answered: the adapter at a position, the fallback, or optional.none.
Fallback == 0
Nobody == -1

Extras == {"nothing", "findings", "limitations"}

\* named are the positions its limitations speak of.
Reply(provider, status, extra, named, avail, execution, valid) ==
  [provider |-> provider, status |-> status, extra |-> extra, named |-> named,
   available |-> avail, execution |-> execution, valid |-> valid]

NoReply == Reply(Nobody, "INCOMPATIBLE", "nothing", {}, FALSE, "NOT_STARTED", FALSE)

SelectInit ==
  /\ adapters \in Registries /\ formal \in BOOLEAN
  /\ phase = "select" /\ pos = 1 /\ attempted = {} /\ available = FALSE
  /\ started = FALSE /\ reply = NoReply

GatewayInit == ProcInit /\ SelectInit

Selecting == phase = "select" /\ pos <= Len(adapters)
Current == adapters[pos]

\* Mutant of GiveUp: the position is advanced first.
GiveUpNext == attempted' = attempted \cup {pos + 1} /\ pos' = pos + 1

\* Skip the adapter, noting why in attempted.
GiveUp == attempted' = attempted \cup {pos} /\ pos' = pos + 1

SkipOther ==
  /\ Selecting /\ ~Current.offers
  /\ pos' = pos + 1
  /\ UNCHANGED <<procVars, config, phase, attempted, available, started, reply>>

\* Mutant of SkipUnavailable: skipped like an adapter of another capability.
SkipSilently ==
  /\ Selecting /\ Current.offers /\ Current.availability = "UNAVAILABLE"
  /\ pos' = pos + 1
  /\ UNCHANGED <<procVars, config, phase, attempted, available, started, reply>>

SkipUnavailable ==
  /\ Selecting /\ Current.offers /\ Current.availability = "UNAVAILABLE"
  /\ GiveUp
  /\ UNCHANGED <<procVars, config, phase, available, started, reply>>

Candidate == Current.offers /\ Current.availability # "UNAVAILABLE"
\* Mutant of Unfit: a degraded Provider will do.
UnfitUnpinned == formal /\ ~Current.pinned

Unfit == formal /\ (~Current.pinned \/ Current.availability = "DEGRADED")

RefuseUnfit ==
  /\ Selecting /\ Candidate /\ Unfit
  /\ available' = TRUE
  /\ GiveUp
  /\ UNCHANGED <<procVars, config, phase, started, reply>>

InvokeAdapter ==
  /\ Selecting /\ Candidate /\ ~Unfit
  /\ available' = TRUE /\ started' = TRUE /\ phase' = "invoking"
  /\ \E complete \in BOOLEAN : Invoke(complete)
  /\ UNCHANGED <<config, pos, attempted, reply>>

\* An exception, a failure status, or a degraded result of a formal run.
Unusable(status) ==
  status \in {"timeout", "error", "INCOMPATIBLE"} \/ (formal /\ status = "DEGRADED")

Returned == phase = "invoking" /\ pc \in {"done", "escaped"}

AdapterFails ==
  /\ Returned /\ Unusable(result)
  /\ GiveUp
  /\ phase' = "select" /\ pc' = "idle"
  /\ Forget /\ heirs' = {} /\ UNCHANGED windows
  /\ UNCHANGED <<config, available, started, reply>>

\* The first usable answer is the reply, with its own findings and limitations:
\* attempted is dropped.
AdapterAnswers ==
  /\ Returned /\ result \in Answers /\ ~Unusable(result)
  /\ \E extra \in Extras :
       reply' = Reply(pos, result, extra, {}, TRUE, "EXECUTED", TRUE)
  /\ phase' = "replied"
  /\ UNCHANGED <<procVars, config, pos, attempted, available, started>>

\* KeyboardInterrupt is no Exception: it ends the call.
Propagate ==
  /\ Returned /\ result = "interrupted"
  /\ phase' = "raised"
  /\ UNCHANGED <<procVars, config, pos, attempted, available, started, reply>>

Exhausted == phase = "select" /\ pos > Len(adapters)

NoFallback ==
  /\ Exhausted /\ "none" \in Fallbacks
  /\ reply' = Reply(Nobody, "INCOMPATIBLE", "limitations", attempted, available,
                    IF started THEN "FAILED" ELSE "NOT_STARTED", FALSE)
  /\ phase' = "replied"
  /\ UNCHANGED <<procVars, config, pos, attempted, available, started>>

\* The fallback is called directly, whatever its descriptor; it raises, or answers,
\* and then the failed attempts join its limitations.
UseFallback ==
  /\ Exhausted /\ "configured" \in Fallbacks
  /\ \/ reply' = Reply(Nobody, "INCOMPATIBLE", "limitations", attempted, TRUE, "FAILED",
                       FALSE)
     \/ \E status \in Answers, extra \in Extras :
          /\ attempted # {} => extra # "nothing"
          /\ reply' = Reply(Fallback, status, extra, attempted, TRUE,
                            IF status = "INCOMPATIBLE" THEN "FAILED" ELSE "EXECUTED",
                            TRUE)
  /\ phase' = "replied"
  /\ UNCHANGED <<procVars, config, pos, attempted, available, started>>

GatewayStep ==
  \/ SkipOther \/ SkipUnavailable \/ RefuseUnfit \/ InvokeAdapter \/ AdapterFails
  \/ AdapterAnswers \/ Propagate \/ NoFallback \/ UseFallback

ProcStep == ProcNext /\ UNCHANGED gwVars

GatewayNext == ProcStep \/ GatewayStep

\* The host and its threads are scheduled and time passes; nothing is assumed of the
\* Provider process.  A fair step is one of these.
Scheduled == {"call", "host", "drain", "clock"}

FairStep(part) ==
  \/ part = "call" /\ GatewayStep
  \/ part = "host" /\ HostStep /\ UNCHANGED gwVars
  \/ part = "drain" /\ Drain /\ UNCHANGED gwVars
  \/ part = "clock" /\ Tick /\ UNCHANGED gwVars

GatewaySpec ==
  GatewayInit /\ [][GatewayNext]_gatewayVars
    /\ \A part \in Scheduled : WF_gatewayVars(FairStep(part))

\* _provider_record
RecordStatus ==
  CASE reply.extra = "findings" -> "FAIL"
    [] reply.extra = "nothing" /\ reply.status = "AVAILABLE" -> "PASS"
    [] OTHER -> "NOT_EXECUTED"

-----------------------------------------------------------------------------
\* Types of the variables of this module.
GatewayTypeOK ==
  /\ ProcTypeOK
  /\ adapters \in Registries /\ formal \in BOOLEAN
  /\ phase \in {"select", "invoking", "replied", "raised"}
  /\ pos \in 1..(Len(adapters) + 1)
  /\ attempted \subseteq Positions
  /\ available \in BOOLEAN /\ started \in BOOLEAN
  /\ reply \in [provider : Positions \cup {Fallback, Nobody}, status : Answers,
                extra : Extras, named : SUBSET Positions, available : BOOLEAN,
                execution : {"NOT_STARTED", "EXECUTED", "FAILED"}, valid : BOOLEAN]

Replied == phase = "replied"

\* The adapter at p can be invoked in this run.
Fits(p) ==
  /\ adapters[p].offers /\ adapters[p].availability # "UNAVAILABLE"
  /\ formal => adapters[p].pinned /\ adapters[p].availability # "DEGRADED"

\* Where no registered Provider answered, the reply, that of the fallback included, names
\* every one that offers the capability; and it says that nothing was started only if
\* none of them could be, for a Provider that failed asks for a proven fallback and one
\* that was not there does not.  The reply of a registered Provider names no other.
NobodyPassedOver ==
  Replied /\ reply.provider \notin Positions =>
    /\ \A p \in Positions : adapters[p].offers => p \in reply.named
    /\ reply.execution = "NOT_STARTED" => \A p \in Positions : ~Fits(p)

\* In a formal run the record of a reply passes only on an executed answer of a pinned
\* Provider that is not degraded, or of the fallback where no Provider offers the
\* capability: the fallback itself is not held to being pinned.
FormalPassIsPinned ==
  Replied /\ formal /\ RecordStatus = "PASS" =>
    IF reply.provider = Fallback
    THEN \A p \in Positions : ~adapters[p].offers
    ELSE /\ adapters[reply.provider].pinned
         /\ adapters[reply.provider].availability = "AVAILABLE"
         /\ reply.execution = "EXECUTED" /\ reply.valid

\* An accepted answer is the last thing its process wrote, and that process has
\* ended: by itself and without failure, or stopped with the answer in place.
AnswerIsFinal ==
  result \in Answers => /\ ~Running /\ file.text = result
                        /\ child = "finished" \/ stopped

\* No Provider process outlives an invocation that returns or raises, be it by a Ctrl-C
\* in the body of the try, and on Windows neither it nor a process it started in the job
\* outlives a host that is killed.  Not so for a Ctrl-C that comes between Popen and the
\* try or in the finally block (escaped) and for a host killed before Bind (lost).
NoOrphans ==
  pc = "done" \/ (pc = "dead" /\ windows) =>
    ~Running /\ (windows => "late" \notin heirs)

\* Where the host waits without a limit: for the process to take the prompt, and
\* for it to obey SIGTERM.
Blocked ==
  \/ Listening /\ pc = "write" /\ unsent > 0 /\ stdin = PipeSize
  \/ Running /\ pc = "reap" /\ told

\* Every call of the gateway ends, with a reply, an interrupt or the death of the
\* host, unless a Provider process keeps the host in one of the two unlimited waits.
CallEnds ==
  <>(phase \in {"replied", "raised"} \/ pc \in {"dead", "lost"}) \/ <>[]Blocked
=============================================================================
