-------------------------- MODULE ProviderGatewayProofs --------------------------
(***************************************************************************)
(* ProviderGateway and the invocation under it, proved for every registry, *)
(* every size of prompt, output and pipe, and every timeout.               *)
(*                                                                         *)
(* The invocation: PInv says in which steps of the host there is a process,*)
(* where it has ended, and that an answer is only held at the end.  The    *)
(* selection: SInv says that every position behind pos that offers the     *)
(* capability is in attempted, that nothing was started only if none of    *)
(* them fits, and what the invoked adapter was found to be.  The two share *)
(* nothing but the start and the end of an invocation.                     *)
(***************************************************************************)
EXTENDS ProviderGateway, TLAPS

Before == {"idle", "refuse", "spawn"}
During == {"bind", "write", "poll", "file", "clock", "reap", "join", "finally", "linger",
           "read"}

\* There is a process from Spawn on, and nothing of it before.
ProcessExists ==
  /\ pc \in Before \cup During \cup {"done", "escaped", "dead", "lost"}
  /\ child \in {"none", "running", "deaf", "finished", "failed"}
  /\ pc \in Before => child = "none" /\ heirs = {}
  /\ pc \in During => child # "none"

\* Nothing is put in the job before Bind, and nothing of it is left where the host has
\* closed it or has died with it.
JobIsClosed ==
  /\ pc = "bind" => "late" \notin heirs
  /\ pc = "linger" => ~windows
  /\ pc \in {"read", "done"} \/ (pc = "dead" /\ windows) =>
       ~Running /\ (windows => "late" \notin heirs)

\* An answer is held only once the file has been read, and the file is as it was read.
AnswerStands ==
  result \in Answers => /\ pc = "done" /\ file.text = result
                        /\ child = "finished" \/ stopped

PInv == ProcessExists /\ JobIsClosed /\ AnswerStands

-----------------------------------------------------------------------------
LEMMA ProcInitial == ProcInit => PInv
  BY DEF ProcInit, NoProcess, PInv, ProcessExists, JobIsClosed, AnswerStands, Before, During,
         Running, Answers

LEMMA KillEnds ==
  ASSUME Kill, ProcessExists
  PROVE  /\ child' \in {"none", "finished", "failed"}
         /\ child # "none" => child' # "none"
  BY DEF Kill, End, ProcessExists, Running

\* The steps of the host.
LEMMA HostKeeps == ASSUME PInv, HostStep PROVE PInv'
  <1> USE DEF PInv, ProcessExists, JobIsClosed, AnswerStands, Before, During, Running,
              Answers, Fail
  <1>1. CASE Refuse
    BY <1>1 DEF Refuse
  <1>2. CASE Spawn
    BY <1>2 DEF Spawn
  <1>3. CASE Bind
    BY <1>3 DEF Bind, Kill, End
  <1>4. CASE Send \/ StartDrains \/ Poll \/ NoticeAnswer \/ KeepWatching
    BY <1>4 DEF Send, StartDrains, Poll, NoticeAnswer, KeepWatching
  <1>5. CASE SendBroken
    BY <1>5 DEF SendBroken
  <1>6. CASE StopStable
    BY <1>6 DEF StopStable, Terminate, Kill, End
  <1>7. CASE CheckDeadline
    BY <1>7 DEF CheckDeadline, Kill, End
  <1>8. CASE Reap \/ Join
    BY <1>8 DEF Reap, Join
  <1>9. CASE Finally
    BY <1>9, KillEnds DEF Finally, Onward
  <1>11. CASE Linger
    BY <1>11, KillEnds DEF Linger, Onward
  <1>10. CASE ReadAnswer
    BY <1>10 DEF ReadAnswer, Outcome
  <1> QED
    BY <1>1, <1>2, <1>3, <1>4, <1>5, <1>6, <1>7, <1>8, <1>9, <1>10, <1>11 DEF HostStep

\* The steps of the Provider process.
LEMMA ChildKeeps == ASSUME PInv, ChildStep PROVE PInv'
  <1> USE DEF PInv, ProcessExists, JobIsClosed, AnswerStands, Before, During, Running, Answers
  <1>1. CASE ReadPrompt \/ CloseInput \/ StartPrint \/ EndPrint
    BY <1>1 DEF ReadPrompt, CloseInput, Listening, StartPrint, EndPrint
  <1>2. CASE StartHeir
    BY <1>2 DEF StartHeir
  <1>3. CASE Comply
    BY <1>3 DEF Comply, End
  <1>4. ASSUME NEW text \in Texts \ {"none"}, WriteAnswer(text) PROVE PInv'
    BY <1>4 DEF WriteAnswer
  <1>5. ASSUME NEW code \in {"finished", "failed"}, Exit(code) PROVE PInv'
    BY <1>5 DEF Exit, End
  <1> QED  BY <1>1, <1>2, <1>3, <1>4, <1>5 DEF ChildStep

LEMMA ProcKeeps == ASSUME PInv, ProcNext PROVE PInv'
  <1>1. CASE HostStep
    BY <1>1, HostKeeps
  <1>2. CASE ChildStep
    BY <1>2, ChildKeeps
  <1>3. CASE Drain \/ Tick \/ Interrupt
    BY <1>3 DEF Drain, Tick, Interrupt, Inside, InLoop, PInv, ProcessExists, JobIsClosed,
                AnswerStands, Before, During, Running, Answers
  <1>4. CASE HostKilled
    <2>1. CASE windows /\ pc # "bind"
      BY <1>4, <2>1, KillEnds
         DEF HostKilled, Inside, InLoop, PInv, ProcessExists, JobIsClosed, AnswerStands, Before,
             During, Running, Answers
    <2>2. CASE ~(windows /\ pc # "bind")
      BY <1>4, <2>2
         DEF HostKilled, Inside, InLoop, PInv, ProcessExists, JobIsClosed, AnswerStands, Before,
             During, Running, Answers
    <2> QED  BY <2>1, <2>2
  <1> QED  BY <1>1, <1>2, <1>3, <1>4 DEF ProcNext

\* The steps of the gateway start an invocation, forget it, or leave it alone.
LEMMA GatewayKeepsProcess == ASSUME PInv, GatewayStep PROVE PInv'
  <1> USE DEF PInv, ProcessExists, JobIsClosed, AnswerStands, Before, During, Running, Answers
  <1>1. CASE InvokeAdapter
    BY <1>1 DEF InvokeAdapter, Invoke, Forget
  <1>2. CASE AdapterFails
    BY <1>2 DEF AdapterFails, Forget
  <1>3. CASE UNCHANGED procVars
    BY <1>3 DEF procVars
  <1> QED
    BY <1>1, <1>2, <1>3
       DEF GatewayStep, SkipOther, SkipUnavailable, RefuseUnfit, AdapterAnswers, Propagate,
           NoFallback, UseFallback

-----------------------------------------------------------------------------
SelectionTyped ==
  /\ adapters \in Seq(Descriptors) /\ formal \in BOOLEAN
  /\ phase \in {"select", "invoking", "replied", "raised"}
  /\ pos \in 1..(Len(adapters) + 1)

\* What has been left behind that offers the capability is in attempted.
PassedAreNamed ==
  \A p \in Positions : p < pos /\ adapters[p].offers => p \in attempted

\* Nothing has been started only while what lies behind could not be.
StartsWhatFits == ~started => \A p \in Positions : p < pos => ~Fits(p)

\* What is invoked fits, and was started.
InvokedFits ==
  phase = "invoking" => pos \in Positions /\ Candidate /\ ~Unfit /\ started

\* A reply is that of the adapter at pos, or all adapters are behind it.
ReplyIsDue ==
  Replied => \/ /\ reply.provider = pos /\ pos \in Positions /\ Candidate /\ ~Unfit
                /\ reply.execution = "EXECUTED" /\ reply.valid
             \/ /\ reply.provider = Fallback /\ pos > Len(adapters)
                /\ reply.named = attempted /\ reply.execution # "NOT_STARTED"
                /\ attempted # {} => reply.extra # "nothing"
             \/ /\ reply.provider = Nobody /\ pos > Len(adapters)
                /\ reply.named = attempted
                /\ reply.execution = "NOT_STARTED" => ~started
                /\ reply.extra = "limitations"

SInv == SelectionTyped /\ PassedAreNamed /\ StartsWhatFits /\ InvokedFits /\ ReplyIsDue

LEMMA SelectInitial == SelectInit => SInv
  BY ProviderGatewayOK
     DEF SelectInit, SInv, SelectionTyped, PassedAreNamed, StartsWhatFits, InvokedFits,
         ReplyIsDue, Replied, Positions

LEMMA SelectionKeeps == ASSUME SInv, GatewayStep PROVE SInv'
  <1>b. adapters' = adapters /\ formal' = formal
    <2>1. UNCHANGED config
      BY DEF GatewayStep, SkipOther, SkipUnavailable, RefuseUnfit, InvokeAdapter, AdapterFails,
             AdapterAnswers, Propagate, NoFallback, UseFallback
    <2> QED  BY <2>1 DEF config
  <1>a. /\ adapters' = adapters /\ formal' = formal /\ Positions' = Positions
        /\ adapters \in Seq(Descriptors) /\ Len(adapters) \in Nat
    BY <1>b DEF SInv, SelectionTyped, Positions
  <1>1. CASE SkipOther \/ SkipUnavailable \/ RefuseUnfit
    <2>1. pos' = pos + 1 /\ pos \in Positions /\ phase' = "select" /\ started' = started
      BY <1>1 DEF SkipOther, SkipUnavailable, RefuseUnfit, GiveUp, Selecting, SInv,
                  SelectionTyped, Positions
    <2>2. ~Fits(pos)
      BY <1>1 DEF SkipOther, SkipUnavailable, RefuseUnfit, Unfit, Current, Fits
    <2>3. attempted \subseteq attempted' /\ (adapters[pos].offers => pos \in attempted')
      BY <1>1 DEF SkipOther, SkipUnavailable, RefuseUnfit, GiveUp, Current
    <2>4. PassedAreNamed'
      BY <1>a, <2>1, <2>3 DEF SInv, PassedAreNamed, Positions
    <2>5. StartsWhatFits'
      BY <1>a, <2>1, <2>2 DEF SInv, StartsWhatFits, Fits, Positions
    <2> QED
      BY <1>a, <2>1, <2>4, <2>5
         DEF SInv, SelectionTyped, InvokedFits, ReplyIsDue, Replied, Positions
  <1>2. CASE InvokeAdapter
    <2>1. /\ pos' = pos /\ attempted' = attempted /\ phase' = "invoking" /\ started' = TRUE
          /\ pos \in Positions /\ Candidate /\ ~Unfit
      BY <1>2 DEF InvokeAdapter, Selecting, SInv, SelectionTyped, Positions
    <2>2. Candidate' /\ ~Unfit'
      BY <1>a, <2>1 DEF Candidate, Unfit, Current
    <2> QED
      BY <1>a, <2>1, <2>2
         DEF SInv, SelectionTyped, PassedAreNamed, StartsWhatFits, InvokedFits, ReplyIsDue,
             Replied, Positions
  <1>3. CASE AdapterFails
    <2>1. pos' = pos + 1 /\ pos \in Positions /\ phase' = "select"
          /\ attempted' = attempted \cup {pos} /\ started' = started /\ started
      BY <1>3 DEF AdapterFails, Returned, GiveUp, SInv, InvokedFits
    <2> QED
      BY <1>a, <2>1
         DEF SInv, SelectionTyped, PassedAreNamed, StartsWhatFits, InvokedFits, ReplyIsDue,
             Replied, Positions
  <1>4. CASE AdapterAnswers
    <2>1. /\ pos' = pos /\ attempted' = attempted /\ phase' = "replied" /\ started' = started
          /\ pos \in Positions /\ Candidate /\ ~Unfit /\ started
          /\ reply'.provider = pos /\ reply'.execution = "EXECUTED" /\ reply'.valid = TRUE
      BY <1>4 DEF AdapterAnswers, Returned, Reply, SInv, InvokedFits
    <2>2. Candidate' /\ ~Unfit'
      BY <1>a, <2>1 DEF Candidate, Unfit, Current
    <2> QED
      BY <1>a, <2>1, <2>2
         DEF SInv, SelectionTyped, PassedAreNamed, StartsWhatFits, InvokedFits, ReplyIsDue,
             Replied, Positions
  <1>5. CASE Propagate
    <2>1. UNCHANGED <<pos, attempted, started, reply>> /\ phase' = "raised"
      BY <1>5 DEF Propagate
    <2> QED
      BY <1>a, <2>1
         DEF SInv, SelectionTyped, PassedAreNamed, StartsWhatFits, Fits, InvokedFits,
             ReplyIsDue, Replied, Positions
  <1>6. CASE NoFallback \/ UseFallback
    <2>1. /\ pos' = pos /\ attempted' = attempted /\ phase' = "replied" /\ started' = started
          /\ pos > Len(adapters) /\ reply'.named = attempted
          /\ \/ /\ reply'.provider = Nobody /\ reply'.extra = "limitations"
                /\ reply'.execution = "NOT_STARTED" => ~started
             \/ /\ reply'.provider = Fallback /\ reply'.execution # "NOT_STARTED"
                /\ attempted # {} => reply'.extra # "nothing"
      BY <1>6 DEF NoFallback, UseFallback, Exhausted, Reply
    <2>2. PassedAreNamed' /\ StartsWhatFits'
      BY <1>a, <2>1 DEF SInv, PassedAreNamed, StartsWhatFits, Fits, Positions
    <2> QED
      BY <1>a, <2>1, <2>2 DEF SInv, SelectionTyped, InvokedFits, ReplyIsDue, Replied, Positions
  <1> QED  BY <1>1, <1>2, <1>3, <1>4, <1>5, <1>6 DEF GatewayStep

\* What the selection knows does not depend on the process.
LEMMA SelectionApart == ASSUME SInv, UNCHANGED gwVars PROVE SInv'
  BY DEF gwVars, config, SInv, SelectionTyped, PassedAreNamed, StartsWhatFits, Fits,
         InvokedFits, ReplyIsDue, Replied, Positions, Candidate, Unfit, Current

-----------------------------------------------------------------------------
\* GatewaySpec without its fairness, which no safety property needs.
GatewaySafety == GatewayInit /\ [][GatewayNext]_gatewayVars

\* Both invariants hold of every behavior of the gateway, fair or not.
THEOREM GatewayInvariant == GatewaySafety => [](PInv /\ SInv)
  <1>1. GatewayInit => PInv /\ SInv
    BY ProcInitial, SelectInitial DEF GatewayInit
  <1>2. PInv /\ SInv /\ [GatewayNext]_gatewayVars => (PInv /\ SInv)'
    <2> SUFFICES ASSUME PInv, SInv, [GatewayNext]_gatewayVars PROVE (PInv /\ SInv)'
      OBVIOUS
    <2>1. CASE ProcStep
      BY <2>1, ProcKeeps, SelectionApart DEF ProcStep
    <2>2. CASE GatewayStep
      BY <2>2, GatewayKeepsProcess, SelectionKeeps
    <2>3. CASE UNCHANGED gatewayVars
      <3>1. PInv'
        BY <2>3 DEF gatewayVars, procVars, PInv, ProcessExists, JobIsClosed, AnswerStands,
                    Running
      <3> QED  BY <2>3, <3>1, SelectionApart DEF gatewayVars
    <2> QED  BY <2>1, <2>2, <2>3 DEF GatewayNext
  <1> QED  BY <1>1, <1>2, PTL DEF GatewaySafety

\* For every registry: a reply that is not a registered Provider's names every Provider
\* that offers the capability, and says that nothing was started only if none fits.
THEOREM NobodyIsPassedOver == GatewaySafety => []NobodyPassedOver
  <1>1. SInv => NobodyPassedOver
    <2> SUFFICES ASSUME SInv, Replied, reply.provider \notin Positions
                 PROVE  /\ \A p \in Positions : adapters[p].offers => p \in reply.named
                        /\ reply.execution = "NOT_STARTED" => \A p \in Positions : ~Fits(p)
      BY DEF NobodyPassedOver
    <2>1. /\ pos > Len(adapters) /\ reply.named = attempted
          /\ reply.execution = "NOT_STARTED" => ~started
      BY DEF SInv, ReplyIsDue
    <2>2. \A p \in Positions : p < pos
      BY <2>1 DEF SInv, SelectionTyped, Positions
    <2> QED  BY <2>1, <2>2 DEF SInv, PassedAreNamed, StartsWhatFits
  <1> QED  BY <1>1, GatewayInvariant, PTL

\* For every registry: a formal pass rests on a pinned Provider, or on a fallback where
\* no Provider offers the capability.
THEOREM FormalPassesArePinned == GatewaySafety => []FormalPassIsPinned
  <1>1. SInv => FormalPassIsPinned
    <2> SUFFICES ASSUME SInv, Replied, formal, RecordStatus = "PASS"
                 PROVE  IF reply.provider = Fallback
                        THEN \A p \in Positions : ~adapters[p].offers
                        ELSE /\ adapters[reply.provider].pinned
                             /\ adapters[reply.provider].availability = "AVAILABLE"
                             /\ reply.execution = "EXECUTED" /\ reply.valid
      BY DEF FormalPassIsPinned
    <2>1. reply.extra = "nothing"
      BY DEF RecordStatus
    <2>2. CASE reply.provider = pos /\ pos \in Positions /\ Candidate /\ ~Unfit
               /\ reply.execution = "EXECUTED" /\ reply.valid
      <3>1. adapters[pos] \in Descriptors
        BY <2>2 DEF SInv, SelectionTyped, Positions
      <3>2. reply.provider # Fallback
        BY <2>2 DEF Positions, Fallback
      <3> QED
        BY <2>2, <3>1, <3>2 DEF Candidate, Unfit, Current, Descriptors
    <2>3. CASE reply.provider = Fallback /\ pos > Len(adapters) /\ attempted = {}
      BY <2>3 DEF SInv, SelectionTyped, PassedAreNamed, Positions
    <2> QED  BY <2>1, <2>2, <2>3 DEF SInv, ReplyIsDue
  <1> QED  BY <1>1, GatewayInvariant, PTL

\* For all sizes and timeouts: an answer that is accepted is what its process wrote
\* last, and the process has ended.
THEOREM AnswersAreFinal == GatewaySafety => []AnswerIsFinal
  <1>1. PInv => AnswerIsFinal
    BY DEF PInv, AnswerStands, JobIsClosed, AnswerIsFinal
  <1> QED  BY <1>1, GatewayInvariant, PTL

\* For all sizes and timeouts: no Provider process outlives an invocation that ends
\* outside the two windows of a Ctrl-C, nor, in the job of Windows, a host that is killed.
THEOREM NothingIsOrphaned == GatewaySafety => []NoOrphans
  <1>1. PInv => NoOrphans
    BY DEF PInv, JobIsClosed, NoOrphans
  <1> QED  BY <1>1, GatewayInvariant, PTL

-----------------------------------------------------------------------------
(***************************************************************************)
(* Types                                                                   *)
(***************************************************************************)

LEMMA Sizes == /\ PromptSize \in Nat /\ OutputSize \in Nat /\ StableTime \in Nat
               /\ Rewrites \in Nat /\ PipeSize \in Nat /\ Timeout \in Nat
  BY ProviderProcessOK

\* ProcTypeOK in parts: what is a flag or a name, what is counted, the answer file.
FlagsTyped ==
  /\ windows \in BOOLEAN /\ told \in BOOLEAN /\ printing \in BOOLEAN /\ stopped \in BOOLEAN
  /\ pc \in {"idle", "refuse", "spawn", "bind", "write", "poll", "file", "clock",
             "reap", "join", "finally", "linger", "read", "done", "escaped", "dead",
             "lost"}
  /\ child \in {"none", "running", "deaf", "finished", "failed"}
  /\ heirs \subseteq {"early", "late"}

CountsTyped ==
  /\ unsent \in 0..PromptSize /\ printed \in 0..OutputSize
  /\ stdin \in 0..PipeSize /\ stdout \in 0..PipeSize
  /\ seen \in 0..Rewrites /\ time \in 0..Timeout /\ age \in 0..StableTime
  /\ file.sig \in 0..Rewrites

AnswerTyped ==
  /\ file = [text |-> file.text, sig |-> file.sig] /\ file.text \in Texts
  /\ result \in Answers \cup Raised \cup {"none"}

LEMMA ProcTypeParts == ProcTypeOK <=> FlagsTyped /\ CountsTyped /\ AnswerTyped
  <1>1. file \in [text : Texts, sig : 0..Rewrites] <=>
          /\ file = [text |-> file.text, sig |-> file.sig] /\ file.text \in Texts
          /\ file.sig \in 0..Rewrites
    OBVIOUS
  <1> QED  BY <1>1 DEF ProcTypeOK, FlagsTyped, CountsTyped, AnswerTyped

LEMMA ProcTypeNext == ASSUME FlagsTyped', CountsTyped', AnswerTyped' PROVE ProcTypeOK'
  <1>1. file' \in [text : Texts, sig : 0..Rewrites]
    BY DEF CountsTyped, AnswerTyped
  <1> QED  BY <1>1 DEF ProcTypeOK, FlagsTyped, CountsTyped, AnswerTyped

LEMMA ProcInitialType == ProcInit => ProcTypeOK
  <1> SUFFICES ASSUME ProcInit PROVE ProcTypeOK
    OBVIOUS
  <1> USE DEF ProcInit, NoProcess
  <1>1. FlagsTyped
    BY DEF FlagsTyped
  <1>2. CountsTyped
    BY Sizes DEF CountsTyped
  <1>3. AnswerTyped
    BY DEF AnswerTyped, Texts
  <1> QED  BY <1>1, <1>2, <1>3, ProcTypeParts

\* A process that is killed or ends, and one that is forgotten.
LEMMA KillType ==
  ASSUME Kill, FlagsTyped, CountsTyped
  PROVE  /\ child' \in {"none", "running", "deaf", "finished", "failed"}
         /\ told' \in BOOLEAN /\ printing' \in BOOLEAN
         /\ unsent' \in 0..PromptSize /\ printed' \in 0..OutputSize
         /\ stdin' \in 0..PipeSize /\ stdout' \in 0..PipeSize
  <1>1. child' \in {"none", "running", "deaf", "finished", "failed"}
        /\ told' \in BOOLEAN /\ printing' \in BOOLEAN
    BY DEF Kill, End, pipes, FlagsTyped
  <1>2. /\ unsent' \in 0..PromptSize /\ printed' \in 0..OutputSize
        /\ stdin' \in 0..PipeSize /\ stdout' \in 0..PipeSize
    BY Sizes DEF Kill, End, pipes, CountsTyped
  <1> QED  BY <1>1, <1>2

LEMMA ForgetType ==
  ASSUME Forget, heirs' = {}, windows' = windows, FlagsTyped,
         pc' \in {"idle", "refuse", "spawn"}
  PROVE  ProcTypeOK'
  <1>1. FlagsTyped'
    BY DEF FlagsTyped, Forget
  <1>2. CountsTyped'
    BY Sizes DEF CountsTyped, Forget
  <1>3. AnswerTyped'
    BY DEF AnswerTyped, Texts, Forget
  <1> QED  BY <1>1, <1>2, <1>3, ProcTypeNext

LEMMA StillType == ASSUME UNCHANGED procVars, ProcTypeOK PROVE ProcTypeOK'
  BY DEF procVars, pipes, watch, ProcTypeOK

LEMMA HostType == ASSUME ProcTypeOK, HostStep PROVE ProcTypeOK'
  <1>a. FlagsTyped /\ CountsTyped /\ AnswerTyped
    BY ProcTypeParts
  <1>1. CASE Refuse \/ Spawn
    <2>1. FlagsTyped'
      BY <1>a, <1>1 DEF Refuse, Spawn, Fail, FlagsTyped, pipes
    <2>2. CountsTyped'
      BY <1>a, <1>1, Sizes DEF Refuse, Spawn, Fail, CountsTyped, pipes, watch
    <2>3. AnswerTyped'
      BY <1>a, <1>1 DEF Refuse, Spawn, Fail, AnswerTyped, Raised
    <2> QED  BY <2>1, <2>2, <2>3, ProcTypeNext
  <1>2. CASE Bind
    <2>1. FlagsTyped'
      BY <1>a, <1>2, KillType DEF Bind, Fail, FlagsTyped, pipes
    <2>2. CountsTyped'
      BY <1>a, <1>2, KillType, Sizes DEF Bind, Fail, CountsTyped, pipes, watch
    <2>3. AnswerTyped'
      BY <1>a, <1>2 DEF Bind, Fail, AnswerTyped, Raised
    <2> QED  BY <2>1, <2>2, <2>3, ProcTypeNext
  <1>3. CASE Send \/ SendBroken \/ StartDrains
    <2>1. FlagsTyped'
      BY <1>a, <1>3 DEF Send, SendBroken, StartDrains, FlagsTyped, pipes
    <2>2. CountsTyped'
      BY <1>a, <1>3, Sizes DEF Send, SendBroken, StartDrains, CountsTyped, pipes, watch
    <2>3. AnswerTyped'
      BY <1>a, <1>3 DEF Send, SendBroken, StartDrains, AnswerTyped, Raised
    <2> QED  BY <2>1, <2>2, <2>3, ProcTypeNext
  <1>4. CASE Poll \/ NoticeAnswer \/ KeepWatching
    <2>1. FlagsTyped'
      BY <1>a, <1>4 DEF Poll, NoticeAnswer, KeepWatching, FlagsTyped, pipes
    <2>2. CountsTyped'
      BY <1>a, <1>4, Sizes DEF Poll, NoticeAnswer, KeepWatching, CountsTyped, pipes, watch
    <2>3. AnswerTyped'
      BY <1>a, <1>4 DEF Poll, NoticeAnswer, KeepWatching, AnswerTyped, Raised
    <2> QED  BY <2>1, <2>2, <2>3, ProcTypeNext
  <1>5. CASE StopStable
    <2>1. FlagsTyped'
      <3>1. CASE windows
        BY <1>a, <1>5, <3>1, KillType DEF StopStable, Terminate, FlagsTyped
      <3>2. CASE ~windows
        BY <1>a, <1>5, <3>2 DEF StopStable, Terminate, Running, FlagsTyped, pipes
      <3> QED  BY <3>1, <3>2
    <2>2. CountsTyped'
      BY <1>a, <1>5, KillType, Sizes DEF StopStable, Terminate, CountsTyped, pipes, watch
    <2>3. AnswerTyped'
      BY <1>a, <1>5 DEF StopStable, Terminate, AnswerTyped, Raised
    <2> QED  BY <2>1, <2>2, <2>3, ProcTypeNext
  <1>6. CASE CheckDeadline
    <2>1. FlagsTyped'
      BY <1>a, <1>6, KillType DEF CheckDeadline, FlagsTyped, pipes
    <2>2. CountsTyped'
      BY <1>a, <1>6, KillType, Sizes DEF CheckDeadline, CountsTyped, pipes, watch
    <2>3. AnswerTyped'
      BY <1>a, <1>6 DEF CheckDeadline, AnswerTyped, Raised
    <2> QED  BY <2>1, <2>2, <2>3, ProcTypeNext
  <1>7. CASE Reap \/ Join
    <2>1. FlagsTyped'
      BY <1>a, <1>7 DEF Reap, Join, Leave, FlagsTyped, pipes
    <2>2. CountsTyped'
      BY <1>a, <1>7, Sizes DEF Reap, Join, Leave, CountsTyped, pipes, watch
    <2>3. AnswerTyped'
      BY <1>a, <1>7 DEF Reap, Join, Leave, AnswerTyped, Raised
    <2> QED  BY <2>1, <2>2, <2>3, ProcTypeNext
  <1>8. CASE Finally \/ Linger
    <2>1. FlagsTyped'
      BY <1>a, <1>8, KillType DEF Finally, Linger, Onward, FlagsTyped, pipes
    <2>2. CountsTyped'
      BY <1>a, <1>8, KillType, Sizes DEF Finally, Linger, CountsTyped, pipes, watch
    <2>3. AnswerTyped'
      BY <1>a, <1>8 DEF Finally, Linger, AnswerTyped, Raised
    <2> QED  BY <2>1, <2>2, <2>3, ProcTypeNext
  <1>9. CASE ReadAnswer
    <2>1. FlagsTyped'
      BY <1>a, <1>9 DEF ReadAnswer, Outcome, FlagsTyped, pipes
    <2>2. CountsTyped'
      BY <1>a, <1>9, Sizes DEF ReadAnswer, Outcome, CountsTyped, pipes, watch
    <2>3. AnswerTyped'
      BY <1>a, <1>9 DEF ReadAnswer, Outcome, AnswerTyped, Raised
    <2> QED  BY <2>1, <2>2, <2>3, ProcTypeNext
  <1> QED
    BY <1>1, <1>2, <1>3, <1>4, <1>5, <1>6, <1>7, <1>8, <1>9 DEF HostStep

LEMMA ChildType == ASSUME ProcTypeOK, ChildStep PROVE ProcTypeOK'
  <1>a. FlagsTyped /\ CountsTyped /\ AnswerTyped
    BY ProcTypeParts
  <1>1. CASE ReadPrompt \/ CloseInput \/ StartPrint \/ EndPrint
    <2>1. FlagsTyped'
      BY <1>a, <1>1, ZenonT(60) DEF ReadPrompt, CloseInput, StartPrint, EndPrint, FlagsTyped,
                                    pipes
    <2>2. CountsTyped'
      BY <1>a, <1>1, Sizes
         DEF ReadPrompt, CloseInput, StartPrint, EndPrint, CountsTyped, pipes, watch
    <2>3. AnswerTyped'
      BY <1>a, <1>1 DEF ReadPrompt, CloseInput, StartPrint, EndPrint, AnswerTyped, Raised
    <2> QED  BY <2>1, <2>2, <2>3, ProcTypeNext
  <1>2. CASE StartHeir
    <2>1. FlagsTyped'
      BY <1>a, <1>2 DEF StartHeir, FlagsTyped, pipes
    <2>2. CountsTyped'
      BY <1>a, <1>2, Sizes DEF StartHeir, CountsTyped, pipes, watch
    <2>3. AnswerTyped'
      BY <1>a, <1>2 DEF StartHeir, AnswerTyped, Raised
    <2> QED  BY <2>1, <2>2, <2>3, ProcTypeNext
  <1>3. CASE Comply
    <2>1. FlagsTyped'
      BY <1>a, <1>3 DEF Comply, End, FlagsTyped, pipes
    <2>2. CountsTyped'
      BY <1>a, <1>3, Sizes DEF Comply, End, CountsTyped, pipes, watch
    <2>3. AnswerTyped'
      BY <1>a, <1>3 DEF Comply, End, AnswerTyped, Raised
    <2> QED  BY <2>1, <2>2, <2>3, ProcTypeNext
  <1>4. ASSUME NEW text \in Texts \ {"none"}, WriteAnswer(text) PROVE ProcTypeOK'
    <2>1. FlagsTyped'
      BY <1>a, <1>4 DEF WriteAnswer, FlagsTyped, pipes
    <2>2. CountsTyped'
      BY <1>a, <1>4, Sizes DEF WriteAnswer, CountsTyped, pipes
    <2>3. AnswerTyped'
      BY <1>a, <1>4 DEF WriteAnswer, AnswerTyped
    <2> QED  BY <2>1, <2>2, <2>3, ProcTypeNext
  <1>5. ASSUME NEW code \in {"finished", "failed"}, Exit(code) PROVE ProcTypeOK'
    <2>1. FlagsTyped'
      BY <1>a, <1>5 DEF Exit, End, FlagsTyped
    <2>2. CountsTyped'
      BY <1>a, <1>5, Sizes DEF Exit, End, CountsTyped, watch
    <2>3. AnswerTyped'
      BY <1>a, <1>5 DEF Exit, End, AnswerTyped
    <2> QED  BY <2>1, <2>2, <2>3, ProcTypeNext
  <1> QED  BY <1>1, <1>2, <1>3, <1>4, <1>5 DEF ChildStep

LEMMA ProcType == ASSUME ProcTypeOK, ProcNext PROVE ProcTypeOK'
  <1>a. FlagsTyped /\ CountsTyped /\ AnswerTyped
    BY ProcTypeParts
  <1>1. CASE Drain \/ Tick
    <2>1. FlagsTyped'
      BY <1>a, <1>1, ZenonT(60) DEF Drain, Tick, FlagsTyped, pipes
    <2>2. CountsTyped'
      BY <1>a, <1>1, Sizes DEF Drain, Tick, CountsTyped, pipes, watch
    <2>3. AnswerTyped'
      BY <1>a, <1>1 DEF Drain, Tick, AnswerTyped, Raised
    <2> QED  BY <2>1, <2>2, <2>3, ProcTypeNext
  <1>2. CASE Interrupt
    <2>1. FlagsTyped'
      BY <1>a, <1>2 DEF Interrupt, Leave, FlagsTyped, pipes
    <2>2. CountsTyped'
      BY <1>a, <1>2, Sizes DEF Interrupt, Leave, CountsTyped, pipes, watch
    <2>3. AnswerTyped'
      BY <1>a, <1>2 DEF Interrupt, Leave, AnswerTyped, Raised
    <2> QED  BY <2>1, <2>2, <2>3, ProcTypeNext
  <1>3. CASE HostKilled
    <2>1. FlagsTyped'
      BY <1>a, <1>3, KillType DEF HostKilled, Leave, FlagsTyped, pipes
    <2>2. CountsTyped'
      BY <1>a, <1>3, KillType, Sizes DEF HostKilled, Leave, CountsTyped, pipes, watch
    <2>3. AnswerTyped'
      BY <1>a, <1>3 DEF HostKilled, Leave, AnswerTyped, Raised
    <2> QED  BY <2>1, <2>2, <2>3, ProcTypeNext
  <1>4. CASE HostStep
    BY <1>4, HostType
  <1>5. CASE ChildStep
    BY <1>5, ChildType
  <1> QED  BY <1>1, <1>2, <1>3, <1>4, <1>5 DEF ProcNext

LEMMA GatewayStepType == ASSUME GatewayTypeOK, SelectionTyped, InvokedFits, GatewayStep PROVE GatewayTypeOK'
  <1> DEFINE Replies == [provider : Positions \cup {Fallback, Nobody}, status : Answers,
                         extra : Extras, named : SUBSET Positions, available : BOOLEAN,
                         execution : {"NOT_STARTED", "EXECUTED", "FAILED"}, valid : BOOLEAN]
  <1>1. /\ UNCHANGED config /\ Positions' = Positions /\ Len(adapters) \in Nat
        /\ adapters' = adapters /\ formal' = formal
    <2>1. UNCHANGED config
      BY DEF GatewayStep, SkipOther, SkipUnavailable, RefuseUnfit, InvokeAdapter, AdapterFails,
             AdapterAnswers, Propagate, NoFallback, UseFallback
    <2> QED  BY <2>1 DEF config, Positions, SelectionTyped
  <1>2. ProcTypeOK'
    <2>1. CASE InvokeAdapter
      BY <2>1, ProcTypeParts, ForgetType DEF InvokeAdapter, Invoke, GatewayTypeOK
    <2>2. CASE AdapterFails
      BY <2>2, ProcTypeParts, ForgetType DEF AdapterFails, GatewayTypeOK
    <2>3. CASE UNCHANGED procVars
      BY <2>3, StillType DEF GatewayTypeOK
    <2> QED
      BY <2>1, <2>2, <2>3
         DEF GatewayStep, SkipOther, SkipUnavailable, RefuseUnfit, AdapterAnswers, Propagate,
             NoFallback, UseFallback
  <1>3. phase' \in {"select", "invoking", "replied", "raised"}
        /\ available' \in BOOLEAN /\ started' \in BOOLEAN
    BY DEF GatewayStep, SkipOther, SkipUnavailable, RefuseUnfit, InvokeAdapter, AdapterFails,
           AdapterAnswers, Propagate, NoFallback, UseFallback, GatewayTypeOK
  <1>b. ASSUME pos \in Positions, pos' = pos + 1 PROVE pos' \in 1..(Len(adapters) + 1)
    BY <1>1, <1>b DEF Positions
  <1>5. pos' \in 1..(Len(adapters) + 1) /\ attempted' \subseteq Positions
    <2>1. CASE SkipOther \/ SkipUnavailable \/ RefuseUnfit
      <3>1. pos \in Positions
        BY <1>1, <2>1 DEF SkipOther, SkipUnavailable, RefuseUnfit, Selecting, Positions,
                          SelectionTyped
      <3> QED  BY <1>b, <2>1, <3>1 DEF SkipOther, SkipUnavailable, RefuseUnfit, GiveUp,
                                       GatewayTypeOK
    <2>2. CASE InvokeAdapter \/ AdapterAnswers \/ Propagate \/ NoFallback \/ UseFallback
      BY <2>2 DEF InvokeAdapter, AdapterAnswers, Propagate, NoFallback, UseFallback,
                  GatewayTypeOK
    <2>3. CASE AdapterFails
      <3>1. pos \in Positions
        BY <2>3 DEF AdapterFails, Returned, InvokedFits
      <3> QED  BY <1>b, <2>3, <3>1 DEF AdapterFails, GiveUp, GatewayTypeOK
    <2> QED  BY <2>1, <2>2, <2>3 DEF GatewayStep
  <1> HIDE DEF Replies
  <1>4. reply' \in Replies
    <2>1. CASE UNCHANGED reply
      BY <1>1, <2>1 DEF GatewayTypeOK, Replies
    <2>a. \A who \in Positions \cup {Fallback, Nobody}, status \in Answers, extra \in Extras,
             named \in SUBSET Positions, avail \in BOOLEAN,
             execution \in {"NOT_STARTED", "EXECUTED", "FAILED"}, valid \in BOOLEAN :
               Reply(who, status, extra, named, avail, execution, valid) \in Replies
      BY DEF Reply, Replies
    <2>b. "INCOMPATIBLE" \in Answers /\ "limitations" \in Extras /\ {} \in SUBSET Positions
          /\ attempted \in SUBSET Positions
      BY DEF Answers, Extras, GatewayTypeOK
    <2>2. CASE AdapterAnswers
      <3>1. pos \in Positions
        BY <2>2 DEF AdapterAnswers, Returned, InvokedFits
      <3>2. PICK extra \in Extras : reply' = Reply(pos, result, extra, {}, TRUE, "EXECUTED", TRUE)
        BY <2>2 DEF AdapterAnswers
      <3>3. result \in Answers
        BY <2>2 DEF AdapterAnswers
      <3> QED  BY <2>a, <2>b, <3>1, <3>2, <3>3, Zenon
    <2>3. CASE NoFallback
      <3>1. PICK execution \in {"NOT_STARTED", "EXECUTED", "FAILED"} :
              reply' =
                Reply(Nobody, "INCOMPATIBLE", "limitations", attempted, available, execution, FALSE)
        BY <2>3 DEF NoFallback
      <3>2. available \in BOOLEAN
        BY DEF GatewayTypeOK
      <3> QED  BY <2>a, <2>b, <3>1, <3>2, Zenon
    <2>4. CASE UseFallback
      <3>1. CASE reply' = Reply(Nobody, "INCOMPATIBLE", "limitations", attempted, TRUE, "FAILED",
                               FALSE)
        BY <2>a, <2>b, <3>1, Zenon
      <3>2. CASE \E status \in Answers, extra \in Extras,
                  execution \in {"NOT_STARTED", "EXECUTED", "FAILED"} :
                   reply' = Reply(Fallback, status, extra, attempted, TRUE, execution, TRUE)
        <4>1. PICK status \in Answers, extra \in Extras,
                   execution \in {"NOT_STARTED", "EXECUTED", "FAILED"} :
                   reply' = Reply(Fallback, status, extra, attempted, TRUE, execution, TRUE)
          BY <3>2, Zenon
        <4> QED  BY <2>a, <2>b, <4>1, Zenon
      <3> QED  BY <2>4, <3>1, <3>2 DEF UseFallback
    <2> QED
      BY <2>1, <2>2, <2>3, <2>4
         DEF GatewayStep, SkipOther, SkipUnavailable, RefuseUnfit, InvokeAdapter, AdapterFails,
             Propagate
  <1> QED  BY <1>1, <1>2, <1>3, <1>4, <1>5 DEF GatewayTypeOK, Replies

\* For every registry and all sizes and timeouts the variables keep their types.
THEOREM GatewayTypeCorrect == GatewaySafety => []GatewayTypeOK
  <1>1. GatewayInit => GatewayTypeOK
    <2> SUFFICES ASSUME GatewayInit PROVE GatewayTypeOK
      OBVIOUS
    <2>1. Len(adapters) \in Nat
      BY SelectInitial, ProviderGatewayOK DEF GatewayInit, SelectInit
    <2>2. pos \in 1..(Len(adapters) + 1)
      BY <2>1 DEF GatewayInit, SelectInit
    <2>3. reply \in [provider : Positions \cup {Fallback, Nobody}, status : Answers,
                    extra : Extras, named : SUBSET Positions, available : BOOLEAN,
                    execution : {"NOT_STARTED", "EXECUTED", "FAILED"}, valid : BOOLEAN]
      BY DEF GatewayInit, SelectInit, NoReply, Reply, Answers, Extras
    <2> QED
      BY <2>2, <2>3, ProcInitialType DEF GatewayInit, SelectInit, GatewayTypeOK
  <1>2. GatewayTypeOK /\ SInv /\ [GatewayNext]_gatewayVars => GatewayTypeOK'
    <2> SUFFICES ASSUME GatewayTypeOK, SInv, [GatewayNext]_gatewayVars PROVE GatewayTypeOK'
      OBVIOUS
    <2>1. CASE ProcStep
      <3>1. ProcTypeOK'
        BY <2>1, ProcType DEF ProcStep, GatewayTypeOK
      <3> QED  BY <2>1, <3>1 DEF ProcStep, gwVars, config, GatewayTypeOK, Positions
    <2>2. CASE GatewayStep
      BY <2>2, GatewayStepType DEF SInv
    <2>3. CASE UNCHANGED gatewayVars
      BY <2>3, StillType DEF gatewayVars, gwVars, config, GatewayTypeOK, Positions
    <2> QED  BY <2>1, <2>2, <2>3 DEF GatewayNext
  <1> QED  BY <1>1, <1>2, GatewayInvariant, PTL DEF GatewaySafety
=============================================================================
