----------------------------- MODULE EgressWatch -----------------------------
(***************************************************************************)
(* The watches beside an audited run (detect_linux.go).  The inner process *)
(* installs a seccomp filter whose listener it hands to the engine over a  *)
(* socket; the engine records what each notified call was about to do and  *)
(* lets it continue.  A sampler reads the counters of the run's cgroup,    *)
(* which the engine removes at the end.                                    *)
(*                                                                         *)
(* A watched call is made by a process of its own, which may die while the *)
(* engine looks at it; its process id may then be another's.  The kernel   *)
(* answers ENOSYS to every waiting call once nobody holds the listener.    *)
(***************************************************************************)
EXTENDS Naturals, FiniteSets

CONSTANTS
  Calls,           \* the watched calls of the workload
  Dest,            \* [Calls -> destinations], UdpSocket for socket()
  UdpSocket, Proxy,\* a new UDP socket; the egress proxy's own address
  Elsewhere,       \* what another process' memory would read as
  MaxEgressNotes, MaxContentionSamples

Unread == "nothing"

ASSUME WatchAssumption ==
  /\ {Elsewhere, Unread} \intersect ({Dest[c] : c \in Calls} \union {UdpSocket, Proxy}) = {}
  /\ MaxEgressNotes \in Nat /\ MaxContentionSamples \in Nat

VARIABLES
  engine,    \* the engine's place in the run
  inner,     \* the inner process, then the command it executes
  confined,  \* whether a PID namespace ends every process with the run
  holders,   \* who holds the listener: inner, socket (in flight), engine
  filtered,  \* the filter is installed
  parentEnd, \* the engine's end of the socket is open
  serve,     \* the serve goroutine
  current,   \* the call it looks at
  read,      \* the destination it read for it
  stop,      \* the stop channel is closed
  call,      \* each watched call
  notes, report,
  lost,      \* history: a hand-over of the listener failed
  sampler, samples, cgroup

watchVars == <<engine, inner, confined, holders, filtered, parentEnd, serve,
  current, read, stop, call, notes, report, lost, sampler, samples, cgroup>>
serveVars == <<serve, current, read, notes>>
cgroupVars == <<sampler, samples, cgroup>>

NoCall == "no call"
Open == {"idle", "waiting", "received"}
InsideServe == {"loop", "polling", "inspecting", "read", "valid", "answering"}

WatchTypeOK ==
  /\ engine \in {"prepared", "running", "stopping", "stopped", "cleaning", "done",
                 "abandoned", "killed"}
  /\ inner \in {"unborn", "starting", "installed", "sent", "command", "ended"}
  /\ confined \in BOOLEAN /\ filtered \in BOOLEAN /\ parentEnd \in BOOLEAN
  /\ stop \in BOOLEAN /\ lost \in BOOLEAN
  /\ holders \subseteq {"inner", "socket", "engine"}
  /\ serve \in {"none", "receiving", "done"} \union InsideServe
  /\ current \in Calls \union {NoCall}
  /\ call \in [Calls -> Open \union {"continued", "unwatched", "enosys", "gone"}]
  /\ Cardinality(notes) <= MaxEgressNotes /\ report \subseteq notes
  /\ sampler \in {"off", "ticking", "stopping", "done"}
  /\ samples \in 0..MaxContentionSamples
  /\ cgroup \in {"none", "there", "removed", "left"}

WatchInit ==
  /\ engine = "prepared" /\ inner = "unborn" /\ confined \in BOOLEAN
  /\ holders = {} /\ filtered = FALSE /\ parentEnd = TRUE
  /\ serve = "none" /\ current = NoCall /\ read = Unread
  /\ stop = FALSE /\ lost = FALSE
  /\ call = [c \in Calls |-> "idle"]
  /\ notes = {} /\ report = {}
  /\ sampler = "off" /\ samples = 0 /\ cgroup = "none"

\* The kernel's side of closing descriptors of the listener, while the calls
\* of a set go with their processes.
Release(who, dying) ==
  /\ holders' = holders \ who
  /\ call' = [c \in Calls |->
       CASE c \in dying /\ call[c] \in Open -> "gone"
         [] c \notin dying /\ filtered /\ holders' = {}
            /\ call[c] \in {"waiting", "received"} -> "enosys"
         [] OTHER -> call[c]]
-----------------------------------------------------------------------------
\* cmd.Start: started closes the child's end and starts serve; start starts
\* the sampler.  When Start fails, abandon closes both ends.
StartInner ==
  /\ engine = "prepared"
  /\ engine' = "running" /\ inner' = "starting"
  /\ serve' = "receiving" /\ sampler' = "ticking"
  /\ UNCHANGED <<confined, holders, filtered, parentEnd, current, read, stop, call,
                 notes, report, lost, samples, cgroup>>

Abandon ==
  /\ engine = "prepared"
  /\ engine' = "abandoned" /\ parentEnd' = FALSE
  /\ UNCHANGED <<inner, confined, holders, filtered, serve, current, read, stop, call,
                 notes, report, lost, sampler, samples, cgroup>>

InnerOnly == UNCHANGED <<engine, confined, serve, current, read, stop, notes, report,
                         parentEnd, sampler, samples>>

\* installEgressNotify: the filter and its listener, the message that carries
\* it (without effect on a closed socket), the close of the own copy.  The
\* cgroup is made before.  A kernel that refuses leaves the run unwatched.
InstallFilter ==
  /\ inner = "starting"
  /\ inner' = "installed" /\ filtered' = TRUE /\ holders' = {"inner"}
  /\ cgroup' = "there"
  /\ UNCHANGED <<call, lost>> /\ InnerOnly

InstallFails ==
  /\ inner = "starting"
  /\ inner' = "command" /\ cgroup' \in {"none", "there"}
  /\ UNCHANGED <<holders, filtered, call, lost>> /\ InnerOnly

SendListener ==
  /\ inner = "installed"
  /\ inner' = "sent"
  /\ holders' = IF parentEnd THEN holders \union {"socket"} ELSE holders
  /\ lost' = (lost \/ ~parentEnd)
  /\ UNCHANGED <<filtered, call, cgroup>> /\ InnerOnly

CloseOwnListener ==
  /\ inner = "sent"
  /\ inner' = "command"
  /\ Release({"inner"}, {})
  /\ UNCHANGED <<filtered, lost, cgroup>> /\ InnerOnly

\* The command, or the inner process before it, ends; with a PID namespace
\* every other process of the run ends with it, and a command that has not
\* begun has none.
EndInner ==
  /\ inner \notin {"unborn", "ended"}
  /\ inner' = "ended"
  /\ Release({"inner"}, IF confined \/ inner # "command" THEN Calls ELSE {})
  /\ UNCHANGED <<filtered, lost, cgroup>> /\ InnerOnly

MakeCall(c) ==
  /\ inner = "command" \/ (inner = "ended" /\ ~confined)
  /\ call[c] = "idle"
  /\ call' = [call EXCEPT ![c] = CASE ~filtered -> "unwatched"
                                   [] filtered /\ holders = {} -> "enosys"
                                   [] OTHER -> "waiting"]
  /\ UNCHANGED <<inner, holders, filtered, lost, cgroup>> /\ InnerOnly

CallerDies(c) ==
  /\ inner \in {"command", "ended"} /\ call[c] \in Open
  /\ call' = [call EXCEPT ![c] = "gone"]
  /\ UNCHANGED <<inner, holders, filtered, lost, cgroup>> /\ InnerOnly
-----------------------------------------------------------------------------
ServeOnly == UNCHANGED <<engine, inner, confined, filtered, stop, report>>
             /\ UNCHANGED cgroupVars

\* receiveListener: what has arrived is taken.
ReceiveListener ==
  /\ serve = "receiving" /\ ~stop /\ "socket" \in holders
  /\ serve' = "loop"
  /\ holders' = (holders \ {"socket"}) \union {"engine"}
  /\ UNCHANGED <<call, parentEnd, current, read, notes, lost>> /\ ServeOnly

\* It gives up when the run stops, when the other end is closed with nothing
\* sent, or when the descriptor cannot be received; serve then closes its end
\* of the socket and drops what is in flight.
ReceiveGivesUp ==
  /\ serve = "receiving"
  /\ stop \/ "socket" \in holders
     \/ ("socket" \notin holders /\ inner \in {"command", "ended"})
  /\ serve' = "done" /\ parentEnd' = FALSE
  /\ lost' = (lost \/ "socket" \in holders)
  /\ Release({"socket"}, {})
  /\ UNCHANGED <<current, read, notes>> /\ ServeOnly

\* serve: the loop looks at stop, then polls for at most 100 ms ...
ServeLoop ==
  /\ serve = "loop" /\ ~stop
  /\ serve' = "polling"
  /\ UNCHANGED <<holders, parentEnd, call, current, read, notes, lost>> /\ ServeOnly

\* A slip: the end of the command is taken for the end of every process.
ExitedCommand == inner = "ended"

\* ... and ends on stop, or when every watched process has exited.
Exited == inner = "ended" /\ \A c \in Calls : call[c] \notin Open
\* A slip: the listener stays open when the loop ends.
ServeEndsHolding ==
  /\ (serve = "loop" /\ stop) \/ (serve = "polling" /\ Exited)
  /\ serve' = "done" /\ parentEnd' = FALSE
  /\ UNCHANGED <<holders, call, current, read, notes, lost>> /\ ServeOnly

ServeEnds ==
  /\ (serve = "loop" /\ stop) \/ (serve = "polling" /\ Exited)
  /\ serve' = "done" /\ parentEnd' = FALSE
  /\ Release({"engine"}, {})
  /\ UNCHANGED <<current, read, notes, lost>> /\ ServeOnly

PollTimesOut ==
  /\ serve = "polling" /\ ~Exited /\ \A c \in Calls : call[c] # "waiting"
  /\ serve' = "loop"
  /\ UNCHANGED <<holders, parentEnd, call, current, read, notes, lost>> /\ ServeOnly

ReceiveCall(c) ==
  /\ serve = "polling" /\ call[c] = "waiting"
  /\ serve' = "inspecting" /\ current' = c
  /\ call' = [call EXCEPT ![c] = "received"]
  /\ UNCHANGED <<holders, parentEnd, read, notes, lost>> /\ ServeOnly

\* inspect: a new UDP socket is recorded as it is; for connect and sendto the
\* address is read from the caller's memory, or from whoever has its process
\* id now, or nobody.
ReadTarget ==
  /\ serve = "inspecting"
  /\ \E bytes \in IF Dest[current] = UdpSocket \/ call[current] = "received"
                  THEN {Dest[current]} ELSE {Elsewhere, Unread} :
       /\ read' = bytes
       /\ serve' = CASE bytes = Unread -> "answering"
                     [] bytes = UdpSocket -> "valid"
                     [] OTHER -> "read"
  /\ UNCHANGED <<holders, parentEnd, call, current, notes, lost>> /\ ServeOnly

\* A slip: what was read is recorded without asking for the id.
CheckIdSkipped ==
  /\ serve = "read"
  /\ serve' = "valid"
  /\ UNCHANGED <<holders, parentEnd, call, current, read, notes, lost>> /\ ServeOnly

\* The notification id says whether the caller is still in its call.
CheckId ==
  /\ serve = "read"
  /\ serve' = IF call[current] = "received" THEN "valid" ELSE "answering"
  /\ UNCHANGED <<holders, parentEnd, call, current, read, notes, lost>> /\ ServeOnly

Noted(d) == d # Proxy

\* A slip: the notes have no cap.
RecordPastCap ==
  /\ serve = "valid"
  /\ serve' = "answering"
  /\ notes' = IF Noted(read) THEN notes \union {read} ELSE notes
  /\ UNCHANGED <<holders, parentEnd, call, current, read, lost>> /\ ServeOnly

Record ==
  /\ serve = "valid"
  /\ serve' = "answering"
  /\ notes' = IF Noted(read) /\ Cardinality(notes) < MaxEgressNotes
              THEN notes \union {read} ELSE notes
  /\ UNCHANGED <<holders, parentEnd, call, current, read, lost>> /\ ServeOnly

Answer ==
  /\ serve = "answering"
  /\ serve' = "loop" /\ current' = NoCall /\ read' = Unread
  /\ call' = [c \in Calls |-> IF c = current /\ call[c] = "received"
                              THEN "continued" ELSE call[c]]
  /\ UNCHANGED <<holders, parentEnd, notes, lost>> /\ ServeOnly
-----------------------------------------------------------------------------
EngineOnly == UNCHANGED <<inner, confined, filtered, lost, samples>>

\* finish: stop is closed, the loop is given two seconds, and the notes are
\* read under the mutex whether it has ended or not.
BeginFinish ==
  /\ engine = "running" /\ inner = "ended"
  /\ engine' = "stopping" /\ stop' = TRUE
  /\ UNCHANGED <<holders, parentEnd, call, report, sampler, cgroup>>
  /\ EngineOnly /\ UNCHANGED serveVars

EndFinish ==
  /\ engine = "stopping"
  /\ engine' = "stopped" /\ report' = notes
  /\ UNCHANGED <<holders, parentEnd, call, stop, sampler, cgroup>>
  /\ EngineOnly /\ UNCHANGED serveVars

\* The sampler: one delta per tick and counter, up to the cap.  cgroupWatch's
\* finish closes its stop channel and waits for it, without a timeout.
SampleTick ==
  /\ sampler = "ticking" /\ cgroup = "there" /\ samples < MaxContentionSamples
  /\ samples' = samples + 1
  /\ UNCHANGED <<engine, inner, confined, holders, filtered, parentEnd, stop, call,
                 report, lost, sampler, cgroup>> /\ UNCHANGED serveVars

\* A slip: the sampler's stop channel is never closed.
StopSamplerUnasked ==
  /\ engine = "stopped" /\ sampler = "stopping"
  /\ sampler' = "done"
  /\ UNCHANGED <<engine, holders, parentEnd, stop, call, report, cgroup>>
  /\ EngineOnly /\ UNCHANGED serveVars

StopSampler ==
  /\ engine = "stopped" /\ sampler \in {"ticking", "stopping"}
  /\ sampler' = IF sampler = "ticking" THEN "stopping" ELSE "done"
  /\ UNCHANGED <<engine, holders, parentEnd, stop, call, report, cgroup>>
  /\ EngineOnly /\ UNCHANGED serveVars

\* Five attempts to remove the cgroup; a process that outlived the run keeps
\* it busy and it is left.
RemoveCgroup ==
  /\ engine = "stopped" /\ sampler = "done"
  /\ engine' = "done"
  /\ cgroup' = IF cgroup # "there" THEN cgroup
               ELSE IF \E c \in Calls : call[c] \in Open THEN "left" ELSE "removed"
  /\ UNCHANGED <<holders, parentEnd, stop, call, report, sampler>>
  /\ EngineOnly /\ UNCHANGED serveVars

\* The engine is killed: the kernel closes what it held, and what was sent.
KillEngine ==
  /\ engine \in {"running", "stopping", "stopped"}
  /\ engine' = "killed" /\ serve' = "done" /\ parentEnd' = FALSE
  /\ sampler' = "done"
  /\ Release({"engine", "socket"}, {})
  /\ UNCHANGED <<current, read, notes, stop, report, cgroup>> /\ EngineOnly

ServeStep ==
  \/ ReceiveListener \/ ReceiveGivesUp \/ ServeLoop \/ ServeEnds \/ PollTimesOut
  \/ (\E c \in Calls : ReceiveCall(c)) \/ ReadTarget \/ CheckId \/ Record \/ Answer

InnerStep == InstallFilter \/ InstallFails \/ SendListener \/ CloseOwnListener

FinishStep == BeginFinish \/ EndFinish \/ StopSampler \/ RemoveCgroup

WatchNext ==
  \/ StartInner \/ Abandon \/ InnerStep \/ EndInner
  \/ (\E c \in Calls : MakeCall(c) \/ CallerDies(c))
  \/ ServeStep \/ FinishStep \/ SampleTick \/ KillEngine

WatchSpec == WatchInit /\ [][WatchNext]_watchVars
  /\ WF_watchVars(ServeStep) /\ WF_watchVars(InnerStep) /\ WF_watchVars(FinishStep)
-----------------------------------------------------------------------------
\* The audit is complete and true: every watched call that the engine let
\* continue, other than one to the proxy, is noted unless the notes are full
\* (record comes before the answer), and no note is about another process'
\* memory (inspect asks for the id after the read).
NotesAreTheCalls ==
  /\ \A c \in Calls : call[c] = "continued" /\ Dest[c] # Proxy =>
       Dest[c] \in notes \/ Cardinality(notes) = MaxEgressNotes
  /\ notes \subseteq {Dest[c] : c \in Calls} \ {Proxy}

\* The watch only observes: no call of the workload fails with ENOSYS before
\* the run is over, unless the listener could not be handed over or the
\* engine is gone (serve: "closed only when the run is over").
NoEarlyRefusal ==
  \A c \in Calls : call[c] = "enosys" => stop \/ lost \/ engine = "killed"

\* A watched call is not kept waiting for ever, and once the inner process
\* has ended the engine finishes: whether the listener arrives, gets lost on
\* the way, or the engine stops while calls wait (receiveListener, serve).
CallsAnswered == \A c \in Calls :
  call[c] \in {"waiting", "received"} ~> call[c] \notin {"waiting", "received"}
FinishReturns == engine = "running" /\ inner = "ended" ~> engine \in {"done", "killed"}
=============================================================================
