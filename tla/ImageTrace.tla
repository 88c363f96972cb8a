----------------------------- MODULE ImageTrace -----------------------------
(***************************************************************************)
(* The trace of the images a Windows run loads (internal/dlltrace): the    *)
(* session that records the process and image events of the whole machine, *)
(* and Attribute, which picks those of the run's processes out of them.    *)
(*                                                                         *)
(* The machine is the environment: processes start others, load images and *)
(* end, ids are used again, the kernel loses an event, another program     *)
(* stops the session.                                                      *)
(***************************************************************************)
EXTENDS Naturals, Sequences, FiniteSets, SequencesExt

CONSTANTS
  Pids,             \* process ids
  StartKinds,       \* how a process starts: [exe, maps], maps the images in it
  LaterImages,      \* images loaded later
  LauncherPid,      \* the id that the run's first process gets
  SkippedImage,     \* the console host: its own loads are not reported
  MaxTraceEvents,   \* events logged, at most
  MaxLostEvents,    \* steps with a lost or missed event, at most
  MaxKeptEvents,    \* maxEvents
  MaxLibraryLoads   \* images reported, at most

VARIABLES
  proc,      \* pid -> its process [exe, traced, launcher], or Free
  log,       \* the events of the session
  lost, missed, \* steps with one the kernel lost, or after the session's end
  wanted,    \* the loads to report, as the machine knows them
  traceAt,   \* where the engine is
  session,   \* "none", "live", "ended"
  consumer,  \* "none", "opened", "attached", "done"
  kept, overflow,            \* how many events the callback stored, and not
  early, stopFailed, drainFailed,
  reportedLoads

traceVars == <<proc, log, lost, missed, wanted, traceAt, session, consumer, kept, overflow, early,
               stopFailed, drainFailed, reportedLoads>>
worldVars == <<proc, log, lost, missed, wanted>>
sessionVars == <<kept, overflow, early, stopFailed, drainFailed, reportedLoads>>

Engine == "engine"  \* the parent of the run's first process
System == "system"  \* the parent of those that have nothing to do with it
Free == [exe |-> "", traced |-> FALSE, launcher |-> FALSE]
Console == [Free EXCEPT !.exe = SkippedImage]
TraceEvent(kind, pid, parent, image) == [kind |-> kind, pid |-> pid, parent |-> parent, image |-> image]
-----------------------------------------------------------------------------
\* Attribute: events become the lifetimes of processes, by id.
Lifetime(pid) == [pid |-> pid, image |-> "", parent |-> 0, started |-> FALSE, root |-> FALSE]
NoLifetimes == [live |-> [p \in Pids \union {Engine, System} |-> 0], all |-> <<>>, loads |-> <<>>]

Current(s, pid) ==
  IF s.live[pid] # 0 THEN s
  ELSE [s EXCEPT !.all = Append(@, Lifetime(pid)), !.live[pid] = Len(s.all) + 1]

\* A second start without a stop means that the stop was lost; a load can come
\* before the start, for the kernel maps a program before it logs that.
OnStart(s, e) ==
  LET old   == s.live[e.pid]
      ended == IF old # 0 /\ s.all[old].started THEN [s EXCEPT !.live[e.pid] = 0] ELSE s
      c     == Current(Current(ended, e.pid), e.parent)
  IN  [c EXCEPT !.all[c.live[e.pid]] =
         [@ EXCEPT !.started = TRUE, !.image = e.image, !.parent = c.live[e.parent],
                   !.root = @ \/ (e.pid = LauncherPid /\ e.parent = Engine)]]
OnLoad(s, e) ==
  LET c == Current(s, e.pid)
  IN  [c EXCEPT !.loads = Append(@, [in |-> c.live[e.pid], path |-> e.image])]

\* A slip: processes are told apart by their ids.
OnEventById(s, e) ==
  CASE e.kind = "start" -> OnStart(s, e) [] e.kind = "stop" -> s [] e.kind = "load" -> OnLoad(s, e)

OnTraceEvent(s, e) ==
  CASE e.kind = "start" -> OnStart(s, e)
    [] e.kind = "stop" -> [s EXCEPT !.live[e.pid] = 0]
    [] e.kind = "load" -> OnLoad(s, e)

\* Without the start of the launcher, the process that had its id all along.
RootsOf(all) ==
  IF \E i \in DOMAIN all : all[i].root THEN {i \in DOMAIN all : all[i].root}
  ELSE {i \in DOMAIN all : all[i].pid = LauncherPid /\ ~all[i].started}

\* One look per lifetime is enough to come from a root to all below it.
TracedOf(all) ==
  FoldLeft(LAMBDA within, each : within \union {i \in DOMAIN all : all[i].parent \in within},
           RootsOf(all), all)

AddLoad(loads, path, pid, process) ==
  IF path = process \/ process = SkippedImage \/ \E i \in DOMAIN loads : loads[i].path = path
  THEN loads ELSE Append(loads, [path |-> path, pid |-> pid, process |-> process])

\* The loads of the launcher's descendants, each image once, but for the
\* programs of the processes themselves.
Attribute(events) ==
  LET s == FoldLeft(OnTraceEvent, NoLifetimes, events)
      traced == TracedOf(s.all) \ RootsOf(s.all)
  IN  FoldLeft(LAMBDA out, l : IF l.in \in traced
                 THEN AddLoad(out, l.path, s.all[l.in].pid, s.all[l.in].image) ELSE out,
               <<>>, s.loads)

FirstLoads(loads) ==
  IF Len(loads) > MaxLibraryLoads THEN SubSeq(loads, 1, MaxLibraryLoads) ELSE loads
-----------------------------------------------------------------------------
TraceInit ==
  /\ \E q \in Pids : proc = [p \in Pids |-> IF p = q THEN Console ELSE Free]
  /\ log = <<>> /\ lost = 0 /\ missed = 0 /\ wanted = <<>>
  /\ traceAt = "start" /\ session = "none" /\ consumer = "none"
  /\ kept = 0 /\ overflow = 0 /\ early = FALSE /\ stopFailed = FALSE /\ drainFailed = FALSE
  /\ reportedLoads = <<>>

\* The bound on events; each that is lost makes room for two less, and is lost
\* while there is room for two.
TraceRoom(n) == Len(log) + n + 2 * (lost + missed) <= MaxTraceEvents

\* Events are logged while the session is live, and one may get lost.
LogEvents(events) ==
  \/ session = "live" /\ log' = log \o events /\ UNCHANGED <<lost, missed>>
  \/ /\ lost + missed < MaxLostEvents /\ TraceRoom(Len(events) + 2)
     /\ IF session = "live"
        THEN lost' = lost + 1 /\ UNCHANGED missed /\ \E i \in 1..Len(events) : log' = log \o RemoveAt(events, i)
        ELSE missed' = missed + 1 /\ UNCHANGED <<log, lost>>

Want(loads, p, q, path) ==
  IF p.traced /\ ~p.launcher THEN AddLoad(loads, path, q, p.exe) ELSE loads

\* A process maps what it starts with before its start is logged.
Starting(parent, q) ==
  /\ proc[q] = Free
  /\ \E start \in {s \in StartKinds : TraceRoom(1 + Len(s.maps))} :
       LET p == [exe |-> start.exe, launcher |-> parent = Engine,
                 traced |-> IF parent \in Pids THEN proc[parent].traced ELSE parent = Engine]
       IN  /\ p.launcher => p.exe # SkippedImage
           /\ proc' = [proc EXCEPT ![q] = p]
           /\ wanted' = FoldLeft(LAMBDA w, path : Want(w, p, q, path), wanted, start.maps)
           /\ LogEvents([i \in 1..Len(start.maps) |-> TraceEvent("load", q, "", start.maps[i])]
                  \o <<TraceEvent("start", q, parent, p.exe)>>)

LoadImage(q) ==
  /\ proc[q] # Free /\ TraceRoom(1)
  /\ \E path \in LaterImages : wanted' = Want(wanted, proc[q], q, path) /\ LogEvents(<<TraceEvent("load", q, "", path)>>)
  /\ UNCHANGED proc

StopProcess(q) ==
  /\ proc[q] # Free /\ TraceRoom(1)
  /\ proc' = [proc EXCEPT ![q] = Free] /\ LogEvents(<<TraceEvent("stop", q, "", "")>>)
  /\ UNCHANGED wanted

\* From when the session records on, until the run is over: what came before is
\* in the initial states.
WindowsMachine ==
  /\ traceAt \in {"recording", "running"}
  /\ \E q \in Pids : \/ LoadImage(q) \/ StopProcess(q) \/ Starting(System, q)
                      \/ \E parent \in Pids : proc[parent] # Free /\ Starting(parent, q)
  /\ UNCHANGED <<traceAt, session, consumer, sessionVars>>

\* The run's first process starts once the trace has.
StartLauncher ==
  /\ traceAt = "recording" /\ traceAt' = "running"
  /\ Starting(Engine, LauncherPid)
  /\ UNCHANGED <<session, consumer, sessionVars>>

\* Another program stops the session.
SessionStopped ==
  /\ traceAt \in {"wait ready", "recording", "running"} /\ session = "live" /\ session' = "ended"
  /\ UNCHANGED <<worldVars, traceAt, consumer, sessionVars>>
-----------------------------------------------------------------------------
\* newSession and enable: without the rights there is no session.
StartSession ==
  /\ traceAt = "start"
  /\ \/ session' = "live" /\ traceAt' \in {"consume", "abort"}
     \/ traceAt' = "over" /\ UNCHANGED session
  /\ UNCHANGED <<worldVars, consumer, sessionVars>>

OpenConsumer ==
  /\ traceAt = "consume"
  /\ \/ consumer' = "opened" /\ traceAt' = "wait ready"
     \/ traceAt' = "abort" /\ UNCHANGED consumer
  /\ UNCHANGED <<worldVars, session, sessionVars>>

\* ProcessTrace connects on a thread of its own; one that finds no session ends.
Attach ==
  /\ consumer = "opened" /\ consumer' = IF session = "live" THEN "attached" ELSE "done"
  /\ UNCHANGED <<worldVars, traceAt, session, sessionVars>>

\* The marker has come through, the consumer has ended, or time is up.
WaitReady ==
  /\ traceAt = "wait ready"
  /\ traceAt' \in (IF consumer = "attached" THEN {"recording"} ELSE {}) \union {"abort"}
  /\ UNCHANGED <<worldVars, session, consumer, sessionVars>>

\* onEvent.  The events of different processors come in any order, and are
\* sorted by their times before they are looked at.  A delivery changes nothing
\* for the machine, so it is enough to look at those after the session's end.
StoreEvent ==
  /\ consumer = "attached" /\ session = "ended" /\ kept + overflow < Len(log) /\ traceAt \notin {"collect", "over"}
  /\ IF kept < MaxKeptEvents THEN kept' = kept + 1 /\ UNCHANGED overflow
     ELSE overflow' = overflow + 1 /\ UNCHANGED kept
  /\ UNCHANGED <<worldVars, traceAt, session, consumer, early, stopFailed, drainFailed, reportedLoads>>

\* ProcessTrace returns once the ended session is drained.
ConsumerEnds ==
  /\ consumer = "attached" /\ session = "ended" /\ kept + overflow = Len(log)
  /\ consumer' = "done"
  /\ UNCHANGED <<worldVars, traceAt, session, sessionVars>>
-----------------------------------------------------------------------------
\* Stop, once the launcher has ended.
BeginStop ==
  /\ traceAt = "running" /\ \A p \in Pids : ~proc[p].launcher
  /\ traceAt' = "control"
  /\ early' = (consumer = "done")
  /\ UNCHANGED <<worldVars, session, consumer, kept, overflow, stopFailed, drainFailed,
                 reportedLoads>>

\* What is logged is flushed to the consumer; an ended session is an error.
ControlStop ==
  /\ traceAt \in {"control", "abort"}
  /\ traceAt' = IF traceAt = "control" THEN "drain" ELSE "over"
  /\ stopFailed' = (session # "live") /\ session' = "ended"
  /\ UNCHANGED <<worldVars, consumer, kept, overflow, early, drainFailed, reportedLoads>>

\* Whether the consumer is done in time or is closed before it is.
DrainSession ==
  /\ traceAt = "drain" /\ traceAt' = "collect"
  /\ drainFailed' = (consumer # "done")
  /\ UNCHANGED <<worldVars, session, consumer, kept, overflow, early, stopFailed, reportedLoads>>

\* reportImageLoads: the session is out of the callback's reach now.
ReportLoads ==
  /\ traceAt = "collect" /\ traceAt' = "over"
  /\ reportedLoads' = FirstLoads(Attribute(SubSeq(log, 1, kept)))
  /\ UNCHANGED <<worldVars, session, consumer, kept, overflow, early, stopFailed, drainFailed>>

TraceNext ==
  \/ WindowsMachine \/ StartLauncher \/ SessionStopped
  \/ StartSession \/ OpenConsumer \/ Attach \/ WaitReady \/ StoreEvent \/ ConsumerEnds
  \/ BeginStop \/ ControlStop \/ DrainSession \/ ReportLoads

TraceSpec == TraceInit /\ [][TraceNext]_traceVars

TraceTypeOK ==
  /\ kept \in 0..MaxKeptEvents /\ kept + overflow <= Len(log) /\ lost \in 0..MaxLostEvents
  /\ Len(log) <= MaxTraceEvents /\ Len(reportedLoads) <= MaxLibraryLoads
  /\ consumer \in {"none", "opened", "attached", "done"} /\ session \in {"none", "live", "ended"}
-----------------------------------------------------------------------------
\* A run that is told of no loss gets the loads of its own processes, the first
\* MaxLibraryLoads of them and no others, each with the process that loaded it
\* first: whatever ids are used again, and whoever stops the session.
LoadsAreTheTrees ==
  traceAt = "over" /\ reportedLoads # FirstLoads(wanted)
    => early \/ stopFailed \/ drainFailed \/ lost + overflow > 0
=============================================================================
