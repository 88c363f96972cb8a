----------------------------- MODULE LinuxEngine -----------------------------
(***************************************************************************)
(* One run of the Linux engine (go/cmd/safer-exec/engine_linux.go: run,    *)
(* runReduced, runDryRun): the engine's own sequence of steps, the inner   *)
(* process of each attempt, and the goroutines of HTTP tracing.            *)
(*                                                                         *)
(* An attempt is "full" (namespaces), "reduced" (the fallback) or "dry".   *)
(* What the engine still has to do is its agenda, a sequence of steps; how *)
(* an attempt ended decides the agenda that follows.                       *)
(***************************************************************************)
EXTENDS Naturals, Sequences, FiniteSets, SequencesExt

CONSTANTS
  Configs,      \* the configurations a run may have
  Events,       \* the requests the command may make, as the tracer sees them
  Permitted,    \* the events some AllowURLRule matches
  ChannelSize,  \* capacity of the tracer's event channel
  NoEvent

ASSUME EngineAssumption ==
  /\ Permitted \subseteq Events /\ NoEvent \notin Events
  /\ ChannelSize \in Nat \ {0}
  /\ Configs \subseteq [mode : {"run", "dry"}, strict : BOOLEAN, audit : BOOLEAN,
                        diff : BOOLEAN, trace : BOOLEAN, crypto : BOOLEAN,
                        rules : BOOLEAN]

VARIABLES
  cfg,        \* the run's configuration
  agenda,     \* the engine's remaining steps; <<>> when run has returned
  attempt,    \* the attempt under way
  before,     \* there is a pre-execution snapshot to diff with
  result,     \* what run returns: "none" yet, "ok", "exit" (a code) or "error"
  child,      \* child[k]: "none", "init", "announced", "running" or "gone"
  ran,        \* ran[k]: the command itself was executed in attempt k
  status,     \* status[k]: how attempt k ended
  reader,     \* reader[k]: the engine holds the read end of k's audit pipe
  writers,    \* writers[k]: who holds its write end
  buffer,     \* buffer[k]: audit entries written to it
  relayed,    \* relayed[k]: audit entries the engine has relayed from it
  tracer,     \* "off", "open", "closing" (Close was called) or "closed" (readLoop has ended)
  ring,       \* the events in the kernel's ring buffer
  queue,      \* the tracer's event channel
  captured,   \* the events ever put on it
  dropped,    \* the events lost to a full channel
  consumer,   \* consumer[k]: "off", "idle", "have", "write" or "done"
  held,       \* held[k]: the event consumer k has received
  base,       \* base[k]: httpEvents as consumer k's append read it
  httpEvents, \* the events collected
  stopVar,    \* the attempt whose channel stopPIDRefresh holds, or "nil"
  stopClosed, \* the attempts whose stop channel is closed
  refresher,  \* refresher[k]: "off", "on" or "done"
  watching,   \* watching[k]: the stop channel refresher k's select has read
  emitted,    \* the structured results written, in order
  reported,   \* the events the crypto result was built from
  violations  \* the events reported as url-violation

pipeVars   == <<reader, writers, buffer, relayed>>
childVars  == <<child, ran, status>>
eventVars  == <<ring, queue, captured, dropped, consumer, held, base, httpEvents>>
stopVars   == <<stopVar, stopClosed, refresher, watching>>
outputVars == <<emitted, reported, violations>>
vars == <<cfg, agenda, attempt, before, result, childVars, pipeVars, tracer, eventVars,
          stopVars, outputVars>>

Attempts == {"full", "reduced", "dry"}
Statuses == {"none", "ok", "exit", "limit", "execfail", "lost"}
Steps == {"snapshot", "audit", "trace", "choose", "start", "wait", "collect", "judge",
          "close", "join", "diff", "urls", "crypto", "report", "unwind"}

Traces == cfg.trace \/ cfg.crypto     \* crypto tracing turns URL tracing on
Live(k) == child[k] \in {"init", "announced", "running"}
At(step) == agenda # <<>> /\ Head(agenda) = step
Done == agenda' = Tail(agenda)
Continue(steps) == agenda' = steps
------------------------------------------------------------------------------
(***************************************************************************)
(* What follows the end of an attempt.  Exit codes: "limit" stands for     *)
(* 132, 137 and 153, "execfail" for 126 and 127, "exit" for any other      *)
(* failure; "lost" is a Wait that fails without an exit status.            *)
(***************************************************************************)
AfterWait(k, s) ==
  CASE k = "full" /\ s = "ok" ->
         <<"diff", "collect", "close", "join", "urls", "crypto", "unwind">>
    [] k = "full" /\ s \in {"limit", "exit", "execfail"} -> <<"collect", "judge">>
    [] k = "full" /\ s = "lost" -> <<"close", "join", "unwind">>
    [] k = "reduced" /\ s \in {"ok", "limit"} ->
         <<"close", "join", "collect", "diff", "crypto", "unwind">>
    [] k = "reduced" /\ s \in {"exit", "execfail"} ->
         <<"close", "join", "collect", "crypto", "unwind">>
    [] k = "reduced" /\ s = "lost" -> <<"close", "join", "crypto", "unwind">>
    [] k = "dry" -> <<"collect", "report", "unwind">>

Outcome(k, s) ==
  IF k = "dry" \/ s \in {"ok", "limit"} THEN "ok"
  ELSE IF s = "lost" THEN "error" ELSE "exit"

AfterFailure(k) == IF k = "reduced" THEN <<"crypto", "unwind">> ELSE <<"unwind">>

Init ==
  /\ cfg \in Configs
  /\ agenda = IF cfg.mode = "dry" THEN <<"audit", "start">>
              ELSE <<"snapshot", "audit", "trace", "choose">>
  /\ attempt = IF cfg.mode = "dry" THEN "dry" ELSE "full"
  /\ before = FALSE /\ result = "none"
  /\ child = [k \in Attempts |-> "none"]
  /\ ran = [k \in Attempts |-> FALSE]
  /\ status = [k \in Attempts |-> "none"]
  /\ reader = [k \in Attempts |-> FALSE]
  /\ writers = [k \in Attempts |-> {}]
  /\ buffer = [k \in Attempts |-> 0] /\ relayed = [k \in Attempts |-> 0]
  /\ tracer = "off" /\ ring = {} /\ queue = <<>> /\ captured = {} /\ dropped = {}
  /\ consumer = [k \in Attempts |-> "off"]
  /\ held = [k \in Attempts |-> NoEvent]
  /\ base = [k \in Attempts |-> <<>>]
  /\ httpEvents = <<>>
  /\ stopVar = "nil" /\ stopClosed = {}
  /\ refresher = [k \in Attempts |-> "off"]
  /\ watching = [k \in Attempts |-> "nil"]
  /\ emitted = <<>> /\ reported = {} /\ violations = {}
------------------------------------------------------------------------------
(***************************************************************************)
(* The engine up to the start of the inner process.                        *)
(***************************************************************************)
Snapshot ==
  /\ At("snapshot")
  /\ before' \in {FALSE, cfg.diff}
  /\ Done
  /\ UNCHANGED <<cfg, attempt, result, childVars, pipeVars, tracer, eventVars, stopVars,
                 outputVars>>

OpenAudit ==
  /\ At("audit")
  /\ IF cfg.audit \/ attempt = "dry"
     THEN /\ reader' = [reader EXCEPT ![attempt] = TRUE]
          /\ writers' = [writers EXCEPT ![attempt] = {"engine"}]
     ELSE UNCHANGED <<reader, writers>>
  /\ Done
  /\ UNCHANGED <<cfg, attempt, before, result, childVars, buffer, relayed, tracer,
                 eventVars, stopVars, outputVars>>

CloseTracer == tracer' = IF tracer = "open" THEN "closing" ELSE tracer

\* No pipe: a dry run goes on without one, the others give up.
AuditFails ==
  /\ At("audit")
  /\ cfg.audit \/ attempt = "dry"
  /\ IF attempt = "dry"
     THEN Done /\ UNCHANGED <<tracer, result>>
     ELSE /\ CloseTracer
          /\ result' = "error"
          /\ Continue(AfterFailure(attempt))
  /\ UNCHANGED <<cfg, attempt, before, childVars, pipeVars, eventVars, stopVars, outputVars>>

StartTracer ==
  /\ At("trace")
  /\ tracer' \in IF Traces THEN {"off", "open"} ELSE {"off"}
  /\ Done
  /\ UNCHANGED <<cfg, attempt, before, result, childVars, pipeVars, eventVars, stopVars,
                 outputVars>>

\* User namespaces are available.
ChooseFull ==
  /\ At("choose")
  /\ Continue(<<"start">>)
  /\ UNCHANGED <<cfg, attempt, before, result, childVars, pipeVars, tracer, eventVars,
                 stopVars, outputVars>>

CloseAudit(k) ==
  /\ reader' = [reader EXCEPT ![k] = FALSE]
  /\ writers' = [writers EXCEPT ![k] = writers[k] \ {"engine"}]

\* They are not: reduced isolation, unless the run is strict.
ChooseReduced ==
  /\ At("choose")
  /\ CloseAudit("full")
  /\ IF cfg.strict
     THEN /\ CloseTracer
          /\ result' = "error"
          /\ Continue(<<"unwind">>)
          /\ UNCHANGED attempt
     ELSE /\ attempt' = "reduced"
          /\ Continue(<<"audit", "start">>)
          /\ UNCHANGED <<tracer, result>>
  /\ UNCHANGED <<cfg, before, childVars, buffer, relayed, eventVars, stopVars, outputVars>>

(***************************************************************************)
(* cmd.Start.  Once the inner process has the write end of the audit pipe, *)
(* the engine closes its own; with a tracer it starts the goroutine that   *)
(* refreshes the traced pids and the one that consumes the events.         *)
(***************************************************************************)
\* A slip: a stop channel that exists already is kept.
StartGoroutinesSharing ==
  IF tracer = "open" /\ attempt # "dry"
  THEN /\ consumer' = [consumer EXCEPT ![attempt] = "idle"]
       /\ refresher' = [refresher EXCEPT ![attempt] = "on"]
       /\ stopVar' = IF stopVar = "nil" THEN attempt ELSE stopVar
       /\ watching' = [watching EXCEPT ![attempt] = stopVar']
  ELSE UNCHANGED <<consumer, refresher, stopVar, watching>>

StartGoroutines ==
  IF tracer = "open" /\ attempt # "dry"
  THEN /\ consumer' = [consumer EXCEPT ![attempt] = "idle"]
       /\ refresher' = [refresher EXCEPT ![attempt] = "on"]
       /\ stopVar' = attempt
       /\ watching' = [watching EXCEPT ![attempt] = attempt]
  ELSE UNCHANGED <<consumer, refresher, stopVar, watching>>

\* A slip: the engine keeps its copy of the write end.
StartChildKeepingPipe ==
  /\ At("start")
  /\ child' = [child EXCEPT ![attempt] = "init"]
  /\ writers' = [writers EXCEPT ![attempt] = IF reader[attempt] THEN {"engine", "child"} ELSE {}]
  /\ StartGoroutines
  /\ Continue(<<"wait">>)
  /\ UNCHANGED <<cfg, attempt, before, result, ran, status, reader, buffer, relayed, tracer,
                 ring, queue, captured, dropped, held, base, httpEvents, stopClosed, outputVars>>

StartChild ==
  /\ At("start")
  /\ child' = [child EXCEPT ![attempt] = "init"]
  /\ writers' = [writers EXCEPT ![attempt] = IF reader[attempt] THEN {"child"} ELSE {}]
  /\ StartGoroutines
  /\ Continue(<<"wait">>)
  /\ UNCHANGED <<cfg, attempt, before, result, ran, status, reader, buffer, relayed, tracer,
                 ring, queue, captured, dropped, held, base, httpEvents, stopClosed, outputVars>>

\* A dry run goes on to collect and report; the engine's write end stays open.
StartFails ==
  /\ At("start")
  /\ IF attempt = "dry"
     THEN Continue(AfterWait("dry", "none")) /\ UNCHANGED <<reader, tracer, result>>
     ELSE /\ reader' = [reader EXCEPT ![attempt] = FALSE]
          /\ CloseTracer
          /\ result' = "error"
          /\ Continue(AfterFailure(attempt))
  /\ UNCHANGED <<cfg, attempt, before, childVars, writers, buffer, relayed, eventVars,
                 stopVars, outputVars>>
------------------------------------------------------------------------------
(***************************************************************************)
(* The engine from the end of the inner process on.                        *)
(***************************************************************************)
\* A slip: the pid refresher is not told to stop.
ReapUnstopped(s) ==
  /\ At("wait") /\ child[attempt] = "gone"
  /\ status' = [status EXCEPT ![attempt] = s]
  /\ result' = Outcome(attempt, s)
  /\ Continue(AfterWait(attempt, s))
  /\ UNCHANGED <<cfg, attempt, before, child, ran, pipeVars, tracer, eventVars, stopVars,
                 outputVars>>

\* cmd.Wait returns, and stopPIDRefresh is closed if there is one.
Reap(s) ==
  /\ At("wait") /\ child[attempt] = "gone"
  /\ status' = [status EXCEPT ![attempt] = s]
  /\ result' = Outcome(attempt, s)
  /\ stopClosed' = IF stopVar = "nil" THEN stopClosed ELSE stopClosed \cup {stopVar}
  /\ Continue(AfterWait(attempt, s))
  /\ UNCHANGED <<cfg, attempt, before, child, ran, pipeVars, tracer, eventVars, stopVar,
                 refresher, watching, outputVars>>

\* A slip: what is in the pipe is dropped with it.
CollectNothing ==
  /\ At("collect")
  /\ reader' = [reader EXCEPT ![attempt] = FALSE]
  /\ Done
  /\ UNCHANGED <<cfg, attempt, before, result, childVars, writers, buffer, relayed, tracer,
                 eventVars, stopVars, outputVars>>

\* collectAuditLog reads to the end of file, so it waits for every writer.
Collect ==
  /\ At("collect")
  /\ reader[attempt] => writers[attempt] = {}
  /\ relayed' = [relayed EXCEPT ![attempt] = IF reader[attempt] THEN buffer[attempt] ELSE @]
  /\ reader' = [reader EXCEPT ![attempt] = FALSE]
  /\ Done
  /\ UNCHANGED <<cfg, attempt, before, result, childVars, writers, buffer, tracer,
                 eventVars, stopVars, outputVars>>

(***************************************************************************)
(* The exit code of a full attempt that failed: 126 and 127 are taken for  *)
(* unshare's own failure and start the reduced attempt.                    *)
(***************************************************************************)
Judge ==
  /\ At("judge")
  /\ IF status[attempt] = "execfail"
     THEN /\ attempt' = "reduced" /\ Continue(<<"audit", "start">>)
     ELSE /\ Continue(IF status[attempt] = "limit" THEN <<"close", "join", "diff", "unwind">>
                      ELSE <<"close", "join", "unwind">>)
          /\ UNCHANGED attempt
  /\ UNCHANGED <<cfg, before, result, childVars, pipeVars, tracer, eventVars, stopVars,
                 outputVars>>

CloseTrace ==
  /\ At("close")
  /\ CloseTracer
  /\ Done
  /\ UNCHANGED <<cfg, attempt, before, result, childVars, pipeVars, eventVars, stopVars,
                 outputVars>>

\* A slip: the consumer is not waited for.
JoinNobody ==
  /\ At("join")
  /\ Done
  /\ UNCHANGED <<cfg, attempt, before, result, childVars, pipeVars, tracer, eventVars,
                 stopVars, outputVars>>

\* <-httpEventsDone: the consumer of this attempt has ended.
Join ==
  /\ At("join")
  /\ consumer[attempt] \in {"off", "done"}
  /\ Done
  /\ UNCHANGED <<cfg, attempt, before, result, childVars, pipeVars, tracer, eventVars,
                 stopVars, outputVars>>

\* emitDiff; the second snapshot may fail.
EmitDiff ==
  /\ At("diff")
  /\ emitted' \in IF before THEN {emitted, Append(emitted, "diff")} ELSE {emitted}
  /\ Done
  /\ UNCHANGED <<cfg, attempt, before, result, childVars, pipeVars, tracer, eventVars,
                 stopVars, reported, violations>>

CheckURLs ==
  /\ At("urls")
  /\ violations' = IF cfg.rules THEN ToSet(httpEvents) \ Permitted ELSE {}
  /\ Done
  /\ UNCHANGED <<cfg, attempt, before, result, childVars, pipeVars, tracer, eventVars,
                 stopVars, emitted, reported>>

\* emitCrypto: without a tracer there is a result only if the proxy saw a handshake.
EmitCrypto ==
  /\ At("crypto")
  /\ IF cfg.crypto
     THEN /\ emitted' \in {Append(emitted, "crypto")}
                             \cup (IF tracer = "off" THEN {emitted} ELSE {})
          /\ reported' = ToSet(httpEvents)
     ELSE UNCHANGED <<emitted, reported>>
  /\ Done
  /\ UNCHANGED <<cfg, attempt, before, result, childVars, pipeVars, tracer, eventVars,
                 stopVars, violations>>

\* The dry-run report; run returns nil whatever happened.
EmitDryRun ==
  /\ At("report")
  /\ emitted' = Append(emitted, "dryrun")
  /\ result' = "ok"
  /\ Done
  /\ UNCHANGED <<cfg, attempt, before, childVars, pipeVars, tracer, eventVars, stopVars,
                 reported, violations>>

\* The deferred calls; a dry run closes its write end here.
Unwind ==
  /\ At("unwind")
  /\ writers' = [writers EXCEPT !["dry"] = @ \ {"engine"}]
  /\ Done
  /\ UNCHANGED <<cfg, attempt, before, result, childVars, reader, buffer, relayed, tracer,
                 eventVars, stopVars, outputVars>>

Engine ==
  \/ Snapshot \/ OpenAudit \/ AuditFails \/ StartTracer \/ ChooseFull \/ ChooseReduced
  \/ StartChild \/ StartFails
  \/ Collect \/ Judge \/ CloseTrace \/ Join \/ EmitDiff \/ CheckURLs \/ EmitCrypto
  \/ EmitDryRun \/ Unwind
  \/ \E s \in {status[attempt], "lost"} : Reap(s)
------------------------------------------------------------------------------
(***************************************************************************)
(* The inner process: it sets the sandbox up, writes its audit entry into  *)
(* the pipe, and executes the command in its own place.  Its end closes    *)
(* the pipe.  The command may exit with any code, 126 and 127 included.    *)
(***************************************************************************)
Announce(k) ==
  /\ child[k] = "init"
  /\ child' = [child EXCEPT ![k] = "announced"]
  /\ \E n \in IF writers[k] = {} THEN {0} ELSE 0..1 : buffer' = [buffer EXCEPT ![k] = n]
  /\ UNCHANGED <<cfg, agenda, attempt, before, result, ran, status, reader, writers, relayed,
                 tracer, eventVars, stopVars, outputVars>>

Exec(k) ==
  /\ child[k] = "announced"
  /\ child' = [child EXCEPT ![k] = "running"]
  /\ ran' = [ran EXCEPT ![k] = TRUE]
  /\ UNCHANGED <<cfg, agenda, attempt, before, result, status, pipeVars, tracer, eventVars,
                 stopVars, outputVars>>

Exit(k, s) ==
  /\ Live(k)
  /\ ~ran[k] => (s = "exit" \/ (s = "execfail" /\ k = "full"))
  /\ child' = [child EXCEPT ![k] = "gone"]
  /\ status' = [status EXCEPT ![k] = s]
  /\ writers' = [writers EXCEPT ![k] = @ \ {"child"}]
  /\ UNCHANGED <<cfg, agenda, attempt, before, result, ran, reader, buffer, relayed, tracer,
                 eventVars, stopVars, outputVars>>

\* A request the kernel probes see; they are detached by the tracer's Close.
Request(k, e) ==
  /\ child[k] = "running" /\ tracer = "open" /\ e \notin ring \cup captured \cup dropped
  /\ ring' = ring \cup {e}
  /\ UNCHANGED <<cfg, agenda, attempt, before, result, childVars, pipeVars, tracer, queue,
                 captured, dropped, consumer, held, base, httpEvents, stopVars, outputVars>>

Child(k) ==
  \/ Announce(k) \/ Exec(k)
  \/ \E s \in {"ok", "exit", "limit", "execfail"} : Exit(k, s)
  \/ \E e \in Events : Request(k, e)
------------------------------------------------------------------------------
(***************************************************************************)
(* readLoop of the tracer: an event goes on the channel, or is dropped     *)
(* when that is full.  An event already read may still be sent after       *)
(* Close; the channel is closed when the loop ends.                        *)
(***************************************************************************)
\* A slip: the channel's capacity is not looked at.
DeliverUnbounded(e) ==
  /\ tracer \in {"open", "closing"} /\ e \in ring
  /\ ring' = ring \ {e}
  /\ queue' = Append(queue, e) /\ captured' = captured \cup {e}
  /\ UNCHANGED <<cfg, agenda, attempt, before, result, childVars, pipeVars, tracer, dropped,
                 consumer, held, base, httpEvents, stopVars, outputVars>>

Deliver(e) ==
  /\ tracer \in {"open", "closing"} /\ e \in ring
  /\ ring' = ring \ {e}
  /\ IF Len(queue) < ChannelSize
     THEN /\ queue' = Append(queue, e) /\ captured' = captured \cup {e}
          /\ UNCHANGED dropped
     ELSE dropped' = dropped \cup {e} /\ UNCHANGED <<queue, captured>>
  /\ UNCHANGED <<cfg, agenda, attempt, before, result, childVars, pipeVars, tracer, consumer,
                 held, base, httpEvents, stopVars, outputVars>>

LoopEnds ==
  /\ tracer = "closing"
  /\ tracer' = "closed"
  /\ UNCHANGED <<cfg, agenda, attempt, before, result, childVars, pipeVars, eventVars,
                 stopVars, outputVars>>
------------------------------------------------------------------------------
(***************************************************************************)
(* The event goroutine of attempt k.  append reads the slice and writes    *)
(* it back; nothing orders the two goroutines a fallback leaves running.   *)
(***************************************************************************)
Receive(k) ==
  /\ consumer[k] = "idle" /\ queue # <<>>
  /\ held' = [held EXCEPT ![k] = Head(queue)]
  /\ queue' = Tail(queue)
  /\ consumer' = [consumer EXCEPT ![k] = "have"]
  /\ UNCHANGED <<cfg, agenda, attempt, before, result, childVars, pipeVars, tracer, ring, captured,
                 dropped, base, httpEvents, stopVars, outputVars>>

ReadSlice(k) ==
  /\ consumer[k] = "have"
  /\ base' = [base EXCEPT ![k] = httpEvents]
  /\ consumer' = [consumer EXCEPT ![k] = "write"]
  /\ UNCHANGED <<cfg, agenda, attempt, before, result, childVars, pipeVars, tracer, ring, queue,
                 captured, dropped, held, httpEvents, stopVars, outputVars>>

WriteSlice(k) ==
  /\ consumer[k] = "write"
  /\ httpEvents' = Append(base[k], held[k])
  /\ consumer' = [consumer EXCEPT ![k] = "idle"]
  /\ base' = [base EXCEPT ![k] = <<>>] /\ held' = [held EXCEPT ![k] = NoEvent]
  /\ UNCHANGED <<cfg, agenda, attempt, before, result, childVars, pipeVars, tracer, ring, queue,
                 captured, dropped, stopVars, outputVars>>

ConsumerEnds(k) ==
  /\ consumer[k] = "idle" /\ queue = <<>> /\ tracer = "closed"
  /\ consumer' = [consumer EXCEPT ![k] = "done"]
  /\ UNCHANGED <<cfg, agenda, attempt, before, result, childVars, pipeVars, tracer, ring, queue,
                 captured, dropped, held, base, httpEvents, stopVars, outputVars>>

Consumer(k) == Receive(k) \/ ReadSlice(k) \/ WriteSlice(k) \/ ConsumerEnds(k)

(***************************************************************************)
(* The pid-refresh goroutine of attempt k.  Each select reads the variable *)
(* stopPIDRefresh afresh, which both attempts share.                       *)
(***************************************************************************)
Tick(k) ==
  /\ refresher[k] = "on"
  /\ watching' = [watching EXCEPT ![k] = stopVar]
  /\ UNCHANGED <<cfg, agenda, attempt, before, result, childVars, pipeVars, tracer,
                 eventVars, stopVar, stopClosed, refresher, outputVars>>

RefreshStops(k) ==
  /\ refresher[k] = "on" /\ watching[k] \in stopClosed
  /\ refresher' = [refresher EXCEPT ![k] = "done"]
  /\ UNCHANGED <<cfg, agenda, attempt, before, result, childVars, pipeVars, tracer,
                 eventVars, stopVar, stopClosed, watching, outputVars>>

Refresher(k) == Tick(k) \/ RefreshStops(k)

Next ==
  \/ Engine
  \/ LoopEnds
  \/ \E e \in Events : Deliver(e)
  \/ \E k \in Attempts : Child(k) \/ Consumer(k) \/ Refresher(k)

Spec == Init /\ [][Next]_vars

(***************************************************************************)
(* Fairness: the engine and its goroutines are scheduled, and a select     *)
(* with both its cases ready takes the stop case sooner or later.  Nothing *)
(* is assumed of the inner process: a command may run for ever.            *)
(***************************************************************************)
Fairness ==
  /\ WF_vars(Engine) /\ WF_vars(LoopEnds)
  /\ \A k \in Attempts :
       WF_vars(Consumer(k)) /\ WF_vars(Tick(k)) /\ SF_vars(RefreshStops(k))

FairSpec == Spec /\ Fairness
------------------------------------------------------------------------------
(***************************************************************************)
(* Properties.                                                             *)
(***************************************************************************)
Returned == agenda = <<>>
FellBack == child["full"] # "none" /\ attempt = "reduced"

\* The type invariant.
TypeOK ==
  /\ cfg \in Configs /\ agenda \in Seq(Steps) /\ attempt \in Attempts
  /\ before \in BOOLEAN /\ result \in {"none", "ok", "exit", "error"}
  /\ child \in [Attempts -> {"none", "init", "announced", "running", "gone"}]
  /\ ran \in [Attempts -> BOOLEAN] /\ status \in [Attempts -> Statuses]
  /\ reader \in [Attempts -> BOOLEAN] /\ writers \in [Attempts -> SUBSET {"engine", "child"}]
  /\ buffer \in [Attempts -> 0..1] /\ relayed \in [Attempts -> 0..1]
  /\ tracer \in {"off", "open", "closing", "closed"} /\ ring \subseteq Events
  /\ queue \in Seq(Events) /\ Len(queue) <= ChannelSize
  /\ captured \subseteq Events /\ dropped \subseteq Events
  /\ consumer \in [Attempts -> {"off", "idle", "have", "write", "done"}]
  /\ held \in [Attempts -> Events \cup {NoEvent}]
  /\ base \in [Attempts -> Seq(Events)] /\ httpEvents \in Seq(Events)
  /\ stopVar \in Attempts \cup {"nil"} /\ stopClosed \subseteq Attempts
  /\ refresher \in [Attempts -> {"off", "on", "done"}]
  /\ watching \in [Attempts -> Attempts \cup {"nil"}]
  /\ emitted \in Seq({"diff", "crypto", "dryrun"})
  /\ reported \subseteq Events /\ violations \subseteq Events

(***************************************************************************)
(* Whatever path a run takes, when it returns its tracer is closed, no     *)
(* inner process lives, no audit pipe of an attempt that gave an exit      *)
(* status is still open, and an attempt never starts while another lives.  *)
(* No stop channel is closed twice, which would panic: the two attempts    *)
(* share the variable that holds it, and each closes what it finds there.  *)
(***************************************************************************)
CleanReturn ==
  /\ Returned => tracer # "open" /\ result # "none"
  /\ Returned => \A k \in Attempts : reader[k] => status[k] = "lost"
  /\ \A k \in Attempts : Live(k) => k = attempt /\ At("wait")
  /\ At("wait") => stopVar \notin stopClosed

(***************************************************************************)
(* The audit entries of every attempt whose end gave an exit status are    *)
(* relayed before the run returns, the failed one before a fallback too.   *)
(***************************************************************************)
AuditRelayed ==
  Returned => \A k \in Attempts :
    child[k] = "gone" /\ status[k] # "lost" => relayed[k] = buffer[k]

(***************************************************************************)
(* Without a fallback, the results are built from all the events that came *)
(* through the channel: the consumer has ended before they are read.       *)
(* However many attempts a run makes, each kind of result is written once. *)
(***************************************************************************)
EventsReported ==
  /\ Returned /\ ~FellBack =>
       /\ "crypto" \in ToSet(emitted) => reported = captured
       /\ cfg.rules /\ result = "ok" /\ status["full"] = "ok" => violations = captured \ Permitted
  /\ IsInjective(emitted)

(***************************************************************************)
(* Once no inner process is left, the run returns, with one exception: a   *)
(* dry run whose process could not be started (DryRunReturns).             *)
(***************************************************************************)
EveryRunReturns ==
  (\A k \in Attempts : ~Live(k)) /\ (attempt = "dry" => child["dry"] # "none")
    ~> Returned \/ \E k \in Attempts : Live(k)

\* The goroutines a run started end, those of a failed first attempt included.
GoroutinesEnd ==
  Returned ~> \A k \in Attempts :
                /\ tracer \in {"off", "closed"}
                /\ consumer[k] \in {"off", "done"} /\ refresher[k] \in {"off", "done"}

(***************************************************************************)
(* What config.go:214 says of Strict, that it treats initialization        *)
(* warnings as errors: a strict run never goes on in reduced isolation.    *)
(***************************************************************************)
StrictNeverReduces == cfg.strict => child["reduced"] = "none"

(***************************************************************************)
(* What README.md:1461 says of URL rules: every captured request is        *)
(* matched, and one that matches no rule is logged as a url-violation.     *)
(* Stated of runs that end without an error.                               *)
(***************************************************************************)
EveryRequestChecked ==
  Returned /\ cfg.rules /\ result = "ok" => captured \ Permitted \subseteq violations

(***************************************************************************)
(* What the comment on runDryRun says, that it returns a synthetic exit 0: *)
(* once nothing runs, it returns.                                          *)
(***************************************************************************)
DryRunReturns == attempt = "dry" /\ At("collect") ~> Returned
=============================================================================
