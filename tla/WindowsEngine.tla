---------------------------- MODULE WindowsEngine ----------------------------
(***************************************************************************)
(* A run of the Windows engine (engine_windows.go) from the start of MXC's *)
(* launcher in a job: the consumer of the job's notifications, the memory  *)
(* limit, the backstop timer, and the verdict from the exit code, the      *)
(* clock and the error envelope, which the workload can print too.         *)
(***************************************************************************)
EXTENDS JobObject

CONSTANTS
  WinConfigs,     \* [mode, job, memory, timeout, parent]: parent says which
                  \* process starts each of the container's
  MaxLimitEvents  \* memory notifications, at most

VARIABLES
  winCfg, engineAt,
  clock,         \* 0; 1: the timeout has passed; 2: and the grace period
  backstop,      \* "unset", "set", "fired", "over", "stopped"
  backstopFired,
  launcherExit, envelope,
  memoryKilled, workloadStarted,
  elapsed, results, verdict

winVars == <<jobVars, winCfg, engineAt, clock, backstop, backstopFired, launcherExit,
             envelope, memoryKilled, workloadStarted, elapsed, results, verdict>>
\* What only the engine's own steps change.
engineVars == <<winCfg, engineAt, clock, backstop, backstopFired, launcherExit, envelope,
                memoryKilled, workloadStarted, elapsed, results, verdict>>
outcomeVars == <<memoryKilled, workloadStarted, elapsed, results, verdict>>

TimeoutCode == 124
MemoryCode == 137
MxcTimeoutCode == 255  \* wxc-exec's own: -1

\* A container's processes are MXC's launcher, conhost and workers; the queue
\* holds three notifications at least (maxQueuedEvents is 65536, job_windows.go).
ASSUME WinAssumption ==
  /\ MaxQueuedEvents \in Nat /\ MaxQueuedEvents >= 3
  /\ Launcher # Conhost /\ Launcher \notin Workers /\ Conhost \notin Workers
  /\ \A c \in WinConfigs : DOMAIN c.parent \subseteq Workers \union {Conhost}

Exit(code) == [kind |-> "exit", code |-> code]
Say(kind) == [kind |-> kind, code |-> 1]
-----------------------------------------------------------------------------
WinInit ==
  /\ JobInit
  /\ winCfg \in WinConfigs /\ engineAt = "start"
  /\ clock = 0 /\ backstop = "unset" /\ backstopFired = FALSE
  /\ launcherExit = 0 /\ envelope = "none"
  /\ memoryKilled = FALSE /\ workloadStarted = ~winCfg.job
  /\ elapsed = 0 /\ results = 0 /\ verdict = Say("none")

Start ==
  /\ engineAt = "start" /\ engineAt' = "wait"
  /\ member' = [member EXCEPT ![Launcher] = "alive"]
  /\ IF winCfg.job THEN Post([message |-> "new", pid |-> Launcher]) ELSE UNCHANGED <<posted, port>>
  /\ backstop' = IF winCfg.timeout THEN "set" ELSE "unset"
  /\ UNCHANGED <<pumpVars, deliverVars, handled, killVars, jobClosed, winCfg, clock,
                 backstopFired, launcherExit, envelope, outcomeVars>>

StartFails ==
  /\ engineAt = "start" /\ engineAt' = "over" /\ verdict' = Say("start failed")
  /\ UNCHANGED <<jobVars, winCfg, clock, backstop, backstopFired, launcherExit, envelope,
                 memoryKilled, workloadStarted, elapsed, results>>

\* What happens in the container: processes come and go, time passes, the
\* workload prints what looks like an envelope.
Container ==
  \/ \E p \in DOMAIN winCfg.parent :
       (ProcessStarts(p, winCfg.parent[p]) \/ ProcessEnds(p) \/ IdReused(p)) /\ UNCHANGED engineVars
  \/ /\ winCfg.memory /\ \E p \in Workers : LimitHit(p)
     /\ Len(SelectSeq(posted, LAMBDA n : n.message = "memory")) < MaxLimitEvents
     /\ UNCHANGED engineVars
  \/ /\ winCfg.timeout /\ engineAt = "wait" /\ clock < 2 /\ clock' = clock + 1
     /\ UNCHANGED <<jobVars, winCfg, engineAt, backstop, backstopFired, launcherExit, envelope,
                    outcomeVars>>
  \/ /\ engineAt = "wait" /\ Members \intersect Workers # {}
     /\ envelope = "none" /\ envelope' \in {"error", "timeout"}
     /\ UNCHANGED <<jobVars, winCfg, engineAt, clock, backstop, backstopFired, launcherExit,
                    outcomeVars>>

\* wxc-exec's status is the workload's or, with an envelope, that of a failure;
\* its own timer stops the workload after the timeout.
LauncherEnds ==
  /\ engineAt = "wait" /\ member[Launcher] = "alive"
  /\ member' = [member EXCEPT ![Launcher] = "dead"]
  /\ \/ Ran /\ launcherExit' \in {0, 1} /\ UNCHANGED envelope
     \/ launcherExit' = 1 /\ envelope' = "error"
     \/ winCfg.timeout /\ clock >= 1 /\ launcherExit' = MxcTimeoutCode /\ envelope' \in {"timeout", envelope}
  /\ UNCHANGED <<posted, port, pumpVars, deliverVars, handled, killVars, jobClosed, winCfg,
                 engineAt, clock, backstop, backstopFired, outcomeVars>>
-----------------------------------------------------------------------------
\* consumeJobEvents: an unknown process counts as the workload's.
Consume ==
  /\ ~killing /\ Deliver
  /\ LET event == Head(batch) IN
     /\ workloadStarted' = (workloadStarted \/
          (event.message = "new" /\ event.pid # Launcher
             /\ ~(event.pid = Conhost /\ Described(Conhost))))
     /\ IF event.message = "memory" /\ ~memoryKilled
        THEN memoryKilled' = TRUE /\ BeginKilling
        ELSE UNCHANGED <<memoryKilled, killVars>>
  /\ UNCHANGED <<member, winCfg, engineAt, clock, backstop, backstopFired, launcherExit,
                 envelope, elapsed, results, verdict>>

BackstopFires ==
  /\ backstop = "set" /\ clock = 2
  /\ backstop' = "fired" /\ backstopFired' = TRUE
  /\ UNCHANGED <<jobVars, winCfg, engineAt, clock, launcherExit, envelope, outcomeVars>>

\* The whole job, or without one the launcher.
BackstopKills ==
  /\ backstop = "fired" /\ backstop' = "over"
  /\ IF jobClosed THEN UNCHANGED member
     ELSE IF winCfg.job THEN KillAll
     ELSE member' = [member EXCEPT ![Launcher] = IF @ = "alive" THEN "dead" ELSE @]
  /\ launcherExit' = IF member[Launcher] = "alive" /\ ~jobClosed
                     THEN (IF winCfg.job THEN TimeoutCode ELSE 1) ELSE launcherExit
  /\ UNCHANGED <<posted, port, pumpVars, deliverVars, handled, killVars, jobClosed, winCfg,
                 engineAt, clock, backstopFired, envelope, outcomeVars>>

\* cmd.Wait
Wait ==
  /\ engineAt = "wait" /\ member[Launcher] = "dead"
  /\ elapsed' = clock
  /\ backstop' = IF backstop = "set" THEN "stopped" ELSE backstop
  /\ engineAt' = IF winCfg.job THEN "close" ELSE "judge"
  /\ UNCHANGED <<jobVars, winCfg, clock, backstopFired, launcherExit, envelope, memoryKilled,
                 workloadStarted, results, verdict>>

\* The deferred Close ends every member of the job.
WaitFails ==
  /\ engineAt = "wait" /\ member[Launcher] = "dead"
  /\ engineAt' = "over" /\ verdict' = Say("wait failed")
  /\ jobClosed' = winCfg.job /\ IF winCfg.job THEN KillAll ELSE UNCHANGED member
  /\ UNCHANGED <<posted, port, pumpVars, deliverVars, handled, killVars, winCfg, clock,
                 backstop, backstopFired, launcherExit, envelope, memoryKilled, workloadStarted,
                 elapsed, results>>

Close ==
  /\ engineAt = "close" /\ CloseJob /\ engineAt' = "closing"
  /\ UNCHANGED <<winCfg, clock, backstop, backstopFired, launcherExit, envelope, outcomeVars>>

\* The pump is done; and so is the consumer, when the channel is closed.
WaitEvents ==
  /\ engineAt = "closing" /\ pumpAt = "done" /\ deliverAt = "over" /\ ~killing
  /\ engineAt' = "judge"
  /\ UNCHANGED <<jobVars, winCfg, clock, backstop, backstopFired, launcherExit, envelope,
                 outcomeVars>>

\* An envelope is believed with a non-zero exit only, a timeout only when the
\* engine's own clock agrees.
ExitCode == IF memoryKilled THEN MemoryCode ELSE launcherExit

\* A slip: the timeout the envelope claims is believed.
TimedOutAsClaimed == backstopFired \/ (winCfg.timeout
  /\ ((envelope = "timeout" /\ ExitCode # 0) \/ ExitCode = MxcTimeoutCode))

TimedOut == backstopFired \/ (winCfg.timeout /\ elapsed >= 1
  /\ ((envelope = "timeout" /\ ExitCode # 0) \/ ExitCode = MxcTimeoutCode))
Believed == ExitCode # 0 /\ envelope # "none" /\ (envelope = "timeout" => TimedOut)
Enforced == winCfg.mode = "enforce"

Judge ==
  /\ engineAt = "judge" /\ engineAt' = "over"
  /\ IF ~workloadStarted /\ ExitCode # 0
     THEN verdict' = Say("not started") /\ UNCHANGED results
     ELSE /\ results' = results + IF Enforced THEN 1 ELSE 0
          /\ verdict' = CASE TimedOut /\ Enforced -> Exit(TimeoutCode)
                          [] ~TimedOut /\ Believed /\ ~memoryKilled -> Say("mxc failed")
                          [] OTHER -> IF Enforced THEN Exit(ExitCode) ELSE Say("reported")
  /\ UNCHANGED <<jobVars, winCfg, clock, backstop, backstopFired, launcherExit, envelope,
                 memoryKilled, workloadStarted, elapsed>>

\* What the engine's threads do, until run returns.
EngineStep ==
  /\ engineAt # "over"
  /\ \/ Consume \/ Wait \/ Close \/ WaitEvents \/ Judge \/ BackstopKills
     \/ JobStep /\ UNCHANGED engineVars

WinNext ==
  \/ EngineStep
  \/ /\ engineAt # "over"
     /\ Start \/ StartFails \/ Container \/ LauncherEnds \/ WaitFails \/ BackstopFires

WinSpec == WinInit /\ [][WinNext]_winVars /\ WF_winVars(EngineStep)

WinTypeOK ==
  /\ winCfg \in WinConfigs /\ dropped <= Len(posted) /\ Len(jobQueue) <= MaxQueuedEvents
  /\ victims \subseteq Workers /\ passes <= MaxPasses
  /\ envelope \in {"none", "error", "timeout"} /\ elapsed <= clock
-----------------------------------------------------------------------------
\* Once the job is closed the engine gets all its notifications, in order, but
\* for those that are counted as dropped, and judges: no wake-up is lost between
\* the pump and the delivery, and no step waits for another for ever.
EventsReachTheVerdict ==
  engineAt = "closing" ~>
    /\ engineAt \in {"judge", "over"} /\ Len(handled) + dropped = Len(posted)
    /\ dropped = 0 => handled = posted

\* What the workload prints cannot change what is said of it: the results of an
\* enforced run whose workload ran are written once, whatever ends it; a timeout
\* is reported only after the timeout; and a run that hit its memory limit, or
\* failed, is never reported as a success.
VerdictFits ==
  engineAt = "over" /\ verdict.kind \notin {"start failed", "wait failed"} =>
    /\ Ran /\ Enforced => results = 1
    /\ verdict = Exit(TimeoutCode) => clock >= 1
    /\ verdict = Exit(0) => launcherExit = 0 /\ \A i \in 1..Len(handled) : handled[i].message # "memory"
=============================================================================
