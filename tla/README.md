# safer-exec in TLA+

safer-exec runs a command in a sandbox built from what the operating system
offers. An npm package (`npm/src`) builds a configuration, starts the Go engine
(`go/cmd/safer-exec`) and collects what it reports; the engine confines the
command, supervises it with a set of goroutines, and emits audit entries.

This directory models the parts of it whose correctness depends on the order in
which things happen, and the algorithms whose corner cases are combinations
rather than characters: TLA+ modules translated from the source, TLC
configurations that explore small instances of them, and TLAPS proofs of the
properties that matter most, for every value of the constants.

    tlc -workers 2 -config MCEgressProxy_records.cfg MCEgressProxy
    tlc -workers 2 -config MCLinuxEngine_run.cfg MCLinuxEngine
    tlc -workers 2 -config MCHost_all.cfg MCHost
    tlc -workers 2 -config MCRun_all.cfg MCRun
    tlapm EgressProxyProofs.tla

`PROJECT.json` holds the machine-readable side: components, runs, the source
lines each definition models, a mutant of the code for every property, findings,
hazards and theorems.

## Inventory

| Component | Source | State it keeps | Operations | What makes it hard | Module |
|---|---|---|---|---|---|
| Egress proxy | `proxy.go` | allowlist, tracked sockets, WaitGroup, violations, traffic, findings, ciphers | accept, handle, dial, tunnel, record, Close, flush | a goroutine per connection and two per tunnel race one Close and one report | `ProxyPolicy`, `EgressProxy`, `EgressGate` |
| Linux engine, outer | `engine_linux.go` run, runReduced, runLearn, runDryRun | child process, audit pipe, tracer, event slice | start, wait, fall back, collect, report | goroutines per run, a second attempt after a failed first, early returns | `LinuxEngine` |
| Linux engine, inner | `engine_linux.go` runInit and what it calls | cgroup, mounts, Landlock and seccomp state | set up in order, exec or reap | every step may fail; `strict` decides what that means; paths, links and mounts overlap | `SandboxInit` |
| seccomp programs | `engine_linux.go`, `detect_linux.go`, `*_kafel.go` | none: byte code | build, load, rule on a call | jumps are counted by hand | `SeccompFilter` |
| File locks | `engine_linux.go` acquireFileLocks | locks held | blocking flock in list order | concurrent runs | `FileLocks` |
| Egress watch, contention sampler | `detect_linux.go`, `covert.go` | listener, notes, stop and done channels, samples, cgroup | hand over the listener, serve, finish, abandon, sample | the hand-over races the end of the run; callers die while they are looked at | `EgressWatch` |
| Run registry | `covert.go` | one file per live run, findings seen | register, check, close | concurrent runs, runs that died, ids used again | `RunRegistry` |
| Policy merge and store | `internal/config/merge.go`, `internal/learner` | the policy file | build, merge, overlay, write, read | learners that fail between two steps, a fixed temporary name | `PolicyMerge`, `PolicyStore` |
| TLS observer | `internal/tlsobserve` | bytes per direction, reported flag | feed, finish, Close | chunks, records and messages cut differently; once-only report | `TlsObserve` |
| HTTP and crypto tracer | `internal/httptrace` | event channel, cipher tables by connection | read loops, Close | bounded channel, two ring buffers without a common order | its channel in `LinuxEngine` |
| Windows job object | `internal/winjob` | port, queue, wake token, done flag | pump, deliver, terminate all but one, close | bounded queue, one wake-up token, ids used again | `JobObject` |
| Windows engine | `engine_windows.go` | job, timer, verdict | start, consume events, time out, judge | exit code, clock, limits and a forgeable envelope meet in one verdict | `WindowsEngine` |
| Windows MXC backend | `internal/mxc` | none (a plan); a line buffer (the filter) | Translate; Write, Close | grants cascade, short names, limits wrap; text in any pieces | `MxcPlan`, `MxcStderr` |
| Windows image-load trace | `internal/dlltrace` | sessions that outlive their owner; a process table | start, clean up, record, stop, attribute | a whole machine's events, ids used again, lost events | `TraceSessions`, `ImageTrace` |
| npm runner | `npm/src/runner.js` | child, report buffer, timer | run, parse the report, time out, kill | timer, exit, close and report stream race | none |
| URL rules, configuration, learner text, fs diff, report channel, crypto BOM, macOS and OpenBSD engines, npm API, harness rules | see `PROJECT.json` | little or none over time | | | none |

How they interact. The runner starts the engine and reads its output and its
report descriptor. The engine starts the proxy before the command and injects
its address into the command's environment; the proxy feeds each tunnel's bytes
to a TLS observer. Around the command the engine runs the tracer, the egress
watch and the contention sampler; inside the namespaces its inner init sets the
sandbox up and becomes the command or its reaper. When the command is over, `run`
returns through its deferred calls: the watches finish, the proxy is flushed
(which closes it and waits for its handlers), the registry is checked and left.
On Windows the engine turns the policy into a plan for MXC, starts MXC's launcher
in a job, filters the standard error it shares with the workload, and traces
image loads. Runs of one user meet in the registry, in lock files, in the policy
file and, on Windows, in the machine's list of trace sessions.

What correctness means, component by component:

- *proxy*: only granted destinations are reached; Close leaves no socket and no
  handler behind; the report holds everything recorded, once, within its caps;
- *engine*: every run returns, with every goroutine it started ended; what
  `strict` promises holds on every path; the events consumed are those reported;
- *inner init, filters*: the command can write only what was opened, runs with
  every layer it asked for and that did not fail, and each call is ruled on as
  documented;
- *locks, registry, sessions*: concurrent runs make progress, of two that share a
  path one says so, and nobody cleans up after the living;
- *watch, observer, job, trace, filter*: nothing waits for ever, nothing is
  reported that did not happen or twice, and what is dropped is counted;
- *merge and plan*: the policy file never loses what a learner was told it holds,
  and a plan keeps what the policy asks or says that it does not.

## What is modelled: the egress proxy

| Module | Role |
|---|---|
| `ProxyPolicy` | the compiled allowlist and the two checks, before the dial and inside it |
| `EgressProxy` | the proxy as a concurrent program, its properties and the mapping to the gate |
| `EgressGate` | the abstract specification: who may pass, and that a shut gate empties |
| `EgressProxyProofs` | theorems about `EgressProxy` |
| `MCEgressProxy` | the constants of the instances TLC checks |

### From the code to the model

A connection is named by its client `c`. `pc[c]` is where `handleConn` is:

| `pc` | code |
|---|---|
| `idle`, `queued`, `reset` | the client has not connected, is in the listen backlog, or was reset there |
| `accepted` | `acceptLoop` between `Accept` and the lock |
| `reading`, `decide` | the request line is being read; `targetAllowed` decides |
| `dial`, `refused`, `track` | `dialTarget`, its `Control` refusing, and the moment before `track` |
| `connect`, `tunnel`, `half` | `recordConnect`, the copies, one copy left after the half-close |
| `count`, `untrack`, `upstream` | `recordTraffic` and the deferred calls |
| `cleanup`, `finish`, `done` | the goroutine's deferred function |

One action is one critical section of `p.mu`, one socket call or one return of a
blocking call. So `Close` is `BeginClose` (flag and copy under the lock),
`CloseListener`, one `CloseSocket` per copied socket in any order, and
`CloseReturns`; the flush adds `HandlersDrained`, `DrainTimesOut` and
`ViolationsSnapshot`. Deferred calls run in the order Go runs them.

Data is kept as far as the code tells it apart. A host is a name or an address;
an address is its class and whether it is spelled plainly or as an IPv6 form
that embeds it; a target carries a spelling, which `normalizeProxyHost` removes. A request
carries the server names or URL hosts that the detectors will find in it and
the TLS parameter sets of its handshakes, instead of bytes. `observeTLS` (the
TLS observer) is therefore an environment of this module: it may report each of
these at any moment while the tunnel runs, or never. DNS is the constant
`Resolves`: each dial may reach any address in it.

Left out: the HTTP reply texts, the log wording, `injectEnv`, the 30 s and 15 s
deadlines as times (they are what makes a read or a dial return), and the case
where both `Accept` and `Close` fail for lack of resources.

### Properties

| Property | What it says | Code at stake |
|---|---|---|
| `OnlyGrantedReach` | an open upstream goes to an address the configuration opens, whatever the name resolved to since the check | `targetAllowed` and `dialTarget` are two checks on two things |
| `CloseLeavesNothing` | when Close has returned, any socket still open is about to be closed by its own handler | `track` and `acceptLoop` re-check `closed` under the lock |
| `DrainedMeansQuiet` | the WaitGroup counts the running handlers; a drain leaves none, ever after | `handlers.Add` inside the same section as the `closed` check |
| `DrainedReportIsComplete` | after a drain nothing recorded is missing from the report | order of record, clean-up and `handlers.Done` |
| `UploadHeavyIsExact` | the upload-heavy entries are those the tunnels' bytes call for, per target and in total | `recordTraffic` sums; Close cuts tunnels whose bytes count |
| `ConnectRecordedOnce` | a target is recorded once, also when its handler outlives the flush | `connected` is kept when the entries are cleared |
| `FindingsAreCapped` | per type, one entry per finding and one overflow entry past the cap | the caps of `recordFinding` |
| `GateSafety`, `ImplementsGate` | every behaviour is one of `EgressGate`, with its fairness | the whole |
| `CloseEndsEveryHandler` | once closed, every connection is released and all sockets are closed, though no peer ever finishes | Close is the only thing that ends a tunnel |
| `TypeOK` | types | |

Why the bounds of its runs are enough to be interesting: two connections are what it takes
for one handler to be before `track` while another is in a tunnel and Close is
between two sockets, and for two tunnels to share a target; two targets and
`MaxFindings` 1 reach the cap and pass it, and with `MaxConnect` 1 the second
target is past the entry cap. Every address class appears in both spellings.
The policy run has one connection because connections share no policy state.
Every property has a mutant of the code (a dropped check, a missing
count, a reset too many) that breaks it under the same configuration.

## The Linux engine's run

`LinuxEngine` models `run`, `runReduced` and `runDryRun` of `engine_linux.go`:
the engine's own thread of control, the inner process of each attempt, the
tracer's `readLoop`, and per attempt the goroutine that consumes events and the
one that refreshes the traced pids. `MCLinuxEngine` gives the instances.

A run makes up to two attempts, `full` (namespaces) and `reduced` (the
fallback), or one `dry`. What the engine still has to do is its `agenda`, a
sequence of steps; each action takes the first one off, and where the code
branches (`ChooseFull`, `ChooseReduced`, `StartFails`, `Reap`, `Judge`) it is
replaced by the steps of the branch taken. `AfterWait` is thus the table of what
each way to end is followed by, and the places where the paths differ are plain
in it: a full attempt killed by a limit writes its diff and no crypto result, a
reduced one writes both, and only a full one that exited with 0 checks the URL
rules.

| Model | Code |
|---|---|
| `reader`, `writers`, `buffer`, `relayed` | the audit pipe of an attempt: who holds its two ends, the entry the inner process may write, what `collectAuditLog` relayed. It reads to end of file, so `Collect` waits until no writer is left |
| `tracer`, `ring`, `queue`, `captured`, `dropped` | the tracer: Close, the end of `readLoop` (which closes the channel), the kernel's ring buffer, the bounded channel, what went through it and what was lost |
| `consumer`, `held`, `base`, `httpEvents` | the event goroutines. `append` on the shared slice is a read (`ReadSlice`) and a write (`WriteSlice`): after a fallback two goroutines race on it |
| `stopVar`, `stopClosed`, `refresher`, `watching` | the shared variable `stopPIDRefresh`, the channels already closed, the refreshers and the channel their last `select` read |
| `child`, `ran`, `status`, `result` | the inner process, how it ended, what `run` returns. Exit codes are classed: `limit` for 132, 137, 153; `execfail` for 126, 127; `exit` for the others. `lost` is a `Wait` error without an exit status |

Every failure the code handles may happen: no pipe, no tracer, no snapshot, no
process, a lost `Wait`. The inner process may end before it has executed the
command, and the command may exit with any code. Abstracted: the inner process's
set-up is one step (its one audit entry may or may not be written), the end of
that process releases the pipe (nothing that outlives it holds the descriptor,
which is close-on-exec), results are named by their kind, and the events by
whether a rule matches them. The proxy, the egress watch, the library pipe, the
registry and `runLearn` are not part of this module.

| Property | What it says |
|---|---|
| `CleanReturn` | on every path the tracer is closed and the audit pipe released when `run` returns, attempts never overlap, and no channel is closed twice though both attempts share `stopPIDRefresh` |
| `AuditRelayed` | the entries of every attempt that gave an exit status reach the caller, a failed first attempt's too |
| `EventsReported` | without a fallback the URL check and the crypto result see every event that came through the channel, and no kind of result is written twice |
| `EveryRunReturns` | with no inner process left the run returns, a dry run that could not start one excepted |
| `GoroutinesEnd` | after a return, the read loop and both goroutines of every attempt end |
| `TypeOK` | types, with the channel's bound |

Two requests are what a lost append and a full channel of one need; each feature
is on in one of the four configurations and off in another, and the traced one
has the audit pipe too, so that a failing second pipe meets an open tracer.

## What runs of one host share

Five machines, composed by `MCHost`. They have no variable in common, so the
product of their behaviours holds nothing that one machine at a time does not:
`part` names the one that moves, the others stay in one initial state, and the
run is the sum of the five state spaces.

**`RunRegistry`** (`covert.go`). A run is its place in the sorted directory.
`at[r]` is where `registerRun`, the two calls of `check`, and `close` are;
`record[r]` is its file: absent, created, or whole (`os.WriteFile` is two steps).
`check` is `BeginCheck` (the listing, cut after the cap) and one `CheckRecord`
per name, between which other runs come, go, are killed (`Killed`: nothing
deferred runs, the record stays) and have their ids used again (`ReusePid`).
`met` and `ghosts` are history: who was registered at the same time as whom, and
who was dead when a check began.

| Property | What it says |
|---|---|
| `SharingReported` | of two audited runs that share a path and run their commands at one time one has reported it, in whatever order they registered and checked; the caps are the exceptions |
| `ReportedRunsMet` | a run is reported only if it lived together with the reporter, unless its process id is another's now |
| `RecordsFollowRuns` | a live run keeps its record; a check leaves none of a run that was dead before it |

Three runs, two of them audited, with a listing cap of two and one finding: the
third run is past the cut, the second finding past the cap, and one path is the
parent of another.

**`PolicyMerge`, `PolicyStore`** (`merge.go`, `learner.go`, `runLearn`).
`PolicyMerge` has `MergePolicies` and `OverlayExecConfigToPolicy` with a policy's
fields grouped by the rule that merges them: grants are joined, flags are ORed or
replaced, limits take the non-zero one, some fields have no line. `BuildPolicy`
says what a traced call contributes. `PolicyStore` has each learner's read, merge,
create, write and rename as steps, on a disk of directory entries and inodes (a
learner that opened the temporary file goes on writing to the inode another has
renamed); each step may fail, a rename that failed is followed by the removal of
whatever has the temporary name by then, and a learner may be killed between any
two.

| Property | What it says |
|---|---|
| `FileStaysWhole` | no half-written policy file, as long as no two learners work at once |
| `SerialLearnersLoseNothing` | one learner after the other loses no grant, limit or ORed control |

**`FileLocks`** (`acquireFileLocks`). Each run takes the locks of its list one
after the other, waiting for each without a timeout; shared and exclusive locks,
failures, kills. `OrderedLocksEnd`: runs whose lists agree on one order of all
paths all end. The lists explored also hold a cycle of three, opposite orders and
a path named twice; there the runs do block for ever (flock is per open file), and
the precondition excludes them.

**`EgressWatch`** (`detect_linux.go`). The inner process installs the filter and
sends the listener; `holders` is who holds it. The serve goroutine looks at one
notified call in the steps of `inspect`: read the caller's memory, ask whether the
notification is still valid, record, answer. A caller may die at any of them, and
what is read may then be another process' memory (`Elsewhere`). `finish` closes
`stop` and reads the notes whether the loop has ended or not. The kernel's side is
`Release`: when nobody holds the listener, waiting calls fail with ENOSYS.

| Property | What it says |
|---|---|
| `NotesAreTheCalls` | every call the engine let continue is noted unless the notes are full, and no note is about another process' memory |
| `NoEarlyRefusal` | no call fails with ENOSYS before the run is over, unless the hand-over failed or the engine is gone |
| `CallsAnswered`, `FinishReturns` | no watched call waits for ever, and the engine finishes once the inner process ended |

Three calls (a direct one, one to the proxy, a new UDP socket) and one note: the
notes fill, and calls are made before, during and after the hand-over.

**`TraceSessions`** (`dlltrace/session_windows.go`). Windows keeps a trace session
until somebody stops it. An engine that starts one first stops those whose owner,
by process id and creation time in the name, is gone; ids are used again, owners
may not be openable, the listing may fail or be partial. `LiveSessionsStay`: the
clean-up never takes the session of an engine that runs, whatever becomes of the
owner between the look and the stop. Two ids, three engines.

## The machines of one run

Seven machines, composed by `MCRun` in the same way (`machine`).

**`SandboxInit`** (`runInit`, `setupFilesystem`, `applyLandlock*`, the reaper).
`initStage` goes through the steps; `mounts` is the sandbox's mount table, a later
mount on top of an earlier one, with the host's mounts below a bound directory
coming along writable (`BindMount`); `layers` are the restrictions in place. Any
system call may fail, two per behaviour (`MaxInitFaults`): the second one matters
where the first has led to a fallback, as from `pivot_root` to `chroot`. `Location`
is what of the host the sandbox finds at a path, so properties speak of host files,
not of the paths the policy spells.

| Property | What it says |
|---|---|
| `WritesStayOpened` | a command can write to nothing of the host the configuration did not open: not through a mount on top of another, a link, the working directory or a protected home |
| `ConfinedAsAsked` | it runs with every restriction asked for that the kernel has and that did not fail; strict runs never lack the filter or a ruleset |
| `CommandRunsAndAnswers` | a command that is not blocked starts whatever the filter denies, and the run ends with its code, never an orphan's |

Some three hundred configurations: reads and writes that overlap, a link out of
the project and one to a system directory, a mount below a read path, both kernels
(with and without Landlock), and all combinations of the step options.
`WritesStayOpened` names its exceptions: a mount below a read path, a read path
whose remount failed, and the host's root, in which only a reduced run ends, or one
that opted in to chroot and whose chroot failed as well.

**`SeccompFilter`**. The instructions of `buildSeccompProgram`,
`egressNotifyProgram` and `compileKafelPolicy` and the kernel's interpreter, one
instruction a step. A word is the set of its bits. `FilterDecides`: the stack of
programs rules on every call as the builders' comments say. 64 option sets, every
kind of call a filter looks behind.

**`TlsObserve`**. Both directions of a handshake as bytes of records and messages,
in chunks of up to four, cut into records anywhere. `ReportIsTheHandshake`: it is
reported at most once, what is reported was negotiated, and a handshake within the
budgets is reported whole. TLS 1.3 with and without a retry, resumption, TLS 1.2
with chains past each bound.

**`JobObject`, `WindowsEngine`**. The port, the pump (which empties it into a
bounded queue and puts one token in the wake channel), the delivery goroutine, and
the run around them: the consumer of notifications, the memory limit, the backstop
timer, `TerminateExcept`, and the verdict. Workers start workers, ids return, the
workload may print an envelope as MXC does.

| Property | What it says |
|---|---|
| `EventsReachTheVerdict` | once the job is closed the engine gets every notification that is not counted as dropped, in order, and judges |
| `VerdictFits` | an enforced run's results are written once; a timeout is reported only after the timeout; a run that hit its memory limit or failed is never a success, whatever was printed |

**`ImageTrace`** (`dlltrace.go`, `session_windows.go`). The machine is the
environment: processes start others, load images, end, ids return, events are
lost, another program stops the session. `LoadsAreTheTrees`: a run that is told of
no loss gets the loads of its own processes, the first `MaxLibraryLoads` and no
others. Three reductions keep it small, none of which changes a result: what
was recorded is looked at only after the session's end, as `Attribute` sorts all
events by time first; what happened before the recording is in the initial
states; and a lost event leaves a gap that the bound on the trace's length pays for
(`TraceRoom`), so that loss is not explored on traces that are already full.

**`MxcStderr`**. Text is a sequence of tokens; markers, codes and ends are tokens,
so that any prefix of a marker occurs. `EnvelopeSurvives`: MXC's envelope is found
whatever the workload printed before it, left open or forged, in whatever pieces,
unless a line grew past the bound, and no word of the workload's is lost,
doubled or moved. Every text of up to three tokens, and forged envelopes.

**`MxcPlan`** (`translate.go` and the engine's decisions about it). One step per
policy: the plan, and what the user was told. The container is modelled as the
comments of `translate.go` describe it: a grant opens everything below it except
from a volume's root, a denial is stronger than a grant, a container opens
addresses it can name. `PlanKeepsPromises` compares what the workload could then
do with what the policy asked, or finds the entry that told the user. 14,704
policies: any two write paths and a read path under both tiers, any two network
entries with any two ports, each combination of limits and exec rules. Exempt, as
the code is, and therefore not claimed: a missing persistence location spelled by
a short name (`translate.go:232`), a blocked program granted as a file of its own
(957), loopback named only in `allowHosts` (251), `allowPorts` with no valid port
(633), a `maxProcesses` so large that adding a batch command's interpreters
wraps (823). The directories the engine protects are taken to lie outside
`%SystemRoot%`.

## Runs

| Run | Instance | What it shows | Size |
|---|---|---|---|
| `proxy_policy` | 1 connection; four configurations (pinned hosts, a bare `*` with a range, learning, unaudited); requests to names and literals of every address class | no step leads to an address that is not granted | 15 k states, 7 s |
| `proxy_records` | 2 connections (symmetric), two spellings of one target, a second target, a malformed request; `MaxConnect` 2, `MaxFindings` 1 | records, caps, sums, clean-up | 1.0 M states, 80 s |
| `proxy_live` | 2 connections, fairness, peers that may never finish; `MaxConnect` 1 | everything ends; the gate is implemented | 158 k states, 150 s |
| `engine_run` | four configurations, two requests, a channel of one | the Linux engine's run | 229 k states, 160 s |
| `host_machines` | the five machines above | what runs share | 134 k states, 60 s |
| `run_machines` | the seven machines above | each machine of a run | 911 k states, 180 s |

Six more runs check one statement of the documentation each, and TLC refutes it
(`findings`):

| Run | Statement | What the code does |
|---|---|---|
| `engine_strict` | `StrictNeverReduces` (`README.md:408`) | the fallback after exit code 126 or 127 does not ask `strict` |
| `engine_urls` | `EveryRequestChecked` (`README.md:1461`) | captured requests meet the URL rules only after a full attempt that exited with 0 |
| `engine_dryrun` | `DryRunReturns` (`engine_linux.go:815`) | when the process of a dry run cannot be started, `runDryRun` waits on a pipe whose write end it holds itself |
| `host_hardening` | `HardeningKept` (`README.md:1003`) | `MergePolicies` has no line for `PrivateTmp`, `ProtectSystem`, `ProtectHome` and `MapToTargetUid` |
| `run_kafel` | `DefaultKills` (`README.md:494`) | the last comparison of a statement jumps past the end of the program, which the kernel then refuses |
| `run_submounts` | `SubmountsReadOnly` (`THREAT-MODEL.md:474`) | submounts are looked up at the host's paths while they are still below the temporary root |

Every property of a passing run has a mutant of the code (a dropped check, a
missing count, a reset too many, a swapped order) that breaks it under the same
configuration.

What modelling showed besides, each visible in the definition named: a console
host started after the launcher's exit counts as workload (`WindowsEngine`); lock
files are taken only under a reaper (`TakeFileLocks`); a limit that cannot be
written to the cgroup is a warning under `strict` too (`SetupCgroup`); an
unreadable stacked filter is skipped under `strict` (`StackFilters`); after the
chroot fallback the private `/tmp` and the home's cover are not mounted
(`PivotRoot`), and a chroot that fails too leaves the command in the host's root,
confined by Landlock alone (`ChangeRoot`); the rules a learner synthesises are printed and never written to
the policy file (`PolicyStore`); a record that was created but never written is
never removed (`Stale`); `mergeURLRules` narrows a rule without methods
(`MergeURLRules`); a line of standard error past its bound may carry an envelope
through (`MxcStderr`); a `Wait` that fails returns without results (`AfterWait`).

## Fairness

Weak fairness is given to goroutines and to the kernel's answers to what it must
answer, never to a peer, a workload or a user.

- *proxy*: the accept loop, the flush, each handler's own steps and a copy that
  finds its socket closed: goroutines the Go scheduler runs, reads and dials with
  deadlines, and a 2 s timer. No client has to connect, send or finish, no upstream
  to answer, and the engine need not close: liveness starts at `closed`.
- *Linux engine*: the engine and its goroutines are scheduled, a ticker ticks, and
  a `select` that finds its stop case ready again and again takes it (strong
  fairness: Go chooses among ready cases at random). A command may run for ever.
- *locks*: `LockStep` per run. It contains the end of the command, so
  `OrderedLocksEnd` is about lists of locks, under the assumption that commands end;
  nothing fair makes a lock fail or a run die.
- *egress watch*: the serve loop, the inner process up to its exec, and the
  engine's `finish`; the command and its callers have none.
- *Windows*: `EngineStep`, the engine's goroutines and the port's deliveries.

## Proofs

Eight modules hold theorems, about any values of the constants that satisfy the
named assumptions of the modules. Every invariant was checked with TLC on the
instances of the runs before it was proved; the exception is `FilterInv`, whose
`Says` is a CHOOSE among functions that TLC cannot evaluate: TLC checked what
follows from it, `FilterDecides`.

| Module | Theorems about | Properties of runs they state |
|---|---|---|
| `EgressProxyProofs` | the proxy's sockets, handlers and destinations | `TypeOK`, `CloseLeavesNothing`, `DrainedMeansQuiet`, `OnlyGrantedReach`, `GateSafety` |
| | the proxy's records | `ConnectRecordedOnce`, `DrainedReportIsComplete`, `FindingsAreCapped`, `UploadHeavyIsExact` |
| `LinuxEngineProofs` | the Linux engine's run | `TypeOK`, `CleanReturn`, `AuditRelayed`, `EventsReported` |
| `FilterProofs` | the seccomp programs | `FilterDecides` |
| `RunProofs` | the inner init, the Windows verdict | `CommandRunsAndAnswers`, `ConfinedAsAsked`, `VerdictFits` |
| `HostProofs` | the registry | `SharingReported`, `ReportedRunsMet`, `RecordsFollowRuns` |
| | the policy file | `FileStaysWhole`, `SerialLearnersLoseNothing` |
| | the egress watch, the trace sessions | `NotesAreTheCalls`, `NoEarlyRefusal`, `LiveSessionsStay` |
| | the five machines of a host together | `HostTypeOK` |
| `MxcPlanProofs` | the plan of a run on Windows | `PlanKeepsPromises` |
| `StreamProofs` | the filter of MXC's standard error | `EnvelopeSurvives` |
| `DataInduction` | induction over numbers and finite sets, sums, functions defined by recursion | |

The assumptions, and why the code justifies them:

| Assumption | Says | Because |
|---|---|---|
| `ProxyAssumption`, `PolicyAssumption`, `RegistryAssumption`, `EngineAssumption` | the constants have their types, caps and capacities are numbers | types and literals of the source |
| `OverflowAssumption` | the target of a request with a host and a port is not the overflow entry's | that entry's target is `"proxy"` (`recordFinding`), a target is `host:port` |
| `WatchAssumption` | what another process' memory reads as is none of the destinations | it lets the theorem tell a wrong read from a right one |
| `StoreAssumption` | finitely many learners; what they are given are policies | `PolicyFile` is a struct |
| `LocksAssumption`, `SessionsAssumption` | a list of locks has a length; the numbers of engines and of listed sessions are numbers | slices; `maxSessions` is 64 (`session_windows.go:679`) |
| `SandboxAssumption` | the command is none of its orphans; `Unknown` is no exit code | process ids differ; `Unknown` is -1, a code is 0 to 255 |
| `FilterAssumption` | the blocklist is finite; a call asks for one type of socket | a slice (`engine_linux.go:3034`); the type is a number, the mask 0xf takes its bits (`engine_linux.go:3210`), and a number is one bit of a modelled word |
| `WinAssumption` | MXC's launcher, the console host and the workers differ; the queue holds three notifications at least | `maxQueuedEvents` is 65536 (`job_windows.go:98`) |
| `HostAssumption` | what exists lies in directories that exist, and a long name is made of its directory's; PATH is searched in absolute directories; the profile, the temporary and the protected directories lie outside `%SystemRoot%` | a file system; `GetLongPathName`; `execBlocked` skips the others (`translate.go:970`); so they do for all but the system's own accounts, whose `privateTmp` is not told of although every container can read there |
| `RequestAssumption` | the program is a file: no path leads through it, and it and what `blockExec` names is not the system root; only names and ranges stand for addresses; limits are natural numbers | `LookPath` asks `IsFile` (`cmdline.go:320`); a negative limit is none, as 0 is (`translate.go:789`, 798, 822) |
| `StderrAssumption` | what a workload prints is a sequence; MXC's line, if any, is one envelope, ended or not; the bound on a suspected line is positive | `stderr.go:18`; `maxMarkerLine` is 2^20 (`stderr.go:39`) |
| `WordAssumption` | units are positive, the launcher's memory fits a word, no public or private address is the machine's own | literals of `translate.go` |

### The egress proxy

`EgressProxyProofs` proves, for any finite set of connections and any
configurations, requests and caps that satisfy `PolicyAssumption` and
`ProxyAssumption`:

| Theorem | Statement |
|---|---|
| `TypeInvariant`, `TypeCorrect` | `Spec => []TypeInv`, `Spec => []TypeOK` |
| `NetInvariant`, `CloseIsComplete`, `DrainIsQuiet` | `Spec => []NetInv`, `Spec => []CloseLeavesNothing`, `Spec => []DrainedMeansQuiet` |
| `DestInvariant`, `ReachIsGranted` | `Spec => []DestInv`, `Spec => []OnlyGrantedReach` |
| `ProxyIsAGate` | `Spec => GateSafety` |

The argument goes in three layers.

1. `TypeInv` adds two facts to `TypeOK`: a handler past its read has a request
   (`RequestRead`), and the WaitGroup's count is the number of running handlers
   (`Counted`). Without the second, the decrement in `Finish` could leave `Nat`.
2. `NetInv` says which sockets are open and tracked at each `pc` (`SocketOwned`)
   and what the flush's phase implies (`FlushOrder`: closed from the first step
   of Close, a drain means no handler), and that after the copy under the lock
   every tracked socket is either in the copy or already closed (`CloseKnows`).
   `CloseLeavesNothing` alone is not inductive: it says nothing before Close
   returns, and the induction needs to know that what Close has not yet closed
   is exactly what it copied.
3. `DestInv` says what each check has established at each `pc`. The lemma
   `TwoChecksGrant` is the heart: a target that passes `targetAllowed` and an
   address that passes the dialer's `Control` are together granted by the
   configuration. The gate's steps follow: a `DialSucceeds` is `PassThrough`,
   `Admit` is `Admit`, the end of a handler is `Leave`, the first step of Close is
   `Shut`, the snapshot is `Settle`, and everything else stutters.

### The proxy's records (`EgressProxyProofs`)

The proofs are built on the layers above. The lemma `StepKinds` sorts the steps
into three kinds: those that record nothing (`NotRecording`, which lists what such a
step may change), those that record (a denial, a connection, a finding), and the
snapshot; the parts of `RecordInv` are proved once for each kind. `CompleteInv` is what each
connection owes the record (a denied one its violation, a connected one its
target, or the cap is full), and whether it is there, before the snapshot or in
the report. That a recording handler still runs (`RecordingServes`) is what ties the
report to the drain: once the WaitGroup is empty nobody records. `TallyInv` equates
three things that `recordFinding` changes separately: the counter of a type, the
cardinality of the findings of that type, and that of the places of its entries;
the overflow entry is the last of them. `CheckInv` follows each suspect: still to be
recorded, recorded, or past the cap.

`UploadHeavyExact` is about sums, which the code forms twice: per target as each
handler ends, and over the targets in the snapshot. `TrafficInv` says what has been
booked (`BookedInv`: a target's bytes are the sums over its tunnels whose handlers
are past `RecordTraffic`) and what the snapshot made of it (`HeavyInv`). A handler
books once, so the step adds one connection to one sum (`BytesInMore`); at the
snapshot of a drained flush every connection that reached its target has booked,
and the sum of the targets' sums is the sum over the connections (`SumOfSums`).

### Induction over data (`DataInduction`)

The library's induction theorems take a predicate, which the provers cannot
instantiate, and a sum is a `CHOOSE` of a function that satisfies a recursive
equation. `NumberInduction` and `PartInduction` state induction for sets instead:
what contains 0 and the successor of each of its members contains every number, and
what contains each part of a finite set whose smaller parts it contains contains the
set. They rest on the well-foundedness of `<` (`LeastNumber`). The function a sum
chooses exists (`SumFunExists`) and is the only one (`SumFunUnique`), so that a sum is
what adding one element at a time gives, in any order (`SumStep`). A function defined
by recursion over the numbers up to a bound exists (`RecursionExists`), so that its
defining equation holds of the one a model chooses.

### The filter of MXC's standard error (`StreamProofs`)

`EnvelopeFound`, for every text a workload prints, every way the writes cut it, and
every bound on a suspected line. `Start` is where in the text begins what the filter
holds back, whether that is the rest of a write or pending; no step moves it back.
`FilterInv` says that what is held back is the text from `Start` to what was written
(`HeldBack`); that it begins with a marker when it is suspected, and has no end of line between two writes
(`SuspectedLine`); that what was forwarded has told the words of the text up to `Start`
(`WordsPassed`); and that `Start` is not past the beginning of MXC's envelope, or past its
end with the envelope found (`EnvelopeAhead`). The last part is the argument: `Start`
cannot stop inside the envelope. A marker is found where the envelope begins, if not
before; without one in sight at most the `{` of the envelope was written, and is held
back; a line that is still open is given up only if it grew past the bound; and a line
that ends past the beginning of the envelope ends with it, so that the envelope is the
earliest object behind the line's start that runs to its end, or the whole line
(`ConsumedEnvelope`). That the words of two texts together are the words of the one and then
of the other (`WordsJoin`) is an induction over the second.

### The Linux engine (`LinuxEngineProofs`)

`EngineInv` is organised around the agenda. Every agenda is the rest of one of a
handful of plans (`Plans`, the ways through `run`, `runReduced` and `runDryRun`), and
the lemma `Order` says what may still follow each step. Against that, `ChildInv` says
which inner process may live, `PipeInv` who holds which end of an audit pipe and that
what is in it and not relayed is still held, `TracerInv` when the tracer is open and
that its goroutines end only when it is closed, `StopInv` whose channel the variable
`stop` names, `ResultInv` what has been written. `EventInv` accounts for every event that came
through: in the channel, in a goroutine's hand, or in the slice, and past the join
only in the slice. None of the three properties is inductive: each speaks of the
return only.

### The policy store (`HostProofs`)

`FileIsWhole` and `SerialLearningKeeps`, for any finite set of learners and any
policies. `DiskInv` and `KeepInv` speak of the states in which no two learners have
been at work at once: the one at work knows what the file holds, what it wrote to
the temporary file, and that the merge and the overlay kept every earlier learner's
accesses and controls (`MergeKeeps`, `OverlayKeeps`). That an inode is free for a
temporary file (`NodeIsFree`) is a counting argument: learners hold one each at most.

### The seccomp programs (`FilterProofs`)

`FilterKeepsPromise`, for every configuration without stacked policies, every call and
any blocklist. A program is a concatenation of blocks of a few instructions, the last one as
long as the blocklist. `Says` is what a program comes to from one of its places with one
word in the accumulator; it exists because every jump goes forward (`RulesExist`, an
induction from the end of the program). Each kind of instruction then has a rule that
holds wherever its block stands (`BlockObeys`), so a block is reasoned about alone:
`ArchRules`, `CloneRules`, `SocketRules`, `ProtRules` and `DenialRules` each say that
the block rules on its own calls and otherwise hands on, behind its last instruction,
with the number of the call in the accumulator. That is what a miscounted jump or a
missing reload breaks. `DenialRules` is an induction over the blocklist, whatever order
its names are in. `BuildRules` chains the blocks, `NotifyRules` follows the twenty
instructions of the watch. That no jump leaves a program is proved by blocks too
(`FitsJoin`), and `FilterInv` needs it: the interpreter stands in a program (`Running`), and
what that program says from there is what it says from its start. At the end the
strongest of the two rulings is the promised one (`StrongerRuling`), because the
watch only ever turns an allowance into a report.

The theorem does not cover the programs a Kafel policy compiles to, whose last jumps leave
them (`run_kafel`).

### The inner init and the Windows verdict (`RunProofs`)

`CommandAnswers` needs to know why a setup failed (a call failed, or the command
cannot be executed) and what the reaper saw. `CommandIsConfined` counts: `Lacking` is the set of layers
asked for, tried and not in place, and each step adds none to it, or one together
with a failed call; for a strict run a layer that matters is not lacking unless the
setup failed. The lemma `LayerIsSound` is that argument for one layer, used for each.

`VerdictIsFit` follows the notifications of the job: what lies in the completion
port, the queue and the hands of the two goroutines is an interval of what was posted,
in order (`PipeInv`). Only the launcher and the console host are posted before the
workload's first process, so that one is among the first three notifications,
which a queue of three never drops (`FirstInv`): if the workload ran, `Wait` has seen it.
`TimeInv` ties the clock, the timer and the exit codes.

### The run registry (`HostProofs`)

`SharingIsReported`, `ReportsAreOfRunsMet` and `RecordsAreOfLiveRuns` prove the
registry's three properties for any number of runs, paths and caps, under
`RegistryAssumption`. `SharingReported` says nothing while a check is under way,
so it is not inductive; `OneLooks` fills the gap: of two audited runs that are both
registered, one has still to look at the other (it has not begun its first check,
or the other is in the list it works off) or has looked. A run that begins a check
lists every registered one because of `LiveRecords` (only dead runs' records are
removed) and the lemma `FirstOfFewer`: a name among the first of all runs is among
the first of those whose record is there. `GhostsGo` does the same for the
clean-up: what a check found dead is still in its list or not there any more.

### The egress watch (`HostProofs`)

`NotesAreOfTheCalls` and `NoCallRefusedEarly`, for any number of calls and any cap,
under `WatchAssumption` (what another process' memory reads as is none of the
destinations). `LooksRight` is what serve knows at each stage of a look: after the
read, the destination is the call's own if the caller is still in its call; once
the id is checked, it is. `HeldRight` follows the listener: the inner process
holds it, then the socket or the engine, and when nobody does, the run is over, the
hand-over failed, or no process is left to make a call.

### The trace sessions (`HostProofs`)

`LiveSessionsSafe`, for any ids and any number of engines. The invariant adds one
fact, `CondemnedAreDead`: what an engine is about to stop is owned by no running
engine. It survives the reuse of ids because an engine that comes is created later
than every one of its id that a session or a listing still names.

### The host (`HostProofs`)

`HostTypes` and `HostKeepsPromises` join the machines. They share no variable, so a step
of the host is a step of one machine and a stutter of the others (`HostSteps`), and the
conjunction of their invariants is inductive as each of them is. Besides the types this
bounds what each machine keeps: a lock place that is taken is one of the list, notes and
samples stay within their caps, an engine looks at no more sessions than one listing
shows and stops one at a time.

### The plan of a run on Windows (`MxcPlanProofs`)

`PlanInvariant` says what there is to say about steps: a plan is `FullPlan` of its
request, and a strict run starts only with nothing to tell. The rest is about what the
translation computes, so `PlanKeeps` is one lemma per promise, for any request, machine
and set of paths that the three assumptions allow. `FilesAre`, `NetworkKeeps`,
`LimitsKeep` and `CollectKeeps` follow a field of the plan through the four stages.

The promises about files rest on one argument. Two directories of a path lie in each
other, one way or the other (`PrefixTotal`), so a grant that opens a path in a directory
covers the directory or lies inside it (`GrantOrInside`). That is the pair of cases
`translateFiles` and `collectUnenforced` test, and each test is needed: without
`GrantsInside` a grant below the engine's directory would escape its denial, without
`CoveredBy` one above it would. `CoveredIsGranted` ties the code's test, which knows that
a grant on a volume's root does not go down, to what the container lets through. A
program that is started by name is found in a directory of PATH, and what opens the
program but is not a grant on the file opens the directory (`PrefixOfFront`), which is
why it is enough for `execBlocked` to look at directories.

`CeilDivIs` and `MemoryIs` are the arithmetic of the limits: a share of the processors
is rounded up, so a limit that was asked for is never zero, and a memory limit
saturates. Work on this proof made three premises explicit that the instances had
satisfied by accident, the file system's (above), and showed that one exemption of
`PersistenceHeld` was not needed.

### What is only model-checked

- Everything under fairness (`CloseEndsEveryHandler` and the other liveness properties),
  as the prover has no rule for `ENABLED`.
- What a recursion over sequences computes, where its induction is long:
  `WritesStayOpened` (the mount table: a sorted sequence of submounts per bind),
  `ReportIsTheHandshake` (bytes in any pieces), `LoadsAreTheTrees` (folds over the events
  of a trace).
- `RunTypeOK`, the types of the seven machines of a run, and `FileLocks`, whose property
  is that its runs end.

## What is not modelled

- *npm runner, API and CLI*: the runner's timer, exit and report stream deserve a
  module (first in the plan); the rest builds configurations and parses arguments.
- *macOS and OpenBSD engines*: the first has the life cycle of the Linux engine
  with fewer goroutines around a generated Seatbelt profile, whose text is layout;
  the second is a straight line of calls.
- *URL rules, learner text, harness rules, quoting of command lines, spelling of
  Windows paths*: string algorithms whose corner cases are characters.
- *configuration and environment*: data and validation; the configurations are
  the inputs of the other modules.
- *filesystem diff, report channel, crypto BOM, dry-run report*: one goroutine over
  two maps, one mutex around one write, formatting.
- *HTTP and crypto tracer*: the correlation of ciphers with connections over two
  ring buffers, and the eBPF programs; its channel and goroutines are in
  `LinuxEngine`.
- *inside modelled components*: `MapToTargetUid`, the LD_AUDIT helper, the loopback
  device and the hardening of `/proc` in the inner init; the probe of MXC, the
  filtering of the environment and the denial report on Windows; the keying
  statistics of `covert.go`, which are floating-point heuristics.

## Plan

Done: the proxy and its gate, the Linux engine's run, the machines of a host and
of a run, and proofs about nine of them and about the host they share. Left, in order:

1. `Runner` for the npm side: timer, exit, close and report stream.
2. The composition of `LinuxEngine` with `EgressProxy` at the point where a run's
   crypto result reads the proxy's ciphers before the flush.
3. `CipherTrack`, the tracer's two ring buffers and its connection tables; the
   macOS engine as an instance of a common life cycle.
4. Proofs: the safety half of `EventsReachTheVerdict`; an abstract registry and an
   abstract audit relay that `RunRegistry` and `LinuxEngine` implement.
