-------------------------------- MODULE MCRun --------------------------------
(***************************************************************************)
(* The machines of one run: the system call filters and the sandbox its    *)
(* inner init builds on Linux, the TLS observer of its proxy, and the plan,*)
(* the job, the image-load trace and the filtered error output of a run on *)
(* Windows.  They have no state in common, so the product of their         *)
(* behaviours holds nothing that one machine at a time does not: `machine` *)
(* names the one that moves and the others stay in an initial state.       *)
(***************************************************************************)
EXTENDS SeccompFilter, SandboxInit, TlsObserve, WindowsEngine, ImageTrace, MxcStderr, MxcPlan, TLC

VARIABLE machine

runVars == <<machine, filterVars, initVars, tlsVars, winVars, traceVars, stderrVars, planVars>>

\* Filters: every set of options, and one policy of "ALLOW openat, read;
\* DEFAULT KILL"; each kind of call the filters look behind.
MCFilterConfigs ==
  {[arch |-> a, userns |-> u, fork |-> f, jit |-> j, audit |-> u, execs |-> e, watched |-> w,
    policies |-> <<>>] : a \in {"amd64", "arm64"}, u, f, j, e, w \in BOOLEAN}
MCKafel ==
  [arch |-> "amd64", userns |-> TRUE, fork |-> FALSE, jit |-> FALSE, audit |-> FALSE,
   execs |-> FALSE, watched |-> FALSE, policies |->
     <<[statements |-> <<[action |-> "allow", calls |-> <<"openat", "read">>]>>,
        default |-> "kill"]>>]
MCFilters == MCFilterConfigs \union {MCKafel}

Sys(nr, arg0, arg1, arg2) ==
  [arch |-> {"amd64"}, nr |-> nr, arg0 |-> arg0, arg1 |-> arg1, arg2 |-> arg2, lo4 |-> {}, hi4 |-> {}]
MCSyscalls ==
  {Sys({n}, {}, {}, {}) : n \in {"mount", "fork", "clone3", "execve", "execveat",
                                 "memfd_create", "read", "connect"}}
  \union {Sys({"mount", "x32"}, {}, {}, {}), [Sys({"read"}, {}, {}, {}) EXCEPT !.arch = {"arm64"}]}
  \union {Sys({"clone"}, f, {}, {}) : f \in {{}, {"thread"}, {"newuser"}, {"thread", "newns"}}}
  \union {Sys({"socket"}, {d}, {t, "cloexec"}, {}) :
            d \in {"unix", "inet", "inet6", "netlink"}, t \in {"raw", "dgram", "stream"}}
  \union {Sys({n}, {}, {}, p) : n \in {"mprotect", "pkey_mprotect", "mmap"},
                                p \in {{"exec"}, {"exec", "write"}, {"write"}}}
  \union {[Sys({"sendto"}, {}, {}, {}) EXCEPT !.lo4 = l, !.hi4 = h] : l, h \in {{}, {"address"}}}

\* Sandbox: a project in a home, a mount below a directory, links out of them.
MCHome == <<"home", "u">>
MCProj == <<"home", "u", "proj">>
MCVendor == <<"data", "vendor">>
MCHostPaths == {<<"home">>, MCHome, MCProj, <<"data">>, MCVendor, <<"tmp">>, <<"tmp", "x">>,
                <<"usr">>, <<"link">>, <<"far">>, <<"etc">>}
MCLinks == (<<"link">> :> MCProj) @@ (<<"far">> :> <<"etc">>)
MCMounts == {MCVendor}
MCSystem == <<<<"usr">>, <<"etc">>>>
MCTmp == <<"tmp">>

Plain ==
  [full |-> TRUE, strict |-> FALSE, reads |-> <<>>, writes |-> <<>>, cwd |-> MCProj,
   protectSystem |-> FALSE, protectHome |-> "off", privateTmp |-> FALSE, setUpDev |-> FALSE,
   allowChrootFallback |-> FALSE, submountEnforce |-> FALSE, diff |-> FALSE, fds |-> <<>>,
   limits |-> FALSE, cgroups |-> TRUE, abi |-> 6, netRules |-> FALSE, stacked |-> FALSE,
   noForks |-> FALSE, noExecs |-> FALSE, blocked |-> FALSE, reaper |-> FALSE, lockFiles |-> FALSE]
\* What the mounts and Landlock make of the paths; which of the steps may fail
\* and how the command starts; and descriptors bound into the sandbox.
PathConfigs ==
  {[Plain EXCEPT !.reads = r, !.writes = w, !.cwd = c, !.protectHome = h, !.protectSystem = s,
                 !.submountEnforce = s, !.privateTmp = s, !.abi = a, !.full = f] :
     r \in {<<<<"data">>, <<"usr">>>>, <<<<"tmp">>, MCProj>>, <<<<"etc">>, <<"far">>>>},
     w \in {<<<<"tmp">>>>, <<<<"link">>, MCVendor>>, <<<<>>, <<"home">>>>, <<<<"far">>, MCProj>>},
     c \in {MCProj, <<"tmp", "x">>}, h \in {"off", "read-only", "tmpfs"},
     s \in BOOLEAN, a \in {0, 6}, f \in BOOLEAN}
StepConfigs ==
  {[Plain EXCEPT !.full = f, !.strict = s, !.limits = s \/ d, !.cgroups = ~(d /\ e),
                 !.setUpDev = e, !.allowChrootFallback = e, !.diff = d, !.netRules = e,
                 !.stacked = d, !.noForks = n, !.noExecs = x, !.reaper = r, !.lockFiles = d,
                 !.blocked = b] : f, s, d, e, n, x, r, b \in BOOLEAN}
FdConfigs ==
  {[Plain EXCEPT !.reads = <<<<"data">>>>, !.strict = s, !.abi = a,
                 !.fds = <<[at |-> <<"fd">>, src |-> <<"data">>, ro |-> o]>>] :
     o, s \in BOOLEAN, a \in {0, 6}}
\* What a failing pivot_root and chroot leave open.
RootConfigs ==
  {[Plain EXCEPT !.writes = <<MCProj>>, !.strict = s, !.abi = a, !.allowChrootFallback = c] :
     s, c \in BOOLEAN, a \in {0, 6}}
MCInitConfigs == PathConfigs \union StepConfigs \union FdConfigs \union RootConfigs

\* Observer: TLS 1.3 with and without a retry, a resumed handshake, and TLS 1.2
\* with chains past each bound, all in one record or cut in two.
Cert(size, key, readable) == [size |-> size, key |-> key, readable |-> readable]
MCChains ==
  {<<Cert(1, 1, TRUE)>>, <<Cert(3, 1, TRUE), Cert(1, 2, TRUE)>>,
   <<Cert(1, 1, TRUE), Cert(1, 2, TRUE), Cert(1, 3, TRUE)>>,
   <<Cert(1, 1, FALSE), Cert(1, 2, TRUE)>>, <<Cert(1, 1, TRUE), Cert(2, 2, TRUE)>>}
Shake(version, retry, resumed, group, keyShare, certs, cut) ==
  [name |-> "host", version |-> version, retry |-> retry, resumed |-> resumed, group |-> group,
   keyShare |-> keyShare, certs |-> certs, cut |-> cut]
MCHandshakes ==
  {Shake(13, r, FALSE, "curve", "", <<>>, c) : r \in BOOLEAN, c \in 0..3}
  \union {Shake(12, FALSE, TRUE, "", "", <<>>, c) : c \in 0..3}
  \union {Shake(12, FALSE, FALSE, "", k, chain, c) : k \in {"", "curve"}, chain \in MCChains, c \in 0..9}
MCLimit == [client |-> 12, server |-> 20]

\* Windows: a worker that starts another, with a memory limit; a console host
\* and a worker, with a timeout; no job; and a learning run.
MCCase(mode, job, memory, timeout, parent) ==
  [mode |-> mode, job |-> job, memory |-> memory, timeout |-> timeout, parent |-> parent]
One == [p \in {"w1"} |-> "wxc-exec"]
Two == [p \in {"w1", "w2"} |-> IF p = "w1" THEN "wxc-exec" ELSE "w1"]
WithConsole == [p \in {"conhost", "w1"} |-> "wxc-exec"]
MCWinConfigs ==
  {MCCase("enforce", TRUE, TRUE, FALSE, Two), MCCase("enforce", TRUE, FALSE, TRUE, WithConsole),
   MCCase("enforce", FALSE, FALSE, TRUE, One),
   MCCase("learn", TRUE, FALSE, FALSE, WithConsole)}

\* Trace: processes with and without an image to report, among them the one
\* that is skipped.
MCStarts == {[exe |-> "tool", maps |-> <<>>], [exe |-> "conhost", maps |-> <<"lib">>]}

\* Error output: any three tokens, forged envelopes, lines left open and a line
\* past the bound, with MXC's line after them, ended or not, or without it.
MCTokens == {"{", "error", "backend_error", "type", "}", "text", "nl"}
OpenLine == <<"{", "error">>
Forged == <<"{", "error", "policy_validation", "}">>
MCPrinted ==
  UNION {[1..n -> MCTokens] : n \in 0..3}
  \union {Forged, Forged \o <<"nl">>, Forged \o <<"nl", "text">>, <<"text">> \o Forged \o <<"text">>,
          OpenLine \o Forged, OpenLine \o <<"text", "word", "{", "type", "}">>,
          OpenLine \o [i \in 1..5 |-> "text"]}
MCClosing == {<<>>} \union {<<"{", "error", "backend_error", "}">> \o end : end \in {<<>>, <<"nl">>}}

\* Policies on Windows: a profile with a project, persistence locations, one of
\* them missing, and the engine's own directory in TEMP, which is spelled by a
\* short name; a second volume; a tool in a directory of its own, in the
\* profile and in the system's.
MCProfile == <<"C", "Users", "me">>
MCShort == <<"C", "Users", "ME~1">>
MCWinProj == MCProfile \o <<"proj">>
MCWinTemp == MCProfile \o <<"Temp">>
MCTools == <<"D", "tools">>
MCWinPaths ==
  {<<"C">>, <<"C", "Windows">>, <<"C", "Windows", "cmd">>, <<"C", "Users">>, MCProfile, MCWinProj,
   MCWinTemp, MCProfile \o <<"cmd">>, MCProfile \o <<".ssh">>, MCProfile \o <<".ssh", "key">>,
   MCProfile \o <<"npm">>, <<"D">>, <<"D", "docs">>, <<"D", "docs", "PowerShell">>, MCTools, MCTools \o <<"cmd">>}
  \union {MCWinTemp \o <<"runs">> \o end : end \in {<<>>, <<"run">>}}
MCMissing == {MCProfile \o <<"npm">>}
MCWinHost ==
  [exists |-> (MCWinPaths \ MCMissing) \union {MCShort, MCShort \o <<"Temp">>, MCShort \o <<"Temp", "runs">>},
   longPath |-> (MCShort :> MCProfile) @@ (MCShort \o <<"Temp">> :> MCWinTemp)
                  @@ (MCShort \o <<"Temp", "runs">> :> MCWinTemp \o <<"runs">>),
   userProfile |-> MCProfile, appData |-> MCProfile, documents |-> NoPath,
   systemRoot |-> <<"C", "Windows">>, temp |-> {MCShort \o <<"Temp">>},
   protected |-> {MCShort \o <<"Temp", "runs">>}, searched |-> {MCTools, MCProfile},
   cascading |-> FALSE, ingress |-> TRUE, numCPU |-> 4]
MCHosts ==
  [h \in {"usual", "cascading", "redirected", "bare"} |->
     CASE h = "usual" -> MCWinHost
       [] h = "cascading" -> [MCWinHost EXCEPT !.cascading = TRUE, !.ingress = FALSE]
       [] h = "redirected" -> [MCWinHost EXCEPT !.userProfile = MCShort, !.documents = <<"D", "docs">>]
       [] h = "bare" -> [MCWinHost EXCEPT !.userProfile = NoPath, !.appData = NoPath]]
MCWinConfig ==
  [cwd |-> MCWinProj, program |-> MCTools \o <<"cmd">>, isBatch |-> FALSE, composes |-> TRUE,
   strict |-> FALSE, readPaths |-> {}, writePaths |-> {}, denyPersistenceWrites |-> FALSE,
   protectHome |-> "off", privateTmp |-> FALSE, disableNetwork |-> FALSE, proxyEgress |-> FALSE,
   urlPathRules |-> FALSE, allowHosts |-> {}, allowIPs |-> {}, allowPorts |-> {},
   allowLoopback |-> FALSE, allowListen |-> FALSE, maxMemory |-> 0, maxCPU |-> 0,
   maxProcesses |-> 0, blockFork |-> FALSE, allowExec |-> FALSE, blockExec |-> {}, linuxOnly |-> FALSE]
Ask(config, host, mode, starts) == [config |-> config, host |-> host, mode |-> mode, proxyStarts |-> starts]
Abs(p) == [form |-> "absolute", names |-> p]
MCRawPaths ==
  {Abs(<<"C">>), Abs(<<"C", "Users">>), Abs(MCShort), [form |-> "home", names |-> <<".ssh">>],
   Abs(MCProfile \o <<".ssh", "key">>), [form |-> "relative", names |-> <<>>],
   Abs(MCWinTemp \o <<"runs", "run">>), Abs(<<"D">>), [form |-> "unusable", names |-> <<>>]}
UpTo(n, S) == {T \in SUBSET S : Cardinality(T) <= n}

\* Files: any two paths to write and one to read, and each thing that is to be
\* held back, under both tiers.
MCFileRequests ==
  {Ask([MCWinConfig EXCEPT !.writePaths = w, !.readPaths = r, !.program = p, !.cwd = c,
          !.denyPersistenceWrites = TRUE, !.protectHome = h, !.privateTmp = (h # "off"),
          !.strict = (on = "cascading")],
       on, "enforce", TRUE) :
     w \in UpTo(2, MCRawPaths), r \in {{}, {Abs(<<"C", "Users">>)}, {Abs(<<"D">>)}},
     p \in {MCTools \o <<"cmd">>, MCProfile \o <<"cmd">>, <<"C", "Windows", "cmd">>},
     c \in {MCWinProj, MCWinTemp \o <<"runs", "run">>},
     h \in {"off", "read-only", "tmpfs"}, on \in DOMAIN MCHosts}
\* Network: any two entries of hosts and addresses and any two ports, with and
\* without a proxy that starts or not.
MCEntries ==
  {[form |-> "any", to |-> {}], [form |-> "pattern", to |-> {}], [form |-> "name", to |-> {"web"}],
   [form |-> "name", to |-> {}], [form |-> "name", to |-> {"local"}],
   [form |-> "range", to |-> {"local"}], [form |-> "range", to |-> {"lan"}],
   [form |-> "range", to |-> {"lan", "web", "other"}], [form |-> "unusable", to |-> {}]}
Ranges == {e \in MCEntries : e.form \in {"any", "range", "unusable"}}
MCNetRequests ==
  {Ask([MCWinConfig EXCEPT !.allowHosts = e \ Ranges, !.allowIPs = e \intersect Ranges, !.allowPorts = p,
          !.allowLoopback = l, !.allowListen = l, !.proxyEgress = x, !.urlPathRules = x,
          !.disableNetwork = (l /\ x), !.strict = s],
       IF s THEN "cascading" ELSE "usual", IF l /\ ~x THEN "learn" ELSE "enforce", s) :
     e \in UpTo(2, MCEntries), p \in UpTo(2, {0, 443, 8080, 70000}), l, x, s \in BOOLEAN}
\* Limits and exec: each combination, for a program and for a batch file.
MCExecEntries ==
  {[form |-> "any", names |-> <<>>], [form |-> "posix", names |-> <<>>],
   [form |-> "name", names |-> <<"cmd">>], Abs(<<"C", "Windows", "cmd">>), Abs(MCProfile \o <<"cmd">>)}
MCLimitRequests ==
  {Ask([MCWinConfig EXCEPT !.maxMemory = m, !.maxCPU = m, !.maxProcesses = n, !.blockFork = f,
          !.isBatch = b, !.blockExec = e, !.allowExec = b, !.linuxOnly = (n > 0), !.composes = c,
          !.program = MCProfile \o <<"cmd">>],
       "usual", IF c THEN "enforce" ELSE "dry run", TRUE) :
     m \in {0, 1, 13, 14, 50}, n \in {0, 1, 3}, f, b, c \in BOOLEAN, e \in UpTo(1, MCExecEntries)}
MCRequests == <<MCFileRequests, MCNetRequests, MCLimitRequests>>
-----------------------------------------------------------------------------
RunInit ==
  /\ machine \in {"filter", "init", "tls", "windows", "trace", "stderr", "plan"}
  /\ machine # "filter" => asked = MCKafel /\ syscall = CHOOSE c \in MCSyscalls : TRUE
  /\ machine # "init" => initCfg = CHOOSE c \in InitConfigs : TRUE
  /\ machine # "tls" => conn = CHOOSE h \in Handshakes : TRUE
  /\ machine # "windows" => winCfg = CHOOSE c \in WinConfigs : TRUE
  /\ machine # "trace" => proc = [p \in Pids |-> IF p = LauncherPid THEN Console ELSE Free]
  /\ machine # "stderr" => stream = [workload |-> <<>>, mxc |-> <<>>]
  /\ machine # "plan" => request = CHOOSE r \in Requests[1] : TRUE
  /\ FilterInit /\ InitInit /\ TlsInit /\ WinInit /\ TraceInit /\ StderrInit /\ PlanInit

Filter ==
  machine = "filter" /\ UNCHANGED <<machine, initVars, tlsVars, winVars, traceVars, stderrVars, planVars>>
Sandbox ==
  machine = "init" /\ UNCHANGED <<machine, filterVars, tlsVars, winVars, traceVars, stderrVars, planVars>>
Tls ==
  machine = "tls" /\ UNCHANGED <<machine, filterVars, initVars, winVars, traceVars, stderrVars, planVars>>
Windows ==
  machine = "windows" /\ UNCHANGED <<machine, filterVars, initVars, tlsVars, traceVars, stderrVars, planVars>>
Trace ==
  machine = "trace" /\ UNCHANGED <<machine, filterVars, initVars, tlsVars, winVars, stderrVars, planVars>>
Stderr ==
  machine = "stderr" /\ UNCHANGED <<machine, filterVars, initVars, tlsVars, winVars, traceVars, planVars>>
Planning ==
  machine = "plan" /\ UNCHANGED <<machine, filterVars, initVars, tlsVars, winVars, traceVars, stderrVars>>

RunNext ==
  \/ Filter /\ FilterNext
  \/ Sandbox /\ InitNext
  \/ Tls /\ TlsNext
  \/ Windows /\ WinNext
  \/ Trace /\ TraceNext
  \/ Stderr /\ StderrNext
  \/ Planning /\ PlanNext

\* The fairness of the Windows engine's own specification.
RunSpec == RunInit /\ [][RunNext]_runVars /\ WF_runVars(Windows /\ EngineStep)

\* The type invariant of the machine that moves.
RunTypeOK ==
  CASE machine = "filter" -> FilterTypeOK
    [] machine = "init" -> InitTypeOK
    [] machine = "tls" -> TlsTypeOK
    [] machine = "windows" -> WinTypeOK
    [] machine = "trace" -> TraceTypeOK
    [] machine = "stderr" -> StderrTypeOK
    [] machine = "plan" -> PlanTypeOK
=============================================================================
