------------------------------ MODULE MxcPlan -------------------------------
(***************************************************************************)
(* Translate (mxc/translate.go) and what the Windows engine makes of its   *)
(* plan: the policy of a run becomes grants, denials, network rules and    *)
(* job limits, and what Windows cannot enforce is told, or ends a strict   *)
(* run.                                                                    *)
(*                                                                         *)
(* A path is the sequence of its names, the first one its volume; NoPath   *)
(* is one that is not set or not absolute.  An address list's entry says   *)
(* how it is spelled and which addresses it stands for now.                *)
(***************************************************************************)
EXTENDS Integers, Sequences, FiniteSets, SequencesExt

CONSTANTS
  Requests,        \* what runs ask for, [config, host, mode, proxyStarts], in a
                   \* sequence of sets
  Hosts,           \* the machines they ask it of
  WinPaths,        \* the paths there may be
  Loopbacks, Privates, Publics,  \* addresses
  MaxWord,         \* the largest memory limit
  MemoryUnit, LauncherMemory, CPUScale

VARIABLES
  request,
  plan,  \* what Translate made of it
  fate   \* "asked", "planned", "runs", "refused"

planVars == <<request, plan, fate>>

Host(r) == Hosts[r.host]
NoPath == <<>>
NoPlan == [read |-> {}, write |-> {}, denied |-> {}, undeniable |-> {},
           network |-> [egress |-> "deny", to |-> {}, ports |-> {}, inbound |-> FALSE,
                        hostLoopback |-> FALSE, proxy |-> FALSE],
           memory |-> 0, cpu |-> 0, processes |-> 0, unenforced |-> {}, broadened |-> {}]
-----------------------------------------------------------------------------
WinIsVolumeRoot(p) == Len(p) = 1
WinHasPrefix(p, dir) == dir # NoPath /\ IsPrefix(dir, p)

\* A slip: the grant on a volume's root is taken for one on the whole volume.
CoveredByRoots(p, grants) == \E g \in grants : WinHasPrefix(p, g)

\* A grant on a volume's root does not go down the volume.
CoveredBy(p, grants) ==
  \E g \in grants : IF WinIsVolumeRoot(g) THEN p = g ELSE WinHasPrefix(p, g)
GrantsInside(dir, grants) == \E g \in grants : g # dir /\ WinHasPrefix(g, dir)
GrantsReaching(dir, grants) == {g \in grants : WinHasPrefix(g, dir) \/ CoveredBy(dir, {g})}

\* Paths are compared by their long names, which only those that exist have.
Canon(host, p) == IF p \in host.exists /\ p \in DOMAIN host.longPath THEN host.longPath[p] ELSE p
Profile(host) == Canon(host, host.userProfile)

\* What exists lies in directories that exist, and its long name (GetLongPathName)
\* is made of theirs.  PATH is searched in what is absolute.  The directories that
\* are kept from a command lie outside %SystemRoot%, which every container can
\* read, as they do for all but the system's own accounts.
ASSUME HostAssumption ==
  \A n \in DOMAIN Hosts :
    LET h == Hosts[n]
        kept == {Profile(h)} \union {Canon(h, p) : p \in h.temp \union h.protected}
    IN  /\ {h.userProfile, h.systemRoot, h.documents, h.appData} \subseteq Seq(STRING)
        /\ h.temp \union h.protected \subseteq Seq(STRING)
        /\ h.exists \union h.searched \subseteq Seq(STRING) \ {NoPath}
        /\ \A p \in DOMAIN h.longPath : h.longPath[p] \in Seq(STRING) \ {NoPath}
        /\ \A p \in h.exists : Len(p) > 1 =>
             Front(p) \in h.exists /\ Canon(h, Front(p)) = Front(Canon(h, p))
        /\ \A d \in kept \ {NoPath} : ~IsPrefix(d, h.systemRoot) /\ ~IsPrefix(h.systemRoot, d)
        /\ h.numCPU \in Nat \ {0}

\* Device paths, streams, wildcards, and paths without a volume name nothing.
NormalizePolicyPath(raw, cwd, profile) ==
  CASE raw.form = "absolute" -> raw.names
    [] raw.form = "relative" -> cwd \o raw.names
    [] raw.form = "home" -> IF profile = NoPath THEN NoPath ELSE profile \o raw.names
    [] raw.form = "unusable" -> NoPath

\* What does not exist is not granted.
Norm(r, raws) ==
  {Canon(Host(r), p) :
     p \in {NormalizePolicyPath(raw, r.config.cwd, Profile(Host(r))) : raw \in raws} \intersect Host(r).exists}

BroadDirectory(dir, host) ==
  \/ WinIsVolumeRoot(dir)
  \/ /\ host.userProfile # NoPath
     /\ \/ WinHasPrefix(Profile(host), dir)
        \/ dir \in {Profile(host) \o <<d>> : d \in {"Desktop", "Documents", "Downloads"}}
        \/ dir # NoPath /\ dir = host.documents

\* The program alone, where everything beside it is not to be exposed.
ProgramGrant(r) ==
  LET dir == Canon(Host(r), Front(r.config.program))
  IN  IF BroadDirectory(dir, Host(r)) THEN Canon(Host(r), r.config.program) ELSE dir

\* Some of the places that run code at logon or when a shell or a tool starts.
PersistencePaths(host) ==
  LET Set(dirs) == dirs \ {NoPath}
  IN  {docs \o <<"PowerShell">> :
         docs \in Set({host.documents}) \union {u \o <<"Documents">> : u \in Set({host.userProfile})}}
      \union {dir \o <<"npm">> : dir \in Set({host.appData})}
      \union {dir \o <<".ssh">> : dir \in Set({host.userProfile})}

TranslateFiles(r) ==
  LET asksFor(raws) == IF r.mode = "dry run" THEN {} ELSE Norm(r, raws)
      write == asksFor(r.config.writePaths)
      With(some, p) == IF WinHasPrefix(p, Host(r).systemRoot) \/ CoveredBy(p, write \union some)
                       THEN some ELSE some \union {p}
      read == With(With(asksFor(r.config.readPaths) \ write, ProgramGrant(r)),
                   Canon(Host(r), r.config.cwd))
      persistence ==
        IF ~r.config.denyPersistenceWrites THEN {}
        ELSE {d \in {Canon(Host(r), p) : p \in PersistencePaths(Host(r))} :
                CoveredBy(d, write) /\ d \notin write}
      protected ==
        {d \in {Canon(Host(r), p) : p \in Host(r).protected \intersect Host(r).exists} :
           CoveredBy(d, write \union read) \/ GrantsInside(d, write \union read)}
  IN  [NoPlan EXCEPT !.read = read, !.write = write,
         !.denied = (persistence \intersect Host(r).exists) \union protected,
         !.undeniable = persistence \ Host(r).exists,
         !.unenforced = IF persistence \subseteq Host(r).exists THEN {} ELSE {"persistence"}]
-----------------------------------------------------------------------------
\* The engine's proxy: learning runs always ask for one.
ProxyWanted(r) ==
  ~r.config.disableNetwork /\ r.mode # "dry run" /\ (r.mode = "learn" \/ r.config.proxyEgress)
HasProxy(r) == ProxyWanted(r) /\ r.proxyStarts

RequiresHostLoopback(c) ==
  c.allowLoopback \/ \E i \in c.allowIPs : i.form = "range" /\ i.to \subseteq Loopbacks

\* Every destination that is pinned: a name by the addresses it has now.
Pinned(c) ==
  (UNION {{{a} : a \in h.to} : h \in {x \in c.allowHosts : x.form = "name"}})
  \union {i.to : i \in {x \in c.allowIPs : x.form = "range"}}

MaxPort == 65535

EgressPorts(c) ==
  LET named == c.allowPorts \intersect 1..MaxPort
  IN  IF named = {} /\ 0 \notin c.allowPorts /\ c.allowHosts \union c.allowIPs # {}
      THEN {80, 443} ELSE named

\* Numeric rules: no name is known at the time of a connection.
DirectEgress(r) ==
  LET c == r.config
      peers == {p \in Pinned(c) : ~(p \subseteq Loopbacks)}
      any == \E x \in c.allowHosts \union c.allowIPs : x.form = "any"
      restrict == c.allowHosts \union c.allowIPs # {}
      ports == IF 0 \in c.allowPorts THEN {} ELSE EgressPorts(c)
      loopback == c.allowLoopback \/ \E p \in Pinned(c) : p # {} /\ p \subseteq Loopbacks
      opens == loopback /\ Host(r).ingress /\ RequiresHostLoopback(c)
      private == \E p \in peers : p \intersect Privates # {}
      egress == CASE (any \/ ~restrict) /\ ports = {} -> "allow"
                  [] (any \/ ~restrict) /\ ports # {} -> "ports"
                  [] restrict /\ ~any /\ peers # {} -> "peers"
                  [] restrict /\ ~any /\ peers = {} -> "deny"
  IN  [network |-> [egress |-> egress, to |-> UNION peers, ports |-> ports,
                    inbound |-> private \/ c.allowListen, hostLoopback |-> opens, proxy |-> FALSE],
       broadened |-> {b \in {"private", "listen", "loopback"} :
                        CASE b = "private" -> private [] b = "listen" -> c.allowListen
                          [] b = "loopback" -> opens}]

TranslateNetwork(r, p) ==
  IF r.mode = "dry run" \/ r.config.disableNetwork THEN p
  ELSE IF HasProxy(r)
  THEN [p EXCEPT !.network = [@ EXCEPT !.inbound = TRUE, !.hostLoopback = TRUE, !.proxy = TRUE],
                 !.unenforced = @ \union IF r.config.urlPathRules THEN {"url rules"} ELSE {}]
  ELSE [p EXCEPT !.network = DirectEgress(r).network, !.broadened = DirectEgress(r).broadened]
-----------------------------------------------------------------------------
MinOf(a, b) == IF a < b THEN a ELSE b
CeilDiv(a, b) == (a + b - 1) \div b

\* maxMemoryMB saturates; maxCPUCores, here in tenths, is a share of all.
MemoryBytes(c) ==
  IF c.maxMemory = 0 THEN 0
  ELSE IF c.maxMemory > (MaxWord - LauncherMemory) \div MemoryUnit THEN MaxWord
  ELSE c.maxMemory * MemoryUnit + LauncherMemory
CPURate(c, host) ==
  IF c.maxCPU = 0 \/ c.maxCPU >= 10 * host.numCPU THEN 0
  ELSE CeilDiv(c.maxCPU * CPUScale, 10 * host.numCPU)

\* The launcher counts as well, and the two interpreters of a batch command.
ActiveProcesses(c) ==
  LET shim == IF c.isBatch THEN 2 ELSE 0
      asked == (IF c.blockFork THEN {1 + shim} ELSE {})
               \union (IF c.maxProcesses > 0 THEN {c.maxProcesses + shim} ELSE {})
  IN  IF asked = {} THEN 0 ELSE 1 + CHOOSE n \in asked : \A m \in asked : n <= m

TranslateLimits(r, p) ==
  [p EXCEPT !.memory = MemoryBytes(r.config), !.cpu = CPURate(r.config, Host(r)),
            !.processes = ActiveProcesses(r.config)]
-----------------------------------------------------------------------------
Readable(r, p, path) ==
  WinHasPrefix(path, Host(r).systemRoot) \/ CoveredBy(path, p.write \union p.read)

\* A bare name is what PATH finds in a directory that can be read.
ExecBlocked(entry, r, p) ==
  CASE entry.form \in {"empty", "posix"} -> TRUE
    [] entry.form = "any" -> FALSE
    [] entry.form = "absolute" -> ~Readable(r, p, Canon(Host(r), entry.names))
    [] entry.form = "name" ->
         \A dir \in Host(r).searched :
           Readable(r, p, Canon(Host(r), dir)) => dir \o entry.names \notin Host(r).exists

\* One process beside the launcher starts no other; interpreters could.
ExecLimited(c) == c.blockFork /\ ~c.isBatch

CollectUnenforced(r, p) ==
  LET c == r.config
      home == GrantsReaching(Profile(Host(r)),
                p.write \union IF c.protectHome = "tmpfs" THEN p.read ELSE {})
      temp == UNION {GrantsReaching(Canon(Host(r), t), p.write \union p.read) : t \in Host(r).temp}
      told(x) == CASE x = "fork" -> c.blockFork /\ c.isBatch
                   [] x = "allowExec" -> c.allowExec /\ ~ExecLimited(c)
                   [] x = "blockExec" -> ~ExecLimited(c) /\ \E e \in c.blockExec : ~ExecBlocked(e, r, p)
                   [] x = "home" -> c.protectHome # "off" /\ Host(r).userProfile # NoPath /\ home # {}
                   [] x = "tmp" -> c.privateTmp /\ temp # {}
                   [] x = "linux" -> c.linuxOnly
  IN  [p EXCEPT !.unenforced =
         @ \union {x \in {"fork", "allowExec", "blockExec", "home", "tmp", "linux"} : told(x)}]
-----------------------------------------------------------------------------
\* A program is a file (LookPath), so no path leads through it, and the system
\* root is none.  Only names and ranges stand for addresses.  A negative limit is
\* none, as 0 is.
ASSUME RequestAssumption ==
  \A i \in 1..Len(Requests) : \A r \in Requests[i] :
    LET c == r.config
        program == Canon(Host(r), c.program)
    IN  /\ r.host \in DOMAIN Hosts
        /\ c.cwd \in Seq(STRING) /\ c.program \in Seq(STRING)
        /\ c.program # NoPath => /\ c.program \in Host(r).exists /\ Len(c.program) > 1
                                 /\ \A q \in WinPaths : WinHasPrefix(q, program) => q = program
        /\ \A raw \in c.readPaths \union c.writePaths :
             raw.form \in {"absolute", "relative", "home", "unusable"} /\ raw.names \in Seq(STRING)
        /\ \A e \in c.blockExec :
             /\ e.form \in {"empty", "posix", "any", "absolute", "name"} /\ e.names \in Seq(STRING)
             /\ e.form = "name" => /\ Len(e.names) = 1
                                   /\ \A dir \in Host(r).searched :
                                        Canon(Host(r), dir \o e.names) # Host(r).systemRoot
        /\ \A x \in c.allowHosts : x.to # {} => x.form = "name"
        /\ \A x \in c.allowIPs : x.to # {} => x.form = "range"
        /\ c.maxMemory \in Nat /\ c.maxCPU \in Nat /\ c.maxProcesses \in Nat

ASSUME WordAssumption ==
  /\ MaxWord \in Nat \ {0} /\ LauncherMemory \in 0..MaxWord
  /\ MemoryUnit \in Nat \ {0} /\ CPUScale \in Nat \ {0}
  /\ Loopbacks \intersect (Privates \union Publics) = {} /\ WinPaths \subseteq Seq(STRING)
-----------------------------------------------------------------------------
PlanInit == (\E i \in 1..Len(Requests) : request \in Requests[i]) /\ plan = NoPlan /\ fate = "asked"

\* What Translate, or the engine before it, refuses.
Unusable(r) ==
  \/ r.config.cwd = NoPath \/ r.config.program = NoPath \/ Host(r).systemRoot = NoPath
  \/ ~r.config.composes
  \/ ProxyWanted(r) /\ ~r.proxyStarts /\ r.config.strict
  \/ Host(r).cascading /\ \E g \in TranslateFiles(r).read \union TranslateFiles(r).write : WinIsVolumeRoot(g)

RefuseRequest ==
  /\ fate = "asked" /\ Unusable(request)
  /\ fate' = "refused" /\ UNCHANGED <<request, plan>>

Translate ==
  /\ fate = "asked" /\ ~Unusable(request)
  /\ plan' = CollectUnenforced(request,
               TranslateLimits(request, TranslateNetwork(request, TranslateFiles(request))))
  /\ fate' = "planned" /\ UNCHANGED request

\* A strict run accepts nothing that is not enforced, and nothing broader.
AcceptPlan ==
  /\ fate = "planned"
  /\ fate' = IF request.config.strict /\ plan.unenforced \union plan.broadened # {}
             THEN "refused" ELSE "runs"
  /\ UNCHANGED <<request, plan>>

PlanNext == RefuseRequest \/ Translate \/ AcceptPlan
PlanSpec == PlanInit /\ [][PlanNext]_planVars

PlanTypeOK ==
  /\ plan.memory \in 0..MaxWord /\ plan.cpu \in 0..CPUScale
  /\ plan.read \union plan.write \union plan.denied \subseteq WinPaths
-----------------------------------------------------------------------------
\* What the container lets the workload do: a grant goes down the tree unless it
\* is on a volume's root, and a denial is stronger.
GrantedBy(q, grants) == \E g \in grants : q = g \/ (Len(g) > 1 /\ WinHasPrefix(q, g))
ShutOut(q) == \E d \in plan.denied : WinHasPrefix(q, d)
MayWrite(q) == GrantedBy(q, plan.write) /\ ~ShutOut(q)
MayRead(q) ==
  /\ WinHasPrefix(q, Host(request).systemRoot) \/ GrantedBy(q, plan.write \union plan.read)
  /\ ~ShutOut(q)
Reaches(a, port) ==
  /\ plan.network.egress # "deny"
  /\ plan.network.egress = "peers" => a \in plan.network.to
  /\ plan.network.ports = {} \/ port \in plan.network.ports

\* A restriction that Windows cannot enforce is told of, and a strict run that
\* is told of one does not start.
Told(x) == x \in plan.unenforced /\ ~request.config.strict
Asked(raws) == IF request.mode = "dry run" THEN {} ELSE Norm(request, raws)
PathsIn(dir) == {q \in WinPaths : WinHasPrefix(q, dir)}

\* Nothing the engine keeps for itself can be touched, whatever is granted.
ProtectedStayShut ==
  \A d \in Host(request).protected \intersect Host(request).exists :
    \A q \in PathsIn(Canon(Host(request), d)) : ~MayRead(q) /\ ~MayWrite(q)

\* No more can be touched than was asked for and the command needs to start:
\* all that lies beside the program only if the profile does not.
NothingElseGranted ==
  LET program == Canon(Host(request), request.config.program)
      around == Canon(Host(request), Front(request.config.program))
  IN  \A q \in WinPaths :
        /\ MayWrite(q) => GrantedBy(q, Asked(request.config.writePaths))
        /\ MayRead(q) =>
             \/ WinHasPrefix(q, Host(request).systemRoot) \/ q = program
             \/ GrantedBy(q, Asked(request.config.readPaths \union request.config.writePaths)
                               \union {Canon(Host(request), request.config.cwd)})
             \/ GrantedBy(q, {around}) /\ ~WinHasPrefix(Profile(Host(request)), around)

\* What was asked for is granted, but for what is protected and for persistence
\* locations below another grant.
GrantsHold ==
  \A w \in Asked(request.config.writePaths) :
    \/ MayWrite(w)
    \/ \E d \in Host(request).protected : WinHasPrefix(w, Canon(Host(request), d))
    \/ /\ request.config.denyPersistenceWrites
       /\ \E d \in plan.denied : WinHasPrefix(w, d) /\ GrantedBy(d, Asked(request.config.writePaths))

\* The command can be started, where nothing denies it.
CommandStarts ==
  \A q \in {Canon(Host(request), request.config.cwd), Canon(Host(request), request.config.program)} :
    MayRead(q) \/ ShutOut(q)

\* A persistence location is written only where a grant names it or a path
\* inside it, or the location is told of.  (One that does not exist is known by
\* the name it is spelled by, be it a short one.)
PersistenceHeld ==
  request.config.denyPersistenceWrites =>
    \A p \in PersistencePaths(Host(request)) :
      LET d == Canon(Host(request), p)
      IN  \A q \in PathsIn(d) :
            MayWrite(q) =>
              \/ \E g \in plan.write : WinHasPrefix(g, d) /\ WinHasPrefix(q, g)
              \/ d \in plan.undeniable /\ Told("persistence")

\* The profile and the temporary directory are out of reach if they should be.
HomeAndTmpHeld ==
  /\ request.config.protectHome # "off" /\ Host(request).userProfile # NoPath =>
       \A q \in PathsIn(Profile(Host(request))) :
         MayWrite(q) \/ (request.config.protectHome = "tmpfs" /\ MayRead(q)) => Told("home")
  /\ request.config.privateTmp =>
       \A t \in Host(request).temp : \A q \in PathsIn(Canon(Host(request), t)) :
         MayRead(q) \/ MayWrite(q) => Told("tmp")

\* No blocked program is found on PATH in what can be read, or started by its
\* path, unless the file itself was granted or the command can start nothing.
ExecHeld ==
  request.config.blockExec # {} =>
    \/ Told("blockExec")
    \/ plan.processes = 2 /\ ~request.config.isBatch
    \/ \A e \in request.config.blockExec :
         \A q \in CASE e.form = "name" -> {dir \o e.names : dir \in Host(request).searched}
                    [] e.form = "absolute" -> {e.names}
                    [] e.form = "any" -> {request.config.program}
                    [] OTHER -> {} :
           q \in Host(request).exists /\ MayRead(Canon(Host(request), q))
             => e.form = "name" /\ Canon(Host(request), q) \in plan.read \union plan.write

\* Without the proxy, exactly the addresses and ports that the policy names
\* are reached: all of them if it names none, web ports if it names no port.
EgressAsAsked ==
  LET c == request.config
      entries == c.allowHosts \union c.allowIPs
      ports == c.allowPorts \intersect 0..MaxPort
  IN  IF plan.network.proxy \/ c.disableNetwork \/ request.mode = "dry run"
      THEN plan.network.egress = "deny"
      ELSE \A a \in Publics \union Privates, port \in {80, 443, 8080} :
             Reaches(a, port) <=>
               /\ entries # {} => \E x \in entries : x.form = "any" \/ a \in x.to
               /\ ports # {} => 0 \in ports \/ port \in ports
               /\ ports = {} /\ entries # {} => port \in {80, 443}

\* A limit that was asked for is one, however large, and no stricter than it.
LimitsHeld ==
  LET c == request.config
  IN  /\ c.maxMemory > 0 =>
           plan.memory > 0 /\ plan.memory >= MinOf(MaxWord, c.maxMemory * MemoryUnit)
      /\ c.maxCPU > 0 /\ plan.cpu = 0 => c.maxCPU >= 10 * Host(request).numCPU
      /\ plan.cpu > 0 => /\ plan.cpu * 10 * Host(request).numCPU >= c.maxCPU * CPUScale
                         /\ (plan.cpu - 1) * 10 * Host(request).numCPU < c.maxCPU * CPUScale
      /\ c.blockFork => Told("fork") \/ plan.processes = 2
      /\ c.maxProcesses > 0 =>
           plan.processes \in 2..(c.maxProcesses + 1 + IF c.isBatch THEN 2 ELSE 0)

\* A plan that runs keeps what its policy asks for, in terms of what the
\* container lets the workload do, or the user was told that it does not.
PlanKeepsPromises ==
  fate = "runs" =>
    /\ ProtectedStayShut /\ NothingElseGranted /\ GrantsHold /\ CommandStarts
    /\ PersistenceHeld /\ HomeAndTmpHeld /\ ExecHeld /\ EgressAsAsked /\ LimitsHeld
=============================================================================
