----------------------------- MODULE SandboxInit -----------------------------
(***************************************************************************)
(* The inner init of a run on Linux: cgroup, the sandbox's mount table,    *)
(* no_new_privs, Landlock, seccomp, and the command, started in its place  *)
(* or under a reaper.  Any system call may fail.                           *)
(*                                                                         *)
(* A path is the sequence of its names.  A mount table is a sequence, a    *)
(* later mount lying on top of an earlier one.                             *)
(***************************************************************************)
EXTENDS Integers, Sequences, FiniteSets, SequencesExt

CONSTANTS
  InitConfigs,   \* what runs ask for, and the kernels they meet; fds has one
                 \* descriptor to bind at most
  HostPaths,     \* the paths there are on the host
  Links,         \* symbolic links: a function to what they lead to
  HostMounts,    \* mount points of the host
  Home, SystemPaths, TmpPath,
  Orphans,       \* processes the command leaves to process 1
  ExitCodes,
  MaxInitFaults  \* system calls that fail, at most

VARIABLES
  initCfg, initStage,
  reads, writes,   \* the paths still to bind
  mounts,          \* [at, src, ro]
  loose,           \* read paths whose read-only remount failed
  layers,          \* the restrictions in place
  faults,          \* system calls that failed
  children,        \* process -> "none", "alive", "dead": those of process 1
  ended, returned  \* the command's exit code and what the reaper made of it

initVars == <<initCfg, initStage, reads, writes, mounts, loose, layers, faults,
              children, ended, returned>>
mountVars == <<reads, writes, mounts, loose>>
reaperVars == <<children, ended, returned>>

Command == "command"
Unknown == -1

\* The command is none of the processes it leaves behind, and -1 no exit code.
ASSUME SandboxAssumption ==
  MaxInitFaults \in Nat /\ Command \notin Orphans /\ Unknown \notin ExitCodes

Fresh == <<"a file system of the sandbox's own">>
NewRoot == TmpPath \o <<"safer-exec-root">>

Covers(parent, p) == p = parent \/ (parent # <<>> /\ IsPrefix(parent, p))
Names(seq, p) == \E i \in 1..Len(seq) : seq[i] = p
Below(seq, p) == \E i \in 1..Len(seq) : Covers(seq[i], p)
Follow(p) == IF p \in DOMAIN Links THEN Links[p] ELSE p
WithPath(seq, p) == IF Names(seq, p) THEN seq ELSE Append(seq, p)

\* A call that fails, and a step that is over.
Fault == faults < MaxInitFaults /\ faults' = faults + 1
GoTo(stage) == initStage' = stage
\* A step whose failure a strict run does not accept.
FaultUnlessStrict(next) == Fault /\ GoTo(IF initCfg.strict THEN "failed" ELSE next)
-----------------------------------------------------------------------------
\* The paths setupFilesystem binds: system directories and the home are added
\* to the reads, the working directory to the writes, and then a protected
\* home is taken out.
InHome(p) == Covers(Home, p)
OutsideHome(seq) == SelectSeq(seq, LAMBDA p : ~InHome(p))
ReadsOf(cfg) ==
  LET system == IF ~cfg.protectSystem THEN cfg.reads ELSE
        cfg.reads \o SelectSeq(SystemPaths, LAMBDA p : ~Names(cfg.reads, p) /\ p \in HostPaths)
  IN  CASE cfg.protectHome = "read-only" -> WithPath(system, Home)
        [] cfg.protectHome = "tmpfs" -> OutsideHome(system)
        [] OTHER -> system

\* A slip: the working directory is added after a protected home is taken out.
WritesOfHomeFirst(cfg) ==
  WithPath(IF cfg.protectHome = "off" THEN cfg.writes ELSE OutsideHome(cfg.writes), cfg.cwd)

WritesOf(cfg) ==
  LET withCwd == WithPath(cfg.writes, cfg.cwd)
  IN  IF cfg.protectHome = "off" THEN withCwd ELSE OutsideHome(withCwd)

Resolves(p, cfg) ==
  /\ p \in HostPaths /\ p # <<>>
  /\ p \in DOMAIN Links => Below(ReadsOf(cfg), Links[p]) \/ Below(WritesOf(cfg), Links[p])

\* MS_REC: what is mounted below the source comes along, as it is.
BindMount(p, source, ro) ==
  LET below == {h \in HostMounts : h # source /\ IsPrefix(source, h)}
      order == SetToSortSeq(below, LAMBDA a, b : Len(a) < Len(b))
  IN  <<[at |-> p, src |-> source, ro |-> ro]>>
      \o [i \in 1..Len(order) |->
            [at |-> p \o SubSeq(order[i], Len(source) + 1, Len(order[i])),
             src |-> order[i], ro |-> FALSE]]

\* What the sandbox finds at a path, and what of the host that is.
Visible(p) == LET on == {i \in 1..Len(mounts) : IsPrefix(mounts[i].at, p)}
              IN  mounts[CHOOSE i \in on : \A j \in on : j <= i]
Location(p) == LET m == Visible(p)
               IN  Follow(m.src \o SubSeq(p, Len(m.at) + 1, Len(p)))
-----------------------------------------------------------------------------
HostRoot == <<[at |-> <<>>, src |-> <<>>, ro |-> FALSE]>>

InitInit ==
  /\ initCfg \in InitConfigs
  /\ initStage = "cgroup"
  /\ reads = <<>> /\ writes = <<>> /\ loose = {}
  /\ mounts = HostRoot
  /\ layers = {} /\ faults = 0
  /\ children = [c \in Orphans \union {Command} |-> "none"]
  /\ ended = Unknown /\ returned = Unknown

AfterCgroup == IF initCfg.full THEN "root" ELSE "privileges"
\* Without limits a cgroup is only watched, and nothing is said if there is
\* none; a limit that cannot be written is a warning, also in a strict run.
SetupCgroup ==
  /\ initStage = "cgroup"
  /\ \/ /\ layers' = layers \union (IF initCfg.cgroups THEN {"cgroup"} ELSE {})
        /\ GoTo(AfterCgroup) /\ UNCHANGED faults
     \/ initCfg.cgroups /\ initCfg.limits /\ FaultUnlessStrict(AfterCgroup) /\ UNCHANGED layers
     \/ initCfg.cgroups /\ Fault /\ GoTo(AfterCgroup) /\ UNCHANGED layers
  /\ UNCHANGED <<initCfg, mountVars, reaperVars>>

\* The overlay of a diff run, or else a temporary root.
MakeRoot ==
  /\ initStage = "root"
  /\ \/ /\ UNCHANGED faults
        /\ mounts' = <<[at |-> <<>>, src |-> Fresh, ro |-> FALSE]>>
        /\ IF initCfg.diff THEN GoTo("pivot") /\ UNCHANGED <<reads, writes>>
           ELSE GoTo("bind") /\ reads' = ReadsOf(initCfg) /\ writes' = WritesOf(initCfg)
     \/ Fault /\ GoTo("failed") /\ UNCHANGED <<reads, writes, mounts>>
     \/ /\ Fault /\ initCfg.diff /\ GoTo("bind")
        /\ mounts' = <<[at |-> <<>>, src |-> Fresh, ro |-> FALSE]>>
        /\ reads' = ReadsOf(initCfg) /\ writes' = WritesOf(initCfg)
  /\ UNCHANGED <<initCfg, loose, layers, reaperVars>>

BindRead ==
  /\ initStage = "bind" /\ reads # <<>>
  /\ LET p == Head(reads) IN
     \/ ~Resolves(p, initCfg) /\ UNCHANGED <<mounts, loose, faults, initStage>>
     \/ /\ Resolves(p, initCfg)
        /\ \/ /\ mounts' = mounts \o BindMount(p, Follow(p), TRUE)
              /\ UNCHANGED <<loose, faults, initStage>>
           \/ FaultUnlessStrict("bind") /\ UNCHANGED <<mounts, loose>>
           \/ \* The remount's error is not looked at.
              /\ Fault /\ mounts' = mounts \o BindMount(p, Follow(p), FALSE)
              /\ loose' = loose \union {Follow(p)} /\ UNCHANGED initStage
  /\ reads' = Tail(reads)
  /\ UNCHANGED <<initCfg, writes, layers, reaperVars>>

BindWrite ==
  /\ initStage = "bind" /\ reads = <<>> /\ writes # <<>>
  /\ LET p == Head(writes) IN
     \/ ~Resolves(p, initCfg) /\ UNCHANGED <<mounts, faults, initStage>>
     \/ /\ Resolves(p, initCfg)
        /\ \/ mounts' = mounts \o BindMount(p, Follow(p), FALSE) /\ UNCHANGED <<faults, initStage>>
           \/ FaultUnlessStrict("bind") /\ UNCHANGED mounts
  /\ writes' = Tail(writes)
  /\ UNCHANGED <<initCfg, reads, loose, layers, reaperVars>>

\* mountinfo has the paths of the host here, the new root's mounts under the
\* temporary directory.
EnforceAllSubmountsReadOnly ==
  /\ initStage = "bind" /\ reads = <<>> /\ writes = <<>>
  /\ mounts' = [i \in 1..Len(mounts) |->
       IF initCfg.submountEnforce /\ Below(ReadsOf(initCfg), NewRoot \o mounts[i].at)
       THEN [mounts[i] EXCEPT !.ro = TRUE] ELSE mounts[i]]
  /\ GoTo("fds")
  /\ UNCHANGED <<initCfg, reads, writes, loose, layers, faults, reaperVars>>

BindFds ==
  /\ initStage = "fds"
  /\ \/ /\ mounts' = mounts \o FlattenSeq([i \in 1..Len(initCfg.fds) |->
             BindMount(initCfg.fds[i].at, initCfg.fds[i].src, initCfg.fds[i].ro)])
        /\ GoTo("pivot") /\ UNCHANGED <<faults, loose>>
     \/ /\ initCfg.fds # <<>> /\ FaultUnlessStrict("pivot")
        /\ \/ UNCHANGED <<mounts, loose>>
           \/ LET fd == initCfg.fds[1] IN
              /\ mounts' = mounts \o BindMount(fd.at, fd.src, FALSE)
              /\ loose' = loose \union {fd.src}
  /\ UNCHANGED <<initCfg, reads, writes, layers, reaperVars>>

\* A run that opted in goes on with chroot where pivot_root fails, ...
PivotRoot ==
  /\ initStage = "pivot"
  /\ \/ GoTo("cover") /\ UNCHANGED faults
     \/ Fault /\ GoTo(IF initCfg.allowChrootFallback THEN "chroot" ELSE "failed")
  /\ UNCHANGED <<initCfg, mountVars, layers, reaperVars>>

\* ... and the error of chroot is not looked at: the init stays in the host's
\* root and takes the new one down.
ChangeRoot ==
  /\ initStage = "chroot" /\ GoTo("privileges")
  /\ \/ UNCHANGED <<mounts, faults>>
     \/ Fault /\ mounts' = HostRoot
  /\ UNCHANGED <<initCfg, reads, writes, loose, layers, reaperVars>>

\* Private /tmp and home; their errors are not looked at.
CoverPaths ==
  /\ initStage = "cover"
  /\ LET covered == (IF initCfg.privateTmp THEN <<TmpPath>> ELSE <<>>)
                    \o (IF initCfg.protectHome = "tmpfs" THEN <<Home>> ELSE <<>>)
         over(seq) == mounts \o [i \in 1..Len(seq) |-> [at |-> seq[i], src |-> Fresh \o seq[i], ro |-> FALSE]]
     IN  \/ mounts' = over(covered) /\ UNCHANGED faults
         \/ covered # <<>> /\ Fault /\ mounts' = over(Tail(covered))
  /\ GoTo("dev")
  /\ UNCHANGED <<initCfg, reads, writes, loose, layers, reaperVars>>

\* /proc is mounted at best effort; /dev only if asked for.
SetupDev ==
  /\ initStage = "dev"
  /\ \/ layers' = layers \union (IF initCfg.setUpDev THEN {"dev"} ELSE {})
        /\ GoTo("privileges") /\ UNCHANGED faults
     \/ initCfg.setUpDev /\ FaultUnlessStrict("privileges") /\ UNCHANGED layers
  /\ UNCHANGED <<initCfg, mountVars, reaperVars>>

\* A slip: it is left to the seccomp filter, which sets the bit too.
SetNoNewPrivsLater ==
  /\ initStage = "privileges" /\ GoTo("net")
  /\ UNCHANGED <<initCfg, mountVars, layers, faults, reaperVars>>

SetNoNewPrivs ==
  /\ initStage = "privileges"
  /\ layers' = layers \union {"no_new_privs"} /\ GoTo("net")
  /\ UNCHANGED <<initCfg, mountVars, faults, reaperVars>>

\* The kernel lets a process restrict itself that has given up new privileges,
\* or has the privileges of its own namespace.
MayRestrict == "no_new_privs" \in layers \/ initCfg.full
RestrictSelf(layer, next) ==
  \/ MayRestrict /\ layers' = layers \union {layer} /\ GoTo(next) /\ UNCHANGED faults
  \/ ~MayRestrict /\ GoTo(IF initCfg.strict THEN "failed" ELSE next) /\ UNCHANGED <<layers, faults>>
  \/ FaultUnlessStrict(next) /\ UNCHANGED layers
Skip(next) == GoTo(next) /\ UNCHANGED <<layers, faults>>

AsksNet(cfg) == cfg.netRules /\ cfg.abi >= 4
ApplyLandlockNetwork ==
  /\ initStage = "net"
  /\ IF AsksNet(initCfg) THEN RestrictSelf("landlock net", "fs") ELSE Skip("fs")
  /\ UNCHANGED <<initCfg, mountVars, reaperVars>>

ApplyLandlockFilesystem ==
  /\ initStage = "fs"
  /\ IF initCfg.abi >= 3 THEN RestrictSelf("landlock fs", "seccomp") ELSE Skip("seccomp")
  /\ UNCHANGED <<initCfg, mountVars, reaperVars>>

\* Without the sandbox's own filter the policy's are not tried either.
ApplySeccomp ==
  /\ initStage = "seccomp"
  /\ LET next == IF initCfg.stacked THEN "stacked" ELSE "launch" IN
     \/ layers' = layers \union {"no_new_privs", "seccomp"} /\ GoTo(next) /\ UNCHANGED faults
     \/ /\ Fault /\ layers' = layers \union {"no_new_privs"}
        /\ GoTo(IF initCfg.strict THEN "failed" ELSE "launch")
  /\ UNCHANGED <<initCfg, mountVars, reaperVars>>

\* One that cannot be read is left out, one the kernel refuses is an error.
StackFilters ==
  /\ initStage = "stacked"
  /\ \/ layers' = layers \union {"stacked"} /\ GoTo("launch") /\ UNCHANGED faults
     \/ FaultUnlessStrict("launch") /\ UNCHANGED layers
     \/ Fault /\ GoTo("launch") /\ UNCHANGED layers
  /\ UNCHANGED <<initCfg, mountVars, reaperVars>>
-----------------------------------------------------------------------------
\* The system calls the filter denies: see Denied in SeccompFilter.
Filtered(call) == "seccomp" \in layers
  /\ \/ call = "execve" /\ initCfg.noExecs /\ ~initCfg.noForks
     \/ call = "execveat" /\ initCfg.noExecs /\ initCfg.noForks

\* A slip: only execveat is tried.
ExecCommandOnce == ~initCfg.blocked /\ ~Filtered("execveat")

\* execveat first, execve where the first one is denied.
ExecCommand == ~initCfg.blocked /\ (~Filtered("execveat") \/ ~Filtered("execve"))

Starts == children' = [children EXCEPT ![Command] = "alive"] /\ GoTo("running")

\* No reaper: the command takes the place of the init.
Launch ==
  /\ initStage = "launch" /\ ~(initCfg.full /\ initCfg.reaper)
  /\ IF ExecCommand THEN Starts ELSE GoTo("failed") /\ UNCHANGED children
  /\ UNCHANGED <<initCfg, mountVars, layers, faults, ended, returned>>

\* The lock files are taken under a reaper only.
TakeFileLocks ==
  /\ initStage = "launch" /\ initCfg.full /\ initCfg.reaper
  /\ \/ GoTo("fork") /\ UNCHANGED faults
     \/ initCfg.lockFiles /\ FaultUnlessStrict("fork")
  /\ UNCHANGED <<initCfg, mountVars, layers, reaperVars>>

\* The filter kills the init that forks under blockFork; a fork that fails
\* leaves the direct way.
ForkTarget ==
  /\ initStage = "fork"
  /\ \/ /\ initCfg.noForks /\ "seccomp" \in layers
        /\ GoTo("failed") /\ UNCHANGED <<children, faults>>
     \/ /\ ~(initCfg.noForks /\ "seccomp" \in layers)
        /\ \/ /\ UNCHANGED faults
              /\ IF ExecCommand THEN children' = [children EXCEPT ![Command] = "alive"] /\ GoTo("reap")
                 ELSE GoTo("failed") /\ UNCHANGED children
           \/ Fault /\ IF ExecCommand THEN Starts ELSE GoTo("failed") /\ UNCHANGED children
  /\ UNCHANGED <<initCfg, mountVars, layers, ended, returned>>

\* The command leaves a process behind, a child of process 1 from then on.
LeaveOrphan(o) ==
  /\ initStage = "reap" /\ children[Command] = "alive" /\ children[o] = "none"
  /\ children' = [children EXCEPT ![o] = "alive"]
  /\ UNCHANGED <<initCfg, initStage, mountVars, layers, faults, ended, returned>>

ChildEnds(c) ==
  /\ initStage = "reap" /\ children[c] = "alive"
  /\ children' = [children EXCEPT ![c] = "dead"]
  /\ IF c = Command THEN ended' \in ExitCodes ELSE UNCHANGED ended
  /\ UNCHANGED <<initCfg, initStage, mountVars, layers, faults, returned>>

\* wait4(-1): any child that has ended.
ReapChild(c) ==
  /\ initStage = "reap" /\ children[c] = "dead"
  /\ children' = [children EXCEPT ![c] = "none"]
  /\ IF c = Command THEN returned' = ended /\ GoTo("over") ELSE UNCHANGED <<returned, initStage>>
  /\ UNCHANGED <<initCfg, mountVars, layers, faults, ended>>

InitNext ==
  \/ SetupCgroup \/ MakeRoot \/ BindRead \/ BindWrite \/ EnforceAllSubmountsReadOnly
  \/ BindFds \/ PivotRoot \/ ChangeRoot \/ CoverPaths \/ SetupDev \/ SetNoNewPrivs
  \/ ApplyLandlockNetwork \/ ApplyLandlockFilesystem \/ ApplySeccomp \/ StackFilters
  \/ Launch \/ TakeFileLocks \/ ForkTarget
  \/ \E o \in Orphans : LeaveOrphan(o)
  \/ \E c \in Orphans \union {Command} : ChildEnds(c) \/ ReapChild(c)

InitSpec == InitInit /\ [][InitNext]_initVars
-----------------------------------------------------------------------------
InitTypeOK ==
  /\ initCfg \in InitConfigs /\ faults \in 0..MaxInitFaults
  /\ \A i \in 1..Len(mounts) : mounts[i].ro \in BOOLEAN
  /\ layers \subseteq {"cgroup", "dev", "no_new_privs", "landlock net", "landlock fs",
                       "seccomp", "stacked"}
  /\ children \in [Orphans \union {Command} -> {"none", "alive", "dead"}]
  /\ ended \in ExitCodes \union {Unknown} /\ returned \in ExitCodes \union {Unknown}

Started == initStage \in {"running", "reap", "over"}

\* Landlock looks for a rule on the file or on one of its parents, and the
\* rules are on the paths the configuration names.
LandlockWrites(p) ==
  "landlock fs" \in layers => \E n \in 0..Len(p), i \in 1..Len(initCfg.writes) :
    Location(SubSeq(p, 1, n)) = Location(initCfg.writes[i])
Writable(p) == ~Visible(p).ro /\ ~IsPrefix(Fresh, Visible(p).src) /\ LandlockWrites(p)

\* What the configuration opens for writing on the host.
Opened(h) ==
  \/ \E i \in 1..Len(initCfg.writes) : LET w == initCfg.writes[i] IN
       IF initCfg.full THEN Covers(Follow(w), h) /\ (initCfg.protectHome # "off" => ~InHome(w))
       ELSE IsPrefix(Follow(w), h)
  \/ /\ initCfg.full /\ Covers(Follow(initCfg.cwd), h)
     /\ initCfg.protectHome # "off" => ~InHome(initCfg.cwd)
  \/ \E i \in 1..Len(initCfg.fds) : Covers(initCfg.fds[i].src, h) /\ ~initCfg.fds[i].ro

\* Landlock is given the write paths as they are, a protected home's too.
Named(h) == \E i \in 1..Len(initCfg.writes) : IsPrefix(Follow(initCfg.writes[i]), h)

InHostRoot == mounts = HostRoot

\* A command that runs can write to nothing of the host the configuration did
\* not open: not through a bind mount on top of another, a link, the working
\* directory or a protected home.  Where Landlock does not forbid it either, a
\* mount below a read path and a failed remount are the exceptions, and a run in
\* the host's root: a reduced one, or one that opted in to chroot and failed it.
WritesStayOpened ==
  Started => \A p \in HostPaths : Writable(p) =>
    \/ Opened(Location(p))
    \/ /\ "landlock fs" \notin layers \/ Named(Location(p))
       /\ \/ InHostRoot /\ (initCfg.full => initCfg.allowChrootFallback)
          \/ \E h \in HostMounts \union loose : IsPrefix(h, Location(p))

AskedLayers(cfg) ==
  {"no_new_privs", "seccomp"}
  \union (IF cfg.limits /\ cfg.cgroups THEN {"cgroup"} ELSE {})
  \union (IF cfg.setUpDev /\ cfg.full THEN {"dev"} ELSE {})
  \union (IF AsksNet(cfg) THEN {"landlock net"} ELSE {})
  \union (IF cfg.abi >= 3 THEN {"landlock fs"} ELSE {})
  \union (IF cfg.stacked THEN {"stacked"} ELSE {})

\* A command runs with every restriction it asked for and the kernel has, but
\* for those that failed; a policy's filters go with the sandbox's own.  A
\* strict run never lacks the sandbox's filter or a Landlock ruleset.
ConfinedAsAsked ==
  Started => LET missing == AskedLayers(initCfg) \ layers IN
    /\ Cardinality(missing \ (IF "seccomp" \in layers THEN {} ELSE {"stacked"})) <= faults
    /\ initCfg.strict => missing \subseteq {"cgroup", "stacked", "dev"}

\* A command that is there and not blocked starts, whatever the filter denies,
\* unless a call failed or the run asks for a reaper and no forks; and the run
\* ends with its code, never that of a process it left behind.
CommandRunsAndAnswers ==
  /\ initStage = "failed" => faults > 0 \/ initCfg.blocked \/ (initCfg.reaper /\ initCfg.noForks)
  /\ initStage = "over" => returned = ended /\ ended # Unknown

\* "after each read-only bind mount the engine parses /proc/self/mountinfo to
\* discover all submounts under the target, then individually remounts each
\* as read-only" (THREAT-MODEL.md:474).
SubmountsReadOnly ==
  Started /\ initCfg.full /\ initCfg.submountEnforce /\ ~initCfg.diff /\ faults = 0 =>
    \A p \in HostPaths : Location(p) \in HostMounts /\ ~Opened(Location(p)) => Visible(p).ro
=============================================================================
