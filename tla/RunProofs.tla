------------------------------ MODULE RunProofs ------------------------------
(***************************************************************************)
(* Theorems about two machines of one run: the inner init on Linux         *)
(* (SandboxInit), for every configuration, host and number of calls that   *)
(* fail, and the engine on Windows (WindowsEngine), for every set of       *)
(* processes and every order of a job's notifications.                     *)
(***************************************************************************)
EXTENDS SandboxInit, WindowsEngine, FiniteSetTheorems, TLAPS

(***************************************************************************)
(* The command's answer.                                                   *)
(***************************************************************************)
Restricting == {"net", "fs", "seccomp", "stacked", "launch", "fork"}

AnswerInv ==
  /\ faults \in Nat
  /\ children \in [Orphans \union {Command} -> {"none", "alive", "dead"}]
  /\ initStage = "failed" => faults > 0 \/ initCfg.blocked \/ (initCfg.reaper /\ initCfg.noForks)
  /\ initStage \in Restricting => "no_new_privs" \in layers
  /\ initStage = "fork" => initCfg.full /\ initCfg.reaper
  /\ children[Command] = "dead" => ended \in ExitCodes
  /\ initStage = "over" => returned = ended /\ ended # Unknown

USE DEF mountVars, reaperVars

LEMMA CanExec ==
  ~ExecCommand => initCfg.blocked
BY DEF ExecCommand, Filtered

LEMMA SetupAnswers ==
  ASSUME AnswerInv,
         \/ SetupCgroup \/ MakeRoot \/ BindRead \/ BindWrite \/ EnforceAllSubmountsReadOnly
         \/ BindFds \/ PivotRoot \/ ChangeRoot \/ CoverPaths \/ SetupDev
  PROVE  AnswerInv'
<1>1. /\ initStage \notin Restricting \union {"failed", "over"}
      /\ initStage' \notin Restricting \union {"over"}
      /\ UNCHANGED <<children, ended, returned, initCfg>>
      /\ faults' \in {faults, faults + 1} /\ (initStage' = "failed" => faults' = faults + 1)
  <2>1. CASE SetupCgroup
    BY <2>1 DEF SetupCgroup, GoTo, Fault, FaultUnlessStrict, AfterCgroup, Restricting
  <2>2. CASE MakeRoot
    BY <2>2 DEF MakeRoot, GoTo, Fault, Restricting
  <2>3. CASE BindRead \/ BindWrite
    BY <2>3 DEF BindRead, BindWrite, GoTo, Fault, FaultUnlessStrict, Restricting
  <2>4. CASE EnforceAllSubmountsReadOnly
    BY <2>4 DEF EnforceAllSubmountsReadOnly, GoTo, Restricting
  <2>5. CASE BindFds
    BY <2>5 DEF BindFds, GoTo, Fault, FaultUnlessStrict, Restricting
  <2>6. CASE PivotRoot \/ ChangeRoot \/ CoverPaths
    BY <2>6 DEF PivotRoot, ChangeRoot, CoverPaths, GoTo, Fault, Restricting
  <2>7. CASE SetupDev
    BY <2>7 DEF SetupDev, GoTo, Fault, FaultUnlessStrict, Restricting
  <2> QED
    BY <2>1, <2>2, <2>3, <2>4, <2>5, <2>6, <2>7
<1> QED
  BY <1>1 DEF AnswerInv, Restricting

LEMMA RestrictAnswers ==
  ASSUME AnswerInv,
         \/ SetNoNewPrivs \/ ApplyLandlockNetwork \/ ApplyLandlockFilesystem \/ ApplySeccomp
         \/ StackFilters
  PROVE  AnswerInv'
<1>1. CASE SetNoNewPrivs
  BY <1>1 DEF SetNoNewPrivs, AnswerInv, GoTo, Restricting
<1>2. CASE ApplyLandlockNetwork
  <2>1. /\ initStage' \in {"fs", "failed"} /\ layers \subseteq layers'
        /\ faults' \in {faults, faults + 1} /\ (initStage' = "failed" => faults' = faults + 1)
        /\ UNCHANGED <<initCfg, children, ended, returned>>
    BY <1>2 DEF ApplyLandlockNetwork, RestrictSelf, MayRestrict, Skip, GoTo, Fault,
       FaultUnlessStrict, AnswerInv, Restricting
  <2>2. initStage = "net" /\ "no_new_privs" \in layers /\ "no_new_privs" \in layers'
    BY <1>2, <2>1 DEF ApplyLandlockNetwork, AnswerInv, Restricting
  <2>3. faults' \in Nat /\ (initStage' = "failed" => faults' > 0)
    BY <2>1 DEF AnswerInv
  <2> QED
    BY <2>1, <2>2, <2>3 DEF AnswerInv, Restricting
<1>3. CASE ApplyLandlockFilesystem
  <2>1. /\ initStage' \in {"seccomp", "failed"} /\ layers \subseteq layers'
        /\ faults' \in {faults, faults + 1} /\ (initStage' = "failed" => faults' = faults + 1)
        /\ UNCHANGED <<initCfg, children, ended, returned>>
    BY <1>3 DEF ApplyLandlockFilesystem, RestrictSelf, MayRestrict, Skip, GoTo, Fault,
       FaultUnlessStrict, AnswerInv, Restricting
  <2>2. initStage = "fs" /\ "no_new_privs" \in layers /\ "no_new_privs" \in layers'
    BY <1>3, <2>1 DEF ApplyLandlockFilesystem, AnswerInv, Restricting
  <2>3. faults' \in Nat /\ (initStage' = "failed" => faults' > 0)
    BY <2>1 DEF AnswerInv
  <2> QED
    BY <2>1, <2>2, <2>3 DEF AnswerInv, Restricting
<1>4. CASE ApplySeccomp
  BY <1>4 DEF ApplySeccomp, AnswerInv, GoTo, Fault, Restricting
<1>5. CASE StackFilters
  BY <1>5 DEF StackFilters, AnswerInv, GoTo, Fault, FaultUnlessStrict, Restricting
<1> QED
  BY <1>1, <1>2, <1>3, <1>4, <1>5

LEMMA StartAnswers ==
  ASSUME AnswerInv, Launch \/ TakeFileLocks \/ ForkTarget
  PROVE  AnswerInv'
<1>1. CASE Launch
  BY <1>1, CanExec DEF Launch, Starts, AnswerInv, GoTo, Restricting
<1>2. CASE TakeFileLocks
  BY <1>2 DEF TakeFileLocks, AnswerInv, GoTo, Fault, FaultUnlessStrict, Restricting
<1>3. CASE ForkTarget
  BY <1>3, CanExec DEF ForkTarget, Starts, AnswerInv, GoTo, Fault, Restricting
<1> QED
  BY <1>1, <1>2, <1>3

LEMMA ReaperAnswers ==
  ASSUME AnswerInv, NEW c \in Orphans \union {Command},
         (c \in Orphans /\ LeaveOrphan(c)) \/ ChildEnds(c) \/ ReapChild(c)
  PROVE  AnswerInv'
<1>1. CASE c \in Orphans /\ LeaveOrphan(c)
  BY <1>1, SandboxAssumption DEF LeaveOrphan, AnswerInv, Restricting
<1>2. CASE ChildEnds(c)
  BY <1>2 DEF ChildEnds, AnswerInv, Restricting
<1>3. CASE ReapChild(c)
  BY <1>3, SandboxAssumption DEF ReapChild, AnswerInv, GoTo, Restricting
<1> QED
  BY <1>1, <1>2, <1>3

LEMMA InitAnswers == InitInit => AnswerInv
BY DEF InitInit, AnswerInv, Restricting

LEMMA StepAnswers ==
  AnswerInv /\ [InitNext]_initVars => AnswerInv'
<1> SUFFICES ASSUME AnswerInv, [InitNext]_initVars PROVE AnswerInv'
  OBVIOUS
<1>1. CASE UNCHANGED initVars
  BY <1>1 DEF initVars, AnswerInv
<1> QED
  BY <1>1, SetupAnswers, RestrictAnswers, StartAnswers, ReaperAnswers DEF InitNext

\* A command that is there starts, and its code is the run's (reapForked), for
\* any calls that fail and any processes it leaves behind.
THEOREM CommandAnswers == InitSpec => []CommandRunsAndAnswers
<1>1. AnswerInv => CommandRunsAndAnswers
  BY DEF AnswerInv, CommandRunsAndAnswers
<1> QED
  BY <1>1, InitAnswers, StepAnswers, PTL DEF InitSpec
-----------------------------------------------------------------------------
(***************************************************************************)
(* The restrictions in place.                                              *)
(***************************************************************************)
\* Whether the init is past the step that puts a layer in place.
Launching == {"launch", "fork", "running", "reap", "over"}
Tried(layer) ==
  \/ initStage \in Launching
  \/ initStage = "stacked" /\ layer # "stacked"
  \/ initStage = "seccomp" /\ layer \notin {"stacked", "seccomp"}
  \/ initStage = "fs" /\ layer \in {"cgroup", "dev", "no_new_privs", "landlock net"}
  \/ initStage = "net" /\ layer \in {"cgroup", "dev", "no_new_privs"}
  \/ initStage \in {"chroot", "privileges"} /\ layer \in {"cgroup", "dev"}
  \/ initStage \in {"root", "bind", "fds", "pivot", "cover", "dev"} /\ layer = "cgroup"

\* The layers that were asked for and tried, and are not there.
Lacking == {l \in AskedLayers(initCfg) \ layers :
              Tried(l) /\ ~(l = "stacked" /\ "seccomp" \notin layers)}
OnlyOptionalLacks == \A l \in AskedLayers(initCfg) \ layers :
             Tried(l) => l \in {"cgroup", "stacked", "dev"}

ConfinedInv ==
  /\ IsFiniteSet(Lacking) /\ Cardinality(Lacking) <= faults
  /\ initCfg.strict => OnlyOptionalLacks

LEMMA Asked ==
  ASSUME NEW l \in AskedLayers(initCfg)
  PROVE  /\ l \in {"no_new_privs", "seccomp", "cgroup", "dev", "landlock net", "landlock fs",
                   "stacked"}
         /\ l = "cgroup" => initCfg.limits /\ initCfg.cgroups
         /\ l = "dev" => initCfg.setUpDev /\ initCfg.full
         /\ l = "landlock net" => AsksNet(initCfg)
         /\ l = "landlock fs" => initCfg.abi >= 3
         /\ l = "stacked" => initCfg.stacked
BY DEF AskedLayers

LEMMA OneMore ==
  ASSUME NEW S, NEW T, NEW x, NEW n \in Nat, IsFiniteSet(S), Cardinality(S) <= n,
         T \subseteq S \union {x}
  PROVE  IsFiniteSet(T) /\ Cardinality(T) <= n + 1
<1>1. IsFiniteSet(S \union {x}) /\ Cardinality(S \union {x}) \in Nat /\ Cardinality(S) \in Nat
      /\ Cardinality(S \union {x}) <= Cardinality(S) + 1
  BY FS_AddElement, FS_CardinalityType
<1>2. IsFiniteSet(T) /\ Cardinality(T) <= Cardinality(S \union {x}) /\ Cardinality(T) \in Nat
  BY <1>1, FS_Subset, FS_CardinalityType
<1> QED
  BY <1>1, <1>2

\* A call that does not fail leaves no layer out, one that fails one layer.
Sound ==
  /\ initCfg' = initCfg
  /\ \/ faults' = faults /\ Lacking' \subseteq Lacking
     \/ faults' = faults + 1 /\ \E x : Lacking' \subseteq Lacking \union {x}
  /\ (initCfg.strict => OnlyOptionalLacks) => (initCfg.strict => OnlyOptionalLacks')

LEMMA SetupIsSound ==
  ASSUME \/ MakeRoot \/ BindRead \/ BindWrite \/ EnforceAllSubmountsReadOnly
         \/ BindFds \/ CoverPaths
  PROVE  Sound
<1>1. /\ initStage \in {"root", "bind", "fds", "cover"}
      /\ initStage' \in {"bind", "fds", "pivot", "dev", "failed"}
      /\ UNCHANGED <<initCfg, layers>> /\ faults' \in {faults, faults + 1}
  <2>1. CASE MakeRoot
    BY <2>1 DEF MakeRoot, GoTo, Fault
  <2>2. CASE BindRead \/ BindWrite
    BY <2>2 DEF BindRead, BindWrite, GoTo, Fault, FaultUnlessStrict
  <2>3. CASE EnforceAllSubmountsReadOnly
    BY <2>3 DEF EnforceAllSubmountsReadOnly, GoTo
  <2>4. CASE BindFds
    BY <2>4 DEF BindFds, GoTo, Fault, FaultUnlessStrict
  <2>5. CASE CoverPaths
    BY <2>5 DEF CoverPaths, GoTo, Fault
  <2> QED
    BY <2>1, <2>2, <2>3, <2>4, <2>5
<1>2. \A l : Tried(l)' => Tried(l)
  BY <1>1 DEF Tried, Launching
<1>3. AskedLayers(initCfg)' = AskedLayers(initCfg)
  BY <1>1
<1> QED
  BY <1>1, <1>2, <1>3 DEF Sound, Lacking, OnlyOptionalLacks

LEMMA CgroupIsSound ==
  ASSUME faults \in Nat, SetupCgroup PROVE Sound
<1>1. /\ initStage = "cgroup" /\ initStage' \in {"root", "privileges", "failed"}
      /\ initCfg' = initCfg /\ (initStage' = "privileges" => ~initCfg.full)
      /\ layers \subseteq layers'
  BY DEF SetupCgroup, AfterCgroup, GoTo, Fault, FaultUnlessStrict
<1>2. \/ faults' = faults /\ (initCfg.limits /\ initCfg.cgroups => "cgroup" \in layers')
      \/ faults' = faults + 1
  BY DEF SetupCgroup, GoTo, Fault, FaultUnlessStrict
<1>3. \A l \in AskedLayers(initCfg) : Tried(l)' => l = "cgroup"
  BY <1>1, Asked DEF Tried, Launching
<1>4. AskedLayers(initCfg)' = AskedLayers(initCfg)
  BY <1>1
<1>5. Lacking' \subseteq {"cgroup"} /\ OnlyOptionalLacks'
  BY <1>3, <1>4 DEF Lacking, OnlyOptionalLacks
<1>6. faults' = faults => "cgroup" \notin Lacking'
  <2>1. "cgroup" \in AskedLayers(initCfg) => initCfg.limits /\ initCfg.cgroups
    BY Asked
  <2> QED
    BY <1>2, <1>4, <2>1 DEF Lacking
<1> QED
  BY <1>1, <1>2, <1>5, <1>6 DEF Sound

LEMMA DevIsSound ==
  ASSUME faults \in Nat, PivotRoot \/ SetupDev PROVE Sound
<1>1. /\ initStage \in {"pivot", "dev"} /\ initStage' \in {"cover", "chroot", "privileges", "failed"}
      /\ initCfg' = initCfg /\ layers' \in {layers, layers \union {"dev"}}
  BY DEF PivotRoot, SetupDev, GoTo, Fault, FaultUnlessStrict
<1>2. \/ faults' = faults /\ (initStage' = "cover" \/ (initCfg.setUpDev => "dev" \in layers'))
      \/ faults' = faults + 1
  BY DEF PivotRoot, SetupDev, GoTo, Fault, FaultUnlessStrict
<1>3. \A l : Tried(l)' => Tried(l) \/ l = "dev"
  BY <1>1 DEF Tried, Launching
<1>4. AskedLayers(initCfg)' = AskedLayers(initCfg)
  BY <1>1
<1>5. Lacking' \subseteq Lacking \union {"dev"} /\ (OnlyOptionalLacks => OnlyOptionalLacks')
  BY <1>1, <1>3, <1>4 DEF Lacking, OnlyOptionalLacks
<1>6. faults' = faults => "dev" \notin Lacking'
  <2> SUFFICES ASSUME faults' = faults, "dev" \in Lacking' PROVE FALSE
    OBVIOUS
  <2>1. "dev" \in AskedLayers(initCfg) /\ "dev" \notin layers' /\ Tried("dev")'
    BY <1>4 DEF Lacking
  <2>2. initStage' # "cover"
    BY <2>1 DEF Tried, Launching
  <2>3. initCfg.setUpDev
    BY <2>1, Asked
  <2> QED
    BY <1>2, <2>1, <2>2, <2>3
<1> QED
  BY <1>1, <1>2, <1>5, <1>6 DEF Sound

\* After a chroot there is no /dev of the sandbox's own: what pivot_root's
\* failure left out, chroot's leaves out no more.
LEMMA ChangeRootIsSound ==
  ASSUME faults \in Nat, ChangeRoot PROVE Sound
<1>1. /\ initStage = "chroot" /\ initStage' = "privileges" /\ UNCHANGED <<initCfg, layers>>
      /\ faults' \in {faults, faults + 1}
  BY DEF ChangeRoot, GoTo, Fault
<1>2. \A l : Tried(l)' => Tried(l)
  BY <1>1 DEF Tried, Launching
<1>3. AskedLayers(initCfg)' = AskedLayers(initCfg)
  BY <1>1
<1> QED
  BY <1>1, <1>2, <1>3 DEF Sound, Lacking, OnlyOptionalLacks

LEMMA PrivilegesAreSound ==
  ASSUME SetNoNewPrivs PROVE Sound
<1>1. /\ initStage = "privileges" /\ initStage' = "net" /\ initCfg' = initCfg
      /\ layers' = layers \union {"no_new_privs"} /\ faults' = faults
  BY DEF SetNoNewPrivs, GoTo
<1>2. \A l : Tried(l)' => Tried(l) \/ l = "no_new_privs"
  BY <1>1 DEF Tried, Launching
<1>3. AskedLayers(initCfg)' = AskedLayers(initCfg)
  BY <1>1
<1>4. Lacking' \subseteq Lacking /\ (OnlyOptionalLacks => OnlyOptionalLacks')
  BY <1>1, <1>2, <1>3 DEF Lacking, OnlyOptionalLacks
<1> QED
  BY <1>1, <1>4 DEF Sound

\* A ruleset of Landlock, and the filters, once the privileges are given up.
LEMMA LayerIsSound ==
  ASSUME faults \in Nat, NEW layer, NEW asked, initCfg' = initCfg, layers \subseteq layers',
         layer \in AskedLayers(initCfg) => asked,
         \A l \in AskedLayers(initCfg) : Tried(l)' => Tried(l) \/ l = layer,
         \/ "seccomp" \in layers \/ "seccomp" \notin layers'
         \/ ~Tried("stacked")' \/ "stacked" \notin AskedLayers(initCfg),
         \/ faults' = faults /\ (asked => layer \in layers')
         \/ faults' = faults + 1,
         initCfg.strict =>
           initStage' = "failed" \/ (asked => layer \in layers') \/ layer = "stacked"
  PROVE  Sound
<1>1. AskedLayers(initCfg)' = AskedLayers(initCfg)
  OBVIOUS
<1>2. ASSUME NEW l \in Lacking', l # layer PROVE l \in Lacking
  <2>1. l \in AskedLayers(initCfg) /\ l \notin layers /\ Tried(l)' /\ Tried(l)
    BY <1>1, <1>2 DEF Lacking
  <2>2. ~(l = "stacked" /\ "seccomp" \notin layers')
    BY <1>2 DEF Lacking
  <2>3. ~(l = "stacked" /\ "seccomp" \notin layers)
    BY <2>1, <2>2
  <2> QED
    BY <2>1, <2>3 DEF Lacking
<1>3. faults' = faults => layer \notin Lacking'
  BY <1>1 DEF Lacking
<1>4. initStage' = "failed" => OnlyOptionalLacks'
  BY DEF OnlyOptionalLacks, Tried, Launching
<1>5. initCfg.strict /\ OnlyOptionalLacks => OnlyOptionalLacks'
  BY <1>1, <1>4 DEF OnlyOptionalLacks
<1> QED
  BY <1>2, <1>3, <1>5 DEF Sound

LEMMA LandlockIsSound ==
  ASSUME AnswerInv, ApplyLandlockNetwork \/ ApplyLandlockFilesystem PROVE Sound
<1>1. CASE ApplyLandlockNetwork
  <2>1. /\ initStage = "net" /\ initStage' \in {"fs", "failed"} /\ initCfg' = initCfg
        /\ layers' \in {layers, layers \union {"landlock net"}}
    BY <1>1 DEF ApplyLandlockNetwork, RestrictSelf, Skip, GoTo, Fault, FaultUnlessStrict
  <2>2. MayRestrict
    BY <2>1 DEF MayRestrict, AnswerInv, Restricting
  <2>3. /\ \/ faults' = faults /\ (AsksNet(initCfg) => "landlock net" \in layers')
           \/ faults' = faults + 1
        /\ initCfg.strict =>
             initStage' = "failed" \/ (AsksNet(initCfg) => "landlock net" \in layers')
    BY <1>1, <2>2 DEF ApplyLandlockNetwork, RestrictSelf, Skip, GoTo, Fault, FaultUnlessStrict
  <2>4. "landlock net" \in AskedLayers(initCfg) => AsksNet(initCfg)
    BY Asked
  <2>5. \A l \in AskedLayers(initCfg) : Tried(l)' => Tried(l) \/ l = "landlock net"
    BY <2>1 DEF Tried, Launching
  <2> QED
    BY <2>1, <2>3, <2>4, <2>5, LayerIsSound DEF AnswerInv
<1>2. CASE ApplyLandlockFilesystem
  <2>1. /\ initStage = "fs" /\ initStage' \in {"seccomp", "failed"} /\ initCfg' = initCfg
        /\ layers' \in {layers, layers \union {"landlock fs"}}
    BY <1>2 DEF ApplyLandlockFilesystem, RestrictSelf, Skip, GoTo, Fault, FaultUnlessStrict
  <2>2. MayRestrict
    BY <2>1 DEF MayRestrict, AnswerInv, Restricting
  <2>3. /\ \/ faults' = faults /\ (initCfg.abi >= 3 => "landlock fs" \in layers')
           \/ faults' = faults + 1
        /\ initCfg.strict =>
             initStage' = "failed" \/ (initCfg.abi >= 3 => "landlock fs" \in layers')
    BY <1>2, <2>2 DEF ApplyLandlockFilesystem, RestrictSelf, Skip, GoTo, Fault, FaultUnlessStrict
  <2>4. "landlock fs" \in AskedLayers(initCfg) => initCfg.abi >= 3
    BY Asked
  <2>5. \A l \in AskedLayers(initCfg) : Tried(l)' => Tried(l) \/ l = "landlock fs"
    BY <2>1, Asked DEF Tried, Launching
  <2> QED
    BY <2>1, <2>3, <2>4, <2>5, LayerIsSound DEF AnswerInv
<1> QED
  BY <1>1, <1>2

LEMMA FiltersAreSound ==
  ASSUME AnswerInv, ApplySeccomp \/ StackFilters PROVE Sound
<1>1. CASE ApplySeccomp
  <2>1. /\ initStage = "seccomp" /\ initStage' \in {"stacked", "launch", "failed"}
        /\ initCfg' = initCfg /\ layers \subseteq layers'
        /\ \/ "seccomp" \in layers' /\ (initStage' = "launch" => ~initCfg.stacked)
           \/ layers' = layers \union {"no_new_privs"} /\ (initCfg.strict => initStage' = "failed")
    BY <1>1 DEF ApplySeccomp, GoTo, Fault
  <2>2. \/ faults' = faults /\ "seccomp" \in layers' /\ (initStage' = "launch" => ~initCfg.stacked)
        \/ faults' = faults + 1 /\ layers' = layers \union {"no_new_privs"}
    BY <1>1 DEF ApplySeccomp, GoTo, Fault
  <2>3. AskedLayers(initCfg)' = AskedLayers(initCfg)
    BY <2>1
  <2>4. \A l \in AskedLayers(initCfg) : l # "stacked" => (Tried(l)' => Tried(l) \/ l = "seccomp")
    BY <2>1, Asked DEF Tried, Launching
  <2>5. "stacked" \in Lacking' => faults' = faults + 1 /\ "seccomp" \in layers
    <3> SUFFICES ASSUME "stacked" \in Lacking'
                 PROVE  faults' = faults + 1 /\ "seccomp" \in layers
      OBVIOUS
    <3>1. "stacked" \in AskedLayers(initCfg) /\ Tried("stacked")' /\ "seccomp" \in layers'
      BY <2>3 DEF Lacking
    <3>2. initCfg.stacked /\ initStage' = "launch"
      BY <2>1, <3>1, Asked DEF Tried, Launching
    <3> QED
      BY <2>2, <3>1, <3>2
  <2>6. \E x \in {"seccomp", "stacked"} : Lacking' \subseteq Lacking \union {x}
    <3>1. Lacking' \subseteq Lacking \union {"seccomp", "stacked"}
      BY <2>1, <2>3, <2>4 DEF Lacking
    <3>2. "stacked" \in Lacking' => "seccomp" \notin Lacking'
      BY <2>1, <2>5 DEF Lacking
    <3> QED
      BY <3>1, <3>2
  <2>7. faults' = faults => "seccomp" \notin Lacking' /\ "stacked" \notin Lacking'
    BY <2>2, <2>5 DEF Lacking, AnswerInv
  <2>8. initCfg.strict /\ OnlyOptionalLacks => OnlyOptionalLacks'
    BY <2>1, <2>3, <2>4 DEF OnlyOptionalLacks, Tried, Launching
  <2> QED
    BY <2>1, <2>2, <2>6, <2>7, <2>8 DEF Sound
<1>2. CASE StackFilters
  <2>1. /\ initStage = "stacked" /\ initStage' \in {"launch", "failed"} /\ initCfg' = initCfg
        /\ layers' \in {layers, layers \union {"stacked"}}
    BY <1>2 DEF StackFilters, GoTo, Fault, FaultUnlessStrict
  <2>2. \/ faults' = faults /\ (TRUE => "stacked" \in layers')
        \/ faults' = faults + 1
    BY <1>2 DEF StackFilters, GoTo, Fault, FaultUnlessStrict
  <2>3. \A l \in AskedLayers(initCfg) : Tried(l)' => Tried(l) \/ l = "stacked"
    BY <2>1 DEF Tried, Launching
  <2> QED
    BY <2>1, <2>2, <2>3, LayerIsSound DEF AnswerInv
<1> QED
  BY <1>1, <1>2

LEMMA RestIsSound ==
  ASSUME \/ Launch \/ TakeFileLocks \/ ForkTarget
         \/ \E o \in Orphans : LeaveOrphan(o)
         \/ \E c \in Orphans \union {Command} : ChildEnds(c) \/ ReapChild(c)
         \/ UNCHANGED initVars
  PROVE  Sound
<1>1. /\ \/ initStage' = initStage
         \/ initStage \in Launching /\ initStage' \in Launching \union {"failed"}
      /\ UNCHANGED <<initCfg, layers>> /\ faults' \in {faults, faults + 1}
  <2>1. CASE Launch
    BY <2>1 DEF Launch, Starts, GoTo, Launching
  <2>2. CASE TakeFileLocks
    BY <2>2 DEF TakeFileLocks, GoTo, Fault, FaultUnlessStrict, Launching
  <2>3. CASE ForkTarget
    BY <2>3 DEF ForkTarget, Starts, GoTo, Fault, Launching
  <2>4. CASE \E o \in Orphans : LeaveOrphan(o)
    BY <2>4 DEF LeaveOrphan
  <2>5. ASSUME NEW c \in Orphans \union {Command}, ChildEnds(c) \/ ReapChild(c)
        PROVE  /\ initStage' = initStage \/ (initStage \in Launching /\ initStage' \in Launching)
               /\ UNCHANGED <<initCfg, layers, faults>>
    BY <2>5 DEF ChildEnds, ReapChild, GoTo, Launching
  <2>6. CASE UNCHANGED initVars
    BY <2>6 DEF initVars
  <2> QED
    BY <2>1, <2>2, <2>3, <2>4, <2>5, <2>6
<1>2. \A l : Tried(l)' => Tried(l)
  BY <1>1 DEF Tried, Launching
<1>3. AskedLayers(initCfg)' = AskedLayers(initCfg)
  BY <1>1
<1> QED
  BY <1>1, <1>2, <1>3 DEF Sound, Lacking, OnlyOptionalLacks

\* The confinement invariant: the layers the steps so far were asked for and
\* did not put in place are no more than the calls that failed.
THEOREM LayersAreTried == InitSpec => []ConfinedInv
<1>1. InitInit => AnswerInv /\ ConfinedInv
  <2> SUFFICES ASSUME InitInit PROVE AnswerInv /\ ConfinedInv
    OBVIOUS
  <2>1. \A l : ~Tried(l)
    BY DEF InitInit, Tried, Launching
  <2>2. Lacking = {} /\ faults = 0
    BY <2>1 DEF Lacking, InitInit
  <2> QED
    BY <2>1, <2>2, InitAnswers, FS_EmptySet DEF ConfinedInv, OnlyOptionalLacks
<1>2. AnswerInv /\ ConfinedInv /\ [InitNext]_initVars => AnswerInv' /\ ConfinedInv'
  <2> SUFFICES ASSUME AnswerInv, ConfinedInv, [InitNext]_initVars PROVE AnswerInv' /\ ConfinedInv'
    OBVIOUS
  <2>1. Sound
    BY SetupIsSound, CgroupIsSound, DevIsSound, ChangeRootIsSound, PrivilegesAreSound,
       LandlockIsSound, FiltersAreSound, RestIsSound DEF InitNext, AnswerInv
  <2>2. IsFiniteSet(Lacking') /\ Cardinality(Lacking') <= faults'
    <3>1. faults \in Nat /\ IsFiniteSet(Lacking) /\ Cardinality(Lacking) <= faults
      BY DEF AnswerInv, ConfinedInv
    <3>2. CASE faults' = faults /\ Lacking' \subseteq Lacking
      BY <3>1, <3>2, FS_Subset, FS_CardinalityType
    <3>3. CASE faults' = faults + 1 /\ \E x : Lacking' \subseteq Lacking \union {x}
      BY <3>1, <3>3, OneMore
    <3> QED
      BY <2>1, <3>2, <3>3 DEF Sound
  <2>3. initCfg'.strict => OnlyOptionalLacks'
    BY <2>1 DEF Sound, ConfinedInv
  <2> QED
    BY <2>2, <2>3, StepAnswers DEF ConfinedInv
<1> QED
  BY <1>1, <1>2, PTL DEF InitSpec

\* A command runs with every restriction it asked for and the kernel has, but
\* for those whose call failed, and a strict run never without the sandbox's
\* filter or a Landlock ruleset (childMain's order of the layers), for any
\* calls that fail.
THEOREM CommandIsConfined == InitSpec => []ConfinedAsAsked
<1>1. ConfinedInv => ConfinedAsAsked
  <2> SUFFICES ASSUME ConfinedInv, Started PROVE ConfinedAsAsked
    BY DEF ConfinedAsAsked
  <2>1. \A l : Tried(l)
    BY DEF Started, Tried, Launching
  <2>2. Lacking = (AskedLayers(initCfg) \ layers)
                    \ (IF "seccomp" \in layers THEN {} ELSE {"stacked"})
    BY <2>1 DEF Lacking
  <2>3. initCfg.strict => AskedLayers(initCfg) \ layers \subseteq {"cgroup", "stacked", "dev"}
    BY <2>1 DEF ConfinedInv, OnlyOptionalLacks
  <2>4. Cardinality(Lacking) <= faults
    BY DEF ConfinedInv
  <2> QED
    BY <2>2, <2>3, <2>4 DEF ConfinedAsAsked
<1> QED
  BY <1>1, LayersAreTried, PTL
-----------------------------------------------------------------------------
(***************************************************************************)
(* The verdict of a run on Windows.                                        *)
(***************************************************************************)
Procs == Workers \union {Launcher, Conhost}
States == {"none", "alive", "dead", "outside"}
Notes == [message : {"new", "memory", "quit"}, pid : Procs]
WorkerNews == {[message |-> "new", pid |-> w] : w \in Workers}
Holds(seq, note) == \E i \in 1..Len(seq) : seq[i] = note

\* How many notifications the pump has taken from the port.
Taken == Len(posted) - Len(port) + (IF jobClosed /\ ~pumpDone THEN 1 ELSE 0)

\* What is on its way lies in the order it was posted in.
PipeInv ==
  /\ member \in [Procs -> States]
  /\ posted \in Seq(Notes) /\ port \in Seq(Notes) /\ jobQueue \in Seq(Notes) /\ batch \in Seq(Notes)
  /\ Taken \in 0..Len(posted) /\ Len(jobQueue) <= Taken
  /\ \A i \in 1..(Len(posted) - Taken) : port[i] = posted[Taken + i]
  /\ \A i \in 1..Len(posted) : posted[i] # Quit
  /\ jobClosed /\ ~pumpDone => port # <<>> /\ port[Len(port)] = Quit
  /\ pumpDone \in BOOLEAN /\ jobClosed \in BOOLEAN
  /\ pumpAt \in (IF pumpDone THEN {"signal the end", "done"} ELSE {"get", "signal"})
  /\ pumpDone => port = <<>> /\ jobClosed
  /\ batch # <<>> <=> deliverAt = "send"
  /\ deliverAt = "over" => pumpDone /\ jobQueue = <<>>

\* The first process of the workload is among the first three notifications,
\* which the queue has room for.
FirstOnItsWay ==
  \E k \in 1..3 : /\ k <= Len(posted) /\ posted[k] \in WorkerNews
                  /\ k > Taken \/ Holds(jobQueue, posted[k]) \/ Holds(batch, posted[k])

FirstInv ==
  /\ workloadStarted \in BOOLEAN /\ (~winCfg.job => workloadStarted)
  /\ winCfg.job /\ ~Ran =>
       Len(posted) <= (IF member[Launcher] = "none" THEN 0 ELSE 1)
                       + (IF member[Conhost] = "none" THEN 0 ELSE 1)
  /\ winCfg.job /\ Ran /\ ~workloadStarted => FirstOnItsWay
  /\ engineAt = "start" => member[Launcher] = "none"
  /\ jobClosed => engineAt \in {"closing", "judge"}
  /\ winCfg.job /\ engineAt \in {"closing", "judge"} => jobClosed
  /\ winCfg.job /\ engineAt = "judge" /\ Ran => workloadStarted

TimeInv ==
  /\ winCfg \in WinConfigs
  /\ clock \in 0..2 /\ elapsed \in 0..clock
  /\ backstopFired \/ backstop = "fired" \/ launcherExit = TimeoutCode => clock = 2
  /\ launcherExit \in {0, 1, TimeoutCode, MxcTimeoutCode}
  /\ handled \in Seq(Notes)
  /\ memoryKilled \in BOOLEAN
  /\ ~memoryKilled => \A i \in 1..Len(handled) : handled[i].message # "memory"

WinInv ==
  /\ TimeInv
  /\ engineAt # "over" => PipeInv /\ FirstInv /\ results = 0
  /\ VerdictFits


\* What a step may do to the processes without touching the notifications.
SameStarted == /\ member' \in [Procs -> States]
               /\ \A p \in Procs : member'[p] = "none" <=> member[p] = "none"

LEMMA KillAllSame == ASSUME PipeInv, KillAll PROVE SameStarted
BY DEF PipeInv, KillAll, SameStarted, States, Procs

LEMMA TakenNat == ASSUME PipeInv PROVE /\ Taken \in Nat /\ Taken <= Len(posted)
                                        /\ Len(posted) \in Nat /\ Len(port) \in Nat
<1>1. posted \in Seq(Notes) /\ port \in Seq(Notes) /\ Taken \in 0..Len(posted)
  BY DEF PipeInv
<1>2. Len(posted) \in Nat /\ Len(port) \in Nat
  BY <1>1
<1> QED
  BY <1>1, <1>2

LEMMA QueueFacts == ASSUME PipeInv PROVE /\ jobQueue \in Seq(Notes) /\ batch \in Seq(Notes)
                                         /\ posted \in Seq(Notes) /\ port \in Seq(Notes)
                                         /\ Len(jobQueue) \in Nat /\ Len(jobQueue) <= Taken
<1>1. jobQueue \in Seq(Notes)
  BY DEF PipeInv
<1>2. Len(jobQueue) <= Taken
  BY DEF PipeInv
<1>3. batch \in Seq(Notes) /\ posted \in Seq(Notes) /\ port \in Seq(Notes)
  BY DEF PipeInv
<1> QED
  BY <1>1, <1>2, <1>3

LEMMA InOrder ==
  ASSUME PipeInv, NEW i \in 1..(Len(posted) - Taken)
  PROVE  Taken + i \in 1..Len(posted) /\ port[i] = posted[Taken + i]
<1>1. Taken + i \in 1..Len(posted)
  BY TakenNat
<1>2. port[i] = posted[Taken + i]
  BY DEF PipeInv
<1> QED
  BY <1>1, <1>2

LEMMA PipeStays ==
  ASSUME PipeInv, SameStarted,
         UNCHANGED <<posted, port, jobQueue, pumpAt, pumpDone, batch, deliverAt, jobClosed>>
  PROVE  PipeInv' /\ Taken' = Taken
<1>1. Taken' = Taken
  BY DEF Taken
<1> QED
  BY <1>1 DEF PipeInv, SameStarted

\* Steps that neither post nor move a notification.
LEMMA FirstStays ==
  ASSUME PipeInv, FirstInv, SameStarted,
         UNCHANGED <<posted, port, jobQueue, pumpDone, batch, jobClosed, winCfg, workloadStarted>>,
         \/ engineAt' = engineAt
         \/ engineAt = "wait" /\ engineAt' = "close"
         \/ engineAt = "wait" /\ engineAt' = "judge" /\ ~winCfg.job
  PROVE  FirstInv'
<1>1. Taken' = Taken
  BY DEF Taken
<1>2. Ran' <=> Ran
  BY DEF Ran, SameStarted, Procs
<1>3. /\ member'[Launcher] = "none" <=> member[Launcher] = "none"
      /\ member'[Conhost] = "none" <=> member[Conhost] = "none"
  BY DEF SameStarted, Procs
<1> QED
  BY <1>1, <1>2, <1>3 DEF FirstInv, FirstOnItsWay, Holds

LEMMA PostKeepsPipe ==
  ASSUME PipeInv, NEW note \in Notes, note # Quit, Post(note), ~jobClosed,
         member' \in [Procs -> States],
         UNCHANGED <<jobQueue, pumpAt, pumpDone, batch, deliverAt, jobClosed>>
  PROVE  /\ PipeInv' /\ Taken' = Taken /\ Len(posted') = Len(posted) + 1
         /\ \A i \in 1..Len(posted) : posted'[i] = posted[i]
         /\ posted'[Len(posted) + 1] = note
<1>1. /\ posted \in Seq(Notes) /\ port \in Seq(Notes) /\ Len(posted) \in Nat /\ Len(port) \in Nat
      /\ posted' = Append(posted, note) /\ port' = Append(port, note)
  BY TakenNat DEF PipeInv, Post
<1>2. /\ posted' \in Seq(Notes) /\ Len(posted') = Len(posted) + 1
      /\ port' \in Seq(Notes) /\ Len(port') = Len(port) + 1
      /\ \A i \in 1..Len(posted) : posted'[i] = posted[i]
      /\ \A i \in 1..Len(port) : port'[i] = port[i]
      /\ posted'[Len(posted) + 1] = note /\ port'[Len(port) + 1] = note
  BY <1>1
<1>3. Taken = Len(posted) - Len(port) /\ Taken' = Taken
  BY <1>1, <1>2 DEF Taken
<1>4. ASSUME NEW i \in 1..(Len(posted') - Taken') PROVE port'[i] = posted'[Taken' + i]
  <2>1. CASE i \in 1..Len(port)
    <3>1. i \in 1..(Len(posted) - Taken) /\ Taken + i \in 1..Len(posted)
      BY <1>1, <1>3, <2>1, TakenNat
    <3>2. port[i] = posted[Taken + i]
      BY <3>1 DEF PipeInv
    <3> QED
      BY <1>2, <1>3, <2>1, <3>1, <3>2
  <2>2. CASE i = Len(port) + 1
    BY <1>1, <1>2, <1>3, <2>2
  <2> QED
    <3>1. i \in 1..Len(port) \/ i = Len(port) + 1
      BY <1>1, <1>2, <1>3
    <3> QED
      BY <2>1, <2>2, <3>1
<1>5. ASSUME NEW i \in 1..Len(posted') PROVE posted'[i] # Quit
  <2>1. i \in 1..Len(posted) \/ i = Len(posted) + 1
    BY <1>1, <1>2
  <2>2. \A j \in 1..Len(posted) : posted[j] # Quit
    BY DEF PipeInv
  <2> QED
    BY <1>2, <2>1, <2>2
<1>6. ~pumpDone
  BY DEF PipeInv
<1>7. Taken' \in 0..Len(posted') /\ Len(jobQueue') <= Taken'
  <2>1. Len(jobQueue) <= Taken
    BY DEF PipeInv
  <2> QED
    BY <1>1, <1>2, <1>3, <2>1, TakenNat
<1> QED
  BY <1>2, <1>3, <1>4, <1>5, <1>6, <1>7 DEF PipeInv

LEMMA KeepsThird ==
  ASSUME PipeInv, FirstInv, Taken' = Taken, Len(posted') = Len(posted) + 1,
         \A i \in 1..Len(posted) : posted'[i] = posted[i],
         UNCHANGED <<jobQueue, batch, winCfg, workloadStarted>>,
         winCfg.job, Ran, ~workloadStarted
  PROVE  FirstOnItsWay'
<1>1. PICK k \in 1..3 : /\ k <= Len(posted) /\ posted[k] \in WorkerNews
                        /\ k > Taken \/ Holds(jobQueue, posted[k]) \/ Holds(batch, posted[k])
  BY DEF FirstInv, FirstOnItsWay
<1>2. posted'[k] = posted[k] /\ k <= Len(posted')
  BY <1>1, TakenNat
<1> QED
  BY <1>1, <1>2 DEF FirstOnItsWay

\* The conjuncts of FirstInv that a step in front of the judgement can disturb.
LEMMA PostKeepsFirst ==
  ASSUME PipeInv, FirstInv, NEW p \in Procs, NEW note \in Notes,
         note # Quit, Post(note), ~jobClosed,
         UNCHANGED <<jobQueue, pumpAt, pumpDone, batch, deliverAt, jobClosed, winCfg, workloadStarted>>,
         \/ /\ member' = member /\ engineAt' = engineAt /\ p \in Workers /\ member[p] # "none"
         \/ /\ note = [message |-> "new", pid |-> p] /\ member[p] = "none"
            /\ member' = [member EXCEPT ![p] = "alive"]
            /\ \/ engineAt' = engineAt /\ p # Launcher
               \/ engineAt = "start" /\ engineAt' = "wait" /\ p = Launcher
  PROVE  PipeInv' /\ FirstInv'
<1>1. member' \in [Procs -> States]
  BY DEF PipeInv, States
<1>2. /\ PipeInv' /\ Taken' = Taken /\ Len(posted') = Len(posted) + 1
      /\ \A i \in 1..Len(posted) : posted'[i] = posted[i]
      /\ posted'[Len(posted) + 1] = note
  BY <1>1, PostKeepsPipe
<1>3. engineAt \notin {"closing", "judge"} \/ ~winCfg.job
  BY DEF FirstInv
<1>4. winCfg'.job /\ ~Ran' =>
        Len(posted') <= (IF member'[Launcher] = "none" THEN 0 ELSE 1)
                         + (IF member'[Conhost] = "none" THEN 0 ELSE 1)
  <2> SUFFICES ASSUME winCfg'.job, ~Ran'
               PROVE  Len(posted') <= (IF member'[Launcher] = "none" THEN 0 ELSE 1)
                                       + (IF member'[Conhost] = "none" THEN 0 ELSE 1)
    OBVIOUS
  <2>1. p \notin Workers /\ p \in {Launcher, Conhost}
    BY WinAssumption DEF PipeInv, Ran, Procs, States
  <2>2. ~Ran
    BY <2>1, WinAssumption DEF Ran, PipeInv, Procs
  <2>3. Len(posted) <= (IF member[Launcher] = "none" THEN 0 ELSE 1)
                        + (IF member[Conhost] = "none" THEN 0 ELSE 1)
    BY <2>2 DEF FirstInv
  <2>4. /\ member[p] = "none" /\ member'[p] = "alive"
        /\ \A q \in {Launcher, Conhost} : q # p => member'[q] = member[q]
    BY <2>1 DEF PipeInv, Procs
  <2> QED
    BY <1>2, <2>1, <2>3, <2>4, TakenNat, WinAssumption
<1>5. winCfg'.job /\ Ran' /\ ~workloadStarted' =>
        FirstOnItsWay'
  <2> SUFFICES ASSUME winCfg.job, Ran', ~workloadStarted
               PROVE  FirstOnItsWay'
    OBVIOUS
  <2>1. CASE Ran
    BY <1>2, <2>1, KeepsThird
  <2>2. CASE ~Ran
    <3>1. p \in Workers /\ note = [message |-> "new", pid |-> p]
      BY <2>2 DEF Ran, PipeInv, Procs
    <3>2. Len(posted) <= 2
      BY <2>2, TakenNat DEF FirstInv
    <3>3. note \in WorkerNews
      BY <3>1 DEF WorkerNews
    <3> DEFINE k == Len(posted) + 1
    <3>4. k \in 1..3 /\ k <= Len(posted') /\ posted'[k] \in WorkerNews /\ k > Taken'
      BY <1>2, <3>2, <3>3, TakenNat
    <3> QED
      BY <3>4 DEF FirstOnItsWay
  <2> QED
    BY <2>1, <2>2
<1>6. engineAt' = "start" => member'[Launcher] = "none"
  BY DEF FirstInv, PipeInv, Procs
<1>7. /\ workloadStarted' \in BOOLEAN /\ (~winCfg'.job => workloadStarted')
      /\ jobClosed' => engineAt' \in {"closing", "judge"}
      /\ winCfg'.job /\ engineAt' \in {"closing", "judge"} => jobClosed'
      /\ winCfg'.job /\ engineAt' = "judge" /\ Ran' => workloadStarted'
  BY <1>3 DEF FirstInv
<1> QED
  BY <1>2, <1>4, <1>5, <1>6, <1>7 DEF FirstInv

LEMMA Appended ==
  ASSUME NEW seq \in Seq(Notes), NEW note \in Notes
  PROVE  /\ Append(seq, note) \in Seq(Notes) /\ Len(Append(seq, note)) = Len(seq) + 1
         /\ Len(seq) \in Nat /\ Append(seq, note)[Len(seq) + 1] = note
         /\ \A i \in 1..Len(seq) : Append(seq, note)[i] = seq[i]
OBVIOUS

LEMMA PumpKeeps ==
  ASSUME PipeInv, FirstInv, Pump, UNCHANGED <<winCfg, workloadStarted, engineAt>>
  PROVE  PipeInv' /\ FirstInv'
<1>1. /\ posted \in Seq(Notes) /\ port \in Seq(Notes)
      /\ jobQueue \in Seq(Notes) /\ batch \in Seq(Notes)
      /\ Taken \in Nat /\ Taken <= Len(posted) /\ Len(posted) \in Nat /\ Len(port) \in Nat
      /\ Len(jobQueue) \in Nat /\ Len(jobQueue) <= Taken
  BY TakenNat, QueueFacts
<1>2. /\ pumpAt = "get" /\ ~pumpDone /\ port # <<>> /\ port' = Tail(port)
      /\ UNCHANGED <<member, posted, batch, deliverAt, jobClosed>>
  BY DEF Pump, PipeInv, deliverVars
<1>3. /\ port' \in Seq(Notes) /\ Len(port') = Len(port) - 1 /\ Head(port) = port[1] /\ Len(port) >= 1
      /\ \A i \in 1..(Len(port) - 1) : port'[i] = port[i + 1]
  BY <1>1, <1>2
<1>4. Ran' <=> Ran
  BY <1>2 DEF Ran
<1>5. CASE Head(port) = Quit
  <2>1. pumpDone' = TRUE /\ pumpAt' = "signal the end" /\ jobQueue' = jobQueue
    BY <1>5 DEF Pump
  <2>2. Len(posted) - Taken = 0
    <3>1. ~(1 \in 1..(Len(posted) - Taken))
      <4> SUFFICES ASSUME 1 \in 1..(Len(posted) - Taken) PROVE FALSE
        OBVIOUS
      <4>1. port[1] = posted[Taken + 1] /\ Taken + 1 \in 1..Len(posted)
        BY InOrder
      <4>2. posted[Taken + 1] # Quit
        BY <4>1 DEF PipeInv
      <4> QED
        BY <1>3, <1>5, <4>1, <4>2
    <3> QED
      BY <1>1, <3>1
  <2>3. jobClosed /\ Len(port) = 1 /\ Taken' = Taken
    <3>1. jobClosed
      BY <1>1, <1>3, <2>2 DEF Taken
    <3> QED
      <4>1. Len(port) = 1
        BY <1>1, <1>2, <2>2, <3>1 DEF Taken
      <4>2. Len(port') = 0
        BY <1>3, <4>1
      <4>3. Taken = Len(posted)
        BY <1>1, <2>2
      <4>4. Len(posted') = Len(posted) /\ pumpDone'
        BY <1>2, <2>1
      <4>5. Taken' = Len(posted)
        BY <1>1, <4>2, <4>4 DEF Taken
      <4> QED
        BY <3>1, <4>1, <4>3, <4>5
  <2>4. port' = <<>>
    <3>1. port' \in Seq(Notes) /\ Len(port') = 0
      BY <1>1, <1>3, <2>3
    <3> QED
      BY <3>1
  <2>5. PipeInv'
    <3>1. deliverAt # "over"
      BY <1>2 DEF PipeInv
    <3>2. /\ Taken' \in 0..Len(posted') /\ Len(jobQueue') <= Taken' /\ Len(posted') - Taken' = 0
          /\ jobQueue' \in Seq(Notes) /\ port' \in Seq(Notes)
      <4>1. Taken' = Taken /\ posted' = posted /\ jobQueue' = jobQueue
        BY <1>2, <2>1, <2>3
      <4>2. port' \in Seq(Notes)
        BY <1>3
      <4> QED
        BY <2>2, <4>1, <4>2, QueueFacts, TakenNat
    <3>3. \A i \in 1..(Len(posted') - Taken') : port'[i] = posted'[Taken' + i]
      BY <3>2
    <3> QED
      BY <1>2, <2>1, <2>3, <2>4, <3>1, <3>2, <3>3 DEF PipeInv
  <2>6. FirstInv'
    BY <1>2, <1>4, <2>1, <2>3 DEF FirstInv, FirstOnItsWay, Holds
  <2> QED
    BY <2>5, <2>6
<1>6. CASE Head(port) # Quit
  <2>1. /\ pumpDone' = pumpDone /\ pumpAt' = "signal"
        /\ IF Len(jobQueue) < MaxQueuedEvents THEN jobQueue' = Append(jobQueue, Head(port))
           ELSE jobQueue' = jobQueue
    BY <1>6 DEF Pump
  <2>2. Head(port) \in Notes
    BY <1>1, <1>2
  <2>3. Len(posted) - Taken >= 1
    <3>1. CASE jobClosed
      <4>1. port[Len(port)] = Quit
        BY <1>2, <3>1 DEF PipeInv
      <4>2. Len(port) # 1
        BY <1>3, <1>6, <4>1
      <4> QED
        BY <1>1, <1>2, <1>3, <3>1, <4>2 DEF Taken
    <3>2. CASE ~jobClosed
      BY <1>1, <1>3, <3>2 DEF Taken
    <3> QED
      BY <3>1, <3>2
  <2>4. Taken' = Taken + 1
    BY <1>1, <1>2, <1>3, <2>1 DEF Taken
  <2>5. port[1] = posted[Taken + 1]
    <3>1. 1 \in 1..(Len(posted) - Taken)
      BY <1>1, <2>3
    <3> QED
      BY <3>1, InOrder
  <2>6. jobQueue' \in Seq(Notes) /\ Len(jobQueue') <= Taken'
    <3>1. CASE jobQueue' = jobQueue
      BY <2>4, <3>1, QueueFacts, TakenNat
    <3>2. CASE jobQueue' = Append(jobQueue, Head(port))
      <4>1. jobQueue' \in Seq(Notes) /\ Len(jobQueue') = Len(jobQueue) + 1
        BY <2>2, <3>2, QueueFacts, Appended
      <4> QED
        BY <2>4, <4>1, QueueFacts, TakenNat
    <3> QED
      BY <2>1, <3>1, <3>2
  <2>7. ASSUME NEW i \in 1..(Len(posted') - Taken') PROVE port'[i] = posted'[Taken' + i]
    <3>1. i + 1 \in 1..(Len(posted) - Taken) /\ i \in 1..(Len(port) - 1)
      BY <1>1, <1>2, <2>4 DEF Taken
    <3>2. port[i + 1] = posted[Taken + (i + 1)]
      BY <3>1 DEF PipeInv
    <3> QED
      BY <1>1, <1>2, <1>3, <2>4, <3>1, <3>2
  <2>8. jobClosed' /\ ~pumpDone' => port' # <<>> /\ port'[Len(port')] = Quit
    <3> SUFFICES ASSUME jobClosed PROVE port' # <<>> /\ port'[Len(port')] = Quit
      BY <1>2
    <3>1. port[Len(port)] = Quit
      BY <1>2 DEF PipeInv
    <3>2. Len(port) >= 2
      BY <1>3, <1>6, <3>1, <1>1
    <3> QED
      BY <1>1, <1>3, <3>1, <3>2
  <2>9. PipeInv'
    <3>1. deliverAt # "over"
      BY <1>2 DEF PipeInv
    <3>2. Taken' \in 0..Len(posted')
      BY <1>1, <1>2, <2>3, <2>4
    <3>3. \A i \in 1..Len(posted') : posted'[i] # Quit
      BY <1>2 DEF PipeInv
    <3> QED
      BY <1>1, <1>2, <1>3, <2>1, <2>6, <2>7, <2>8, <3>1, <3>2, <3>3 DEF PipeInv
  <2>10. ASSUME FirstOnItsWay PROVE FirstOnItsWay'
    <3>1. PICK k \in 1..3 : /\ k <= Len(posted) /\ posted[k] \in WorkerNews
                            /\ k > Taken \/ Holds(jobQueue, posted[k]) \/ Holds(batch, posted[k])
      BY <2>10 DEF FirstOnItsWay
    <3>2. CASE k > Taken + 1 \/ Holds(batch, posted[k])
      BY <1>1, <1>2, <2>4, <3>1, <3>2 DEF FirstOnItsWay
    <3>3. CASE k = Taken + 1
      <4>1. jobQueue' = Append(jobQueue, posted[k])
        BY <1>1, <1>3, <2>1, <2>5, <3>3, WinAssumption
      <4>2. Len(jobQueue) + 1 \in 1..Len(jobQueue') /\ jobQueue'[Len(jobQueue) + 1] = posted[k]
        BY <1>1, <4>1, <3>1
      <4>3. Holds(jobQueue', posted[k])
        BY <4>2 DEF Holds
      <4> QED
        BY <1>2, <3>1, <4>3 DEF FirstOnItsWay
    <3>4. CASE Holds(jobQueue, posted[k])
      <4>1. PICK i \in 1..Len(jobQueue) : jobQueue[i] = posted[k]
        BY <3>4 DEF Holds
      <4>2. i \in 1..Len(jobQueue') /\ jobQueue'[i] = posted[k]
        <5>1. CASE jobQueue' = jobQueue
          BY <4>1, <5>1
        <5>2. CASE jobQueue' = Append(jobQueue, Head(port))
          BY QueueFacts, <2>2, <4>1, <5>2, Appended
        <5> QED
          BY <2>1, <5>1, <5>2
      <4>3. Holds(jobQueue', posted[k])
        BY <4>2 DEF Holds
      <4> QED
        BY <1>2, <3>1, <4>3 DEF FirstOnItsWay
    <3> QED
      BY <1>1, <3>1, <3>2, <3>3, <3>4
  <2>11. FirstInv'
    BY <1>2, <1>4, <2>1, <2>10 DEF FirstInv
  <2> QED
    BY <2>9, <2>11
<1> QED
  BY <1>5, <1>6

LEMMA SignalKeeps ==
  ASSUME PipeInv, FirstInv, Signal \/ DeliverWakes, UNCHANGED <<winCfg, workloadStarted, engineAt>>
  PROVE  PipeInv' /\ FirstInv'
<1>1. /\ UNCHANGED <<member, posted, port, jobQueue, pumpDone, batch, jobClosed>>
      /\ pumpAt' \in (IF pumpDone THEN {"signal the end", "done"} ELSE {"get", "signal"})
      /\ deliverAt' = deliverAt \/ (deliverAt = "sleep" /\ deliverAt' = "take")
  <2>1. pumpAt \in (IF pumpDone THEN {"signal the end", "done"} ELSE {"get", "signal"})
    BY DEF PipeInv
  <2> QED
    BY <2>1 DEF Signal, DeliverWakes, deliverVars
<1>2. Taken' = Taken /\ (Ran' <=> Ran)
  BY <1>1 DEF Taken, Ran
<1> QED
  BY <1>1, <1>2 DEF PipeInv, FirstInv, FirstOnItsWay, Holds

LEMMA TakingKeeps ==
  ASSUME PipeInv, FirstInv, DeliverTakes, UNCHANGED <<winCfg, workloadStarted, engineAt>>
  PROVE  PipeInv' /\ FirstInv'
<1>1. /\ UNCHANGED <<member, posted, port, pumpAt, pumpDone, jobClosed>>
      /\ batch = <<>> /\ batch' = jobQueue /\ jobQueue' = <<>>
      /\ deliverAt' = IF jobQueue # <<>> THEN "send" ELSE IF pumpDone THEN "over" ELSE "sleep"
  BY DEF DeliverTakes, PipeInv
<1>2. Taken' = Taken /\ (Ran' <=> Ran)
  BY <1>1 DEF Taken, Ran
<1>3. PipeInv'
  <2>1. jobQueue' \in Seq(Notes) /\ batch' \in Seq(Notes) /\ Len(jobQueue') <= Taken'
    BY <1>1, <1>2, TakenNat, QueueFacts
  <2> QED
    BY <1>1, <1>2, <2>1 DEF PipeInv
<1>4. FirstOnItsWay => FirstOnItsWay'
  BY <1>1, <1>2 DEF FirstOnItsWay, Holds
<1> QED
  BY <1>1, <1>2, <1>3, <1>4 DEF FirstInv

LEMMA ConsumeKeeps ==
  ASSUME TimeInv, PipeInv, FirstInv, Consume
  PROVE  PipeInv' /\ FirstInv'
<1>1. /\ UNCHANGED <<member, posted, port, jobQueue, pumpAt, pumpDone, jobClosed, winCfg, engineAt>>
      /\ deliverAt = "send" /\ batch' = Tail(batch)
      /\ deliverAt' = IF Len(batch) = 1 THEN "take" ELSE "send"
  BY DEF Consume, Deliver, pumpVars
<1>2. batch # <<>> /\ batch \in Seq(Notes)
  BY <1>1, QueueFacts DEF PipeInv
<1>3. /\ batch' \in Seq(Notes) /\ Len(batch') = Len(batch) - 1 /\ Len(batch) \in Nat /\ Len(batch) >= 1
      /\ Head(batch) = batch[1]
      /\ \A i \in 1..(Len(batch) - 1) : batch'[i] = batch[i + 1]
  BY <1>1, <1>2
<1>4. Taken' = Taken /\ (Ran' <=> Ran)
  BY <1>1 DEF Taken, Ran
<1>5. batch' # <<>> <=> deliverAt' = "send"
  <2>1. batch' # <<>> <=> Len(batch') # 0
    BY <1>3
  <2>2. deliverAt' = "send" <=> Len(batch) # 1
    BY <1>1
  <2> QED
    BY <1>3, <2>1, <2>2
<1>6. PipeInv'
  BY <1>1, <1>3, <1>4, <1>5 DEF PipeInv
<1>7. workloadStarted' \in BOOLEAN /\ (workloadStarted => workloadStarted')
  BY DEF Consume, FirstInv
<1>8. ASSUME FirstOnItsWay, ~workloadStarted' PROVE FirstOnItsWay'
  <2>1. PICK k \in 1..3 : /\ k <= Len(posted) /\ posted[k] \in WorkerNews
                          /\ k > Taken \/ Holds(jobQueue, posted[k]) \/ Holds(batch, posted[k])
    BY <1>8 DEF FirstOnItsWay
  <2>2. CASE k > Taken \/ Holds(jobQueue, posted[k])
    BY <1>1, <1>4, <2>1, <2>2 DEF FirstOnItsWay, Holds
  <2>3. CASE Holds(batch, posted[k])
    <3>1. PICK i \in 1..Len(batch) : batch[i] = posted[k]
      BY <2>3 DEF Holds
    <3>2. i # 1
      <4> SUFFICES ASSUME i = 1 PROVE FALSE
        OBVIOUS
      <4>1. Head(batch) \in WorkerNews
        BY <1>3, <2>1, <3>1
      <4> PICK w \in Workers : Head(batch) = [message |-> "new", pid |-> w]
        BY <4>1 DEF WorkerNews
      <4>2. Head(batch).message = "new" /\ Head(batch).pid \in Workers
        OBVIOUS
      <4>3. workloadStarted'
        BY <4>2, WinAssumption DEF Consume
      <4> QED
        BY <1>8, <4>3
    <3>3. i - 1 \in 1..Len(batch') /\ batch'[i - 1] = posted[k]
      BY <1>3, <3>1, <3>2
    <3>4. Holds(batch', posted[k])
      BY <3>3 DEF Holds
    <3> QED
      BY <1>1, <2>1, <3>4 DEF FirstOnItsWay
  <2> QED
    BY <2>1, <2>2, <2>3
<1> QED
  BY <1>1, <1>4, <1>6, <1>7, <1>8 DEF FirstInv

LEMMA CloseKeeps ==
  ASSUME PipeInv, FirstInv, Close
  PROVE  PipeInv' /\ FirstInv'
<1>1. /\ engineAt = "close" /\ engineAt' = "closing" /\ ~jobClosed /\ jobClosed' = TRUE
      /\ KillAll /\ port' = Append(port, Quit)
      /\ UNCHANGED <<posted, jobQueue, pumpAt, pumpDone, batch, deliverAt, winCfg, workloadStarted>>
  BY DEF Close, CloseJob, pumpVars, deliverVars, outcomeVars
<1>2. SameStarted
  BY <1>1, KillAllSame
<1>3. /\ Quit \in Notes /\ port \in Seq(Notes) /\ Len(port) \in Nat
      /\ port' \in Seq(Notes) /\ Len(port') = Len(port) + 1 /\ port'[Len(port')] = Quit
      /\ \A i \in 1..Len(port) : port'[i] = port[i]
  <2>1. Quit \in Notes
    BY DEF Quit, Notes, Procs
  <2> QED
    BY <1>1, <2>1, QueueFacts, Appended
<1>4. ~pumpDone
  BY <1>1 DEF PipeInv
<1>5. Taken = Len(posted) - Len(port)
  BY <1>1, <1>3, TakenNat DEF Taken
<1>6. Taken' = Taken
  BY <1>1, <1>3, <1>4, <1>5, TakenNat DEF Taken
<1>7. ASSUME NEW i \in 1..(Len(posted') - Taken') PROVE port'[i] = posted'[Taken' + i]
  <2>1. i \in 1..(Len(posted) - Taken) /\ i \in 1..Len(port)
    BY <1>1, <1>5, <1>6, TakenNat
  <2> QED
    BY <1>1, <1>3, <1>6, <2>1, InOrder
<1>8. port' # <<>>
  BY <1>3
<1>9. PipeInv'
  BY <1>1, <1>2, <1>3, <1>4, <1>6, <1>7, <1>8 DEF PipeInv, SameStarted
<1>10. /\ Ran' <=> Ran
       /\ member'[Launcher] = "none" <=> member[Launcher] = "none"
       /\ member'[Conhost] = "none" <=> member[Conhost] = "none"
  BY <1>2 DEF Ran, SameStarted, Procs
<1>11. FirstOnItsWay => FirstOnItsWay'
  BY <1>1, <1>6 DEF FirstOnItsWay
<1> QED
  BY <1>1, <1>9, <1>10, <1>11 DEF FirstInv

LEMMA WaitEventsKeeps ==
  ASSUME PipeInv, FirstInv, WaitEvents
  PROVE  PipeInv' /\ FirstInv'
<1>1. /\ engineAt = "closing" /\ engineAt' = "judge" /\ pumpAt = "done" /\ deliverAt = "over"
      /\ UNCHANGED <<member, posted, port, jobQueue, pumpAt, pumpDone, batch, deliverAt, jobClosed,
                     winCfg, workloadStarted>>
  BY DEF WaitEvents, jobVars, outcomeVars
<1>2. pumpDone /\ port = <<>> /\ jobQueue = <<>> /\ batch = <<>>
  BY <1>1 DEF PipeInv
<1>3. Taken = Len(posted)
  BY <1>2, TakenNat DEF Taken
<1>4. ~FirstOnItsWay
  BY <1>2, <1>3, TakenNat DEF FirstOnItsWay, Holds
<1>5. Taken' = Taken /\ (Ran' <=> Ran)
  BY <1>1 DEF Taken, Ran
<1>6. PipeInv'
  BY <1>1, <1>5 DEF PipeInv
<1> QED
  BY <1>1, <1>4, <1>5, <1>6 DEF FirstInv

\* The steps of the job, of the container and of the engine's clock that only
\* end processes, if they change anything of the job at all.
LEMMA QuietKeeps ==
  ASSUME TimeInv, PipeInv, FirstInv,
         \/ \E p \in DOMAIN winCfg.parent : (ProcessEnds(p) \/ IdReused(p)) /\ UNCHANGED engineVars
         \/ engineAt = "wait" /\ UNCHANGED <<jobVars, winCfg, engineAt, workloadStarted>>
         \/ LauncherEnds \/ BackstopFires \/ BackstopKills \/ Wait
         \/ (ListMembers \/ \E p \in Workers : TerminateMember(p)) /\ UNCHANGED engineVars
         \/ UNCHANGED winVars
  PROVE  PipeInv' /\ FirstInv'
<1>1. /\ SameStarted
      /\ UNCHANGED <<posted, port, jobQueue, pumpAt, pumpDone, batch, deliverAt, jobClosed, winCfg,
                     workloadStarted>>
      /\ \/ engineAt' = engineAt
         \/ engineAt = "wait" /\ engineAt' = "close"
         \/ engineAt = "wait" /\ engineAt' = "judge" /\ ~winCfg.job
  <2>1. member \in [Procs -> States] /\ DOMAIN winCfg.parent \subseteq Procs
    BY WinAssumption DEF PipeInv, TimeInv, Procs
  <2>2. ASSUME NEW p \in DOMAIN winCfg.parent, ProcessEnds(p) \/ IdReused(p), UNCHANGED engineVars
        PROVE  /\ SameStarted
               /\ UNCHANGED <<posted, port, jobQueue, pumpAt, pumpDone, batch, deliverAt, jobClosed,
                              winCfg, workloadStarted, engineAt>>
    BY <2>1, <2>2 DEF ProcessEnds, IdReused, SameStarted, States, engineVars, pumpVars, deliverVars
  <2>3. CASE engineAt = "wait" /\ UNCHANGED <<jobVars, winCfg, engineAt, workloadStarted>>
    BY <2>1, <2>3 DEF SameStarted, jobVars
  <2>4. CASE LauncherEnds
    BY <2>1, <2>4 DEF LauncherEnds, SameStarted, States, Procs, pumpVars, deliverVars, outcomeVars
  <2>5. CASE BackstopFires
    BY <2>1, <2>5 DEF BackstopFires, SameStarted, jobVars, outcomeVars
  <2>6. CASE BackstopKills
    <3>1. SameStarted
      BY <2>1, <2>6, KillAllSame DEF BackstopKills, SameStarted, States
    <3> QED
      BY <2>6, <3>1 DEF BackstopKills, pumpVars, deliverVars, outcomeVars
  <2>7. CASE Wait
    BY <2>1, <2>7 DEF Wait, SameStarted, jobVars
  <2>8. CASE ListMembers /\ UNCHANGED engineVars
    BY <2>1, <2>8 DEF ListMembers, SameStarted, engineVars, pumpVars, deliverVars
  <2>9. ASSUME NEW p \in Workers, TerminateMember(p), UNCHANGED engineVars
        PROVE  /\ SameStarted
               /\ UNCHANGED <<posted, port, jobQueue, pumpAt, pumpDone, batch, deliverAt, jobClosed,
                              winCfg, workloadStarted, engineAt>>
    BY <2>1, <2>9 DEF TerminateMember, SameStarted, States, engineVars, pumpVars, deliverVars
  <2>10. CASE UNCHANGED winVars
    BY <2>1, <2>10 DEF SameStarted, winVars, jobVars
  <2> QED
    BY <2>2, <2>3, <2>4, <2>5, <2>6, <2>7, <2>8, <2>9, <2>10
<1> QED
  BY <1>1, PipeStays, FirstStays

LEMMA PostingKeeps ==
  ASSUME TimeInv, PipeInv, FirstInv,
         \/ \E p \in DOMAIN winCfg.parent : ProcessStarts(p, winCfg.parent[p]) /\ UNCHANGED engineVars
         \/ (\E p \in Workers : LimitHit(p)) /\ UNCHANGED engineVars
         \/ Start
  PROVE  PipeInv' /\ FirstInv'
<1>1. ASSUME NEW p \in DOMAIN winCfg.parent, ProcessStarts(p, winCfg.parent[p]), UNCHANGED engineVars
      PROVE  PipeInv' /\ FirstInv'
  <2>1. p \in Procs /\ p # Launcher
    BY WinAssumption DEF TimeInv, Procs
  <2> DEFINE note == [message |-> "new", pid |-> p]
  <2>2. note \in Notes /\ note # Quit
    BY <2>1 DEF Notes, Quit
  <2>3. /\ Post(note) /\ ~jobClosed /\ member[p] = "none" /\ member' = [member EXCEPT ![p] = "alive"]
        /\ UNCHANGED <<jobQueue, pumpAt, pumpDone, batch, deliverAt, jobClosed, winCfg,
                       workloadStarted, engineAt>>
    BY <1>1 DEF ProcessStarts, engineVars, pumpVars, deliverVars
  <2> HIDE DEF note
  <2> QED
    BY <2>1, <2>2, <2>3, PostKeepsFirst DEF note
<1>2. ASSUME NEW p \in Workers, LimitHit(p), UNCHANGED engineVars
      PROVE  PipeInv' /\ FirstInv'
  <2>1. p \in Procs
    BY DEF Procs
  <2> DEFINE note == [message |-> "memory", pid |-> p]
  <2>2. note \in Notes /\ note # Quit
    BY <2>1 DEF Notes, Quit
  <2>3. /\ Post(note) /\ ~jobClosed /\ member[p] = "alive" /\ member' = member
        /\ UNCHANGED <<jobQueue, pumpAt, pumpDone, batch, deliverAt, jobClosed, winCfg,
                       workloadStarted, engineAt>>
    BY <1>2 DEF LimitHit, engineVars, pumpVars, deliverVars
  <2>4. member[p] # "none"
    BY <2>3
  <2> HIDE DEF note
  <2> QED
    BY <2>1, <2>2, <2>3, <2>4, PostKeepsFirst
<1>3. CASE Start
  <2>1. /\ engineAt = "start" /\ engineAt' = "wait" /\ member' = [member EXCEPT ![Launcher] = "alive"]
        /\ UNCHANGED <<jobQueue, pumpAt, pumpDone, batch, deliverAt, jobClosed, winCfg, workloadStarted>>
    BY <1>3 DEF Start, pumpVars, deliverVars, outcomeVars
  <2>2. Launcher \in Procs /\ member[Launcher] = "none" /\ ~jobClosed
    BY <2>1 DEF FirstInv, PipeInv, Procs
  <2>3. CASE winCfg.job
    <3> DEFINE note == [message |-> "new", pid |-> Launcher]
    <3>1. note \in Notes /\ note # Quit
      BY <2>2 DEF Notes, Quit
    <3>2. Post(note)
      BY <1>3, <2>3 DEF Start
    <3> HIDE DEF note
    <3> QED
      BY <2>1, <2>2, <3>1, <3>2, PostKeepsFirst DEF note
  <2>4. CASE ~winCfg.job
    <3>1. UNCHANGED <<posted, port>>
      BY <1>3, <2>4 DEF Start
    <3>2. Taken' = Taken
      BY <2>1, <3>1 DEF Taken
    <3>3. member' \in [Procs -> States]
      BY <2>1 DEF PipeInv, States
    <3>4. PipeInv'
      BY <2>1, <3>1, <3>2, <3>3 DEF PipeInv
    <3> QED
      BY <2>1, <2>2, <2>4, <3>4 DEF FirstInv
  <2> QED
    BY <2>3, <2>4
<1> QED
  BY <1>1, <1>2, <1>3

\* The steps of the job, and what they leave alone.
LEMMA TimeOfJob ==
  ASSUME TimeInv, UNCHANGED <<handled, engineVars>> PROVE TimeInv'
BY DEF TimeInv, engineVars

LEMMA TimeStays ==
  ASSUME TimeInv, engineAt # "over" => PipeInv, WinNext \/ UNCHANGED winVars PROVE TimeInv'
<1>1. CASE Start \/ StartFails
  <2>1. UNCHANGED <<winCfg, clock, elapsed, backstopFired, launcherExit, handled, memoryKilled>>
        /\ (backstop' # "fired" \/ backstop' = backstop)
    BY <1>1 DEF Start, StartFails, jobVars, outcomeVars
  <2> QED
    BY <2>1 DEF TimeInv
<1>2. CASE Container
  <2>1. CASE \E p \in DOMAIN winCfg.parent :
               (ProcessStarts(p, winCfg.parent[p]) \/ ProcessEnds(p) \/ IdReused(p)) /\ UNCHANGED engineVars
    BY <2>1, TimeOfJob DEF ProcessStarts, ProcessEnds, IdReused
  <2>2. CASE (\E p \in Workers : LimitHit(p)) /\ UNCHANGED engineVars
    BY <2>2, TimeOfJob DEF LimitHit
  <2>3. CASE /\ clock < 2 /\ clock' = clock + 1
             /\ UNCHANGED <<jobVars, winCfg, backstop, backstopFired, launcherExit, outcomeVars>>
    BY <2>3 DEF TimeInv, jobVars, outcomeVars
  <2>4. CASE UNCHANGED <<jobVars, winCfg, clock, backstop, backstopFired, launcherExit, outcomeVars>>
    BY <2>4 DEF TimeInv, jobVars, outcomeVars
  <2> QED
    BY <1>2, <2>1, <2>2, <2>3, <2>4 DEF Container
<1>3. CASE LauncherEnds
  BY <1>3 DEF LauncherEnds, TimeInv, outcomeVars, TimeoutCode, MxcTimeoutCode
<1>4. CASE WaitFails \/ BackstopFires \/ Wait
  <2>1. /\ UNCHANGED <<winCfg, clock, launcherExit, handled, memoryKilled>>
        /\ \/ UNCHANGED <<elapsed, backstop, backstopFired>>
           \/ elapsed' = elapsed /\ clock = 2
           \/ elapsed' = clock /\ UNCHANGED backstopFired /\ backstop' \in {backstop, "stopped"}
    BY <1>4 DEF WaitFails, BackstopFires, Wait, jobVars, outcomeVars
  <2> QED
    BY <2>1 DEF TimeInv
<1>5. CASE BackstopKills
  BY <1>5 DEF BackstopKills, TimeInv, outcomeVars, TimeoutCode
<1>6. CASE Close \/ WaitEvents \/ Judge
  <2>1. UNCHANGED <<winCfg, clock, elapsed, backstop, backstopFired, launcherExit, handled, memoryKilled>>
    BY <1>6 DEF Close, CloseJob, WaitEvents, Judge, jobVars, outcomeVars
  <2> QED
    BY <2>1 DEF TimeInv
<1>7. CASE engineAt # "over" /\ Consume
  <2>1. /\ handled' = Append(handled, Head(batch)) /\ handled \in Seq(Notes) /\ Head(batch) \in Notes
        /\ UNCHANGED <<winCfg, clock, elapsed, backstop, backstopFired, launcherExit>>
    <3>1. PipeInv /\ deliverAt = "send"
      BY <1>7 DEF Consume, Deliver
    <3>2. batch # <<>> /\ batch \in Seq(Notes)
      BY <3>1, QueueFacts DEF PipeInv
    <3> QED
      BY <1>7, <3>2 DEF Consume, Deliver, TimeInv
  <2>2. /\ handled' \in Seq(Notes) /\ Len(handled') = Len(handled) + 1 /\ Len(handled) \in Nat
        /\ handled'[Len(handled) + 1] = Head(batch)
        /\ \A i \in 1..Len(handled) : handled'[i] = handled[i]
    BY <2>1, Appended
  <2>3. /\ memoryKilled' \in BOOLEAN
        /\ ~memoryKilled' => ~memoryKilled /\ Head(batch).message # "memory"
    BY <1>7 DEF Consume, TimeInv
  <2>4. ASSUME ~memoryKilled', NEW i \in 1..Len(handled') PROVE handled'[i].message # "memory"
    <3>1. i \in 1..Len(handled) \/ i = Len(handled) + 1
      BY <2>2
    <3>2. \A j \in 1..Len(handled) : handled[j].message # "memory"
      BY <2>3, <2>4 DEF TimeInv
    <3> QED
      BY <2>2, <2>3, <2>4, <3>1, <3>2
  <2> QED
    BY <2>1, <2>2, <2>3, <2>4 DEF TimeInv
<1>8. CASE JobStep /\ UNCHANGED engineVars
  BY <1>8, TimeOfJob DEF JobStep, Pump, Signal, DeliverTakes, DeliverWakes, ListMembers, TerminateMember
<1>9. CASE UNCHANGED winVars
  BY <1>9 DEF winVars, jobVars, TimeInv
<1> QED
  BY <1>1, <1>2, <1>3, <1>4, <1>5, <1>6, <1>7, <1>8, <1>9 DEF WinNext, EngineStep

LEMMA PipeFirstStay ==
  ASSUME TimeInv, PipeInv, FirstInv, engineAt # "over", engineAt' # "over",
         WinNext \/ UNCHANGED winVars
  PROVE  PipeInv' /\ FirstInv'
<1>1. CASE Container
  <2>1. CASE \E p \in DOMAIN winCfg.parent :
               (ProcessStarts(p, winCfg.parent[p]) \/ ProcessEnds(p) \/ IdReused(p)) /\ UNCHANGED engineVars
    BY <2>1, PostingKeeps, QuietKeeps
  <2>2. CASE (\E p \in Workers : LimitHit(p)) /\ UNCHANGED engineVars
    BY <2>2, PostingKeeps
  <2>3. CASE engineAt = "wait" /\ UNCHANGED <<jobVars, winCfg, engineAt, workloadStarted>>
    BY <2>3, QuietKeeps
  <2> QED
    BY <1>1, <2>1, <2>2, <2>3 DEF Container, outcomeVars
<1>2. CASE Start \/ LauncherEnds \/ BackstopFires \/ BackstopKills \/ Wait \/ UNCHANGED winVars
  BY <1>2, PostingKeeps, QuietKeeps
<1>3. CASE Consume \/ Close \/ WaitEvents
  BY <1>3, ConsumeKeeps, CloseKeeps, WaitEventsKeeps
<1>4. CASE JobStep /\ UNCHANGED engineVars
  <2>1. UNCHANGED <<winCfg, workloadStarted, engineAt>>
    BY <1>4 DEF engineVars
  <2>2. CASE Pump \/ Signal \/ DeliverTakes \/ DeliverWakes
    BY <2>1, <2>2, PumpKeeps, SignalKeeps, TakingKeeps
  <2>3. CASE ListMembers \/ \E p \in Workers : TerminateMember(p)
    BY <1>4, <2>3, QuietKeeps
  <2> QED
    BY <1>4, <2>2, <2>3 DEF JobStep
<1>5. ~(StartFails \/ WaitFails \/ Judge)
  BY DEF StartFails, WaitFails, Judge
<1> QED
  BY <1>1, <1>2, <1>3, <1>4, <1>5 DEF WinNext, EngineStep

LEMMA ExitFields == ASSUME NEW c PROVE Exit(c).kind = "exit" /\ Exit(c).code = c
BY DEF Exit

LEMMA SayFields == ASSUME NEW k PROVE Say(k).kind = k
BY DEF Say

\* The judgement: the exit code of a run whose workload ran is the result.
LEMMA JudgeFits ==
  ASSUME TimeInv, PipeInv, FirstInv, results = 0, Judge PROVE VerdictFits'
<1>1. /\ engineAt = "judge" /\ UNCHANGED <<winCfg, clock, launcherExit, handled, member>>
      /\ (Ran' <=> Ran) /\ (Enforced' <=> Enforced)
  BY DEF Judge, jobVars, Ran, Enforced
<1>2. Ran => workloadStarted
  BY <1>1 DEF FirstInv
<1>3. Ran /\ Enforced => results' = 1
  <2> SUFFICES ASSUME Ran, Enforced PROVE results' = 1
    OBVIOUS
  <2>1. results' = results + IF Enforced THEN 1 ELSE 0
    BY <1>2 DEF Judge
  <2> QED
    BY <2>1
<1>4. TimedOut => clock >= 1
  BY DEF TimedOut, TimeInv
<1>5. ExitCode = TimeoutCode => clock >= 1
  BY DEF ExitCode, TimeInv, TimeoutCode, MemoryCode
<1>6. ExitCode = 0 => launcherExit = 0 /\ \A i \in 1..Len(handled) : handled[i].message # "memory"
  BY DEF ExitCode, TimeInv, MemoryCode
<1>7. \/ verdict' = Say("not started") \/ verdict' = Say("mxc failed") \/ verdict' = Say("reported")
      \/ verdict' = Exit(ExitCode) \/ (TimedOut /\ verdict' = Exit(TimeoutCode))
  BY DEF Judge
<1>8. \/ verdict'.kind # "exit" \/ verdict'.code = ExitCode
      \/ TimedOut /\ verdict'.code = TimeoutCode
  <2>1. CASE verdict' = Say("not started") \/ verdict' = Say("mxc failed") \/ verdict' = Say("reported")
    <3>1. /\ Say("not started").kind = "not started" /\ Say("mxc failed").kind = "mxc failed"
          /\ Say("reported").kind = "reported"
      BY SayFields
    <3> QED
      BY <2>1, <3>1
  <2> QED
    BY <1>7, <2>1, ExitFields, SayFields
<1>9. verdict' = Exit(TimeoutCode) => TimedOut \/ ExitCode = TimeoutCode
  <2> SUFFICES ASSUME verdict' = Exit(TimeoutCode) PROVE TimedOut \/ ExitCode = TimeoutCode
    OBVIOUS
  <2>1. verdict'.kind = "exit" /\ verdict'.code = TimeoutCode
    BY ExitFields, SayFields
  <2> QED
    BY <1>8, <2>1
<1>10. verdict' = Exit(TimeoutCode) => clock >= 1
  BY <1>4, <1>5, <1>9
<1>11. verdict' = Exit(0) => ExitCode = 0
  <2> SUFFICES ASSUME verdict' = Exit(0) PROVE ExitCode = 0
    OBVIOUS
  <2>1. verdict'.kind = "exit" /\ verdict'.code = 0
    BY ExitFields, SayFields
  <2> QED
    BY <1>8, <2>1 DEF TimeoutCode
<1> QED
  BY <1>1, <1>3, <1>6, <1>10, <1>11 DEF VerdictFits

LEMMA WinStep ==
  ASSUME WinInv, WinNext \/ UNCHANGED winVars PROVE WinInv'
<1>1. TimeInv'
  BY TimeStays DEF WinInv
<1>2. CASE UNCHANGED winVars
  <2>1. engineAt # "over" => PipeInv' /\ FirstInv'
    BY <1>2, PipeFirstStay DEF WinInv, winVars
  <2>2. VerdictFits'
    BY <1>2 DEF WinInv, VerdictFits, winVars, jobVars, Ran, Enforced
  <2> QED
    BY <1>1, <1>2, <2>1, <2>2 DEF WinInv, winVars
<1>3. CASE WinNext /\ engineAt' # "over"
  <2>1. engineAt # "over"
    BY <1>3 DEF WinNext, EngineStep
  <2>2. PipeInv' /\ FirstInv'
    BY <1>3, <2>1, PipeFirstStay DEF WinInv
  <2>3. results' = results
    <3>1. ~(StartFails \/ WaitFails \/ Judge)
      BY <1>3 DEF StartFails, WaitFails, Judge
    <3> QED
      BY <1>3, <3>1 DEF WinNext, EngineStep, Start, Container, LauncherEnds, BackstopFires, Consume,
         Wait, Close, WaitEvents, BackstopKills, engineVars, outcomeVars
  <2> QED
    BY <1>1, <1>3, <2>1, <2>2, <2>3 DEF WinInv, VerdictFits
<1>4. CASE WinNext /\ engineAt' = "over"
  <2>1. engineAt # "over"
    BY <1>4 DEF WinNext, EngineStep
  <2>2. CASE Judge
    BY <1>1, <1>4, <2>1, <2>2, JudgeFits DEF WinInv
  <2>3. CASE StartFails \/ WaitFails
    <3>1. verdict' = Say("start failed") \/ verdict' = Say("wait failed")
      BY <2>3 DEF StartFails, WaitFails
    <3>2. verdict'.kind \in {"start failed", "wait failed"}
      BY <3>1, ExitFields, SayFields
    <3> QED
      BY <1>1, <1>4, <3>2 DEF WinInv, VerdictFits
  <2>4. Judge \/ StartFails \/ WaitFails
    BY <1>4, <2>1 DEF WinNext, EngineStep, Start, Container, LauncherEnds, BackstopFires, Consume,
       Wait, Close, WaitEvents, BackstopKills, engineVars
  <2> QED
    BY <2>2, <2>3, <2>4
<1> QED
  BY <1>2, <1>3, <1>4

\* The verdict's invariant: what is on its way lies in the order it was posted
\* in, and the workload's first process is among what the queue never drops.
THEOREM WinInvariant == WinSpec => []WinInv
<1>1. WinInit => WinInv
  <2> SUFFICES ASSUME WinInit PROVE WinInv
    OBVIOUS
  <2>1. TimeInv
    <3>1. /\ winCfg \in WinConfigs /\ clock = 0 /\ elapsed = 0 /\ backstopFired = FALSE
          /\ backstop = "unset" /\ launcherExit = 0 /\ handled = <<>> /\ memoryKilled = FALSE
      BY DEF WinInit, JobInit
    <3>2. clock \in 0..2 /\ elapsed \in 0..clock
      BY <3>1
    <3>3. memoryKilled \in BOOLEAN
      BY <3>1
    <3>4. handled \in Seq(Notes) /\ Len(handled) = 0
      BY <3>1
    <3>5. /\ backstopFired \/ backstop = "fired" \/ launcherExit = TimeoutCode => clock = 2
          /\ launcherExit \in {0, 1, TimeoutCode, MxcTimeoutCode}
      BY <3>1 DEF TimeoutCode
    <3> QED
      BY <3>1, <3>2, <3>5, <3>4, <3>3 DEF TimeInv
  <2>2. PipeInv
    <3>1. /\ member \in [Procs -> States] /\ posted = <<>> /\ port = <<>> /\ jobQueue = <<>>
          /\ batch = <<>> /\ pumpDone = FALSE /\ jobClosed = FALSE /\ pumpAt = "get" /\ deliverAt = "take"
      BY DEF WinInit, JobInit, Procs, States
    <3>2. Taken = 0
      BY <3>1 DEF Taken
    <3>3. /\ posted \in Seq(Notes) /\ port \in Seq(Notes) /\ jobQueue \in Seq(Notes)
          /\ batch \in Seq(Notes) /\ Taken \in 0..Len(posted) /\ Len(jobQueue) <= Taken
          /\ Len(posted) - Taken = 0 /\ Len(posted) = 0
      BY <3>1, <3>2
    <3>4. /\ \A i \in 1..(Len(posted) - Taken) : port[i] = posted[Taken + i]
          /\ \A i \in 1..Len(posted) : posted[i] # Quit
      BY <3>3
    <3> QED
      BY <3>1, <3>3, <3>4 DEF PipeInv
  <2>3. FirstInv
    <3>1. /\ member[Launcher] = "none" /\ member[Conhost] = "none" /\ ~Ran /\ posted = <<>>
          /\ workloadStarted = ~winCfg.job /\ engineAt = "start" /\ jobClosed = FALSE
      BY DEF WinInit, JobInit, Ran
    <3>2. Len(posted) <= (IF member[Launcher] = "none" THEN 0 ELSE 1)
                           + (IF member[Conhost] = "none" THEN 0 ELSE 1)
      BY <3>1
    <3>3. workloadStarted \in BOOLEAN /\ (~winCfg.job => workloadStarted)
      BY <3>1
    <3> QED
      BY <3>1, <3>2, <3>3 DEF FirstInv
  <2> QED
    BY <2>1, <2>2, <2>3 DEF WinInv, WinInit, VerdictFits
<1>2. WinInv /\ [WinNext]_winVars => WinInv'
  BY WinStep
<1> QED
  BY <1>1, <1>2, PTL DEF WinSpec

\* What the workload prints cannot change what is said of it (runWindows): the
\* results of an enforced run whose workload ran are written once, a timeout is
\* reported after the timeout only, and a memory limit that was hit, or a
\* failure, is never reported as a success, for any processes, any order of
\* their notifications and any length of the queue that holds three.
THEOREM VerdictIsFit == WinSpec => []VerdictFits
<1>1. WinInv => VerdictFits
  BY DEF WinInv
<1> QED
  BY <1>1, WinInvariant, PTL
=============================================================================
