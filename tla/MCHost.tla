------------------------------- MODULE MCHost -------------------------------
(***************************************************************************)
(* The machines that runs of one host share: the registry of live runs,    *)
(* the policy file of learning runs, lock files, the trace sessions of a   *)
(* Windows machine, and the watches beside a run.  They have no state in   *)
(* common, so the product of their behaviours holds nothing that one       *)
(* machine at a time does not: `part` names the one that moves and the     *)
(* others stay in their initial states.                                    *)
(***************************************************************************)
EXTENDS RunRegistry, PolicyStore, FileLocks, EgressWatch, TraceSessions

VARIABLE part

hostVars == <<part, registryVars, storeVars, lockVars, watchVars, sessionsVars>>

\* Registry: two audited runs whose paths overlap, one a parent directory of
\* the other, and a third that shares a lock file with the second.
MCWithin == {<<"child", "parent">>}
MCUses == [r \in Runs |-> CASE r = 1 -> {<<"write", "parent">>}
                            [] r = 2 -> {<<"write", "child">>, <<"lock", "child">>}
                            [] OTHER -> {<<"lock", "child">>}]

\* Store: a Linux learner that runs under strace, a learner off Linux, and a
\* file that has a host, a limit, a control and a URL rule for any method.
Syscall(name, file, modifies, address, number) ==
  [call |-> name, path |-> file, writes |-> modifies, ip |-> address, port |-> number]
Devices == {<<<<"dev", "dri">>, "allowGPU">>}
MCObserved == [l \in Learners |->
  IF l = "linux"
  THEN BuildPolicy("one", {Syscall("openat", <<"usr", "lib", "x", "y">>, FALSE, "", 0),
         Syscall("open", <<"tmp", "out">>, TRUE, "", 0),
         Syscall("stat", <<"dev", "dri">>, FALSE, "", 0),
         Syscall("connect", <<>>, FALSE, "", 53),
         Syscall("bind", <<>>, FALSE, "127.0.0.1", 80)}, Devices)
  ELSE LearnBasic("two", {[ip |-> "10.0.0.1", port |-> 443]},
         {[ip |-> "10.0.0.1", port |-> 443], [ip |-> "10.0.0.2", port |-> 443]})]
MCConfigured == [l \in Learners |->
  [Blank EXCEPT !.flags = {IF l = "linux" THEN "blockJIT" ELSE "proxyEgress"},
                !.relaxed = {"dacl"},
                !.sealed = IF l = "linux" THEN {"privateTmp"} ELSE {}]]
MCTraced == [l \in Learners |->
  IF l = "linux" THEN {[group |-> "https host", methods |-> {"GET"}]} ELSE {}]
MCInitial == [Blank EXCEPT !.grants = {<<"host", "registry">>},
  !.flags = {"useReaper"}, !.sealed = {"protectHome"}, !.limit = 5,
  !.rules = {[group |-> "https host", methods |-> {}]}]

\* Locks: lists in one order, in a cycle of three, in opposite orders with a
\* path named twice, and shared locks in front of an exclusive one.
Sh(p) == [path |-> p, exclusive |-> FALSE]
Ex(p) == [path |-> p, exclusive |-> TRUE]
MCLockLists ==
  {<<<<Ex("a"), Ex("b")>>, <<Sh("a"), Ex("b")>>, <<Sh("b"), Ex("c")>>>>,
   <<<<Ex("a"), Ex("b")>>, <<Ex("b"), Ex("c")>>, <<Ex("c"), Ex("a")>>>>,
   <<<<Ex("a"), Ex("b")>>, <<Ex("b"), Ex("a")>>, <<Ex("a"), Ex("a")>>>>,
   <<<<Sh("a"), Ex("b")>>, <<Sh("a"), Ex("c")>>, <<Ex("a")>>>>}

\* Watch: a direct connection, one to the proxy, a new UDP socket.
MCDest == [c \in Calls |-> CASE c = "c1" -> "host:443" [] c = "c2" -> Proxy
                             [] OTHER -> UdpSocket]
-----------------------------------------------------------------------------
HostInit ==
  /\ RegistryInit /\ WatchInit /\ StoreInit /\ LocksInit /\ SessionsInit
  /\ part \in {"registry", "store", "locks", "watch", "sessions"}
  /\ part # "store" => base = Blank
  /\ part # "locks" => locks = CHOOSE l \in LockLists : TRUE
  /\ part # "watch" => confined

Registry == part = "registry" /\ UNCHANGED <<part, storeVars, lockVars, watchVars, sessionsVars>>
Store == part = "store" /\ UNCHANGED <<part, registryVars, lockVars, watchVars, sessionsVars>>
Locks == part = "locks" /\ UNCHANGED <<part, registryVars, storeVars, watchVars, sessionsVars>>
Watch == part = "watch" /\ UNCHANGED <<part, registryVars, storeVars, lockVars, sessionsVars>>
Sessions == part = "sessions" /\ UNCHANGED <<part, registryVars, storeVars, lockVars, watchVars>>

HostNext ==
  \/ Registry /\ RegistryNext
  \/ Store /\ StoreNext
  \/ Locks /\ LocksNext
  \/ Watch /\ WatchNext
  \/ Sessions /\ SessionsNext

\* The fairness of the machines' own specifications.
HostSpec ==
  /\ HostInit /\ [][HostNext]_hostVars
  /\ \A r \in Lockers : WF_hostVars(Locks /\ LockStep(r))
  /\ WF_hostVars(Watch /\ ServeStep)
  /\ WF_hostVars(Watch /\ InnerStep)
  /\ WF_hostVars(Watch /\ FinishStep)

\* OrderedLocksEnd of the run in which the locks move.
OrderedRunsEnd == part = "locks" => OrderedLocksEnd

HostTypeOK == RegistryTypeOK /\ StoreTypeOK /\ LocksTypeOK /\ WatchTypeOK /\ SessionsTypeOK
=============================================================================
