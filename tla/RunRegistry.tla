----------------------------- MODULE RunRegistry -----------------------------
(***************************************************************************)
(* The registry of live runs (covert.go): one record file per run in a     *)
(* directory of the user.  A run writes its record, an audited run         *)
(* compares itself with every other record before its command starts and   *)
(* once more at its end, and removes its own record last.                  *)
(*                                                                         *)
(* A run is a number, its place in the sorted listing of the directory.    *)
(* check() is not atomic: it lists the directory, then reads one file      *)
(* after the other while the other runs go on, die, or write theirs.       *)
(***************************************************************************)
EXTENDS Naturals, FiniteSets

CONSTANTS
  Runs,                 \* the runs, in the order of their records' names
  Audited,              \* those with EnableAudit
  Kinds, Paths,         \* "write" and "lock"; the cleaned paths
  Within,               \* the pairs <<child, parent>> of paths
  Uses,                 \* [Runs -> SUBSET (Kinds \X Paths)]
  MaxRegistryRecords, MaxRegistryFindings

ASSUME RegistryAssumption ==
  /\ Runs \subseteq Nat /\ IsFiniteSet(Runs)
  /\ Audited \subseteq Runs
  /\ Within \subseteq Paths \X Paths
  /\ Uses \in [Runs -> SUBSET (Kinds \X Paths)]
  /\ MaxRegistryRecords \in Nat /\ MaxRegistryFindings \in Nat

VARIABLES
  at,        \* what each run is doing
  record,    \* its file: absent, created but empty, or whole
  todo,      \* the listed names a check has not looked at yet
  seen,      \* findings a run knows, <<kind, path, other run>>
  capped,    \* whether the run gave up adding findings
  reported,  \* findings the run wrote as audit lines
  recycled,  \* dead runs whose process id another process has now
  met,       \* history: pairs of registered runs alive at the same time
  ghosts     \* history: runs already dead when this run's check listed them

registryVars ==
  <<at, record, todo, seen, capped, reported, recycled, met, ghosts>>

Checking == {"first check", "last check"}
Phases == {"new", "creating", "registered", "unregistered", "command",
           "finished", "closing", "gone"} \union Checking

RegistryTypeOK ==
  /\ at \in [Runs -> Phases]
  /\ record \in [Runs -> {"absent", "empty", "whole"}]
  /\ todo \in [Runs -> SUBSET Runs] /\ ghosts \in [Runs -> SUBSET Runs]
  /\ seen \in [Runs -> SUBSET (Kinds \X Paths \X Runs)]
  /\ reported \in [Runs -> SUBSET (Kinds \X Paths \X Runs)]
  /\ capped \in [Runs -> BOOLEAN]
  /\ recycled \subseteq Runs /\ met \subseteq Runs \X Runs

RegistryInit ==
  /\ at = [r \in Runs |-> "new"]
  /\ record = [r \in Runs |-> "absent"]
  /\ todo = [r \in Runs |-> {}] /\ ghosts = [r \in Runs |-> {}]
  /\ seen = [r \in Runs |-> {}] /\ reported = [r \in Runs |-> {}]
  /\ capped = [r \in Runs |-> FALSE]
  /\ recycled = {} /\ met = {}

Alive(r) == at[r] \notin {"new", "gone"}
Registered(r) == Alive(r) /\ record[r] = "whole"

\* A slip: the record's process is taken to be alive.
PidAliveUnasked(r) == record[r] # "absent"

\* kill(pid, 0) or OpenProcess: it answers for whoever has the process id.
PidAlive(r) == Alive(r) \/ r \in recycled

Overlap(a, b) == a = b \/ <<a, b>> \in Within \/ <<b, a>> \in Within

\* What r and s share, as r reports it: one finding per kind and own path.
Sharing(r, s) ==
  {<<u[1], u[2], s>> : u \in {v \in Uses[r] :
     \E w \in Uses[s] : v[1] = w[1] /\ Overlap(v[2], w[2])}}

\* The first n names of a set, in name order.
FirstNames(S, n) == {r \in S : Cardinality({s \in S : s < r}) < n}

Goto(r, phase) == at' = [at EXCEPT ![r] = phase]
-----------------------------------------------------------------------------
\* registerRun: the directory is unusable or not private, or the write
\* fails; the run goes on unregistered and its checks report nothing.
RegisterFails(r) ==
  /\ at[r] \in {"new", "creating"}
  /\ Goto(r, "unregistered")
  /\ UNCHANGED <<record, todo, seen, capped, reported, recycled, met, ghosts>>

\* os.WriteFile creates the file, then writes it.
CreateRecord(r) ==
  /\ at[r] = "new"
  /\ Goto(r, "creating")
  /\ record' = [record EXCEPT ![r] = "empty"]
  /\ UNCHANGED <<todo, seen, capped, reported, recycled, met, ghosts>>

WriteRecord(r) ==
  /\ at[r] = "creating"
  /\ Goto(r, IF r \in Audited THEN "registered" ELSE "command")
  /\ record' = [record EXCEPT ![r] = IF @ = "empty" THEN "whole" ELSE @]
  /\ met' = met \union {p \in Runs \X Runs :
              r \in {p[1], p[2]} /\ \A s \in {p[1], p[2]} : s = r \/ Registered(s)}
  /\ UNCHANGED <<todo, seen, capped, reported, recycled, ghosts>>

\* check: os.ReadDir, sorted by name and cut after MaxRegistryRecords.
BeginCheck(r) ==
  /\ at[r] \in {"registered", "finished"}
  /\ Goto(r, IF at[r] = "registered" THEN "first check" ELSE "last check")
  /\ todo' = [todo EXCEPT ![r] =
       FirstNames({s \in Runs : record[s] # "absent"}, MaxRegistryRecords)]
  /\ ghosts' = [ghosts EXCEPT ![r] = {s \in Runs : at[s] = "gone"}]
  /\ UNCHANGED <<record, seen, capped, reported, recycled, met>>

\* The new keys are added while at most MaxRegistryFindings are known; the
\* one past it is replaced by the overflow entry and closes the list.
Report(r, new) ==
  LET room  == MaxRegistryFindings - Cardinality(seen[r])
      fresh == new \ seen[r]
  IN  IF capped[r] THEN UNCHANGED <<seen, capped, reported>>
      ELSE \E kept \in SUBSET fresh :
             /\ Cardinality(kept) = IF Cardinality(fresh) < room
                                    THEN Cardinality(fresh) ELSE room
             /\ seen' = [seen EXCEPT ![r] = @ \union kept]
             /\ reported' = [reported EXCEPT ![r] = @ \union kept]
             /\ capped' = [capped EXCEPT ![r] = kept # fresh]

\* What a check does with a name in its listing: its own record and one it
\* cannot read are skipped, one whose process is gone is removed, the paths
\* of any other are compared.
Readable(s) == record[s] = "whole"
\* A slip: a record that cannot be read is removed like a dead run's.
StaleOrUnreadable(r, s) == s # r /\ (~Readable(s) \/ ~PidAlive(s))

Stale(r, s) == s # r /\ Readable(s) /\ ~PidAlive(s)
\* A slip: each pair is compared by one of its runs only.
ComparableEarlier(r, s) == s < r /\ Readable(s) /\ PidAlive(s)

Comparable(r, s) == s # r /\ Readable(s) /\ PidAlive(s)

CheckRecord(r) ==
  \E s \in FirstNames(todo[r], 1) :
    /\ at[r] \in Checking
    /\ todo' = [todo EXCEPT ![r] = @ \ {s}]
    /\ record' = [record EXCEPT ![s] = IF Stale(r, s) THEN "absent" ELSE @]
    /\ IF Comparable(r, s) THEN Report(r, Sharing(r, s))
                           ELSE UNCHANGED <<seen, capped, reported>>
    /\ UNCHANGED <<at, recycled, met, ghosts>>

EndCheck(r) ==
  /\ at[r] \in Checking /\ todo[r] = {}
  /\ Goto(r, IF at[r] = "first check" THEN "command" ELSE "closing")
  /\ UNCHANGED <<record, todo, seen, capped, reported, recycled, met, ghosts>>

\* The command ran, or a setup step failed: run returns, and its deferred
\* calls check once more when audited and remove the record.
EndCommand(r) ==
  /\ at[r] = "command"
  /\ Goto(r, IF r \in Audited THEN "finished" ELSE "closing")
  /\ UNCHANGED <<record, todo, seen, capped, reported, recycled, met, ghosts>>

CloseRecord(r) ==
  /\ at[r] = "closing"
  /\ Goto(r, "gone")
  /\ record' = [record EXCEPT ![r] = "absent"]
  /\ UNCHANGED <<todo, seen, capped, reported, recycled, met, ghosts>>

EndUnregistered(r) ==
  /\ at[r] = "unregistered"
  /\ Goto(r, "gone")
  /\ UNCHANGED <<record, todo, seen, capped, reported, recycled, met, ghosts>>

\* The engine is killed: nothing deferred runs and the record stays.
Killed(r) ==
  /\ Alive(r)
  /\ Goto(r, "gone")
  /\ todo' = [todo EXCEPT ![r] = {}]
  /\ UNCHANGED <<record, seen, capped, reported, recycled, met, ghosts>>

\* Another process gets the id of a dead run.
ReusePid(r) ==
  /\ at[r] = "gone" /\ r \notin recycled
  /\ recycled' = recycled \union {r}
  /\ UNCHANGED <<at, record, todo, seen, capped, reported, met, ghosts>>

RunStep(r) ==
  \/ RegisterFails(r) \/ CreateRecord(r) \/ WriteRecord(r)
  \/ BeginCheck(r) \/ CheckRecord(r) \/ EndCheck(r)
  \/ EndCommand(r) \/ CloseRecord(r) \/ EndUnregistered(r)

RegistryNext == \E r \in Runs : RunStep(r) \/ Killed(r) \/ ReusePid(r)

RegistrySpec == RegistryInit /\ [][RegistryNext]_registryVars
-----------------------------------------------------------------------------
Past(r) == at[r] \in {"command", "finished", "last check", "closing"}

\* Of two audited runs that share a path and run their commands at the same
\* time, one has reported it, whichever order they registered and checked in:
\* each writes its record before it reads the other's (registerRun, check).
\* The caps are the exceptions: a name past the listing's cut, a run that
\* gave up adding findings.
SharingReported ==
  \A r, s \in FirstNames(Runs, MaxRegistryRecords) \intersect Audited :
    Past(r) /\ Past(s) /\ r # s /\ Sharing(r, s) # {} =>
      \/ capped[r] \/ capped[s]
      \/ Sharing(r, s) \subseteq reported[r]
      \/ Sharing(s, r) \subseteq reported[s]

\* A run is reported only if it was alive together with the reporter, unless
\* its process id went to another process (check, pidAlive): what a dead run
\* left behind is no finding.
ReportedRunsMet ==
  \A r \in Runs : \A f \in reported[r] : <<r, f[3]>> \in met \/ f[3] \in recycled

\* Checks clean up after dead runs and after nobody else: a live registered
\* run keeps its record, and once a check is through, no record of a run that
\* was dead before the check is left, but for a recycled process id, a name
\* past the cut and a file that was never written whole.
RecordsFollowRuns ==
  /\ \A r \in Runs : at[r] = "registered" \/ at[r] \in Checking \/ Past(r) =>
                       record[r] = "whole"
  /\ \A r \in Audited : at[r] \in {"command", "closing"} =>
       \A s \in ghosts[r] \intersect FirstNames(Runs, MaxRegistryRecords) :
         record[s] # "whole" \/ s \in recycled
=============================================================================
