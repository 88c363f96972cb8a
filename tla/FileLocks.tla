------------------------------ MODULE FileLocks ------------------------------
(***************************************************************************)
(* The lock files of concurrent runs (acquireFileLocks, releaseFileLocks): *)
(* each run takes its locks one after the other in the order of its list,  *)
(* waiting for each, and holds them while its command runs.  A lock belongs *)
(* to an open file: a run that names one path twice waits for itself.      *)
(***************************************************************************)
EXTENDS Naturals, Sequences, FiniteSets

CONSTANTS
  Lockers,    \* the runs that take locks
  LockLists   \* the configurations explored: [Lockers -> Seq([path, exclusive])]

ASSUME LocksAssumption == \A l \in LockLists, r \in Lockers : Len(l[r]) \in Nat

VARIABLES
  locks,      \* the lists of this configuration
  held,       \* the places of its list each run holds the lock of
  holder      \* what the run is doing

lockVars == <<locks, held, holder>>

LocksInit ==
  /\ locks \in LockLists
  /\ held = [r \in Lockers |-> {}]
  /\ holder = [r \in Lockers |-> "taking"]

LocksTypeOK ==
  /\ locks \in LockLists
  /\ \A r \in Lockers : held[r] \subseteq 1..Len(locks[r])
  /\ holder \in [Lockers -> {"taking", "command", "releasing", "done", "failed"}]

\* Two locks on one path go together only when both are shared.
Compatible(a, b) == a.path # b.path \/ (~a.exclusive /\ ~b.exclusive)

Grantable(spec) ==
  \A s \in Lockers : \A i \in held[s] : Compatible(spec, locks[s][i])

\* The place the run has come to, past the end when it holds all.
Place(r) == Cardinality(held[r]) + 1

\* flock or LockFileEx returns: the next lock of the list is taken.
TakeLock(r) ==
  /\ holder[r] = "taking" /\ Place(r) <= Len(locks[r])
  /\ Grantable(locks[r][Place(r)])
  /\ held' = [held EXCEPT ![r] = @ \union {Place(r)}]
  /\ UNCHANGED <<locks, holder>>

\* A lock file that cannot be opened or locked: those taken are closed.
TakeFails(r) ==
  /\ holder[r] = "taking" /\ Place(r) <= Len(locks[r])
  /\ held' = [held EXCEPT ![r] = {}]
  /\ holder' = [holder EXCEPT ![r] = "failed"]
  /\ UNCHANGED locks

StartCommand(r) ==
  /\ holder[r] = "taking" /\ Place(r) > Len(locks[r])
  /\ holder' = [holder EXCEPT ![r] = "command"]
  /\ UNCHANGED <<locks, held>>

\* The command ends; a killed run ends the same way, for the kernel closes
\* its files.  releaseFileLocks closes one file after the other.
EndLocked(r) ==
  /\ holder[r] = "command"
  /\ holder' = [holder EXCEPT ![r] = "releasing"]
  /\ UNCHANGED <<locks, held>>

\* A slip: the last lock taken is never released.
ReleaseLockButOne(r) ==
  /\ holder[r] = "releasing"
  /\ held' = [held EXCEPT ![r] = {i \in @ : \A j \in @ : j <= i}]
  /\ holder' = [holder EXCEPT ![r] = "done"]
  /\ UNCHANGED locks

ReleaseLock(r) ==
  /\ holder[r] = "releasing"
  /\ held' = [held EXCEPT ![r] = {i \in @ : \E j \in @ : j < i}]
  /\ holder' = [holder EXCEPT ![r] = IF held'[r] = {} THEN "done" ELSE @]
  /\ UNCHANGED locks

KillLocker(r) ==
  /\ holder[r] \in {"taking", "command", "releasing"}
  /\ holder' = [holder EXCEPT ![r] = "failed"]
  /\ held' = [held EXCEPT ![r] = {}]
  /\ UNCHANGED locks

LockStep(r) == TakeLock(r) \/ StartCommand(r) \/ EndLocked(r) \/ ReleaseLock(r)

LocksNext == \E r \in Lockers : LockStep(r) \/ TakeFails(r) \/ KillLocker(r)

LocksSpec == LocksInit /\ [][LocksNext]_lockVars
             /\ \A r \in Lockers : WF_lockVars(LockStep(r))
-----------------------------------------------------------------------------
\* One order of all paths that every list follows, without repeating a path.
Ordered ==
  LET paths == UNION {{locks[r][i].path : i \in 1..Len(locks[r])} : r \in Lockers}
  IN  \E rank \in [paths -> 1..Cardinality(paths)] : \A r \in Lockers :
        \A i, j \in 1..Len(locks[r]) :
          i < j => rank[locks[r][i].path] < rank[locks[r][j].path]

\* Runs whose lists agree on an order all end: nobody waits for a lock for
\* ever.  Lists in opposite orders, and a path named twice, can block for
\* good, for flock is called without a timeout.
OrderedLocksEnd == Ordered => \A r \in Lockers : <>(holder[r] \in {"done", "failed"})
=============================================================================
