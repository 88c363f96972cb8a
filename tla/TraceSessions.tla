---------------------------- MODULE TraceSessions ----------------------------
(***************************************************************************)
(* The trace sessions of the engines of one Windows machine                *)
(* (dlltrace/session_windows.go).  Windows keeps a session until somebody  *)
(* stops it, so an engine that starts one first stops those of engines     *)
(* that were killed.  The name of a session says whose it is, by process   *)
(* id and creation time; ids are used again.                               *)
(***************************************************************************)
EXTENDS Naturals, FiniteSets

CONSTANTS
  EngineIds,         \* process ids that engines get
  MaxEngines,        \* how many engines there are, over time
  MaxListedSessions  \* how many sessions one look shows

ASSUME SessionsAssumption == MaxEngines \in Nat /\ MaxListedSessions \in Nat

VARIABLES
  tracer,    \* id -> the engine that has it: [at, created]
  sessions,  \* the sessions there are, by [id, created]
  listed,    \* id -> the sessions its engine has still to look at
  condemned, \* id -> the one it is about to stop, in a set
  robbed     \* whether a running engine has lost its session

sessionsVars == <<tracer, sessions, listed, condemned, robbed>>

Nobody == [at |-> "off", created |-> 0]
SessionName(p) == [id |-> p, created |-> tracer[p].created]
Owns(s) == tracer[s.id].at # "off" /\ tracer[s.id].created = s.created
\* What names an engine that has been.
Known == sessions \union UNION {listed[p] \union condemned[p] : p \in EngineIds}
-----------------------------------------------------------------------------
SessionsInit ==
  /\ tracer = [p \in EngineIds |-> Nobody] /\ sessions = {}
  /\ listed = [p \in EngineIds |-> {}] /\ condemned = [p \in EngineIds |-> {}] /\ robbed = FALSE

\* A creation time that no engine of this id had which somebody remembers.
TracerComes(p) ==
  /\ tracer[p].at = "off"
  /\ \E t \in 1..MaxEngines :
       /\ \A s \in Known : s.id = p => s.created < t
       /\ \A u \in 1..(t - 1) : \E s \in Known : s.id = p /\ s.created >= u
       /\ tracer' = [tracer EXCEPT ![p] = [at |-> "list", created |-> t]]
  /\ UNCHANGED <<sessions, listed, condemned, robbed>>

\* stopStaleSessions: the query fails, or shows some of the sessions.
ListSessions(p) ==
  /\ tracer[p].at = "list"
  /\ tracer' = [tracer EXCEPT ![p].at = "clean"]
  /\ \E some \in SUBSET sessions :
       /\ Cardinality(some) <= MaxListedSessions
       /\ listed' = [listed EXCEPT ![p] = some]
  /\ UNCHANGED <<sessions, condemned, robbed>>

\* A slip: a process that may not be opened is taken for a dead one.
OwnerRunningIfOpened(s, opened) == opened /\ Owns(s)

\* A process that may not be opened is taken for the owner.
OwnerRunning(s, opened) == tracer[s.id].at # "off" /\ (opened => Owns(s))

CheckSession(p, s) ==
  /\ tracer[p].at = "clean" /\ condemned[p] = {} /\ s \in listed[p]
  /\ listed' = [listed EXCEPT ![p] = @ \ {s}]
  /\ \E opened \in BOOLEAN :
       condemned' = [condemned EXCEPT ![p] = IF OwnerRunning(s, opened) THEN {} ELSE {s}]
  /\ UNCHANGED <<tracer, sessions, robbed>>

\* By name: the session may be gone, and another of that name cannot be there.
StopStale(p) ==
  /\ condemned[p] # {} /\ condemned' = [condemned EXCEPT ![p] = {}]
  /\ sessions' = sessions \ condemned[p]
  /\ robbed' = (robbed \/ \E s \in condemned[p] \intersect sessions : Owns(s))
  /\ UNCHANGED <<tracer, listed>>

StartTrace(p) ==
  /\ tracer[p].at = "clean" /\ listed[p] = {} /\ condemned[p] = {}
  /\ \/ /\ sessions' = sessions \union {SessionName(p)}
        /\ tracer' = [tracer EXCEPT ![p].at = "tracing"]
     \/ tracer' = [tracer EXCEPT ![p] = Nobody] /\ UNCHANGED sessions
  /\ UNCHANGED <<listed, condemned, robbed>>

\* Stop, or the abort of a start that fails further on.
StopTrace(p) ==
  /\ tracer[p].at = "tracing"
  /\ sessions' = sessions \ {SessionName(p)} /\ tracer' = [tracer EXCEPT ![p] = Nobody]
  /\ UNCHANGED <<listed, condemned, robbed>>

KillTracer(p) ==
  /\ tracer[p].at # "off" /\ tracer' = [tracer EXCEPT ![p] = Nobody]
  /\ listed' = [listed EXCEPT ![p] = {}] /\ condemned' = [condemned EXCEPT ![p] = {}]
  /\ UNCHANGED <<sessions, robbed>>

SessionsNext ==
  \E p \in EngineIds :
    \/ TracerComes(p) \/ ListSessions(p) \/ (\E s \in listed[p] : CheckSession(p, s)) \/ StopStale(p)
    \/ StartTrace(p) \/ StopTrace(p) \/ KillTracer(p)

SessionsSpec == SessionsInit /\ [][SessionsNext]_sessionsVars

SessionsTypeOK ==
  /\ \A p \in EngineIds : /\ tracer[p].at \in {"off", "list", "clean", "tracing"}
                          /\ Cardinality(listed[p]) <= MaxListedSessions /\ Cardinality(condemned[p]) <= 1
  /\ sessions \subseteq [id : EngineIds, created : 1..MaxEngines]
-----------------------------------------------------------------------------
\* Cleaning up after engines that were killed takes the session of none that
\* runs, whatever becomes of an owner between the look at it and the stop, and
\* every engine that traces has its session.
LiveSessionsStay ==
  /\ ~robbed
  /\ \A p \in EngineIds : tracer[p].at = "tracing" => SessionName(p) \in sessions
=============================================================================
