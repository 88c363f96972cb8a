----------------------------- MODULE EgressGate ------------------------------
(***************************************************************************)
(* What the egress proxy promises, without sockets, locks, goroutines or   *)
(* records: clients are admitted while the gate is open, an admitted one   *)
(* reaches at most one destination and only one it is granted, and once    *)
(* the gate is shut nobody is admitted, everybody admitted leaves, and the *)
(* run is settled.                                                         *)
(***************************************************************************)
CONSTANTS Conns, Destinations

VARIABLES
  grants,  \* the destinations the run's configuration opens
  gate,    \* "open", "shut" or "settled"
  stage,   \* stage[c]: "out", "in" (admitted), "through" (reached its destination), "over"
  dest     \* dest[c]: what c has reached, a set of at most one destination

gateVars == <<grants, gate, stage, dest>>

Init ==
  /\ grants \subseteq Destinations
  /\ gate = "open"
  /\ stage = [c \in Conns |-> "out"]
  /\ dest = [c \in Conns |-> {}]

Admit(c) ==
  /\ gate = "open" /\ stage[c] = "out"
  /\ stage' = [stage EXCEPT ![c] = "in"]
  /\ UNCHANGED <<grants, gate, dest>>

PassThrough(c, d) ==
  /\ stage[c] = "in" /\ d \in grants
  /\ stage' = [stage EXCEPT ![c] = "through"]
  /\ dest' = [dest EXCEPT ![c] = {d}]
  /\ UNCHANGED <<grants, gate>>

Leave(c) ==
  /\ stage[c] \in {"in", "through"}
  /\ stage' = [stage EXCEPT ![c] = "over"]
  /\ UNCHANGED <<grants, gate, dest>>

Shut ==
  /\ gate = "open"
  /\ gate' = "shut"
  /\ UNCHANGED <<grants, stage, dest>>

Settle ==
  /\ gate = "shut"
  /\ gate' = "settled"
  /\ UNCHANGED <<grants, stage, dest>>

Next ==
  \/ Shut \/ Settle
  \/ \E c \in Conns : Admit(c) \/ Leave(c) \/ \E d \in Destinations : PassThrough(c, d)

Safety == Init /\ [][Next]_gateVars

Spec ==
  /\ Safety
  /\ WF_gateVars(Settle)
  /\ \A c \in Conns : WF_gateVars(gate # "open" /\ Leave(c))
=============================================================================
