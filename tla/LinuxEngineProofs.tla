-------------------------- MODULE LinuxEngineProofs --------------------------
(***************************************************************************)
(* Theorems about LinuxEngine, for every set of configurations and events  *)
(* and every size of the tracer's channel.                                 *)
(***************************************************************************)
EXTENDS LinuxEngine, SequenceTheorems, TLAPS

(***************************************************************************)
(* The agendas.  Each is what is left of one of the plans the engine       *)
(* follows; no plan has a step twice.                                      *)
(***************************************************************************)
Plans ==
  { <<"snapshot", "audit", "trace", "choose">>,
    <<"audit", "start">>,
    <<"wait">>,
    <<"diff", "collect", "close", "join", "urls", "crypto", "unwind">>,
    <<"collect", "judge">>,
    <<"close", "join", "diff", "unwind">>,
    <<"close", "join", "unwind">>,
    <<"close", "join", "collect", "diff", "crypto", "unwind">>,
    <<"close", "join", "collect", "crypto", "unwind">>,
    <<"close", "join", "crypto", "unwind">>,
    <<"collect", "report", "unwind">>,
    <<"start">>, <<"crypto", "unwind">>, <<"unwind">> }

Left(p, i) == SubSeq(p, i, Len(p))
Agendas == {a \in Seq(Steps) : \E p \in Plans : \E i \in 1..(Len(p) + 1) : a = Left(p, i)}

Ahead == ToSet(agenda)
Before(steps) == Ahead \cap steps # {}   \* one of these steps is still ahead

LEMMA PlansTyped ==
  ASSUME NEW p \in Plans
  PROVE  /\ p \in Seq(Steps) /\ Len(p) \in 1..7
         /\ \A i, j \in 1..Len(p) : p[i] = p[j] => i = j
<1>1. p \in Seq(Steps)
  <2>1. <<"snapshot", "audit", "trace", "choose">> \in Seq(Steps)
    BY DEF Steps
  <2>2. <<"audit", "start">> \in Seq(Steps)
    BY DEF Steps
  <2>3. <<"wait">> \in Seq(Steps)
    BY DEF Steps
  <2>4. <<"diff", "collect", "close", "join", "urls", "crypto", "unwind">> \in Seq(Steps)
    BY DEF Steps
  <2>5. <<"collect", "judge">> \in Seq(Steps)
    BY DEF Steps
  <2>6. <<"close", "join", "diff", "unwind">> \in Seq(Steps)
    BY DEF Steps
  <2>7. <<"close", "join", "unwind">> \in Seq(Steps)
    BY DEF Steps
  <2>8. <<"close", "join", "collect", "diff", "crypto", "unwind">> \in Seq(Steps)
    BY DEF Steps
  <2>9. <<"close", "join", "collect", "crypto", "unwind">> \in Seq(Steps)
    BY DEF Steps
  <2>10. <<"close", "join", "crypto", "unwind">> \in Seq(Steps)
    BY DEF Steps
  <2>11. <<"collect", "report", "unwind">> \in Seq(Steps)
    BY DEF Steps
  <2>12. <<"start">> \in Seq(Steps)
    BY DEF Steps
  <2>13. <<"crypto", "unwind">> \in Seq(Steps)
    BY DEF Steps
  <2>14. <<"unwind">> \in Seq(Steps)
    BY DEF Steps
  <2> QED
    BY <2>1, <2>2, <2>3, <2>4, <2>5, <2>6, <2>7, <2>8, <2>9, <2>10, <2>11, <2>12, <2>13, <2>14
       DEF Plans
<1>3. Len(p) \in 1..7
  BY DEF Plans
<1>2. \A i, j \in 1..Len(p) : p[i] = p[j] => i = j
  BY DEF Plans
<1> QED
  BY <1>1, <1>2, <1>3

LEMMA LeftOver ==
  ASSUME NEW p \in Plans, NEW i \in 1..(Len(p) + 1)
  PROVE  /\ Left(p, i) \in Seq(Steps)
         /\ \A s : s \in ToSet(Left(p, i)) <=> \E j \in i..Len(p) : p[j] = s
         /\ i <= Len(p) => /\ Left(p, i) # <<>> /\ Head(Left(p, i)) = p[i]
                           /\ Tail(Left(p, i)) = Left(p, i + 1)
         /\ i > Len(p) => Left(p, i) = <<>>
<1>1. p \in Seq(Steps) /\ Len(p) \in 1..7
  BY PlansTyped
<1>2. /\ Left(p, i) \in Seq(Steps) /\ Len(Left(p, i)) = Len(p) - i + 1
      /\ \A k \in 1..(Len(p) - i + 1) : Left(p, i)[k] = p[i + k - 1]
  BY <1>1 DEF Left
<1>3. \A s : s \in ToSet(Left(p, i)) <=> \E j \in i..Len(p) : p[j] = s
  <2> DEFINE n == Len(p) - i + 1
  <2>1. \A s : s \in ToSet(Left(p, i)) <=> \E k \in 1..n : Left(p, i)[k] = s
    <3>1. DOMAIN Left(p, i) = 1..n
      BY <1>2
    <3> QED
      BY <3>1 DEF ToSet
  <2>2. \A k \in 1..n : (i + k - 1) \in i..Len(p) /\ Left(p, i)[k] = p[i + k - 1]
    BY <1>2
  <2>3. \A j \in i..Len(p) : (j - i + 1) \in 1..n /\ p[j] = Left(p, i)[j - i + 1]
    BY <1>2
  <2>4. ASSUME NEW s, NEW k \in 1..n, Left(p, i)[k] = s
        PROVE  \E j \in i..Len(p) : p[j] = s
    BY <2>2, <2>4
  <2>5. ASSUME NEW s, NEW j \in i..Len(p), p[j] = s
        PROVE  \E k \in 1..n : Left(p, i)[k] = s
    BY <2>3, <2>5
  <2> HIDE DEF n
  <2> QED
    BY <2>1, <2>4, <2>5
<1>4. CASE i <= Len(p)
  <2>1. Left(p, i) # <<>> /\ Head(Left(p, i)) = p[i]
    BY <1>2, <1>4
  <2>2. Tail(Left(p, i)) = Left(p, i + 1)
    <3> DEFINE u == Tail(Left(p, i))
               v == Left(p, i + 1)
    <3>1. u \in Seq(Steps) /\ Len(u) = Len(p) - i /\ \A k \in 1..(Len(p) - i) : u[k] = p[i + k]
      BY <1>2, <1>4
    <3>2. v \in Seq(Steps) /\ Len(v) = Len(p) - i /\ \A k \in 1..(Len(p) - i) : v[k] = p[i + k]
      BY <1>1, <1>4 DEF Left
    <3> QED
      BY <3>1, <3>2, SeqEqual
  <2> QED
    BY <1>2, <1>3, <1>4, <2>2
<1>5. CASE i > Len(p)
  BY <1>2, <1>3, <1>5
<1> QED
  BY <1>4, <1>5

(***************************************************************************)
(* Taking the next step of an agenda.                                      *)
(***************************************************************************)
LEMMA StepTaken ==
  ASSUME agenda \in Agendas, NEW s, At(s), Done
  PROVE  agenda' \in Agendas /\ s \in Ahead /\ Ahead' = Ahead \ {s}
<1>0. PICK p \in Plans : \E i \in 1..(Len(p) + 1) : agenda = Left(p, i)
  BY DEF Agendas
<1>1. PICK i \in 1..(Len(p) + 1) : agenda = Left(p, i)
  BY <1>0
<1>2. Len(p) \in Nat
  OBVIOUS
<1>3. i \in 1..Len(p) /\ p[i] = s
  BY <1>1, LeftOver DEF At
<1>4. agenda' = Left(p, i + 1) /\ (i + 1) \in 1..(Len(p) + 1)
  BY <1>1, <1>3, LeftOver DEF Done
<1>5. agenda' \in Agendas
  BY <1>4, LeftOver DEF Agendas
<1>6. /\ \A t : t \in Ahead <=> \E j \in i..Len(p) : p[j] = t
      /\ \A t : t \in Ahead' <=> \E j \in (i + 1)..Len(p) : p[j] = t
  <2>1. Ahead = ToSet(Left(p, i)) /\ Ahead' = ToSet(Left(p, i + 1))
    BY <1>1, <1>4 DEF Ahead
  <2>2. \A t : t \in ToSet(Left(p, i)) <=> \E j \in i..Len(p) : p[j] = t
    BY LeftOver
  <2>3. \A t : t \in ToSet(Left(p, i + 1)) <=> \E j \in (i + 1)..Len(p) : p[j] = t
    BY <1>4, LeftOver
  <2> QED
    BY <2>1, <2>2, <2>3
<1>7. \A j \in i..Len(p) : p[j] = s <=> j = i
  BY <1>3, PlansTyped
<1>8. i..Len(p) = {i} \cup ((i + 1)..Len(p))
  BY <1>3
<1> QED
  BY <1>3, <1>5, <1>6, <1>7

(***************************************************************************)
(* The order of the steps: what may still follow the one that is next.     *)
(***************************************************************************)
Late == {"diff", "collect", "close", "join", "urls", "crypto", "report", "unwind"}

LEMMA Order ==
  ASSUME agenda \in Agendas, NEW s, At(s)
  PROVE  /\ s \in Steps /\ s \in Ahead /\ Ahead \subseteq Steps
         /\ s = "snapshot" => Ahead \subseteq {"snapshot", "audit", "trace", "choose"}
         /\ s = "audit" => Ahead \subseteq {"audit", "trace", "choose", "start"}
         /\ s = "trace" => Ahead \subseteq {"trace", "choose"}
         /\ s \in {"snapshot", "trace"} => "choose" \in Ahead
         /\ s = "audit" => "choose" \in Ahead \/ "start" \in Ahead
         /\ s \in {"choose", "start", "wait", "judge", "unwind"} => Ahead \subseteq {s}
         /\ s \in Late => Ahead \subseteq Late \cup {"judge"}
         /\ s \in {"diff", "close", "join"} => Ahead \subseteq Late
         /\ s = "join" => "close" \notin Ahead
         /\ s = "urls" => Ahead \subseteq {"urls", "crypto", "unwind"}
         /\ s = "crypto" => Ahead \subseteq {"crypto", "unwind"}
         /\ s = "report" => Ahead \subseteq {"report", "unwind"}
<1>0. PICK p \in Plans : \E i \in 1..(Len(p) + 1) : agenda = Left(p, i)
  BY DEF Agendas
<1>1. PICK i \in 1..(Len(p) + 1) : agenda = Left(p, i)
  BY <1>0
<1>2. /\ i \in 1..Len(p) /\ p[i] = s
      /\ \A t : t \in Ahead <=> \E j \in i..Len(p) : p[j] = t
  BY <1>1, LeftOver DEF Ahead, At
<1>3. s \in Steps /\ s \in Ahead /\ Ahead \subseteq Steps
  BY <1>2, PlansTyped
<1>4. s = "snapshot" => Ahead \subseteq {"snapshot", "audit", "trace", "choose"}
  BY <1>2 DEF Plans
<1>5. s = "audit" => Ahead \subseteq {"audit", "trace", "choose", "start"}
  BY <1>2 DEF Plans
<1>6. s = "trace" => Ahead \subseteq {"trace", "choose"}
  BY <1>2 DEF Plans
<1>7. s \in {"snapshot", "trace"} => "choose" \in Ahead
  <2>1. s \in {"snapshot", "trace"} => Len(p) = 4 /\ p[4] = "choose"
    BY <1>2 DEF Plans
  <2> QED
    BY <1>2, <2>1
<1>8. s = "audit" => "choose" \in Ahead \/ "start" \in Ahead
  BY <1>2 DEF Plans
<1>9. s \in {"choose", "start", "wait", "judge", "unwind"} => Ahead \subseteq {s}
  BY <1>2 DEF Plans
<1>10. s \in Late => Ahead \subseteq Late \cup {"judge"}
  BY <1>2 DEF Plans, Late
<1>11. s \in {"diff", "close", "join"} => Ahead \subseteq Late
  BY <1>2 DEF Plans, Late
<1>12. s = "join" => "close" \notin Ahead
  BY <1>2 DEF Plans
<1>13. s = "urls" => Ahead \subseteq {"urls", "crypto", "unwind"}
  BY <1>2 DEF Plans
<1>14. s = "crypto" => Ahead \subseteq {"crypto", "unwind"}
  BY <1>2 DEF Plans
<1>15. s = "report" => Ahead \subseteq {"report", "unwind"}
  BY <1>2 DEF Plans
<1> QED
  BY <1>3, <1>4, <1>5, <1>6, <1>7, <1>8, <1>9, <1>10, <1>11, <1>12, <1>13, <1>14, <1>15

LEMMA WaitIsAlone ==
  ASSUME agenda \in Agendas, "wait" \in Ahead
  PROVE  At("wait")
<1>0. PICK p \in Plans : \E i \in 1..(Len(p) + 1) : agenda = Left(p, i)
  BY DEF Agendas
<1>1. PICK i \in 1..(Len(p) + 1) : agenda = Left(p, i)
  BY <1>0
<1>2. PICK j \in i..Len(p) : p[j] = "wait"
  <2>1. Ahead = ToSet(Left(p, i))
    BY <1>1 DEF Ahead
  <2> QED
    BY <2>1, LeftOver
<1>3. j = 1 /\ Len(p) = 1
  <2>1. Len(p) \in 1..7 /\ j \in 1..Len(p)
    BY PlansTyped
  <2> QED
    BY <1>2 DEF Plans
<1>4. i = 1 /\ p[i] = "wait"
  BY <1>2, <1>3
<1> QED
  BY <1>1, <1>4, LeftOver DEF At
------------------------------------------------------------------------------
(***************************************************************************)
(* The inductive invariant.                                                *)
(***************************************************************************)
\* Which attempt has which steps ahead of it.
AgendaInv ==
  /\ agenda \in Agendas
  /\ Before({"snapshot", "trace", "choose", "judge", "urls"}) => attempt = "full"
  /\ "report" \in Ahead => attempt = "dry"
  /\ attempt = "dry" => Ahead \subseteq {"audit", "start", "wait", "collect", "report", "unwind"}

\* An inner process lives only while the engine waits for it; an attempt that
\* has still to start it has none, nor has the attempt that may come after it.
ChildInv ==
  /\ \A k \in Attempts :
       /\ Live(k) => k = attempt /\ "wait" \in Ahead
       /\ child[k] = "gone" <=> status[k] # "none"
       /\ child[k] # "gone" => relayed[k] = 0
       /\ child[k] \in {"none", "init"} => buffer[k] = 0
       /\ child[k] # "none" => k = attempt \/ (k = "full" /\ attempt = "reduced")
  /\ Before({"choose", "start"}) => child[attempt] = "none"

\* The pipe of an attempt is held from its opening to collect, or for good when
\* the wait was lost; what is in it and not relayed is so while it is held.
PipeInv ==
  \A k \in Attempts :
    /\ reader[k] => \/ status[k] = "lost"
                    \/ /\ k = attempt /\ "audit" \notin Ahead
                       /\ Before({"choose", "start", "wait", "collect"})
    /\ relayed[k] # buffer[k] => reader[k]
    /\ Live(k) /\ writers[k] # {} => reader[k]

\* The tracer is open until a close is behind the engine; while it is off
\* there is neither goroutine nor event.
TracerInv ==
  /\ attempt = "dry" \/ "trace" \in Ahead => tracer = "off"
  /\ tracer = "open" => Before({"choose", "start", "wait", "judge", "close"})
  /\ Before({"choose", "start", "wait", "judge"}) => tracer \in {"off", "open"}
  /\ tracer = "off" => stopVar = "nil" /\ \A k \in Attempts : consumer[k] = "off"
  /\ (\A k \in Attempts : consumer[k] = "off")
       => ring = {} /\ queue = <<>> /\ captured = {} /\ httpEvents = <<>>
  /\ \A k \in Attempts :
       /\ consumer[k] # "off" => child[k] # "none" /\ k # "dry"
       /\ Live(k) /\ tracer = "open" => consumer[k] # "off"
       /\ consumer[k] \in {"have", "write"} => held[k] \in Events
       /\ consumer[k] = "done" => tracer = "closed" /\ queue = <<>>

\* A closed stop channel is of an attempt that is over; the attempt under way
\* has put its own in the variable.
StopInv ==
  /\ \A k \in stopClosed : child[k] = "gone"
  /\ "wait" \in Ahead => attempt \notin stopClosed /\ stopVar \in {"nil", attempt}
  /\ "wait" \in Ahead /\ tracer = "open" => stopVar = attempt

\* What run returns, what it has written, and that a full attempt that ended
\* well goes through the URL check.
ResultInv ==
  /\ result = "none" => Before({"choose", "start", "wait", "report"})
  /\ Before({"choose", "start", "wait", "judge", "report", "diff"}) => emitted = <<>>
  /\ "crypto" \in ToSet(emitted) => Ahead \subseteq {"unwind"}
  /\ IsInjective(emitted)
  /\ status["full"] = "ok" =>
       /\ attempt = "full"
       /\ "wait" \in Ahead \/ "urls" \in Ahead \/ Ahead \subseteq {"crypto", "unwind"}

\* Without a fallback no event is lost between the channel and the slice, and
\* past the join nothing moves any more.
InHand == {held[k] : k \in {j \in Attempts : consumer[j] \in {"have", "write"}}}
EventInv ==
  ~FellBack =>
    /\ captured = ToSet(queue) \cup InHand \cup ToSet(httpEvents)
    /\ \A k \in Attempts : consumer[k] = "write" => base[k] = httpEvents
    /\ ~Before({"choose", "start", "wait", "judge", "join"}) =>
         \A k \in Attempts : consumer[k] \in {"off", "done"}
    /\ "crypto" \in ToSet(emitted) => reported = captured
    /\ status["full"] = "ok" /\ ~Before({"wait", "urls"}) /\ cfg.rules =>
         violations = captured \ Permitted

EngineInv ==
  /\ TypeOK /\ AgendaInv /\ ChildInv /\ PipeInv /\ TracerInv /\ StopInv /\ ResultInv
  /\ EventInv
------------------------------------------------------------------------------
(***************************************************************************)
(* A plan that is begun, and the one an attempt's end begins.              *)
(***************************************************************************)
LEMMA WholePlan ==
  ASSUME NEW p \in Plans
  PROVE  p \in Agendas /\ \A t : t \in ToSet(p) <=> \E j \in 1..Len(p) : p[j] = t
<1>1. p \in Seq(Steps) /\ Len(p) \in 1..7
  BY PlansTyped
<1>2. p = Left(p, 1) /\ 1 \in 1..(Len(p) + 1)
  <2>1. Left(p, 1) \in Seq(Steps) /\ Len(Left(p, 1)) = Len(p)
        /\ \A k \in 1..Len(p) : Left(p, 1)[k] = p[k]
    BY <1>1 DEF Left
  <2> QED
    BY <1>1, <2>1
<1>3. p \in Agendas
  BY <1>1, <1>2 DEF Agendas
<1>4. ToSet(p) = ToSet(Left(p, 1))
  BY <1>2
<1> QED
  BY <1>2, <1>3, LeftOver

LEMMA PlanBegun ==
  ASSUME NEW p \in Plans, agenda' = p
  PROVE  agenda' \in Agendas /\ \A t : t \in Ahead' <=> \E j \in 1..Len(p) : p[j] = t
BY WholePlan DEF Ahead

LEMMA ShortPlans ==
  /\ agenda' = <<"start">> => agenda' \in Agendas /\ Ahead' = {"start"}
  /\ agenda' = <<"audit", "start">> => agenda' \in Agendas /\ Ahead' = {"audit", "start"}
  /\ agenda' = <<"wait">> => agenda' \in Agendas /\ Ahead' = {"wait"}
  /\ agenda' = <<"unwind">> => agenda' \in Agendas /\ Ahead' = {"unwind"}
  /\ agenda' = <<"crypto", "unwind">> => agenda' \in Agendas /\ Ahead' = {"crypto", "unwind"}
<1>1. ASSUME agenda' = <<"start">> PROVE agenda' \in Agendas /\ Ahead' = {"start"}
  BY <1>1, PlanBegun DEF Plans
<1>2. ASSUME agenda' = <<"audit", "start">> PROVE agenda' \in Agendas /\ Ahead' = {"audit", "start"}
  BY <1>2, PlanBegun DEF Plans
<1>3. ASSUME agenda' = <<"wait">> PROVE agenda' \in Agendas /\ Ahead' = {"wait"}
  BY <1>3, PlanBegun DEF Plans
<1>4. ASSUME agenda' = <<"unwind">> PROVE agenda' \in Agendas /\ Ahead' = {"unwind"}
  BY <1>4, PlanBegun DEF Plans
<1>5. ASSUME agenda' = <<"crypto", "unwind">>
      PROVE  agenda' \in Agendas /\ Ahead' = {"crypto", "unwind"}
  BY <1>5, PlanBegun DEF Plans
<1> QED
  BY <1>1, <1>2, <1>3, <1>4, <1>5

LEMMA AfterWaitPlan ==
  ASSUME NEW k \in Attempts, NEW s \in Statuses, s # "none" \/ k = "dry",
         agenda' = AfterWait(k, s)
  PROVE  /\ agenda' \in Agendas /\ Ahead' \subseteq Late \cup {"judge"}
         /\ "judge" \in Ahead' => k = "full" /\ s # "ok"
         /\ "urls" \in Ahead' <=> k = "full" /\ s = "ok"
         /\ k = "dry" => Ahead' = {"collect", "report", "unwind"}
         /\ k # "dry" => "report" \notin Ahead'
         /\ k # "dry" => "close" \in Ahead' \/ "judge" \in Ahead'
         /\ k # "dry" => "join" \in Ahead' \/ "judge" \in Ahead'
         /\ s # "lost" => "collect" \in Ahead'
<1>1. AfterWait(k, s) \in Plans
  BY DEF AfterWait, Plans, Attempts, Statuses
<1> DEFINE p == AfterWait(k, s)
<1>2. agenda' \in Agendas /\ \A t : t \in Ahead' <=> \E j \in 1..Len(p) : p[j] = t
  BY <1>1, PlanBegun
<1>3. Ahead' \subseteq Late \cup {"judge"}
  BY <1>2 DEF AfterWait, Attempts, Statuses, Late
<1>4. "judge" \in Ahead' => k = "full" /\ s # "ok"
  BY <1>2 DEF AfterWait, Attempts, Statuses
<1>5. "urls" \in Ahead' => k = "full" /\ s = "ok"
  BY <1>2 DEF AfterWait, Attempts, Statuses
<1>6. k = "full" /\ s = "ok" => "urls" \in Ahead'
  BY <1>2 DEF AfterWait
<1>7. k = "dry" => Ahead' = {"collect", "report", "unwind"}
  BY <1>2 DEF AfterWait
<1>8. k # "dry" => "report" \notin Ahead'
  BY <1>2 DEF AfterWait, Attempts, Statuses
<1>9. k # "dry" => ("close" \in Ahead' /\ "join" \in Ahead') \/ "judge" \in Ahead'
  <2>1. k # "dry" => \/ p[1] = "close" /\ p[2] = "join" /\ Len(p) >= 2
                     \/ p[2] = "judge" /\ Len(p) = 2
                     \/ p[3] = "close" /\ p[4] = "join" /\ Len(p) = 7
    BY DEF AfterWait, Attempts, Statuses
  <2> QED
    BY <1>2, <2>1
<1>10. s # "lost" => "collect" \in Ahead'
  <2>1. s # "lost" => \E j \in 1..Len(p) : p[j] = "collect" /\ j \in 1..3
    BY DEF AfterWait, Attempts, Statuses
  <2> QED
    BY <1>2, <2>1
<1> QED
  BY <1>2, <1>3, <1>4, <1>5, <1>6, <1>7, <1>8, <1>9, <1>10
------------------------------------------------------------------------------
(***************************************************************************)
(* The configuration, and what a sequence holds.                           *)
(***************************************************************************)
LEMMA ConfigTyped ==
  ASSUME NEW c \in Configs
  PROVE  /\ c.mode \in {"run", "dry"} /\ c.diff \in BOOLEAN /\ c.audit \in BOOLEAN
         /\ c.trace \in BOOLEAN /\ c.crypto \in BOOLEAN /\ c.rules \in BOOLEAN
         /\ c.strict \in BOOLEAN
BY EngineAssumption

LEMMA Appended ==
  ASSUME NEW S, NEW q \in Seq(S), NEW e \in S
  PROVE  /\ Append(q, e) \in Seq(S) /\ ToSet(Append(q, e)) = ToSet(q) \cup {e}
         /\ Len(Append(q, e)) = Len(q) + 1
         /\ IsInjective(q) /\ e \notin ToSet(q) => IsInjective(Append(q, e))
<1>1. /\ Append(q, e) \in Seq(S) /\ Len(Append(q, e)) = Len(q) + 1 /\ Len(q) \in Nat
      /\ \A i \in 1..Len(q) : Append(q, e)[i] = q[i]
      /\ Append(q, e)[Len(q) + 1] = e
  OBVIOUS
<1>2. DOMAIN q = 1..Len(q) /\ DOMAIN Append(q, e) = 1..(Len(q) + 1)
  OBVIOUS
<1>3. ToSet(Append(q, e)) = ToSet(q) \cup {e}
  BY <1>1 DEF ToSet
<1>4. IsInjective(q) /\ e \notin ToSet(q) => IsInjective(Append(q, e))
  <2>1. ASSUME IsInjective(q), e \notin ToSet(q),
               NEW i \in 1..(Len(q) + 1), NEW j \in 1..(Len(q) + 1),
               Append(q, e)[i] = Append(q, e)[j]
        PROVE  i = j
    <3>1. \A n \in 1..Len(q) : q[n] # e
      BY <2>1 DEF ToSet
    <3>2. \A m, n \in 1..Len(q) : q[m] = q[n] => m = n
      BY <2>1 DEF IsInjective
    <3> QED
      BY <2>1, <3>1, <3>2
  <2> QED
    BY <2>1 DEF IsInjective
<1> QED
  BY <1>3, <1>4

LEMMA Taken ==
  ASSUME NEW S, NEW q \in Seq(S), q # <<>>
  PROVE  /\ Head(q) \in S /\ Tail(q) \in Seq(S) /\ Len(Tail(q)) <= Len(q)
         /\ ToSet(q) = {Head(q)} \cup ToSet(Tail(q))
<1>1. /\ Tail(q) \in Seq(S) /\ Len(q) \in Nat \ {0} /\ Len(Tail(q)) = Len(q) - 1
      /\ \A i \in 1..(Len(q) - 1) : Tail(q)[i] = q[i + 1]
      /\ Head(q) = q[1] /\ Head(q) \in S
  OBVIOUS
<1>2. DOMAIN q = 1..Len(q) /\ DOMAIN Tail(q) = 1..(Len(q) - 1)
  OBVIOUS
<1>3. \A i \in 2..Len(q) : (i - 1) \in 1..(Len(q) - 1) /\ q[i] = Tail(q)[i - 1]
  OBVIOUS
<1>4. ToSet(q) \subseteq {Head(q)} \cup ToSet(Tail(q))
  <2>1. ASSUME NEW i \in 1..Len(q) PROVE q[i] \in {Head(q)} \cup ToSet(Tail(q))
    <3>1. CASE i = 1
      BY <3>1
    <3>2. CASE i \in 2..Len(q)
      BY <1>2, <1>3, <3>2 DEF ToSet
    <3> QED
      BY <3>2
  <2> QED
    BY <2>1 DEF ToSet
<1>5. {Head(q)} \cup ToSet(Tail(q)) \subseteq ToSet(q)
  BY DEF ToSet
<1> QED
  BY <1>4, <1>5

Kinds == {"diff", "crypto", "dryrun"}

LEMMA NothingIn == ToSet(<<>>) = {} /\ IsInjective(<<>>)
BY DEF ToSet, IsInjective

LEMMA Members ==
  ASSUME NEW S, NEW q \in Seq(S)
  PROVE  ToSet(q) \subseteq S
BY DEF ToSet

LEMMA FailurePlans ==
  /\ agenda' = <<"close", "join", "diff", "unwind">> =>
       agenda' \in Agendas /\ Ahead' = {"close", "join", "diff", "unwind"}
  /\ agenda' = <<"close", "join", "unwind">> =>
       agenda' \in Agendas /\ Ahead' = {"close", "join", "unwind"}
<1>1. ASSUME agenda' = <<"close", "join", "diff", "unwind">>
      PROVE  agenda' \in Agendas /\ Ahead' = {"close", "join", "diff", "unwind"}
  BY <1>1, PlanBegun DEF Plans
<1>2. ASSUME agenda' = <<"close", "join", "unwind">>
      PROVE  agenda' \in Agendas /\ Ahead' = {"close", "join", "unwind"}
  BY <1>2, PlanBegun DEF Plans
<1> QED
  BY <1>1, <1>2

\* Once the join is behind an engine that did not fall back, what was captured
\* is what the slice holds.
LEMMA Settled ==
  ASSUME EngineInv, ~Before({"choose", "start", "wait", "judge", "join"}), ~FellBack
  PROVE  captured = ToSet(httpEvents)
<1>1. \A k \in Attempts : consumer[k] \in {"off", "done"}
  BY DEF EngineInv, EventInv
<1>2. InHand = {}
  BY <1>1 DEF InHand
<1>3. queue = <<>>
  BY <1>1 DEF EngineInv, TracerInv
<1> QED
  BY <1>2, <1>3, NothingIn DEF EngineInv, EventInv
------------------------------------------------------------------------------
(***************************************************************************)
(* Every step keeps the invariant.                                         *)
(***************************************************************************)
USE DEF pipeVars, childVars, eventVars, stopVars, outputVars, Attempts

LEMMA SnapshotKeeps == ASSUME EngineInv, Snapshot PROVE EngineInv'
<1>1. agenda' \in Agendas /\ "snapshot" \in Ahead /\ Ahead' = Ahead \ {"snapshot"}
  BY StepTaken DEF Snapshot, EngineInv, AgendaInv
<1>2. "choose" \in Ahead /\ Ahead \subseteq {"snapshot", "audit", "trace", "choose"}
  BY Order DEF Snapshot, EngineInv, AgendaInv
<1>3. TypeOK'
  <2>1. before' \in BOOLEAN
    BY ConfigTyped DEF EngineInv, TypeOK, Snapshot
  <2> QED
    BY <1>1, <2>1 DEF EngineInv, TypeOK, Snapshot, Agendas
<1>4. AgendaInv'
  BY <1>1 DEF EngineInv, AgendaInv, Snapshot, Before
<1>5. ChildInv'
  BY <1>1 DEF EngineInv, ChildInv, Snapshot, Before, Live
<1>6. PipeInv'
  BY <1>1 DEF EngineInv, PipeInv, Snapshot, Before, Live
<1>7. TracerInv'
  BY <1>1 DEF EngineInv, TracerInv, Snapshot, Before, Live
<1>8. StopInv'
  BY <1>1 DEF EngineInv, StopInv, Snapshot
<1>9. ResultInv'
  BY <1>1 DEF EngineInv, ResultInv, Snapshot, Before
<1>10. EventInv'
  BY <1>1 DEF EngineInv, EventInv, Snapshot, Before, FellBack, InHand
<1> QED
  BY <1>3, <1>4, <1>5, <1>6, <1>7, <1>8, <1>9, <1>10 DEF EngineInv

LEMMA OpenAuditKeeps == ASSUME EngineInv, OpenAudit PROVE EngineInv'
<1>1. agenda' \in Agendas /\ "audit" \in Ahead /\ Ahead' = Ahead \ {"audit"}
  BY StepTaken DEF OpenAudit, EngineInv, AgendaInv
<1>2. Ahead \subseteq {"audit", "trace", "choose", "start"} /\ ("choose" \in Ahead \/ "start"
   \in Ahead)
  BY Order DEF OpenAudit, EngineInv, AgendaInv
<1>3. TypeOK'
  <2>1. /\ attempt \in Attempts /\ reader \in [Attempts -> BOOLEAN]
        /\ writers \in [Attempts -> SUBSET {"engine", "child"}]
    BY DEF EngineInv, TypeOK
  <2>2. reader' \in [Attempts -> BOOLEAN]
    <3>1. reader' \in {reader, [reader EXCEPT ![attempt] = TRUE]}
      BY DEF OpenAudit
    <3> QED
      BY <2>1, <3>1
  <2>3. writers' \in [Attempts -> SUBSET {"engine", "child"}]
    <3>1. writers' \in {writers, [writers EXCEPT ![attempt] = {"engine"}]}
      BY DEF OpenAudit
    <3> QED
      BY <2>1, <3>1
  <2> QED
    BY <1>1, <2>2 DEF EngineInv, TypeOK, OpenAudit, Agendas
<1>4. AgendaInv'
  BY <1>1 DEF EngineInv, AgendaInv, OpenAudit, Before
<1>5. ChildInv'
  BY <1>1 DEF EngineInv, ChildInv, OpenAudit, Before, Live
<1>6. PipeInv'
  BY <1>1, <1>2 DEF EngineInv, PipeInv, OpenAudit, TypeOK, Before, Live
<1>7. TracerInv'
  BY <1>1 DEF EngineInv, TracerInv, OpenAudit, Before, Live
<1>8. StopInv'
  BY <1>1 DEF EngineInv, StopInv, OpenAudit
<1>9. ResultInv'
  BY <1>1 DEF EngineInv, ResultInv, OpenAudit, Before
<1>10. EventInv'
  BY <1>1 DEF EngineInv, EventInv, OpenAudit, Before, FellBack, InHand
<1> QED
  BY <1>3, <1>4, <1>5, <1>6, <1>7, <1>8, <1>9, <1>10 DEF EngineInv

LEMMA AuditFailsKeeps == ASSUME EngineInv, AuditFails PROVE EngineInv'
<1>1. "audit" \in Ahead /\ Ahead \subseteq {"audit", "trace", "choose", "start"} /\ ("choose"
   \in Ahead \/ "start" \in Ahead)
  BY Order DEF AuditFails, EngineInv, AgendaInv
<1>2. /\ agenda' \in Agendas
      /\ attempt = "dry" => Ahead' = Ahead \ {"audit"}
      /\ attempt = "full" => Ahead' = {"unwind"}
      /\ attempt = "reduced" => Ahead' = {"crypto", "unwind"}
  BY StepTaken, ShortPlans DEF AuditFails, EngineInv, AgendaInv, Continue, AfterFailure
<1>3. emitted = <<>>
  BY <1>1 DEF EngineInv, ResultInv, Before
<1>4. ~FellBack => \A j \in Attempts : consumer[j] = "off"
  BY <1>1 DEF EngineInv, TracerInv, ChildInv, Before, FellBack
<1>5. /\ tracer \in {"off", "open"} /\ (attempt = "dry" => tracer = "off")
      /\ tracer' \in {"off", "closing", "closed"} \/ tracer' = tracer
      /\ attempt = "dry" => tracer' = tracer
      /\ tracer' = "open" => attempt = "dry"
      /\ tracer = "off" <=> tracer' = "off"
      /\ tracer = "closed" <=> tracer' = "closed"
      /\ \A k \in Attempts : ~Live(k)
      /\ UNCHANGED <<child, consumer, ring, queue, captured, httpEvents, held, stopVar>>
  BY <1>1 DEF AuditFails, CloseTracer, EngineInv, TracerInv, Before, ChildInv, Live
<1>6. TypeOK'
  BY <1>2 DEF EngineInv, TypeOK, AuditFails, Agendas, CloseTracer
<1>7. AgendaInv'
  BY <1>2 DEF EngineInv, TypeOK, AgendaInv, AuditFails, Before
<1>8. ChildInv'
  BY <1>1 DEF EngineInv, ChildInv, AuditFails, Before, Live
<1>9. PipeInv'
  BY <1>1 DEF EngineInv, PipeInv, AuditFails, Live
<1>10. TracerInv'
  <2>1. attempt \in Attempts /\ cfg.strict \in BOOLEAN
    BY ConfigTyped DEF EngineInv, TypeOK
  <2>2. attempt' \in Attempts /\ (attempt' # attempt => attempt' = "reduced" /\ ~cfg.strict)
    BY DEF AuditFails, EngineInv, TypeOK
  <2>3. attempt' = "dry" \/ "trace" \in Ahead' => tracer' = "off"
    BY <1>2, <1>5, <2>1, <2>2
  <2>4. tracer' = "open" => Before({"choose", "start", "wait", "judge", "close"})'
    BY <1>5
  <2>5. Before({"choose", "start", "wait", "judge"})' => tracer' \in {"off", "open"}
    BY <1>2, <1>5, <2>1 DEF Before
  <2>6. \A k \in Attempts : ~Live(k)'
    BY <1>5 DEF Live
  <2>7. /\ tracer' = "off" => stopVar' = "nil" /\ \A k \in Attempts : consumer'[k] = "off"
        /\ (\A k \in Attempts : consumer'[k] = "off")
             => ring' = {} /\ queue' = <<>> /\ captured' = {} /\ httpEvents' = <<>>
    BY <1>5 DEF EngineInv, TracerInv
  <2>8. ASSUME NEW k \in Attempts
        PROVE  /\ consumer'[k] # "off" => child'[k] # "none" /\ k # "dry"
               /\ consumer'[k] \in {"have", "write"} => held'[k] \in Events
               /\ consumer'[k] = "done" => tracer' = "closed" /\ queue' = <<>>
    BY <1>5 DEF EngineInv, TracerInv
  <2> QED
    BY <2>3, <2>4, <2>5, <2>6, <2>7, <2>8 DEF TracerInv
<1>11. StopInv'
  <2>1. tracer' = "open" => tracer = "open"
    BY <1>5
  <2>2. attempt \in Attempts
    BY DEF EngineInv, TypeOK
  <2>3. "wait" \notin Ahead'
    BY <1>1, <1>2, <2>2
  <2> QED
    BY <2>3 DEF EngineInv, StopInv, AuditFails
<1>12. ResultInv'
  BY <1>1, <1>2 DEF EngineInv, ResultInv, AuditFails, Before
<1>13. EventInv'
  BY <1>1 DEF EngineInv, EventInv, AuditFails, ChildInv, TracerInv, Before, FellBack, InHand
<1> QED
  BY <1>6, <1>7, <1>8, <1>9, <1>10, <1>11, <1>12, <1>13 DEF EngineInv

LEMMA StartTracerKeeps == ASSUME EngineInv, StartTracer PROVE EngineInv'
<1>1. agenda' \in Agendas /\ "trace" \in Ahead /\ Ahead' = Ahead \ {"trace"}
  BY StepTaken DEF StartTracer, EngineInv, AgendaInv
<1>2. "choose" \in Ahead /\ Ahead \subseteq {"trace", "choose"}
  BY Order DEF StartTracer, EngineInv, AgendaInv
<1>3. tracer = "off" /\ tracer' \in {"off", "open"}
  BY <1>1 DEF EngineInv, TracerInv, StartTracer
<1>4. TypeOK'
  BY <1>1 DEF EngineInv, TypeOK, StartTracer, Agendas
<1>5. AgendaInv'
  BY <1>1 DEF EngineInv, AgendaInv, StartTracer, Before
<1>6. ChildInv'
  BY <1>1 DEF EngineInv, ChildInv, StartTracer, Before, Live
<1>7. PipeInv'
  BY <1>1 DEF EngineInv, PipeInv, StartTracer, Before, Live
<1>8. TracerInv'
  BY <1>1, <1>2 DEF EngineInv, TracerInv, StartTracer, ChildInv, Before, Live, AgendaInv
<1>9. StopInv'
  BY <1>1, <1>2 DEF EngineInv, StopInv, StartTracer
<1>10. ResultInv'
  BY <1>1 DEF EngineInv, ResultInv, StartTracer, Before
<1>11. EventInv'
  BY <1>1 DEF EngineInv, EventInv, StartTracer, Before, FellBack, InHand
<1> QED
  BY <1>4, <1>5, <1>6, <1>7, <1>8, <1>9, <1>10, <1>11 DEF EngineInv

LEMMA ChooseFullKeeps == ASSUME EngineInv, ChooseFull PROVE EngineInv'
<1>1. "choose" \in Ahead /\ Ahead \subseteq {"choose"}
  BY Order DEF ChooseFull, EngineInv, AgendaInv
<1>2. agenda' \in Agendas /\ Ahead' = {"start"}
  BY ShortPlans DEF ChooseFull, Continue
<1>3. TypeOK'
  BY <1>2 DEF EngineInv, TypeOK, ChooseFull, Agendas
<1>4. AgendaInv'
  BY <1>2 DEF AgendaInv, Before
<1>5. ChildInv'
  BY <1>1 DEF EngineInv, ChildInv, ChooseFull, Before, Live
<1>6. PipeInv'
  BY <1>2 DEF EngineInv, PipeInv, ChooseFull, Before, Live
<1>7. TracerInv'
  BY <1>1, <1>2 DEF EngineInv, TracerInv, ChooseFull, Before, Live
<1>8. StopInv'
  BY <1>2 DEF EngineInv, StopInv, ChooseFull
<1>9. ResultInv'
  BY <1>1, <1>2 DEF EngineInv, ResultInv, ChooseFull, Before
<1>10. EventInv'
  BY <1>1 DEF EngineInv, EventInv, ChooseFull, ChildInv, TracerInv, Before, FellBack, InHand
<1> QED
  BY <1>3, <1>4, <1>5, <1>6, <1>7, <1>8, <1>9, <1>10 DEF EngineInv

LEMMA ChooseReducedKeeps == ASSUME EngineInv, ChooseReduced PROVE EngineInv'
<1>1. "choose" \in Ahead /\ Ahead \subseteq {"choose"} /\ attempt = "full"
  BY Order DEF ChooseReduced, EngineInv, AgendaInv, Before
<1>2. /\ agenda' \in Agendas
      /\ cfg.strict => Ahead' = {"unwind"}
      /\ ~cfg.strict => Ahead' = {"audit", "start"}
  BY ShortPlans DEF ChooseReduced, Continue
<1>3. emitted = <<>> /\ \A j \in Attempts : child[j] = "none" /\ consumer[j] = "off"
  BY <1>1 DEF EngineInv, ResultInv, TracerInv, ChildInv, Before
<1>4. /\ tracer \in {"off", "open"} /\ (attempt = "dry" => tracer = "off")
      /\ tracer' \in {"off", "closing", "closed"} \/ tracer' = tracer
      /\ ~cfg.strict => tracer' = tracer
      /\ tracer' = "open" => ~cfg.strict
      /\ tracer = "off" <=> tracer' = "off"
      /\ tracer = "closed" <=> tracer' = "closed"
      /\ \A k \in Attempts : ~Live(k)
      /\ UNCHANGED <<child, consumer, ring, queue, captured, httpEvents, held, stopVar>>
  BY <1>1 DEF ChooseReduced, CloseTracer, EngineInv, TracerInv, Before, ChildInv
<1>5. TypeOK'
  BY <1>2 DEF EngineInv, TypeOK, ChooseReduced, Agendas, CloseAudit, CloseTracer
<1>6. AgendaInv'
  BY <1>2 DEF AgendaInv, Before
<1>7. ChildInv'
  BY <1>1 DEF EngineInv, ChildInv, ChooseReduced, Before, Live
<1>8. PipeInv'
  BY <1>1 DEF EngineInv, PipeInv, ChooseReduced, ChildInv, TypeOK, Before, Live, CloseAudit
<1>9. TracerInv'
  <2>1. attempt \in Attempts /\ cfg.strict \in BOOLEAN
    BY ConfigTyped DEF EngineInv, TypeOK
  <2>2. attempt' \in Attempts /\ (attempt' # attempt => attempt' = "reduced" /\ ~cfg.strict)
    BY DEF ChooseReduced, EngineInv, TypeOK
  <2>3. attempt' = "dry" \/ "trace" \in Ahead' => tracer' = "off"
    BY <1>1, <1>2, <2>2
  <2>4. tracer' = "open" => Before({"choose", "start", "wait", "judge", "close"})'
    BY <1>2, <1>4 DEF Before
  <2>5. Before({"choose", "start", "wait", "judge"})' => tracer' \in {"off", "open"}
    <3>1. cfg.strict => ~Before({"choose", "start", "wait", "judge"})'
      BY <1>2 DEF Before
    <3> QED
      BY <1>4, <3>1
  <2>6. \A k \in Attempts : ~Live(k)'
    BY <1>4 DEF Live
  <2>7. /\ tracer' = "off" => stopVar' = "nil" /\ \A k \in Attempts : consumer'[k] = "off"
        /\ (\A k \in Attempts : consumer'[k] = "off")
             => ring' = {} /\ queue' = <<>> /\ captured' = {} /\ httpEvents' = <<>>
    BY <1>4 DEF EngineInv, TracerInv
  <2>8. ASSUME NEW k \in Attempts
        PROVE  /\ consumer'[k] # "off" => child'[k] # "none" /\ k # "dry"
               /\ consumer'[k] \in {"have", "write"} => held'[k] \in Events
               /\ consumer'[k] = "done" => tracer' = "closed" /\ queue' = <<>>
    BY <1>4 DEF EngineInv, TracerInv
  <2> QED
    BY <2>3, <2>4, <2>5, <2>6, <2>7, <2>8 DEF TracerInv
<1>10. StopInv'
  BY <1>2 DEF EngineInv, StopInv, ChooseReduced
<1>11. ResultInv'
  BY <1>1, <1>2 DEF EngineInv, ResultInv, ChooseReduced, Before
<1>12. EventInv'
  BY <1>1 DEF EngineInv, EventInv, ChooseReduced, ChildInv, TracerInv, Before, FellBack, InHand
<1> QED
  BY <1>5, <1>6, <1>7, <1>8, <1>9, <1>10, <1>11, <1>12 DEF EngineInv

LEMMA StartChildKeeps == ASSUME EngineInv, StartChild PROVE EngineInv'
<1>1. "start" \in Ahead /\ Ahead \subseteq {"start"}
  BY Order DEF StartChild, EngineInv, AgendaInv
<1>2. agenda' \in Agendas /\ Ahead' = {"wait"}
  BY ShortPlans DEF StartChild, Continue
<1>3. TypeOK'
  BY <1>2 DEF EngineInv, TypeOK, StartChild, Agendas, StartGoroutines
<1>4. AgendaInv'
  BY <1>2 DEF AgendaInv, Before
<1>5. ChildInv'
  BY <1>1, <1>2 DEF EngineInv, ChildInv, StartChild, Before, Live
<1>6. PipeInv'
  BY <1>2 DEF EngineInv, PipeInv, StartChild, TypeOK, Before, Live
<1>7. TracerInv'
  BY <1>1, <1>2 DEF EngineInv, TracerInv, StartChild, TypeOK, Before, Live, StartGoroutines
<1>8. StopInv'
  BY <1>1 DEF EngineInv, StopInv, StartChild, ChildInv, TracerInv, Before, StartGoroutines
<1>9. ResultInv'
  BY <1>1, <1>2 DEF EngineInv, ResultInv, StartChild, Before
<1>10. EventInv'
  BY <1>1, <1>2 DEF EngineInv, EventInv, StartChild, ChildInv, TracerInv, TypeOK, Before,
     FellBack, InHand, StartGoroutines
<1> QED
  BY <1>3, <1>4, <1>5, <1>6, <1>7, <1>8, <1>9, <1>10 DEF EngineInv

LEMMA StartFailsKeeps == ASSUME EngineInv, StartFails PROVE EngineInv'
<1>1. "start" \in Ahead /\ Ahead \subseteq {"start"} /\ child[attempt] = "none"
  BY Order DEF StartFails, EngineInv, AgendaInv, ChildInv, Before
<1>2. /\ agenda' \in Agendas
      /\ attempt = "dry" => Ahead' = {"collect", "report", "unwind"}
      /\ attempt = "full" => Ahead' = {"unwind"}
      /\ attempt = "reduced" => Ahead' = {"crypto", "unwind"}
  BY AfterWaitPlan, ShortPlans DEF StartFails, Continue, AfterFailure, Statuses
<1>3. emitted = <<>>
  BY <1>1 DEF EngineInv, ResultInv, Before
<1>4. ~FellBack => \A j \in Attempts : consumer[j] = "off"
  BY <1>1 DEF EngineInv, TracerInv, ChildInv, FellBack
<1>5. /\ tracer \in {"off", "open"} /\ (attempt = "dry" => tracer = "off")
      /\ tracer' \in {"off", "closing", "closed"} \/ tracer' = tracer
      /\ attempt = "dry" => tracer' = tracer
      /\ tracer' = "open" => attempt = "dry"
      /\ tracer = "off" <=> tracer' = "off"
      /\ tracer = "closed" <=> tracer' = "closed"
      /\ \A k \in Attempts : ~Live(k)
      /\ UNCHANGED <<child, consumer, ring, queue, captured, httpEvents, held, stopVar>>
  BY <1>1 DEF StartFails, CloseTracer, EngineInv, TracerInv, Before, ChildInv
<1>6. TypeOK'
  <2>1. attempt \in Attempts /\ reader \in [Attempts -> BOOLEAN]
    BY DEF EngineInv, TypeOK
  <2>2. reader' \in [Attempts -> BOOLEAN]
    <3>1. reader' \in {reader, [reader EXCEPT ![attempt] = FALSE]}
      BY DEF StartFails
    <3> QED
      BY <2>1, <3>1
  <2>3. /\ tracer' \in {"off", "open", "closing", "closed"}
        /\ result' \in {"none", "ok", "exit", "error"}
    BY DEF EngineInv, TypeOK, StartFails, CloseTracer
  <2> QED
    BY <1>2, <1>5, <2>2 DEF EngineInv, TypeOK, StartFails, Agendas
<1>7. AgendaInv'
  BY <1>2 DEF EngineInv, TypeOK, AgendaInv, StartFails, Before
<1>8. ChildInv'
  BY <1>1 DEF EngineInv, ChildInv, StartFails, Live
<1>9. PipeInv'
  <2>1. /\ attempt \in Attempts /\ attempt' = attempt /\ UNCHANGED <<relayed, buffer, status, child>>
        /\ writers' = writers /\ relayed[attempt] = buffer[attempt] /\ ~Live(attempt)
    BY <1>1 DEF EngineInv, TypeOK, ChildInv, StartFails
  <2>2. CASE attempt = "dry"
    <3>1. reader' = reader
      BY <2>2 DEF StartFails
    <3> QED
      BY <1>2, <2>1, <2>2, <3>1 DEF EngineInv, PipeInv, Live, Before
  <2>3. CASE attempt # "dry"
    <3>1. /\ ~reader'[attempt]
          /\ \A k \in Attempts \ {attempt} : reader'[k] <=> reader[k]
      BY <2>3 DEF StartFails, EngineInv, TypeOK
    <3> QED
      BY <2>1, <3>1 DEF EngineInv, PipeInv, Live
  <2> QED
    BY <2>2, <2>3
<1>10. TracerInv'
  <2>1. attempt \in Attempts /\ cfg.strict \in BOOLEAN
    BY ConfigTyped DEF EngineInv, TypeOK
  <2>2. attempt' \in Attempts /\ (attempt' # attempt => attempt' = "reduced" /\ ~cfg.strict)
    BY DEF StartFails, EngineInv, TypeOK
  <2>3. attempt' = "dry" \/ "trace" \in Ahead' => tracer' = "off"
    BY <1>2, <1>5, <2>1, <2>2
  <2>4. tracer' = "open" => Before({"choose", "start", "wait", "judge", "close"})'
    BY <1>5
  <2>5. Before({"choose", "start", "wait", "judge"})' => tracer' \in {"off", "open"}
    BY <1>2, <2>1 DEF Before
  <2>6. \A k \in Attempts : ~Live(k)'
    BY <1>5 DEF Live
  <2>7. /\ tracer' = "off" => stopVar' = "nil" /\ \A k \in Attempts : consumer'[k] = "off"
        /\ (\A k \in Attempts : consumer'[k] = "off")
             => ring' = {} /\ queue' = <<>> /\ captured' = {} /\ httpEvents' = <<>>
    BY <1>5 DEF EngineInv, TracerInv
  <2>8. ASSUME NEW k \in Attempts
        PROVE  /\ consumer'[k] # "off" => child'[k] # "none" /\ k # "dry"
               /\ consumer'[k] \in {"have", "write"} => held'[k] \in Events
               /\ consumer'[k] = "done" => tracer' = "closed" /\ queue' = <<>>
    BY <1>5 DEF EngineInv, TracerInv
  <2> QED
    BY <2>3, <2>4, <2>5, <2>6, <2>7, <2>8 DEF TracerInv
<1>11. StopInv'
  <2>1. tracer' = "open" => tracer = "open"
    BY <1>5
  <2>2. attempt \in Attempts
    BY DEF EngineInv, TypeOK
  <2>3. "wait" \notin Ahead'
    BY <1>2, <2>2
  <2> QED
    BY <2>3 DEF EngineInv, StopInv, StartFails
<1>12. ResultInv'
  BY <1>1, <1>2 DEF EngineInv, ResultInv, StartFails, Before
<1>13. EventInv'
  BY <1>1 DEF EngineInv, EventInv, StartFails, ChildInv, TracerInv, FellBack, InHand
<1> QED
  BY <1>6, <1>7, <1>8, <1>9, <1>10, <1>11, <1>12, <1>13 DEF EngineInv

LEMMA ReapKeeps == ASSUME EngineInv, NEW s \in {status[attempt], "lost"}, Reap(s) PROVE EngineInv'
<1>1. "wait" \in Ahead /\ Ahead \subseteq {"wait"} /\ emitted = <<>>
  BY Order DEF Reap, EngineInv, AgendaInv, ResultInv, Before
<1>2. s \in Statuses \ {"none"} /\ attempt \in Attempts /\ agenda' = AfterWait(attempt, s)
  BY DEF Reap, EngineInv, TypeOK, ChildInv, Continue, Statuses
<1>3. /\ agenda' \in Agendas /\ Ahead' \subseteq Late \cup {"judge"}
      /\ "judge" \in Ahead' => attempt = "full" /\ s # "ok"
      /\ "urls" \in Ahead' <=> attempt = "full" /\ s = "ok"
      /\ attempt = "dry" => Ahead' = {"collect", "report", "unwind"}
      /\ "report" \in Ahead' => attempt = "dry"
      /\ attempt # "dry" => "judge" \in Ahead' \/ {"close", "join"} \subseteq Ahead'
      /\ s # "lost" => "collect" \in Ahead'
  BY <1>2, AfterWaitPlan
<1>4. /\ attempt' = attempt /\ tracer' = tracer /\ stopVar' = stopVar
      /\ UNCHANGED <<child, consumer, ring, queue, captured, httpEvents, held, buffer, relayed>>
      /\ child[attempt] = "gone" /\ \A k \in Attempts : ~Live(k)
  BY DEF Reap, EngineInv, ChildInv, Live
<1>5. /\ status'[attempt] = s
      /\ \A k \in Attempts \ {attempt} : status'[k] = status[k]
  BY DEF Reap, EngineInv, TypeOK
<1>6. /\ Ahead' \cap {"audit", "trace", "choose", "start", "wait"} = {}
      /\ attempt # "dry" => Before({"judge", "close"})'
  BY <1>3 DEF Late, Before
<1>7. TypeOK'
  BY <1>2, <1>3 DEF EngineInv, TypeOK, Reap, Agendas, Outcome
<1>8. AgendaInv'
  <2>1. attempt' = attempt
    BY DEF Reap
  <2>2. Before({"snapshot", "trace", "choose", "judge", "urls"})' => attempt' = "full"
    BY <1>3, <1>4 DEF Before, Late
  <2>3. "report" \in Ahead' => attempt' = "dry"
    BY <1>3, <1>4
  <2>4. attempt' = "dry" =>
          Ahead' \subseteq {"audit", "start", "wait", "collect", "report", "unwind"}
    BY <1>3, <1>4
  <2> QED
    BY <1>3, <2>2, <2>3, <2>4 DEF AgendaInv
<1>9. ChildInv'
  BY <1>4, <1>5, <1>6 DEF EngineInv, ChildInv, Before, Live
<1>10. PipeInv'
  <2>1. /\ attempt' = attempt /\ UNCHANGED <<reader, relayed, buffer, writers, child>>
        /\ status'[attempt] = s
        /\ \A k \in Attempts \ {attempt} : status'[k] = status[k]
    BY DEF Reap, EngineInv, TypeOK
  <2>2. "audit" \notin Ahead' /\ (s # "lost" => Before({"choose", "start", "wait", "collect"})')
    BY <1>3 DEF Before, Late
  <2>3. ASSUME NEW k \in Attempts, reader[k]
        PROVE  \/ status'[k] = "lost"
               \/ k = attempt /\ Before({"choose", "start", "wait", "collect"})'
    BY <2>1, <2>2, <2>3 DEF EngineInv, PipeInv
  <2> QED
    BY <2>1, <2>2 DEF EngineInv, PipeInv, Live
<1>11. TracerInv'
  BY <1>1, <1>4, <1>6 DEF EngineInv, TracerInv, Before, Live
<1>12. StopInv'
  BY <1>1, <1>6 DEF EngineInv, StopInv, Reap
<1>13. ResultInv'
  BY <1>1, <1>3 DEF EngineInv, ResultInv, Reap, TypeOK, Outcome
<1>14. EventInv'
  BY <1>3 DEF EngineInv, EventInv, Reap, ChildInv, TracerInv, TypeOK, Before, FellBack, InHand
<1> QED
  BY <1>7, <1>8, <1>9, <1>10, <1>11, <1>12, <1>13, <1>14 DEF EngineInv

LEMMA CollectKeeps == ASSUME EngineInv, Collect PROVE EngineInv'
<1>1. agenda' \in Agendas /\ "collect" \in Ahead /\ Ahead' = Ahead \ {"collect"}
  BY StepTaken DEF Collect, EngineInv, AgendaInv
<1>2. Ahead \cap {"snapshot", "audit", "trace", "choose", "start", "wait"} = {}
  BY Order DEF Collect, EngineInv, AgendaInv, Late
<1>3. TypeOK'
  BY <1>1 DEF EngineInv, TypeOK, Collect, Agendas
<1>4. AgendaInv'
  BY <1>1 DEF EngineInv, AgendaInv, Collect, Before
<1>5. ChildInv'
  BY <1>1, <1>2 DEF EngineInv, ChildInv, Collect, TypeOK, Before, Live
<1>6. PipeInv'
  BY DEF EngineInv, PipeInv, Collect, TypeOK, Live
<1>7. TracerInv'
  BY <1>1 DEF EngineInv, TracerInv, Collect, Before, Live
<1>8. StopInv'
  BY <1>1 DEF EngineInv, StopInv, Collect
<1>9. ResultInv'
  BY <1>1 DEF EngineInv, ResultInv, Collect, Before
<1>10. EventInv'
  BY <1>1 DEF EngineInv, EventInv, Collect, Before, FellBack, InHand
<1> QED
  BY <1>3, <1>4, <1>5, <1>6, <1>7, <1>8, <1>9, <1>10 DEF EngineInv

LEMMA JudgeKeeps == ASSUME EngineInv, Judge PROVE EngineInv'
<1>1. "judge" \in Ahead /\ Ahead \subseteq {"judge"} /\ attempt = "full"
  BY Order DEF Judge, EngineInv, AgendaInv, Before
<1>2. /\ agenda' \in Agendas
      /\ attempt' = "reduced" => Ahead' = {"audit", "start"} /\ child["full"] = "gone"
      /\ attempt' # "reduced" => /\ attempt' = "full" /\ {"close", "join", "unwind"} \subseteq Ahead'
                                /\ Ahead' \subseteq {"close", "join", "diff", "unwind"}
  BY <1>1, ShortPlans, FailurePlans DEF Judge, EngineInv, ChildInv, Continue
<1>3. emitted = <<>>
  BY <1>1 DEF EngineInv, ResultInv, Before
<1>4. /\ tracer' = tracer /\ emitted' = emitted /\ base' = base
      /\ UNCHANGED <<child, consumer, ring, queue, captured, httpEvents, held, status,
                     stopVar, stopClosed>>
  BY DEF Judge
<1>5. /\ \A k \in Attempts : ~Live(k) /\ (child[k] # "none" => k = "full")
      /\ tracer \in {"off", "open"} /\ stopClosed \subseteq Attempts
  BY <1>1 DEF EngineInv, ChildInv, TracerInv, TypeOK, Before
<1>6. status["full"] # "ok"
  BY <1>1 DEF EngineInv, ResultInv
<1>7. TypeOK'
  BY <1>2 DEF EngineInv, TypeOK, Judge, Agendas
<1>8. AgendaInv'
  BY <1>2 DEF AgendaInv, Before
<1>9. ChildInv'
  <2>1. relayed' = relayed /\ buffer' = buffer
    BY DEF Judge
  <2> QED
    BY <1>1, <1>2, <1>4, <2>1 DEF EngineInv, ChildInv, Before, Live
<1>10. PipeInv'
  BY <1>1 DEF EngineInv, PipeInv, Judge, Before, Live
<1>11. TracerInv'
  BY <1>1, <1>2, <1>4 DEF EngineInv, TracerInv, Before, Live
<1>12. StopInv'
  BY <1>2, <1>4 DEF EngineInv, StopInv
<1>13. ResultInv'
  BY <1>1, <1>3 DEF EngineInv, ResultInv, Judge, Before
<1>14. EventInv'
  <2>1. ~FellBack' => ~FellBack /\ "join" \in Ahead'
    BY <1>1, <1>2, <1>4 DEF FellBack
  <2>2. InHand' = InHand
    BY <1>4 DEF InHand
  <2> QED
    BY <1>3, <1>4, <1>6, <2>1, <2>2, NothingIn DEF EngineInv, EventInv, Before
<1> QED
  BY <1>7, <1>8, <1>9, <1>10, <1>11, <1>12, <1>13, <1>14 DEF EngineInv

LEMMA CloseTraceKeeps == ASSUME EngineInv, CloseTrace PROVE EngineInv'
<1>1. agenda' \in Agendas /\ "close" \in Ahead /\ Ahead' = Ahead \ {"close"}
  BY StepTaken DEF CloseTrace, EngineInv, AgendaInv
<1>2. Ahead \cap {"snapshot", "audit", "trace", "choose", "start", "wait"} = {} /\ "judge"
   \notin Ahead
  BY Order DEF CloseTrace, EngineInv, AgendaInv, Late
<1>3. TypeOK'
  BY <1>1 DEF EngineInv, TypeOK, CloseTrace, Agendas, CloseTracer
<1>4. AgendaInv'
  BY <1>1 DEF EngineInv, AgendaInv, CloseTrace, Before
<1>5. ChildInv'
  BY <1>1 DEF EngineInv, ChildInv, CloseTrace, Before, Live
<1>6. PipeInv'
  BY <1>1 DEF EngineInv, PipeInv, CloseTrace, Before, Live
<1>7. TracerInv'
  BY <1>1, <1>2 DEF EngineInv, TracerInv, CloseTrace, Before, CloseTracer
<1>8. StopInv'
  BY <1>1 DEF EngineInv, StopInv, CloseTrace, CloseTracer
<1>9. ResultInv'
  BY <1>1 DEF EngineInv, ResultInv, CloseTrace, Before
<1>10. EventInv'
  BY <1>1 DEF EngineInv, EventInv, CloseTrace, Before, FellBack, InHand
<1> QED
  BY <1>3, <1>4, <1>5, <1>6, <1>7, <1>8, <1>9, <1>10 DEF EngineInv

LEMMA JoinKeeps == ASSUME EngineInv, Join PROVE EngineInv'
<1>1. agenda' \in Agendas /\ "join" \in Ahead /\ Ahead' = Ahead \ {"join"}
  BY StepTaken DEF Join, EngineInv, AgendaInv
<1>2. Ahead \cap {"snapshot", "audit", "trace", "choose", "start", "wait"} = {} /\ "judge"
   \notin Ahead /\ "close" \notin Ahead
  BY Order DEF Join, EngineInv, AgendaInv, Late
<1>3. TypeOK'
  BY <1>1 DEF EngineInv, TypeOK, Join, Agendas
<1>4. AgendaInv'
  BY <1>1 DEF EngineInv, AgendaInv, Join, Before
<1>5. ChildInv'
  BY <1>1 DEF EngineInv, ChildInv, Join, Before, Live
<1>6. PipeInv'
  BY <1>1 DEF EngineInv, PipeInv, Join, Before, Live
<1>7. TracerInv'
  BY <1>1 DEF EngineInv, TracerInv, Join, Before, Live
<1>8. StopInv'
  BY <1>1 DEF EngineInv, StopInv, Join
<1>9. ResultInv'
  BY <1>1 DEF EngineInv, ResultInv, Join, Before
<1>10. EventInv'
  BY <1>1 DEF EngineInv, EventInv, Join, ChildInv, TracerInv, Before, FellBack, InHand
<1> QED
  BY <1>3, <1>4, <1>5, <1>6, <1>7, <1>8, <1>9, <1>10 DEF EngineInv

LEMMA EmitDiffKeeps == ASSUME EngineInv, EmitDiff PROVE EngineInv'
<1>1. agenda' \in Agendas /\ "diff" \in Ahead /\ Ahead' = Ahead \ {"diff"}
  BY StepTaken DEF EmitDiff, EngineInv, AgendaInv
<1>2. Ahead \cap {"snapshot", "audit", "trace", "choose", "start", "wait"} = {} /\ "judge"
   \notin Ahead
  BY Order DEF EmitDiff, EngineInv, AgendaInv, Late
<1>3. /\ emitted \in Seq(Kinds) /\ IsInjective(emitted) /\ ToSet(emitted) = {}
      /\ emitted' \in {emitted, Append(emitted, "diff")}
  BY <1>1, NothingIn DEF EngineInv, ResultInv, TypeOK, Before, EmitDiff
<1>4. emitted' \in Seq(Kinds) /\ IsInjective(emitted') /\ "crypto" \notin ToSet(emitted')
  <2>1. "diff" \in Kinds
    BY DEF Kinds
  <2>2. CASE emitted' = Append(emitted, "diff")
    BY <1>3, <2>1, <2>2, Appended
  <2>3. CASE emitted' = emitted
    BY <1>3, <2>3
  <2> QED
    BY <1>3, <2>2
<1>5. "report" \notin Ahead
  BY <1>1 DEF EngineInv, AgendaInv
<1>6. TypeOK'
  BY <1>1, <1>4 DEF EngineInv, TypeOK, EmitDiff, Agendas, Kinds
<1>7. AgendaInv'
  BY <1>1 DEF EngineInv, AgendaInv, EmitDiff, Before
<1>8. ChildInv'
  BY <1>1 DEF EngineInv, ChildInv, EmitDiff, Before, Live
<1>9. PipeInv'
  BY <1>1 DEF EngineInv, PipeInv, EmitDiff, Before, Live
<1>10. TracerInv'
  BY <1>1 DEF EngineInv, TracerInv, EmitDiff, Before, Live
<1>11. StopInv'
  BY <1>1 DEF EngineInv, StopInv, EmitDiff
<1>12. ResultInv'
  BY <1>1, <1>2, <1>4, <1>5 DEF EngineInv, ResultInv, EmitDiff, Before
<1>13. EventInv'
  BY <1>1, <1>3, <1>4 DEF EngineInv, EventInv, EmitDiff, Before, FellBack, InHand
<1> QED
  BY <1>6, <1>7, <1>8, <1>9, <1>10, <1>11, <1>12, <1>13 DEF EngineInv

LEMMA CheckURLsKeeps == ASSUME EngineInv, CheckURLs PROVE EngineInv'
<1>1. agenda' \in Agendas /\ "urls" \in Ahead /\ Ahead' = Ahead \ {"urls"}
  BY StepTaken DEF CheckURLs, EngineInv, AgendaInv
<1>2. Ahead \subseteq {"urls", "crypto", "unwind"}
  BY Order DEF CheckURLs, EngineInv, AgendaInv
<1>3. ToSet(httpEvents) \subseteq Events
  BY Members DEF EngineInv, TypeOK
<1>4. ~FellBack => captured = ToSet(httpEvents)
  BY <1>2, Settled DEF Before
<1>5. TypeOK'
  BY <1>1, <1>3 DEF EngineInv, TypeOK, CheckURLs, Agendas
<1>6. AgendaInv'
  BY <1>1 DEF EngineInv, AgendaInv, CheckURLs, Before
<1>7. ChildInv'
  BY <1>1 DEF EngineInv, ChildInv, CheckURLs, Before, Live
<1>8. PipeInv'
  BY <1>1 DEF EngineInv, PipeInv, CheckURLs, Before, Live
<1>9. TracerInv'
  BY <1>1 DEF EngineInv, TracerInv, CheckURLs, Before, Live
<1>10. StopInv'
  BY <1>1 DEF EngineInv, StopInv, CheckURLs
<1>11. ResultInv'
  BY <1>1, <1>2 DEF EngineInv, ResultInv, CheckURLs, Before
<1>12. EventInv'
  BY <1>1, <1>4 DEF EngineInv, EventInv, CheckURLs, Before, FellBack, InHand
<1> QED
  BY <1>5, <1>6, <1>7, <1>8, <1>9, <1>10, <1>11, <1>12 DEF EngineInv

LEMMA EmitCryptoKeeps == ASSUME EngineInv, EmitCrypto PROVE EngineInv'
<1>1. agenda' \in Agendas /\ "crypto" \in Ahead /\ Ahead' = Ahead \ {"crypto"}
  BY StepTaken DEF EmitCrypto, EngineInv, AgendaInv
<1>2. Ahead \subseteq {"crypto", "unwind"}
  BY Order DEF EmitCrypto, EngineInv, AgendaInv
<1>3. ToSet(httpEvents) \subseteq Events
  BY Members DEF EngineInv, TypeOK
<1>4. ~FellBack => captured = ToSet(httpEvents)
  BY <1>2, Settled DEF Before
<1>5. "crypto" \notin ToSet(emitted) /\ emitted \in Seq(Kinds) /\ IsInjective(emitted)
  BY <1>1 DEF EngineInv, ResultInv, TypeOK, Kinds
<1>6. emitted' \in Seq(Kinds) /\ IsInjective(emitted') /\ ("crypto" \in ToSet(emitted') =>
   reported' = ToSet(httpEvents))
  <2>1. CASE emitted' = emitted
    BY <1>5, <2>1
  <2>2. CASE cfg.crypto /\ emitted' = Append(emitted, "crypto")
    <3>1. "crypto" \in Kinds
      BY DEF Kinds
    <3> QED
      BY <1>5, <2>2, <3>1, Appended DEF EmitCrypto
  <2> QED
    BY <2>1, <2>2 DEF EmitCrypto
<1>7. TypeOK'
  BY <1>1, <1>3, <1>6 DEF EngineInv, TypeOK, EmitCrypto, Agendas, Kinds
<1>8. AgendaInv'
  BY <1>1 DEF EngineInv, AgendaInv, EmitCrypto, Before
<1>9. ChildInv'
  BY <1>1 DEF EngineInv, ChildInv, EmitCrypto, Before, Live
<1>10. PipeInv'
  BY <1>1 DEF EngineInv, PipeInv, EmitCrypto, Before, Live
<1>11. TracerInv'
  BY <1>1 DEF EngineInv, TracerInv, EmitCrypto, Before, Live
<1>12. StopInv'
  BY <1>1 DEF EngineInv, StopInv, EmitCrypto
<1>13. ResultInv'
  BY <1>1, <1>2, <1>6 DEF EngineInv, ResultInv, EmitCrypto, Before
<1>14. EventInv'
  <2>1. ("crypto" \in ToSet(emitted') => reported' = ToSet(httpEvents)) /\ InHand' = InHand
    BY <1>6 DEF EmitCrypto, InHand
  <2>2. FellBack' <=> FellBack
    BY DEF EmitCrypto, FellBack
  <2> QED
    BY <1>1, <1>4, <2>1, <2>2 DEF EngineInv, EventInv, EmitCrypto, Before
<1> QED
  BY <1>7, <1>8, <1>9, <1>10, <1>11, <1>12, <1>13, <1>14 DEF EngineInv

LEMMA EmitDryRunKeeps == ASSUME EngineInv, EmitDryRun PROVE EngineInv'
<1>1. agenda' \in Agendas /\ "report" \in Ahead /\ Ahead' = Ahead \ {"report"}
  BY StepTaken DEF EmitDryRun, EngineInv, AgendaInv
<1>2. Ahead \subseteq {"report", "unwind"}
  BY Order DEF EmitDryRun, EngineInv, AgendaInv
<1>3. /\ emitted \in Seq(Kinds) /\ IsInjective(emitted) /\ ToSet(emitted) = {}
      /\ emitted' = Append(emitted, "dryrun")
  BY <1>1, NothingIn DEF EngineInv, ResultInv, TypeOK, Before, EmitDryRun
<1>4. emitted' \in Seq(Kinds) /\ IsInjective(emitted') /\ "crypto" \notin ToSet(emitted')
  <2>1. "dryrun" \in Kinds
    BY DEF Kinds
  <2> QED
    BY <1>3, <2>1, Appended
<1>5. TypeOK'
  BY <1>1 DEF EngineInv, TypeOK, EmitDryRun, Agendas
<1>6. AgendaInv'
  BY <1>1 DEF EngineInv, AgendaInv, Before
<1>7. ChildInv'
  BY <1>1 DEF EngineInv, ChildInv, EmitDryRun, Before, Live
<1>8. PipeInv'
  BY <1>1 DEF EngineInv, PipeInv, EmitDryRun, Before, Live
<1>9. TracerInv'
  BY <1>1 DEF EngineInv, TracerInv, EmitDryRun, Before, Live
<1>10. StopInv'
  BY <1>1 DEF EngineInv, StopInv, EmitDryRun
<1>11. ResultInv'
  BY <1>1, <1>2, <1>4 DEF EngineInv, ResultInv, EmitDryRun, Before
<1>12. EventInv'
  BY <1>1, <1>4 DEF EngineInv, EventInv, EmitDryRun, Before, FellBack, InHand, ResultInv
<1> QED
  BY <1>5, <1>6, <1>7, <1>8, <1>9, <1>10, <1>11, <1>12 DEF EngineInv

LEMMA UnwindKeeps == ASSUME EngineInv, Unwind PROVE EngineInv'
<1>1. agenda' \in Agendas /\ "unwind" \in Ahead /\ Ahead' = Ahead \ {"unwind"}
  BY StepTaken DEF Unwind, EngineInv, AgendaInv
<1>2. Ahead \subseteq {"unwind"}
  BY Order DEF Unwind, EngineInv, AgendaInv
<1>3. TypeOK'
  BY <1>1 DEF EngineInv, TypeOK, Unwind, Agendas
<1>4. AgendaInv'
  BY <1>1 DEF EngineInv, AgendaInv, Unwind, Before
<1>5. ChildInv'
  BY <1>1 DEF EngineInv, ChildInv, Unwind, Before, Live
<1>6. PipeInv'
  BY <1>1 DEF EngineInv, PipeInv, Unwind, Before, Live
<1>7. TracerInv'
  BY <1>1 DEF EngineInv, TracerInv, Unwind, Before, Live
<1>8. StopInv'
  BY <1>1 DEF EngineInv, StopInv, Unwind
<1>9. ResultInv'
  BY <1>1 DEF EngineInv, ResultInv, Unwind, Before
<1>10. EventInv'
  BY <1>1 DEF EngineInv, EventInv, Unwind, Before, FellBack, InHand
<1> QED
  BY <1>3, <1>4, <1>5, <1>6, <1>7, <1>8, <1>9, <1>10 DEF EngineInv

LEMMA AnnounceKeeps == ASSUME EngineInv, NEW k \in Attempts, Announce(k) PROVE EngineInv'
<1>1. agenda' = agenda /\ Ahead' = Ahead /\ attempt' = attempt
  BY DEF Announce, Ahead
<1>2. TypeOK'
  BY DEF EngineInv, TypeOK, Announce
<1>3. AgendaInv'
  BY <1>1 DEF EngineInv, AgendaInv, Before
<1>4. ChildInv'
  BY <1>1 DEF EngineInv, ChildInv, Announce, TypeOK, Before, Live
<1>5. PipeInv'
  BY <1>1 DEF EngineInv, PipeInv, Announce, ChildInv, Before, Live
<1>6. TracerInv'
  BY <1>1 DEF EngineInv, TracerInv, Announce, Before, Live
<1>7. StopInv'
  BY <1>1 DEF EngineInv, StopInv, Announce
<1>8. ResultInv'
  BY <1>1 DEF EngineInv, ResultInv, Announce, Before
<1>9. EventInv'
  BY <1>1 DEF EngineInv, EventInv, Announce, Before, FellBack, InHand
<1> QED
  BY <1>2, <1>3, <1>4, <1>5, <1>6, <1>7, <1>8, <1>9 DEF EngineInv

LEMMA ExecKeeps == ASSUME EngineInv, NEW k \in Attempts, Exec(k) PROVE EngineInv'
<1>1. agenda' = agenda /\ Ahead' = Ahead /\ attempt' = attempt
  BY DEF Exec, Ahead
<1>2. TypeOK'
  BY DEF EngineInv, TypeOK, Exec
<1>3. AgendaInv'
  BY <1>1 DEF EngineInv, AgendaInv, Before
<1>4. ChildInv'
  BY <1>1 DEF EngineInv, ChildInv, Exec, Before, Live
<1>5. PipeInv'
  BY <1>1 DEF EngineInv, PipeInv, Exec, Before, Live
<1>6. TracerInv'
  BY <1>1 DEF EngineInv, TracerInv, Exec, Before, Live
<1>7. StopInv'
  BY <1>1 DEF EngineInv, StopInv, Exec
<1>8. ResultInv'
  BY <1>1 DEF EngineInv, ResultInv, Exec, Before
<1>9. EventInv'
  BY <1>1 DEF EngineInv, EventInv, Exec, Before, FellBack, InHand
<1> QED
  BY <1>2, <1>3, <1>4, <1>5, <1>6, <1>7, <1>8, <1>9 DEF EngineInv

LEMMA ExitKeeps ==
  ASSUME EngineInv, NEW k \in Attempts, NEW s \in {"ok", "exit", "limit", "execfail"}, Exit(k, s)
  PROVE  EngineInv'
<1>1. agenda' = agenda /\ Ahead' = Ahead /\ attempt' = attempt
  BY DEF Exit, Ahead
<1>2. s \in Statuses \ {"none", "lost"}
  BY DEF Statuses
<1>3. TypeOK'
  BY <1>2 DEF EngineInv, TypeOK, Exit
<1>4. AgendaInv'
  BY <1>1 DEF EngineInv, AgendaInv, Before
<1>5. ChildInv'
  BY <1>1 DEF EngineInv, ChildInv, Exit, TypeOK, Before, Live
<1>6. PipeInv'
  BY <1>1 DEF EngineInv, PipeInv, Exit, ChildInv, Before, Live
<1>7. TracerInv'
  BY <1>1 DEF EngineInv, TracerInv, Exit, Before, Live
<1>8. StopInv'
  BY DEF EngineInv, StopInv, Exit, ChildInv
<1>9. ResultInv'
  BY <1>1 DEF EngineInv, ResultInv, Exit, ChildInv, Before
<1>10. EventInv'
  BY <1>1 DEF EngineInv, EventInv, Exit, ChildInv, Before, FellBack, InHand
<1> QED
  BY <1>3, <1>4, <1>5, <1>6, <1>7, <1>8, <1>9, <1>10 DEF EngineInv

LEMMA RequestKeeps ==
  ASSUME EngineInv, NEW k \in Attempts, NEW e \in Events, Request(k, e)
  PROVE  EngineInv'
<1>1. agenda' = agenda /\ Ahead' = Ahead /\ attempt' = attempt
  BY DEF Request, Ahead
<1>2. TypeOK'
  BY DEF EngineInv, TypeOK, Request
<1>3. AgendaInv'
  BY <1>1 DEF EngineInv, AgendaInv, Before
<1>4. ChildInv'
  BY <1>1 DEF EngineInv, ChildInv, Request, Before, Live
<1>5. PipeInv'
  BY <1>1 DEF EngineInv, PipeInv, Request, Before, Live
<1>6. TracerInv'
  BY <1>1 DEF EngineInv, TracerInv, Request, Before, Live
<1>7. StopInv'
  BY <1>1 DEF EngineInv, StopInv, Request
<1>8. ResultInv'
  BY <1>1 DEF EngineInv, ResultInv, Request, Before
<1>9. EventInv'
  BY <1>1 DEF EngineInv, EventInv, Request, Before, FellBack, InHand
<1> QED
  BY <1>2, <1>3, <1>4, <1>5, <1>6, <1>7, <1>8, <1>9 DEF EngineInv

LEMMA DeliverKeeps == ASSUME EngineInv, NEW e \in Events, Deliver(e) PROVE EngineInv'
<1>1. agenda' = agenda /\ Ahead' = Ahead /\ attempt' = attempt /\ InHand' = InHand
  BY DEF Deliver, Ahead, InHand
<1>2. \/ /\ queue' \in Seq(Events) /\ Len(queue') <= ChannelSize
         /\ ToSet(queue') = ToSet(queue) \cup {e} /\ captured' = captured \cup {e}
      \/ UNCHANGED <<queue, captured>>
  <2>1. queue \in Seq(Events) /\ Len(queue) <= ChannelSize /\ ChannelSize \in Nat
    BY EngineAssumption DEF EngineInv, TypeOK
  <2>2. CASE Len(queue) < ChannelSize
    <3>1. queue' = Append(queue, e) /\ captured' = captured \cup {e}
      BY <2>2 DEF Deliver
    <3>2. Len(queue) \in Nat
      OBVIOUS
    <3> QED
      BY <2>1, <2>2, <3>1, Appended
  <2>3. CASE ~(Len(queue) < ChannelSize)
    BY <2>3 DEF Deliver
  <2> QED
    BY <2>2, <2>3
<1>3. ~FellBack => Before({"choose", "start", "wait", "judge", "join"})
  BY DEF EngineInv, EventInv, TracerInv, Deliver
<1>4. TypeOK'
  BY <1>2 DEF EngineInv, TypeOK, Deliver
<1>5. AgendaInv'
  BY <1>1 DEF EngineInv, AgendaInv, Before
<1>6. ChildInv'
  BY <1>1 DEF EngineInv, ChildInv, Deliver, Before, Live
<1>7. PipeInv'
  BY <1>1 DEF EngineInv, PipeInv, Deliver, Before, Live
<1>8. TracerInv'
  BY <1>1 DEF EngineInv, TracerInv, Deliver, Before, Live
<1>9. StopInv'
  BY <1>1 DEF EngineInv, StopInv, Deliver
<1>10. ResultInv'
  BY <1>1 DEF EngineInv, ResultInv, Deliver, Before
<1>11. EventInv'
  <2>1. ~FellBack => "crypto" \notin ToSet(emitted)
    BY <1>3 DEF EngineInv, ResultInv, Before
  <2>2. ~FellBack => (status["full"] = "ok" => Before({"wait", "urls"}))
    BY <1>3 DEF EngineInv, ResultInv, Before
  <2>3. FellBack' <=> FellBack
    BY DEF Deliver, FellBack
  <2> QED
    BY <1>1, <1>2, <2>1, <2>2, <2>3 DEF EngineInv, EventInv, Deliver, Before
<1> QED
  BY <1>4, <1>5, <1>6, <1>7, <1>8, <1>9, <1>10, <1>11 DEF EngineInv

LEMMA LoopEndsKeeps == ASSUME EngineInv, LoopEnds PROVE EngineInv'
<1>1. agenda' = agenda /\ Ahead' = Ahead /\ attempt' = attempt
  BY DEF LoopEnds, Ahead
<1>2. TypeOK'
  BY DEF EngineInv, TypeOK, LoopEnds
<1>3. AgendaInv'
  BY <1>1 DEF EngineInv, AgendaInv, Before
<1>4. ChildInv'
  BY <1>1 DEF EngineInv, ChildInv, LoopEnds, Before, Live
<1>5. PipeInv'
  BY <1>1 DEF EngineInv, PipeInv, LoopEnds, Before, Live
<1>6. TracerInv'
  BY <1>1 DEF EngineInv, TracerInv, LoopEnds, Before
<1>7. StopInv'
  BY <1>1 DEF EngineInv, StopInv, LoopEnds
<1>8. ResultInv'
  BY <1>1 DEF EngineInv, ResultInv, LoopEnds, Before
<1>9. EventInv'
  BY <1>1 DEF EngineInv, EventInv, LoopEnds, Before, FellBack, InHand
<1> QED
  BY <1>2, <1>3, <1>4, <1>5, <1>6, <1>7, <1>8, <1>9 DEF EngineInv

LEMMA ReceiveKeeps == ASSUME EngineInv, NEW k \in Attempts, Receive(k) PROVE EngineInv'
<1>1. agenda' = agenda /\ Ahead' = Ahead /\ attempt' = attempt
  BY DEF Receive, Ahead
<1>2. /\ Head(queue) \in Events /\ queue' \in Seq(Events) /\ Len(queue') <= ChannelSize
      /\ ToSet(queue) = {Head(queue)} \cup ToSet(queue')
  BY Taken, EngineAssumption DEF EngineInv, TypeOK, Receive
<1>3. InHand' = InHand \cup {Head(queue)}
  BY DEF EngineInv, TypeOK, Receive, InHand
<1>4. TypeOK'
  BY <1>2 DEF EngineInv, TypeOK, Receive
<1>5. AgendaInv'
  BY <1>1 DEF EngineInv, AgendaInv, Before
<1>6. ChildInv'
  BY <1>1 DEF EngineInv, ChildInv, Receive, Before, Live
<1>7. PipeInv'
  BY <1>1 DEF EngineInv, PipeInv, Receive, Before, Live
<1>8. TracerInv'
  BY <1>1 DEF EngineInv, TracerInv, Receive, TypeOK, Before, Live
<1>9. StopInv'
  BY <1>1 DEF EngineInv, StopInv, Receive
<1>10. ResultInv'
  BY <1>1 DEF EngineInv, ResultInv, Receive, Before
<1>11. EventInv'
  BY <1>1, <1>2 DEF EngineInv, EventInv, Receive, TypeOK, Before, FellBack, InHand
<1> QED
  BY <1>4, <1>5, <1>6, <1>7, <1>8, <1>9, <1>10, <1>11 DEF EngineInv

LEMMA ReadSliceKeeps == ASSUME EngineInv, NEW k \in Attempts, ReadSlice(k) PROVE EngineInv'
<1>1. agenda' = agenda /\ Ahead' = Ahead /\ attempt' = attempt
  BY DEF ReadSlice, Ahead
<1>2. TypeOK'
  BY DEF EngineInv, TypeOK, ReadSlice
<1>3. AgendaInv'
  BY <1>1 DEF EngineInv, AgendaInv, Before
<1>4. ChildInv'
  BY <1>1 DEF EngineInv, ChildInv, ReadSlice, Before, Live
<1>5. PipeInv'
  BY <1>1 DEF EngineInv, PipeInv, ReadSlice, Before, Live
<1>6. TracerInv'
  BY <1>1 DEF EngineInv, TracerInv, ReadSlice, Before, Live
<1>7. StopInv'
  BY <1>1 DEF EngineInv, StopInv, ReadSlice
<1>8. ResultInv'
  BY <1>1 DEF EngineInv, ResultInv, ReadSlice, Before
<1>9. EventInv'
  BY <1>1 DEF EngineInv, EventInv, ReadSlice, TypeOK, Before, FellBack, InHand
<1> QED
  BY <1>2, <1>3, <1>4, <1>5, <1>6, <1>7, <1>8, <1>9 DEF EngineInv

LEMMA WriteSliceKeeps == ASSUME EngineInv, NEW k \in Attempts, WriteSlice(k) PROVE EngineInv'
<1>1. agenda' = agenda /\ Ahead' = Ahead /\ attempt' = attempt
  BY DEF WriteSlice, Ahead
<1>2. held[k] \in Events /\ base[k] \in Seq(Events)
  BY DEF EngineInv, TypeOK, TracerInv, WriteSlice
<1>3. httpEvents' \in Seq(Events) /\ ToSet(httpEvents') = ToSet(base[k]) \cup {held[k]}
  BY <1>2, Appended DEF WriteSlice
<1>4. ~FellBack => \A j \in Attempts : consumer[j] # "off" => j = k
  BY DEF EngineInv, TracerInv, ChildInv, FellBack, WriteSlice
<1>5. ~FellBack => InHand = {held[k]} /\ InHand' = {}
  BY <1>4 DEF EngineInv, TypeOK, WriteSlice, InHand
<1>6. TypeOK'
  BY <1>2 DEF EngineInv, TypeOK, WriteSlice
<1>7. AgendaInv'
  BY <1>1 DEF EngineInv, AgendaInv, Before
<1>8. ChildInv'
  BY <1>1 DEF EngineInv, ChildInv, WriteSlice, Before, Live
<1>9. PipeInv'
  BY <1>1 DEF EngineInv, PipeInv, WriteSlice, Before, Live
<1>10. TracerInv'
  BY <1>1 DEF EngineInv, TracerInv, WriteSlice, TypeOK, Before, Live
<1>11. StopInv'
  BY <1>1 DEF EngineInv, StopInv, WriteSlice
<1>12. ResultInv'
  BY <1>1 DEF EngineInv, ResultInv, WriteSlice, Before
<1>13. EventInv'
  BY <1>1, <1>3 DEF EngineInv, EventInv, WriteSlice, ChildInv, TracerInv, TypeOK, Before,
     FellBack, InHand
<1> QED
  BY <1>6, <1>7, <1>8, <1>9, <1>10, <1>11, <1>12, <1>13 DEF EngineInv

LEMMA ConsumerEndsKeeps == ASSUME EngineInv, NEW k \in Attempts, ConsumerEnds(k) PROVE EngineInv'
<1>1. agenda' = agenda /\ Ahead' = Ahead /\ attempt' = attempt
  BY DEF ConsumerEnds, Ahead
<1>2. TypeOK'
  BY DEF EngineInv, TypeOK, ConsumerEnds
<1>3. AgendaInv'
  BY <1>1 DEF EngineInv, AgendaInv, Before
<1>4. ChildInv'
  BY <1>1 DEF EngineInv, ChildInv, ConsumerEnds, Before, Live
<1>5. PipeInv'
  BY <1>1 DEF EngineInv, PipeInv, ConsumerEnds, Before, Live
<1>6. TracerInv'
  BY <1>1 DEF EngineInv, TracerInv, ConsumerEnds, Before
<1>7. StopInv'
  BY <1>1 DEF EngineInv, StopInv, ConsumerEnds
<1>8. ResultInv'
  BY <1>1 DEF EngineInv, ResultInv, ConsumerEnds, Before
<1>9. EventInv'
  BY <1>1 DEF EngineInv, EventInv, ConsumerEnds, Before, FellBack, InHand
<1> QED
  BY <1>2, <1>3, <1>4, <1>5, <1>6, <1>7, <1>8, <1>9 DEF EngineInv

LEMMA TickKeeps == ASSUME EngineInv, NEW k \in Attempts, Tick(k) PROVE EngineInv'
<1>1. agenda' = agenda /\ Ahead' = Ahead /\ attempt' = attempt
  BY DEF Tick, Ahead
<1>2. TypeOK'
  BY DEF EngineInv, TypeOK, Tick
<1>3. AgendaInv'
  BY <1>1 DEF EngineInv, AgendaInv, Before
<1>4. ChildInv'
  BY <1>1 DEF EngineInv, ChildInv, Tick, Before, Live
<1>5. PipeInv'
  BY <1>1 DEF EngineInv, PipeInv, Tick, Before, Live
<1>6. TracerInv'
  BY <1>1 DEF EngineInv, TracerInv, Tick, Before, Live
<1>7. StopInv'
  BY <1>1 DEF EngineInv, StopInv, Tick
<1>8. ResultInv'
  BY <1>1 DEF EngineInv, ResultInv, Tick, Before
<1>9. EventInv'
  BY <1>1 DEF EngineInv, EventInv, Tick, Before, FellBack, InHand
<1> QED
  BY <1>2, <1>3, <1>4, <1>5, <1>6, <1>7, <1>8, <1>9 DEF EngineInv

LEMMA RefreshStopsKeeps == ASSUME EngineInv, NEW k \in Attempts, RefreshStops(k) PROVE EngineInv'
<1>1. agenda' = agenda /\ Ahead' = Ahead /\ attempt' = attempt
  BY DEF RefreshStops, Ahead
<1>2. TypeOK'
  BY DEF EngineInv, TypeOK, RefreshStops
<1>3. AgendaInv'
  BY <1>1 DEF EngineInv, AgendaInv, Before
<1>4. ChildInv'
  BY <1>1 DEF EngineInv, ChildInv, RefreshStops, Before, Live
<1>5. PipeInv'
  BY <1>1 DEF EngineInv, PipeInv, RefreshStops, Before, Live
<1>6. TracerInv'
  BY <1>1 DEF EngineInv, TracerInv, RefreshStops, Before, Live
<1>7. StopInv'
  BY <1>1 DEF EngineInv, StopInv, RefreshStops
<1>8. ResultInv'
  BY <1>1 DEF EngineInv, ResultInv, RefreshStops, Before
<1>9. EventInv'
  BY <1>1 DEF EngineInv, EventInv, RefreshStops, Before, FellBack, InHand
<1> QED
  BY <1>2, <1>3, <1>4, <1>5, <1>6, <1>7, <1>8, <1>9 DEF EngineInv
LEMMA StutterKeeps == ASSUME EngineInv, UNCHANGED vars PROVE EngineInv'
<1>1. Ahead' = Ahead
  BY DEF vars, Ahead
<1>2. TypeOK' /\ AgendaInv' /\ StopInv' /\ ResultInv'
  BY <1>1 DEF EngineInv, vars, TypeOK, AgendaInv, StopInv, ResultInv, Before
<1>3. ChildInv' /\ PipeInv'
  BY <1>1 DEF EngineInv, vars, ChildInv, PipeInv, Before, Live
<1>4. TracerInv'
  BY <1>1 DEF EngineInv, vars, TracerInv, Before, Live
<1>5. EventInv'
  BY <1>1 DEF EngineInv, vars, EventInv, Before, FellBack, InHand
<1> QED
  BY <1>2, <1>3, <1>4, <1>5 DEF EngineInv

LEMMA InvariantAtStart == Init => EngineInv
<1> SUFFICES ASSUME Init PROVE EngineInv
  OBVIOUS
<1>1. /\ agenda \in Agendas /\ cfg \in Configs /\ NoEvent \notin Events
      /\ IF cfg.mode = "dry" THEN attempt = "dry" /\ Ahead = {"audit", "start"}
         ELSE attempt = "full" /\ Ahead = {"snapshot", "audit", "trace", "choose"}
  <2>1. CASE cfg.mode = "dry"
    <3> DEFINE p == <<"audit", "start">>
    <3>1. p \in Agendas /\ \A t : t \in ToSet(p) <=> \E j \in 1..Len(p) : p[j] = t
      BY WholePlan DEF Plans
    <3>2. agenda = p /\ attempt = "dry"
      BY <2>1 DEF Init
    <3>3. Ahead = {"audit", "start"}
      BY <3>1, <3>2 DEF Ahead
    <3> QED
      BY <2>1, <3>1, <3>3, EngineAssumption DEF Init
  <2>2. CASE cfg.mode # "dry"
    <3> DEFINE p == <<"snapshot", "audit", "trace", "choose">>
    <3>1. p \in Agendas /\ \A t : t \in ToSet(p) <=> \E j \in 1..Len(p) : p[j] = t
      BY WholePlan DEF Plans
    <3>2. agenda = p /\ attempt = "full"
      BY <2>2 DEF Init
    <3>3. Ahead = {"snapshot", "audit", "trace", "choose"}
      BY <3>1, <3>2 DEF Ahead
    <3> QED
      BY <2>2, <3>1, <3>3, EngineAssumption DEF Init
  <2> QED
    BY <2>1, <2>2
<1>2. TypeOK
  <2>1. <<>> \in Seq(Events) /\ <<>> \in Seq({"diff", "crypto", "dryrun"}) /\ Len(<<>>) = 0
    OBVIOUS
  <2>2. agenda \in Seq(Steps) /\ 0 <= ChannelSize
    BY <1>1, EngineAssumption DEF Agendas
  <2>3. /\ queue \in Seq(Events) /\ Len(queue) <= ChannelSize /\ httpEvents \in Seq(Events)
        /\ emitted \in Seq({"diff", "crypto", "dryrun"}) /\ base \in [Attempts -> Seq(Events)]
    BY <2>2 DEF Init
  <2>4. /\ attempt \in Attempts /\ held \in [Attempts -> Events \cup {NoEvent}]
        /\ buffer \in [Attempts -> 0..1] /\ relayed \in [Attempts -> 0..1]
    BY DEF Init
  <2>5. reader \in [Attempts -> BOOLEAN] /\ ran \in [Attempts -> BOOLEAN]
    BY DEF Init
  <2> QED
    BY <2>2, <2>3, <2>4 DEF Init, TypeOK, Statuses
<1>3. AgendaInv /\ ChildInv /\ PipeInv
  BY <1>1 DEF Init, AgendaInv, ChildInv, PipeInv, Before, Live
<1>4. TracerInv /\ StopInv
  BY DEF Init, TracerInv, StopInv
<1>5. ResultInv
  BY <1>1, NothingIn DEF Init, ResultInv, Before
<1>6. EventInv
  <2>1. InHand = {}
    BY DEF Init, InHand
  <2> QED
    BY <2>1, NothingIn DEF Init, EventInv
<1> QED
  BY <1>2, <1>3, <1>4, <1>5, <1>6 DEF EngineInv

LEMMA StepsKeepInvariant == EngineInv /\ [Next]_vars => EngineInv'
<1> SUFFICES ASSUME EngineInv, [Next]_vars PROVE EngineInv'
  OBVIOUS
<1>1. CASE Engine
  <2>1. CASE Snapshot \/ OpenAudit \/ AuditFails \/ StartTracer \/ ChooseFull \/ ChooseReduced
    BY <2>1, SnapshotKeeps, OpenAuditKeeps, AuditFailsKeeps, StartTracerKeeps, ChooseFullKeeps,
       ChooseReducedKeeps
  <2>2. CASE StartChild \/ StartFails \/ \E s \in {status[attempt], "lost"} : Reap(s)
    BY <2>2, StartChildKeeps, StartFailsKeeps, ReapKeeps
  <2>3. CASE Collect \/ Judge \/ CloseTrace \/ Join
    BY <2>3, CollectKeeps, JudgeKeeps, CloseTraceKeeps, JoinKeeps
  <2>4. CASE EmitDiff \/ CheckURLs \/ EmitCrypto \/ EmitDryRun \/ Unwind
    BY <2>4, EmitDiffKeeps, CheckURLsKeeps, EmitCryptoKeeps, EmitDryRunKeeps, UnwindKeeps
  <2> QED
    BY <1>1, <2>1, <2>2, <2>3, <2>4 DEF Engine
<1>2. CASE LoopEnds \/ \E e \in Events : Deliver(e)
  BY <1>2, LoopEndsKeeps, DeliverKeeps
<1>3. ASSUME NEW k \in Attempts, Child(k) PROVE EngineInv'
  BY <1>3, AnnounceKeeps, ExecKeeps, ExitKeeps, RequestKeeps DEF Child
<1>4. ASSUME NEW k \in Attempts, Consumer(k) \/ Refresher(k) PROVE EngineInv'
  BY <1>4, ReceiveKeeps, ReadSliceKeeps, WriteSliceKeeps, ConsumerEndsKeeps, TickKeeps,
     RefreshStopsKeeps DEF Consumer, Refresher
<1>5. CASE UNCHANGED vars
  BY <1>5, StutterKeeps
<1> QED
  BY <1>1, <1>2, <1>3, <1>4, <1>5 DEF Next
------------------------------------------------------------------------------
(***************************************************************************)
(* The theorems.                                                           *)
(***************************************************************************)
\* The invariant holds in every run of the engine.
THEOREM EngineInvariant == Spec => []EngineInv
<1> QED
  BY InvariantAtStart, StepsKeepInvariant, PTL DEF Spec

\* Every variable of the engine keeps its type; among others the tracer's
\* channel (httptrace_linux.go, eventCh) never holds more than its capacity.
THEOREM EngineTypeCorrect == Spec => []TypeOK
<1>1. EngineInv => TypeOK
  BY DEF EngineInv
<1> QED
  BY <1>1, EngineInvariant, PTL

LEMMA NothingAhead == ASSUME Returned PROVE Ahead = {}
BY NothingIn DEF Returned, Ahead

\* Whatever way run or runReduced returns, its tracer is closed, no inner
\* process lives and no audit pipe with an exit status is open; no attempt
\* starts while another lives, and no stop channel is closed twice.
THEOREM RunEndsCleanly == Spec => []CleanReturn
<1>1. ASSUME EngineInv PROVE CleanReturn
  <2>1. Returned => tracer # "open" /\ result # "none"
    BY <1>1, NothingAhead DEF EngineInv, TracerInv, ResultInv, Before
  <2>2. Returned => \A k \in Attempts : reader[k] => status[k] = "lost"
    BY <1>1, NothingAhead DEF EngineInv, PipeInv, Before
  <2>3. \A k \in Attempts : Live(k) => k = attempt /\ At("wait")
    BY <1>1, WaitIsAlone DEF EngineInv, ChildInv, AgendaInv
  <2>4. At("wait") => stopVar \notin stopClosed
    <3>1. At("wait") => "wait" \in Ahead
      BY <1>1, Order DEF EngineInv, AgendaInv
    <3>2. "nil" \notin stopClosed
      BY <1>1 DEF EngineInv, TypeOK
    <3> QED
      BY <1>1, <3>1, <3>2 DEF EngineInv, StopInv
  <2> QED
    BY <2>1, <2>2, <2>3, <2>4 DEF CleanReturn
<1> QED
  BY <1>1, EngineInvariant, PTL

\* Every attempt whose end gave an exit status has had its audit entries
\* relayed (collectAuditLog) by the time the run returns.
THEOREM AuditIsRelayed == Spec => []AuditRelayed
<1>1. ASSUME EngineInv PROVE AuditRelayed
  BY <1>1, NothingAhead DEF EngineInv, PipeInv, Before, AuditRelayed
<1> QED
  BY <1>1, EngineInvariant, PTL

\* Without a fallback the crypto result and the URL check are built from every
\* event that came through the channel, and no kind of result is written twice.
THEOREM EventsAreReported == Spec => []EventsReported
<1>1. ASSUME EngineInv PROVE EventsReported
  BY <1>1, NothingAhead DEF EngineInv, EventInv, ResultInv, Before, EventsReported
<1> QED
  BY <1>1, EngineInvariant, PTL
==============================================================================
