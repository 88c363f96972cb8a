------------------------------ MODULE HostProofs ------------------------------
(***************************************************************************)
(* Theorems about two machines that what else runs on a host can disturb:  *)
(* the watch of the egress calls on Linux (EgressWatch), for any number of *)
(* calls and any cap, and the trace sessions on Windows (TraceSessions),   *)
(* for any set of process ids and however many engines come and go.        *)
(***************************************************************************)
EXTENDS MCHost, FiniteSetTheorems, FunctionTheorems, TLAPS

Holding == {"registered", "first check", "command", "finished", "last check", "closing"}
FirstRuns == FirstNames(Runs, MaxRegistryRecords)

LiveRecords ==
  \A r \in Runs : /\ at[r] \in Holding => record[r] = "whole"
                  /\ at[r] = "creating" => record[r] = "empty"
                  /\ at[r] \in {"new", "unregistered"} => record[r] # "whole"

MetPairs ==
  /\ \A r, s \in Runs : Registered(r) /\ Registered(s) => <<r, s>> \in met
  /\ \A r \in Runs : \A f \in reported[r] : <<r, f[3]>> \in met \/ f[3] \in recycled

\* r has still to look at s, or has looked.
Looks(r, s) ==
  \/ at[r] = "registered"
  \/ at[r] = "first check" /\ s \in todo[r]
  \/ capped[r] \/ Sharing(r, s) \subseteq reported[r]

OneLooks ==
  /\ seen = reported
  /\ \A r, s \in FirstRuns \intersect Audited :
       at[r] \in Holding /\ at[s] \in Holding /\ r # s => Looks(r, s) \/ Looks(s, r)

Listed(r) == IF at[r] \in Checking THEN todo[r] ELSE {}
GhostsGo ==
  \A r \in Audited : at[r] \in Checking \union {"command", "closing"} =>
    \A s \in ghosts[r] : /\ at[s] = "gone"
                         /\ s \in FirstRuns => \/ s \in Listed(r) \/ record[s] # "whole"
                                               \/ s \in recycled

RegistryInv == RegistryTypeOK /\ LiveRecords /\ MetPairs /\ OneLooks /\ GhostsGo
-----------------------------------------------------------------------------
\* A name among the first of all is among the first of those there are.
LEMMA FirstOfFewer ==
  ASSUME NEW S \in SUBSET Runs, NEW s \in S \intersect FirstRuns
  PROVE  s \in FirstNames(S, MaxRegistryRecords)
<1> DEFINE before == {t \in S : t < s}  earlier == {t \in Runs : t < s}
<1>1. IsFiniteSet(earlier)
  BY RegistryAssumption, FS_Subset
<1>2. Cardinality(before) <= Cardinality(earlier) /\ IsFiniteSet(before)
  BY <1>1, FS_Subset
<1>3. Cardinality(earlier) < MaxRegistryRecords
  BY DEF FirstNames, FirstRuns
<1>4. Cardinality(before) \in Nat /\ Cardinality(earlier) \in Nat
  BY <1>1, <1>2, FS_CardinalityType
<1>5. Cardinality(before) < MaxRegistryRecords
  BY <1>2, <1>3, <1>4, RegistryAssumption
<1> QED BY <1>5 DEF FirstNames

\* The first names are names.
LEMMA FirstAreSome == ASSUME NEW S, NEW n PROVE FirstNames(S, n) \subseteq S
  BY DEF FirstNames

\* A finding is about the run it names.
LEMMA SharingNames ==
  ASSUME NEW r \in Runs, NEW s \in Runs
  PROVE  /\ Sharing(r, s) \subseteq Kinds \X Paths \X Runs
         /\ \A f \in Sharing(r, s) : f[3] = s
  BY RegistryAssumption DEF Sharing

\* In the beginning no run is registered.
LEMMA RegistryInitInv == RegistryInit => RegistryInv
<1> SUFFICES ASSUME RegistryInit PROVE RegistryInv
  OBVIOUS
<1> USE DEF RegistryInit
<1>1. RegistryTypeOK
  BY DEF RegistryTypeOK, Phases
<1>2. LiveRecords
  BY DEF LiveRecords, Holding
<1>3. MetPairs
  BY DEF MetPairs, Registered
<1>4. OneLooks
  BY DEF OneLooks, Holding, FirstRuns, FirstNames
<1>5. GhostsGo
  BY RegistryAssumption DEF GhostsGo, Checking
<1> QED BY <1>1, <1>2, <1>3, <1>4, <1>5 DEF RegistryInv
-----------------------------------------------------------------------------
\* A run that registers has met every registered one, and has still to look at
\* all of them.
LEMMA WriteRecordInv ==
  ASSUME RegistryInv, NEW r \in Runs, WriteRecord(r)
  PROVE  RegistryInv'
<1> USE DEF RegistryInv
<1> DEFINE phase == IF r \in Audited THEN "registered" ELSE "command"
<1>1. /\ at[r] = "creating" /\ record[r] = "empty"
      /\ at' = [at EXCEPT ![r] = phase] /\ record' = [record EXCEPT ![r] = "whole"]
      /\ UNCHANGED <<todo, seen, capped, reported, recycled, ghosts>>
  BY DEF WriteRecord, Goto, LiveRecords, RegistryTypeOK
<1>2. met' = met \union {p \in Runs \X Runs :
               r \in {p[1], p[2]} /\ \A s \in {p[1], p[2]} : s = r \/ Registered(s)}
  BY DEF WriteRecord
<1>3. RegistryTypeOK'
  BY <1>1, <1>2 DEF RegistryTypeOK, Phases
<1>4. LiveRecords'
  BY <1>1 DEF LiveRecords, RegistryTypeOK, Holding
<1>5. MetPairs'
  <2>1. ASSUME NEW p \in Runs, NEW q \in Runs, Registered(p)', Registered(q)'
        PROVE  <<p, q>> \in met'
    <3>1. (p = r \/ Registered(p)) /\ (q = r \/ Registered(q))
      BY <1>1, <2>1 DEF Registered, Alive, RegistryTypeOK
    <3>2. CASE p # r /\ q # r
      BY <1>2, <3>1, <3>2 DEF MetPairs
    <3>3. CASE p = r \/ q = r
      BY <1>2, <3>1, <3>3
    <3> QED BY <3>2, <3>3
  <2> QED BY <1>1, <1>2, <2>1 DEF MetPairs
<1>6. OneLooks'
  <2> SUFFICES ASSUME NEW p \in FirstRuns \intersect Audited, NEW q \in FirstRuns \intersect Audited,
                      at'[p] \in Holding, at'[q] \in Holding, p # q
               PROVE  Looks(p, q)' \/ Looks(q, p)'
    BY <1>1 DEF OneLooks
  <2>1. p \in Runs /\ q \in Runs
    BY RegistryAssumption
  <2>2. CASE p = r \/ q = r
    BY <1>1, <2>1, <2>2 DEF Looks, RegistryTypeOK
  <2>3. CASE p # r /\ q # r
    BY <1>1, <2>1, <2>3 DEF OneLooks, Looks, RegistryTypeOK
  <2> QED BY <2>2, <2>3
<1>7. GhostsGo'
  <2> SUFFICES ASSUME NEW p \in Audited, at'[p] \in Checking \union {"command", "closing"},
                      NEW s \in ghosts[p]
               PROVE  /\ at'[s] = "gone"
                      /\ s \in FirstRuns => \/ s \in Listed(p)' \/ record'[s] # "whole"
                                            \/ s \in recycled
    BY <1>1 DEF GhostsGo
  <2>1. p \in Runs /\ s \in Runs
    BY RegistryAssumption DEF RegistryTypeOK
  <2>2. p # r
    BY <1>1, <2>1 DEF RegistryTypeOK, Checking
  <2> QED BY <1>1, <2>1, <2>2 DEF GhostsGo, RegistryTypeOK, Listed
<1> QED BY <1>3, <1>4, <1>5, <1>6, <1>7

\* A first check lists every run that has registered, for its record is there;
\* a last one has nothing to add to what the first one saw.
LEMMA BeginCheckInv ==
  ASSUME RegistryInv, NEW r \in Runs, BeginCheck(r)
  PROVE  RegistryInv'
<1> USE DEF RegistryInv
<1> DEFINE phase == IF at[r] = "registered" THEN "first check" ELSE "last check"
           there == {s \in Runs : record[s] # "absent"}
           names == FirstNames(there, MaxRegistryRecords)
<1>1. /\ at[r] \in {"registered", "finished"} /\ at' = [at EXCEPT ![r] = phase]
      /\ todo' = [todo EXCEPT ![r] = names]
      /\ ghosts' = [ghosts EXCEPT ![r] = {s \in Runs : at[s] = "gone"}]
      /\ UNCHANGED <<record, seen, capped, reported, recycled, met>>
  BY DEF BeginCheck, Goto
<1>2. names \subseteq Runs
  BY FirstAreSome
<1>3. RegistryTypeOK'
  <2> HIDE DEF names
  <2> QED BY <1>1, <1>2 DEF RegistryTypeOK, Phases, Checking
<1>4. LiveRecords'
  BY <1>1 DEF LiveRecords, RegistryTypeOK, Holding
<1>5. MetPairs'
  BY <1>1 DEF MetPairs, Registered, Alive, RegistryTypeOK
<1>6. OneLooks'
  <2> SUFFICES ASSUME NEW p \in FirstRuns \intersect Audited, NEW q \in FirstRuns \intersect Audited,
                      at'[p] \in Holding, at'[q] \in Holding, p # q
               PROVE  Looks(p, q)' \/ Looks(q, p)'
    BY <1>1 DEF OneLooks
  <2>1. p \in Runs /\ q \in Runs
    BY RegistryAssumption
  <2>2. at[p] \in Holding /\ at[q] \in Holding
    BY <1>1, <2>1 DEF Holding, RegistryTypeOK
  <2>3. ASSUME NEW a \in {p, q}, NEW b \in {p, q}, a # b, Looks(a, b)
        PROVE  Looks(a, b)'
    <3>1. CASE a = r /\ at[r] = "registered"
      <4>1. b \in names
        BY <2>1, <2>2, FirstOfFewer DEF LiveRecords
      <4> HIDE DEF names
      <4> QED BY <1>1, <2>1, <3>1, <4>1 DEF Looks, RegistryTypeOK
    <3>2. CASE a = r /\ at[r] # "registered"
      BY <1>1, <2>3, <3>2 DEF Looks
    <3>3. CASE a # r
      <4> HIDE DEF names
      <4> QED BY <1>1, <2>1, <2>3, <3>3 DEF Looks, RegistryTypeOK
    <3> QED BY <3>1, <3>2, <3>3
  <2>4. Looks(p, q) \/ Looks(q, p)
    BY <2>2 DEF OneLooks
  <2> QED BY <2>3, <2>4
<1>7. GhostsGo'
  <2> SUFFICES ASSUME NEW p \in Audited, at'[p] \in Checking \union {"command", "closing"},
                      NEW s \in ghosts'[p]
               PROVE  /\ at'[s] = "gone"
                      /\ s \in FirstRuns => \/ s \in Listed(p)' \/ record'[s] # "whole"
                                            \/ s \in recycled'
    BY DEF GhostsGo
  <2>1. p \in Runs /\ s \in Runs
    BY <1>3, RegistryAssumption DEF RegistryTypeOK
  <2>2. CASE p = r
    <3>1. at[s] = "gone" /\ s # r
      BY <1>1, <2>2 DEF RegistryTypeOK
    <3>2. s \in FirstRuns /\ record[s] = "whole" => s \in names
      BY <2>1, FirstOfFewer
    <3> HIDE DEF names
    <3> QED BY <1>1, <2>1, <2>2, <3>1, <3>2 DEF Listed, RegistryTypeOK
  <2>3. CASE p # r
    <3> HIDE DEF names
    <3> QED BY <1>1, <2>1, <2>3 DEF GhostsGo, RegistryTypeOK, Listed
  <2> QED BY <2>2, <2>3
<1> QED BY <1>3, <1>4, <1>5, <1>6, <1>7

\* A look at a record: it is removed when its run is dead, and compared when
\* it is there and its run answers.
LEMMA CheckRecordInv ==
  ASSUME RegistryInv, NEW r \in Runs, CheckRecord(r)
  PROVE  RegistryInv'
<1> USE DEF RegistryInv
<1>1. PICK s \in Runs :
        /\ at[r] \in Checking /\ s \in todo[r]
        /\ todo' = [todo EXCEPT ![r] = @ \ {s}]
        /\ record' = [record EXCEPT ![s] = IF Stale(r, s) THEN "absent" ELSE @]
        /\ IF Comparable(r, s) THEN Report(r, Sharing(r, s))
                               ELSE UNCHANGED <<seen, capped, reported>>
        /\ UNCHANGED <<at, recycled, met, ghosts>>
  BY FirstAreSome DEF CheckRecord, RegistryTypeOK
<1>2. \E kept \in SUBSET Sharing(r, s) :
        /\ reported' = [reported EXCEPT ![r] = @ \union kept]
        /\ seen' = [seen EXCEPT ![r] = @ \union kept]
        /\ capped' \in [Runs -> BOOLEAN] /\ \A p \in Runs : capped[p] => capped'[p]
        /\ kept # {} => Comparable(r, s)
        /\ Comparable(r, s) => capped'[r] \/ Sharing(r, s) \subseteq reported'[r]
  <2>1. CASE Comparable(r, s) /\ ~capped[r]
    <3>1. PICK kept \in SUBSET (Sharing(r, s) \ seen[r]) :
            /\ seen' = [seen EXCEPT ![r] = @ \union kept]
            /\ reported' = [reported EXCEPT ![r] = @ \union kept]
            /\ capped' = [capped EXCEPT ![r] = kept # Sharing(r, s) \ seen[r]]
      BY <1>1, <2>1 DEF Report
    <3>2. capped' \in [Runs -> BOOLEAN] /\ \A p \in Runs : capped[p] => capped'[p]
      BY <2>1, <3>1 DEF RegistryTypeOK
    <3>3. capped'[r] \/ kept = Sharing(r, s) \ seen[r]
      BY <3>1 DEF RegistryTypeOK
    <3>4. capped'[r] \/ Sharing(r, s) \subseteq reported'[r]
      BY <3>1, <3>3 DEF RegistryTypeOK, OneLooks
    <3> QED BY <2>1, <3>1, <3>2, <3>4
  <2>2. CASE ~Comparable(r, s) \/ capped[r]
    <3>1. UNCHANGED <<seen, capped, reported>>
      BY <1>1, <2>2 DEF Report
    <3>2. reported' = [reported EXCEPT ![r] = @ \union {}] /\ seen' = [seen EXCEPT ![r] = @ \union {}]
      BY <3>1 DEF RegistryTypeOK
    <3>3. capped' \in [Runs -> BOOLEAN] /\ \A p \in Runs : capped[p] => capped'[p]
      BY <3>1 DEF RegistryTypeOK
    <3>4. Comparable(r, s) => capped'[r]
      BY <2>2, <3>1
    <3>5. {} \in SUBSET Sharing(r, s)
      OBVIOUS
    <3> WITNESS {} \in SUBSET Sharing(r, s)
    <3> QED BY <3>2, <3>3, <3>4
  <2> QED BY <2>1, <2>2
<1>3. PICK kept \in SUBSET Sharing(r, s) :
        /\ reported' = [reported EXCEPT ![r] = @ \union kept]
        /\ seen' = [seen EXCEPT ![r] = @ \union kept]
        /\ capped' \in [Runs -> BOOLEAN] /\ \A p \in Runs : capped[p] => capped'[p]
        /\ kept # {} => Comparable(r, s)
        /\ Comparable(r, s) => capped'[r] \/ Sharing(r, s) \subseteq reported'[r]
  BY <1>2
<1>4. \A p \in Runs : record'[p] = record[p] \/ (p = s /\ Stale(r, s) /\ record'[p] = "absent")
  BY <1>1 DEF RegistryTypeOK
<1>5. RegistryTypeOK'
  <2>1. kept \subseteq Kinds \X Paths \X Runs
    BY SharingNames
  <2>2. record' \in [Runs -> {"absent", "empty", "whole"}]
    BY <1>1 DEF RegistryTypeOK
  <2>3. seen' \in [Runs -> SUBSET (Kinds \X Paths \X Runs)]
    BY <1>3, <2>1 DEF RegistryTypeOK
  <2>4. reported' \in [Runs -> SUBSET (Kinds \X Paths \X Runs)]
    BY <1>3, <2>1 DEF RegistryTypeOK
  <2> QED BY <1>1, <1>3, <2>2, <2>3, <2>4 DEF RegistryTypeOK
<1>6. LiveRecords'
  <2>1. Stale(r, s) => at[s] \in {"new", "gone"} /\ record[s] = "whole"
    BY DEF Stale, Readable, PidAlive, Alive
  <2>2. Stale(r, s) => at[s] = "gone"
    BY <2>1 DEF LiveRecords
  <2> QED BY <1>1, <1>4, <2>2 DEF LiveRecords, Holding
<1>7. MetPairs'
  <2>1. ASSUME NEW p \in Runs, NEW q \in Runs, Registered(p)', Registered(q)'
        PROVE  <<p, q>> \in met'
    BY <1>1, <1>4, <2>1 DEF Registered, Alive, MetPairs
  <2>2. ASSUME NEW f \in kept
        PROVE  <<r, f[3]>> \in met \/ f[3] \in recycled
    <3>1. f[3] = s /\ Readable(s) /\ (Alive(s) \/ s \in recycled)
      BY <1>3, SharingNames DEF Comparable, PidAlive
    <3>2. Registered(r)
      BY <1>1 DEF Registered, Alive, LiveRecords, Holding, Checking
    <3> QED BY <3>1, <3>2 DEF MetPairs, Registered, Readable
  <2>3. ASSUME NEW p \in Runs, NEW f \in reported'[p]
        PROVE  <<p, f[3]>> \in met' \/ f[3] \in recycled'
    <3>1. f \in reported[p] \/ (p = r /\ f \in kept)
      BY <1>3, <2>3 DEF RegistryTypeOK
    <3> QED BY <1>1, <2>2, <3>1 DEF MetPairs
  <2> QED BY <2>1, <2>3 DEF MetPairs
<1>8. OneLooks'
  <2>1. seen' = reported'
    BY <1>3 DEF OneLooks
  <2>2. ASSUME NEW p \in FirstRuns \intersect Audited, NEW q \in FirstRuns \intersect Audited,
               at'[p] \in Holding, at'[q] \in Holding, p # q
        PROVE  Looks(p, q)' \/ Looks(q, p)'
    <3>1. p \in Runs /\ q \in Runs /\ at[p] \in Holding /\ at[q] \in Holding
      BY <1>1, <2>2, RegistryAssumption
    <3>2. ASSUME NEW a \in {p, q}, NEW b \in {p, q}, a # b, Looks(a, b)
          PROVE  Looks(a, b)'
      <4>1. CASE capped[a]
        BY <1>3, <3>1, <4>1 DEF Looks
      <4>2. CASE Sharing(a, b) \subseteq reported[a]
        <5>1. reported[a] \subseteq reported'[a]
          BY <1>3, <3>1 DEF RegistryTypeOK
        <5> QED BY <4>2, <5>1 DEF Looks
      <4>3. CASE at[a] = "registered"
        BY <1>1, <4>3 DEF Looks
      <4>4. CASE at[a] = "first check" /\ b \in todo[a] /\ ~(a = r /\ b = s)
        BY <1>1, <3>1, <4>4 DEF Looks, RegistryTypeOK
      <4>5. CASE at[a] = "first check" /\ a = r /\ b = s
        <5>1. Comparable(r, s)
          BY <3>1, <3>2, <4>5 DEF Comparable, Readable, PidAlive, Alive, LiveRecords, Holding
        <5> QED BY <1>3, <4>5, <5>1 DEF Looks
      <4> QED BY <3>2, <4>1, <4>2, <4>3, <4>4, <4>5 DEF Looks
    <3>3. Looks(p, q) \/ Looks(q, p)
      BY <2>2, <3>1 DEF OneLooks
    <3> QED BY <2>2, <3>2, <3>3
  <2> QED BY <2>1, <2>2 DEF OneLooks
<1>9. GhostsGo'
  <2> SUFFICES ASSUME NEW p \in Audited, at[p] \in Checking \union {"command", "closing"},
                      NEW g \in ghosts[p]
               PROVE  /\ at[g] = "gone"
                      /\ g \in FirstRuns => \/ g \in Listed(p)' \/ record'[g] # "whole"
                                            \/ g \in recycled
    BY <1>1 DEF GhostsGo
  <2>1. p \in Runs /\ g \in Runs
    BY RegistryAssumption DEF RegistryTypeOK
  <2>2. at[g] = "gone" /\ (g \in FirstRuns => g \in Listed(p) \/ record[g] # "whole" \/ g \in recycled)
    BY DEF GhostsGo
  <2>3. CASE p = r /\ g = s
    <3>1. Stale(r, s) \/ record[s] # "whole" \/ s \in recycled
      BY <1>1, <2>2, <2>3 DEF Stale, Readable, PidAlive, Alive, Checking
    <3>2. record'[s] # "whole" \/ s \in recycled
      BY <1>1, <3>1 DEF RegistryTypeOK
    <3> QED BY <2>2, <2>3, <3>2
  <2>4. CASE ~(p = r /\ g = s)
    <3>1. g \in Listed(p) => g \in Listed(p)'
      BY <1>1, <2>1, <2>4 DEF Listed, RegistryTypeOK
    <3> QED BY <1>4, <2>1, <2>2, <3>1
  <2> QED BY <2>3, <2>4
<1> QED BY <1>5, <1>6, <1>7, <1>8, <1>9
-----------------------------------------------------------------------------
\* The steps that move one run on and touch no record but its own.
LEMMA MovesInv ==
  ASSUME RegistryInv, NEW r \in Runs,
         \/ RegisterFails(r) \/ CreateRecord(r) \/ EndCheck(r) \/ EndCommand(r)
         \/ CloseRecord(r) \/ EndUnregistered(r) \/ Killed(r)
  PROVE  RegistryInv'
<1> USE DEF RegistryInv
<1>1. UNCHANGED <<seen, capped, reported, recycled, met, ghosts>>
  BY DEF RegisterFails, CreateRecord, EndCheck, EndCommand, CloseRecord, EndUnregistered, Killed
<1>2. PICK phase \in Phases : at' = [at EXCEPT ![r] = phase]
  BY DEF RegisterFails, CreateRecord, EndCheck, EndCommand, CloseRecord, EndUnregistered, Killed,
         Goto, Phases
<1>3. \/ phase \in {"creating", "unregistered", "gone"}
      \/ /\ phase \in {"command", "closing", "finished"} /\ at[r] \in Holding \ {"registered"}
         /\ UNCHANGED <<record, todo>>
         /\ phase = "finished" => at[r] = "command"
         /\ phase # "finished" /\ r \in Audited => at[r] \in Checking /\ todo[r] = {}
  BY <1>2 DEF RegisterFails, CreateRecord, EndCheck, EndCommand, CloseRecord, EndUnregistered,
              Killed, Goto, Phases, Checking, Holding, RegistryTypeOK
<1>4. /\ \A p \in Runs \ {r} : at'[p] = at[p] /\ record'[p] = record[p] /\ todo'[p] = todo[p]
      /\ at'[r] = phase
  BY <1>2 DEF RegisterFails, CreateRecord, EndCheck, EndCommand, CloseRecord, EndUnregistered,
              Killed, RegistryTypeOK
<1>5. RegistryTypeOK'
  <2>1. todo' \in [Runs -> SUBSET Runs]
    BY DEF RegisterFails, CreateRecord, EndCheck, EndCommand, CloseRecord, EndUnregistered,
           Killed, RegistryTypeOK
  <2>2. record' \in [Runs -> {"absent", "empty", "whole"}]
    BY DEF RegisterFails, CreateRecord, EndCheck, EndCommand, CloseRecord, EndUnregistered,
           Killed, RegistryTypeOK
  <2> QED BY <1>1, <1>2, <2>1, <2>2 DEF RegistryTypeOK
<1>6. LiveRecords'
  <2>1. /\ at'[r] \in Holding => record'[r] = "whole"
        /\ at'[r] = "creating" => record'[r] = "empty"
        /\ at'[r] \in {"new", "unregistered"} => record'[r] # "whole"
    BY <1>2 DEF RegisterFails, CreateRecord, EndCheck, EndCommand, CloseRecord, EndUnregistered,
                Killed, Goto, LiveRecords, Holding, Checking, RegistryTypeOK
  <2> QED BY <1>4, <2>1 DEF LiveRecords
<1>7. MetPairs'
  <2>1. \A p \in Runs : Registered(p)' => Registered(p)
    <3>1. \A p \in Runs \ {r} : Registered(p)' => Registered(p)
      BY <1>4 DEF Registered, Alive
    <3>2. Registered(r)' => Registered(r)
      BY <1>3, <1>4 DEF Registered, Alive, Holding, RegisterFails, CreateRecord, EndCheck,
         EndCommand, CloseRecord, EndUnregistered, Killed, Goto, RegistryTypeOK, LiveRecords, Checking
    <3> QED BY <3>1, <3>2
  <2> QED BY <1>1, <2>1 DEF MetPairs
<1>8. OneLooks'
  <2> SUFFICES ASSUME NEW p \in FirstRuns \intersect Audited, NEW q \in FirstRuns \intersect Audited,
                      at'[p] \in Holding, at'[q] \in Holding, p # q
               PROVE  Looks(p, q)' \/ Looks(q, p)'
    BY <1>1 DEF OneLooks
  <2>1. p \in Runs /\ q \in Runs
    BY RegistryAssumption
  <2>2. at[p] \in Holding /\ at[q] \in Holding
    BY <1>3, <1>4, <2>1 DEF Holding
  <2>3. ASSUME NEW a \in {p, q}, NEW b \in {p, q}, a # b, Looks(a, b)
        PROVE  Looks(a, b)'
    <3>1. CASE a # r
      BY <1>1, <1>4, <2>1, <2>3, <3>1 DEF Looks
    <3>2. CASE a = r
      <4>1. at[r] # "registered" /\ (at[r] = "first check" => todo[r] = {})
        BY <1>3, <1>4, <3>2, <2>1, <2>3 DEF Holding, Checking
      <4> QED BY <1>1, <2>3, <3>2, <4>1 DEF Looks
    <3> QED BY <3>1, <3>2
  <2>4. Looks(p, q) \/ Looks(q, p)
    BY <2>2 DEF OneLooks
  <2> QED BY <2>3, <2>4
<1>9. GhostsGo'
  <2> SUFFICES ASSUME NEW p \in Audited, at'[p] \in Checking \union {"command", "closing"},
                      NEW g \in ghosts[p]
               PROVE  /\ at'[g] = "gone"
                      /\ g \in FirstRuns => \/ g \in Listed(p)' \/ record'[g] # "whole"
                                            \/ g \in recycled
    BY <1>1 DEF GhostsGo
  <2>1. p \in Runs /\ g \in Runs
    BY RegistryAssumption DEF RegistryTypeOK
  <2>2. at[p] \in Checking \union {"command", "closing"} /\ (p = r => Listed(r) = {} \/ Listed(r)' = Listed(r))
    BY <1>3, <1>4, <2>1 DEF Checking, Listed, Holding
  <2>3. at[g] = "gone" /\ (g \in FirstRuns => g \in Listed(p) \/ record[g] # "whole" \/ g \in recycled)
    BY <2>2 DEF GhostsGo
  <2>4. at[r] # "gone"
    BY DEF RegisterFails, CreateRecord, EndCheck, EndCommand, CloseRecord, EndUnregistered,
           Killed, Alive, Checking
  <2>5. at'[g] = "gone" /\ record'[g] = record[g]
    BY <1>4, <2>1, <2>3, <2>4
  <2>6. Listed(p) \subseteq Listed(p)'
    BY <1>3, <1>4, <2>1, <2>2 DEF Listed, Checking, Holding
  <2> QED BY <2>3, <2>5, <2>6
<1> QED BY <1>5, <1>6, <1>7, <1>8, <1>9

\* An id that is used again only widens the exceptions.
LEMMA ReusePidInv ==
  ASSUME RegistryInv, NEW r \in Runs, ReusePid(r)
  PROVE  RegistryInv'
<1> USE DEF RegistryInv, ReusePid
<1>1. RegistryTypeOK'
  BY DEF RegistryTypeOK
<1>2. LiveRecords'
  BY DEF LiveRecords
<1>3. MetPairs'
  BY DEF MetPairs, Registered, Alive
<1>4. OneLooks'
  BY DEF OneLooks, Looks
<1>5. GhostsGo'
  BY DEF GhostsGo, Listed
<1> QED BY <1>1, <1>2, <1>3, <1>4, <1>5

\* Every step keeps the invariant.
LEMMA RegistryStepInv == RegistryInv /\ [RegistryNext]_registryVars => RegistryInv'
<1> SUFFICES ASSUME RegistryInv, [RegistryNext]_registryVars
             PROVE  RegistryInv'
  OBVIOUS
<1>1. CASE RegistryNext
  <2> PICK r \in Runs : RunStep(r) \/ Killed(r) \/ ReusePid(r)
    BY <1>1 DEF RegistryNext
  <2> QED BY WriteRecordInv, BeginCheckInv, CheckRecordInv, MovesInv, ReusePidInv DEF RunStep
<1>2. CASE UNCHANGED registryVars
  BY <1>2 DEF registryVars, RegistryInv, RegistryTypeOK, LiveRecords, MetPairs, OneLooks, Looks,
              GhostsGo, Listed, Registered, Alive
<1> QED BY <1>1, <1>2

\* It holds in every state of every behaviour.
LEMMA RegistryAlways == RegistrySpec => []RegistryInv
  BY RegistryInitInv, RegistryStepInv, PTL DEF RegistrySpec
-----------------------------------------------------------------------------
\* registerRun before check, in every run: of two audited runs that share a
\* path and run their commands at one time, one has reported it, in whatever
\* order they came.
THEOREM SharingIsReported == RegistrySpec => []SharingReported
<1>1. RegistryInv => SharingReported
  <2> SUFFICES ASSUME RegistryInv, NEW r \in FirstRuns \intersect Audited,
                      NEW s \in FirstRuns \intersect Audited, Past(r), Past(s), r # s
               PROVE  \/ capped[r] \/ capped[s] \/ Sharing(r, s) \subseteq reported[r]
                      \/ Sharing(s, r) \subseteq reported[s]
    BY DEF SharingReported, FirstRuns
  <2>1. at[r] \in Holding /\ at[s] \in Holding
    BY DEF Past, Holding
  <2> QED BY <2>1 DEF RegistryInv, OneLooks, Looks, Past
<1> QED BY <1>1, RegistryAlways, PTL

\* check reports no run that was not there together with the reporter, unless
\* its process id is another process' by then.
THEOREM ReportsAreOfRunsMet == RegistrySpec => []ReportedRunsMet
<1>1. RegistryInv => ReportedRunsMet
  BY DEF RegistryInv, MetPairs, ReportedRunsMet
<1> QED BY <1>1, RegistryAlways, PTL

\* A run that lives keeps its record, and a check leaves none of a run that was
\* dead before it, but for a process id used again, a name past the cut and a
\* file that was never written whole.
THEOREM RecordsAreOfLiveRuns == RegistrySpec => []RecordsFollowRuns
<1>1. RegistryInv => RecordsFollowRuns
  <2> SUFFICES ASSUME RegistryInv PROVE RecordsFollowRuns
    OBVIOUS
  <2>1. \A r \in Runs : at[r] = "registered" \/ at[r] \in Checking \/ Past(r) => record[r] = "whole"
    BY DEF RegistryInv, LiveRecords, Holding, Checking, Past
  <2>2. \A r \in Audited : at[r] \in {"command", "closing"} =>
          \A s \in ghosts[r] \intersect FirstRuns : record[s] # "whole" \/ s \in recycled
    BY DEF RegistryInv, GhostsGo, Listed, Checking
  <2> QED BY <2>1, <2>2 DEF RecordsFollowRuns, FirstRuns
<1> QED BY <1>1, RegistryAlways, PTL
------------------------------------------------------------------------------

(***************************************************************************)
(* What merging and overlaying keep.                                       *)
(***************************************************************************)
LEMMA FieldNames ==
  Fields = {"grants", "access", "rules", "flags", "relaxed", "sealed", "limit", "cmd"}
BY DEF Fields, Blank

LEMMA MergeKeeps ==
  ASSUME NEW p, NEW q
  PROVE  /\ IsPolicy(MergePolicies(p, q))
         /\ p.grants \subseteq MergePolicies(p, q).grants
         /\ q.grants \subseteq MergePolicies(p, q).grants
         /\ p.flags \subseteq MergePolicies(p, q).flags
         /\ q.flags \subseteq MergePolicies(p, q).flags
         /\ p.limit # 0 => MergePolicies(p, q).limit = p.limit
<1> DEFINE m == MergePolicies(p, q)
<1>1. /\ m.grants = p.grants \union q.grants /\ m.flags = p.flags \union q.flags
      /\ m.limit = PickNonZero(p.limit, q.limit)
  BY DEF MergePolicies, Union
<1>2. IsPolicy(m)
  BY FieldNames DEF MergePolicies, IsPolicy
<1> HIDE DEF m
<1>3. m.grants = p.grants \union q.grants =>
        p.grants \subseteq m.grants /\ q.grants \subseteq m.grants
  OBVIOUS
<1> QED
  BY <1>1, <1>2 DEF PickNonZero, m

LEMMA OverlayKeeps ==
  ASSUME NEW c, NEW p, IsPolicy(p)
  PROVE  /\ IsPolicy(OverlayExecConfigToPolicy(c, p))
         /\ p.grants \subseteq OverlayExecConfigToPolicy(c, p).grants
         /\ p.flags \subseteq OverlayExecConfigToPolicy(c, p).flags
         /\ c.flags \subseteq OverlayExecConfigToPolicy(c, p).flags
         /\ OverlayExecConfigToPolicy(c, p).limit = p.limit
<1> DEFINE o == OverlayExecConfigToPolicy(c, p)
<1>1. /\ o.grants = p.grants \union c.grants /\ o.flags = p.flags \union c.flags
      /\ o.limit = p.limit
  BY DEF OverlayExecConfigToPolicy
<1>2. IsPolicy(o)
  BY DEF OverlayExecConfigToPolicy, IsPolicy
<1> HIDE DEF o
<1> QED
  BY <1>1, <1>2 DEF o

(***************************************************************************)
(* A temporary file that is to be created finds an inode nobody uses.      *)
(***************************************************************************)
Used == {entry["file"], entry["tmp"]} \union {fd[l] : l \in Learners}

LEMMA NodesTyped ==
  /\ Cardinality(Learners) \in Nat /\ IsFiniteSet(Learners)
  /\ Nodes \subseteq Nat \ {0} /\ 1 \in Nodes /\ 2 \in Nodes
  /\ IsFiniteSet(Nodes) /\ Cardinality(Nodes) = Cardinality(Learners) + 2
<1>1. IsFiniteSet(Learners) /\ Cardinality(Learners) \in Nat
  BY StoreAssumption, FS_CardinalityType
<1>2. /\ IsFiniteSet(1..(Cardinality(Learners) + 2))
      /\ Cardinality(1..(Cardinality(Learners) + 2)) = Cardinality(Learners) + 2
  BY <1>1, FS_Interval
<1> QED
  BY <1>1, <1>2 DEF Nodes

LEMMA NodeIsFree ==
  ASSUME StoreTypeOK, entry["tmp"] = None
  PROVE  FreeNode \in Nodes /\ FreeNode \notin Used
<1>1. SUFFICES \E n \in Nodes : n \notin Used
  BY DEF FreeNode, Used
<1>2. SUFFICES ASSUME \A n \in Nodes : n \in Used PROVE FALSE
  OBVIOUS
<1> DEFINE Opens == {fd[l] : l \in Learners}
<1>3. Nodes \subseteq Opens \union {entry["file"]}
  BY <1>2, NodesTyped DEF Used, None
<1>4. IsFiniteSet(Opens) /\ Cardinality(Opens) <= Cardinality(Learners) /\ Cardinality(Opens) \in Nat
  <2>1. fd \in Surjection(Learners, Opens)
    <3>1. fd \in [Learners -> Opens]
      BY DEF StoreTypeOK
    <3> QED
      BY <3>1, Fun_IsSurj
  <2>2. IsFiniteSet(Opens) /\ Cardinality(Opens) <= Cardinality(Learners)
    BY <2>1, NodesTyped, FS_Surjection
  <2> QED
    BY <2>2, FS_CardinalityType
<1>5. /\ IsFiniteSet(Opens \union {entry["file"]})
      /\ Cardinality(Opens \union {entry["file"]}) <= Cardinality(Learners) + 1
  <2> HIDE DEF Opens
  <2>1. /\ IsFiniteSet(Opens \union {entry["file"]})
        /\ Cardinality(Opens \union {entry["file"]}) \in {Cardinality(Opens), Cardinality(Opens) + 1}
    BY <1>4, FS_AddElement
  <2> QED
    BY <1>4, <2>1, NodesTyped
<1>6. /\ Cardinality(Nodes) <= Cardinality(Opens \union {entry["file"]})
      /\ Cardinality(Opens \union {entry["file"]}) \in Nat
  BY <1>3, <1>5, FS_Subset, FS_CardinalityType
<1> QED
  BY <1>5, <1>6, NodesTyped
------------------------------------------------------------------------------
(***************************************************************************)
(* Types, and how often a learner has written by which stage.              *)
(***************************************************************************)
WritesInv ==
  \A l \in Learners :
    /\ stage[l] \in {"learning", "learned"} => writes[l] = 0
    /\ stage[l] = "merged" => writes[l] = 0 \/ (writes[l] = 1 /\ l \in Linux)
    /\ stage[l] \in Working \ {"merged"} => writes[l] = 1 \/ (writes[l] = 2 /\ l \in Linux)
    /\ stage[l] = "open" => fd[l] # None
    /\ stage[l] = "refused" => failedW[l]

\* The policies in hand and in the file are policies.
ShapeInv ==
  /\ DOMAIN policy = Learners /\ \A l \in Learners : IsPolicy(policy[l])
  /\ \A n \in Nodes : inode[n].whole => IsPolicy(inode[n].policy)

TypeInv == StoreTypeOK /\ WritesInv /\ ShapeInv

LEMMA MoveTyped ==
  ASSUME StoreTypeOK, NEW l \in Learners, NEW s \in Stages, Move(l, s)
  PROVE  /\ stage' \in [Learners -> Stages] /\ overlapped' \in BOOLEAN
         /\ stage'[l] = s /\ \A k \in Learners \ {l} : stage'[k] = stage[k]
BY DEF StoreTypeOK, Move

LEMMA Opened ==
  ASSUME TypeInv, NEW l \in Learners, stage[l] = "open"
  PROVE  fd[l] \in Nodes
BY DEF TypeInv, StoreTypeOK, WritesInv

LEMMA BlankIsPolicy == IsPolicy(Blank) /\ Blank.grants = {} /\ Blank.flags = {}
BY DEF IsPolicy, Fields, Blank

LEMMA InitTyped == StoreInit => TypeInv
<1> SUFFICES ASSUME StoreInit PROVE TypeInv
  OBVIOUS
<1>1. /\ entry["file"] \in {None, 1} /\ entry["tmp"] = None
      /\ entry \in [{"file", "tmp"} -> Nodes \union {None}]
  BY NodesTyped DEF StoreInit
<1>2. DOMAIN inode = Nodes /\ \A n \in Nodes : inode[n].whole \in BOOLEAN
  BY DEF StoreInit, NotWhole
<1>3. StoreTypeOK
  <2>1. /\ stage \in [Learners -> Stages] /\ writes \in [Learners -> 0..2]
        /\ failedW \in [Learners -> BOOLEAN] /\ fd \in [Learners -> Nodes \union {None}]
        /\ overlapped \in BOOLEAN
    <3>1. stage \in [Learners -> Stages]
      BY DEF StoreInit, Stages, Working
    <3>2. writes \in [Learners -> 0..2] /\ fd \in [Learners -> Nodes \union {None}]
      BY DEF StoreInit
    <3>3. failedW \in [Learners -> BOOLEAN] /\ overlapped \in BOOLEAN
      BY DEF StoreInit
    <3> QED
      BY <3>1, <3>2, <3>3
  <2> QED
    BY <1>1, <1>2, <2>1 DEF StoreTypeOK
<1>4. \A n \in Nodes : inode[n].whole => IsPolicy(inode[n].policy)
  BY BlankIsPolicy, StoreAssumption DEF StoreInit, NotWhole
<1>5. DOMAIN policy = Learners /\ \A l \in Learners : IsPolicy(policy[l])
  BY BlankIsPolicy DEF StoreInit
<1>6. WritesInv
  BY DEF StoreInit, WritesInv, Working
<1> QED
  BY <1>3, <1>4, <1>5, <1>6 DEF TypeInv, ShapeInv

LEMMA LearnTyped ==
  ASSUME TypeInv, NEW l \in Learners,
         Learn(l) \/ LearnFails(l) \/ ReadAndMerge(l) \/ OverlayAgain(l)
  PROVE  TypeInv'
<1>1. StoreTypeOK'
  BY MoveTyped DEF TypeInv, Learn, LearnFails, ReadAndMerge, OverlayAgain, StoreTypeOK,
     Stages, Working
<1>2. WritesInv'
  BY MoveTyped DEF TypeInv, Learn, LearnFails, ReadAndMerge, OverlayAgain, WritesInv,
     Stages, Working
<1>3. ShapeInv'
  <2>1. ASSUME NEW p, IsPolicy(p), policy' = [policy EXCEPT ![l] = p], UNCHANGED inode
        PROVE  ShapeInv'
    BY <2>1 DEF TypeInv, ShapeInv
  <2>2. CASE Learn(l)
    BY <2>1, <2>2, StoreAssumption, OverlayKeeps DEF Learn
  <2>3. CASE LearnFails(l)
    BY <2>3 DEF LearnFails, TypeInv, ShapeInv
  <2>4. CASE ReadAndMerge(l)
    BY <2>4, MergeKeeps DEF ReadAndMerge, TypeInv, ShapeInv
  <2>5. CASE OverlayAgain(l)
    BY <2>5, OverlayKeeps DEF OverlayAgain, TypeInv, ShapeInv
  <2> QED
    BY <2>2, <2>3, <2>4, <2>5
<1> QED
  BY <1>1, <1>2, <1>3 DEF TypeInv

LEMMA WriteTyped ==
  ASSUME TypeInv, NEW l \in Learners,
         \/ OpenTmp(l) \/ WriteTmp(l) \/ WriteFails(l)
         \/ RenameTmp(l) \/ RenameFails(l) \/ RemoveTmp(l) \/ Emit(l) \/ Kill(l)
  PROVE  TypeInv'
<1>1. WritesInv'
  <2>1. CASE OpenTmp(l)
    <3>1. /\ stage[l] = "merged" /\ Move(l, "open") /\ writes' = [writes EXCEPT ![l] = @ + 1]
          /\ \E n : n \in Nodes /\ fd' = [fd EXCEPT ![l] = n] /\ UNCHANGED failedW
      BY <2>1, NodeIsFree DEF OpenTmp, TypeInv, StoreTypeOK
    <3>2. \A n \in Nodes : n # None
      BY NodesTyped DEF None
    <3> QED
      BY <3>1, <3>2, MoveTyped DEF TypeInv, StoreTypeOK, WritesInv, Stages, Working
  <2>2. CASE WriteTmp(l) \/ WriteFails(l) \/ Emit(l) \/ Kill(l)
    BY <2>2, MoveTyped DEF TypeInv, StoreTypeOK, WriteTmp, WriteFails, Emit, Kill,
       WritesInv, Stages, Working
  <2>3. CASE RenameTmp(l) \/ RenameFails(l) \/ RemoveTmp(l)
    BY <2>3, MoveTyped DEF TypeInv, StoreTypeOK, RenameTmp, RenameFails, RemoveTmp,
       WritesInv, Stages, Working
  <2> QED
    BY <2>1, <2>2, <2>3
<1>2. ASSUME NEW n \in Nodes, NEW c, inode' = [inode EXCEPT ![n] = c], UNCHANGED policy,
             c = NotWhole \/ (c.whole = TRUE /\ IsPolicy(c.policy))
      PROVE  ShapeInv' /\ DOMAIN inode' = Nodes /\ \A m \in Nodes : inode'[m].whole \in BOOLEAN
  <2>1. c.whole \in BOOLEAN /\ (c.whole => IsPolicy(c.policy))
    <3>1. CASE c = NotWhole
      BY <3>1 DEF NotWhole
    <3>2. CASE c.whole = TRUE /\ IsPolicy(c.policy)
      BY <3>2
    <3> QED
      BY <1>2, <3>1
  <2>2. /\ DOMAIN inode = Nodes
        /\ \A m \in Nodes : inode[m].whole \in BOOLEAN
                            /\ (inode[m].whole => IsPolicy(inode[m].policy))
    BY DEF TypeInv, StoreTypeOK, ShapeInv
  <2>3. DOMAIN inode' = Nodes /\ inode'[n] = c /\ \A m \in Nodes \ {n} : inode'[m] = inode[m]
    BY <1>2, <2>2
  <2>4. ASSUME NEW m \in Nodes
        PROVE  inode'[m].whole \in BOOLEAN /\ (inode'[m].whole => IsPolicy(inode'[m].policy))
    BY <2>1, <2>2, <2>3
  <2> QED
    BY <1>2, <2>3, <2>4 DEF TypeInv, ShapeInv
<1>3. CASE OpenTmp(l)
  <2> DEFINE n == IF entry["tmp"] = None THEN FreeNode ELSE entry["tmp"]
  <2>1. n \in Nodes
    BY NodeIsFree DEF TypeInv, StoreTypeOK
  <2>2. /\ entry' = [entry EXCEPT !["tmp"] = n] /\ inode' = [inode EXCEPT ![n] = NotWhole]
        /\ fd' = [fd EXCEPT ![l] = n] /\ writes' = [writes EXCEPT ![l] = @ + 1]
        /\ UNCHANGED <<policy, failedW>> /\ writes[l] \in {0, 1} /\ Move(l, "open")
    BY <1>3 DEF OpenTmp, TypeInv, WritesInv
  <2> HIDE DEF n
  <2>3. ShapeInv' /\ DOMAIN inode' = Nodes /\ \A m \in Nodes : inode'[m].whole \in BOOLEAN
    BY <1>2, <2>1, <2>2
  <2>4. writes' \in [Learners -> 0..2]
    BY <2>2 DEF TypeInv, StoreTypeOK
  <2> QED
    BY <1>1, <2>1, <2>2, <2>3, MoveTyped DEF TypeInv, StoreTypeOK, Stages, Working
<1>4. CASE WriteTmp(l)
  <2>1. PICK c : /\ inode' = [inode EXCEPT ![fd[l]] = c]
                 /\ c = NotWhole \/ c = [whole |-> TRUE, policy |-> policy[l]]
    BY <1>4 DEF WriteTmp
  <2>2. c = NotWhole \/ (c.whole = TRUE /\ IsPolicy(c.policy))
    BY <2>1 DEF TypeInv, ShapeInv
  <2>3. ShapeInv' /\ DOMAIN inode' = Nodes /\ \A m \in Nodes : inode'[m].whole \in BOOLEAN
    BY <1>2, <1>4, <2>1, <2>2, Opened DEF WriteTmp
  <2> QED
    BY <1>1, <1>4, <2>3, MoveTyped DEF WriteTmp, TypeInv, StoreTypeOK, Stages, Working
<1>5. CASE RenameTmp(l) \/ RenameFails(l) \/ RemoveTmp(l)
  BY <1>1, <1>5, MoveTyped DEF RenameTmp, RenameFails, RemoveTmp, TypeInv, StoreTypeOK,
     ShapeInv, Stages, Working
<1>6. CASE WriteFails(l)
  <2>1. ShapeInv' /\ DOMAIN inode' = Nodes /\ \A m \in Nodes : inode'[m].whole \in BOOLEAN
    BY <1>2, <1>6, Opened DEF WriteFails
  <2> QED
    BY <1>1, <1>6, <2>1, MoveTyped DEF WriteFails, TypeInv, StoreTypeOK, Stages, Working
<1>7. CASE Emit(l) \/ Kill(l)
  BY <1>1, <1>7, MoveTyped DEF Emit, Kill, TypeInv, StoreTypeOK, ShapeInv, Stages, Working
<1> QED
  BY <1>3, <1>4, <1>5, <1>6, <1>7

\* Whatever learners do at once, each variable keeps its type; a learner
\* writes the file twice at most (mergeAndWrite and the overlay of runLearn).
THEOREM StoreTypeCorrect == StoreSpec => []TypeInv
<1>1. ASSUME TypeInv, [StoreNext]_storeVars PROVE TypeInv'
  <2>1. CASE UNCHANGED storeVars
    BY <1>1, <2>1 DEF storeVars, TypeInv, StoreTypeOK, WritesInv, ShapeInv
  <2> QED
    BY <1>1, <2>1, LearnTyped, WriteTyped DEF StoreNext
<1> QED
  BY <1>1, InitTyped, PTL DEF StoreSpec
------------------------------------------------------------------------------
(***************************************************************************)
(* One learner at a time.                                                  *)
(***************************************************************************)
DiskInv ==
  ~overlapped =>
    /\ \A k, l \in Learners : Busy(k) /\ Busy(l) => k = l
    /\ \A l \in Learners :
         /\ fd[l] # None => stage[l] = "open"
         /\ stage[l] = "open" => fd[l] = entry["tmp"] /\ ~inode[fd[l]].whole
         /\ stage[l] = "written" =>
              /\ entry["tmp"] # None
              /\ inode[entry["tmp"]] = [whole |-> TRUE, policy |-> policy[l]]
    /\ entry["file"] # None => /\ inode[entry["file"]].whole
                               /\ entry["file"] # entry["tmp"]

\* What a policy p must keep: what the file held first, b, and what the
\* learners F that finished with their write done have put into it.
Keeps(p, b, F) ==
  /\ b # Blank => /\ b.grants \subseteq p.grants /\ b.flags \subseteq p.flags
                  /\ b.limit # 0 => p.limit = b.limit
  /\ \A l \in F : /\ Observed[l].grants \subseteq p.grants
                  /\ Configured[l].flags \subseteq p.flags
Finished == {l \in Learners : stage[l] = "done" /\ ~failedW[l]}

\* A learner's policy has its controls from the overlay on.
Overlaid(l) ==
  \/ l \notin Linux /\ stage[l] \notin {"learning", "failed", "killed"}
  \/ writes[l] = 2 /\ stage[l] \in Working
  \/ writes[l] = 1 /\ stage[l] = "merged"

KeepInv ==
  ~overlapped =>
    /\ base # Blank \/ Finished # {} => entry["file"] # None
    /\ entry["file"] # None => Keeps(Stored, base, Finished)
    /\ \A l \in Learners :
         /\ Busy(l) => Keeps(policy[l], base, Finished)
         /\ stage[l] = "learned" \/ Busy(l) => Observed[l].grants \subseteq policy[l].grants
         /\ Overlaid(l) => Configured[l].flags \subseteq policy[l].flags
         /\ stage[l] = "stored" /\ ~failedW[l] => /\ entry["file"] # None
                                                  /\ Stored = policy[l]

StoreInv == TypeInv /\ DiskInv /\ KeepInv

LEMMA MoveAlone ==
  ASSUME StoreTypeOK, NEW l \in Learners, NEW s \in Stages, Move(l, s), ~overlapped'
  PROVE  /\ ~overlapped /\ base' = base /\ stage' \in [Learners -> Stages]
         /\ stage'[l] = s /\ \A k \in Learners \ {l} : stage'[k] = stage[k]
         /\ s \in Working => \A k \in Learners \ {l} : ~Busy(k)
BY DEF StoreTypeOK, Move

LEMMA DiskAlone ==
  ASSUME DiskInv, NEW l \in Learners, ~overlapped, UNCHANGED <<fd, entry, inode>>,
         stage[l] # "open", stage'[l] \notin {"open", "written"},
         \A k \in Learners \ {l} : stage'[k] = stage[k] /\ policy'[k] = policy[k],
         \A k, m \in Learners : Busy(k)' /\ Busy(m)' => k = m
  PROVE  DiskInv'
<1>1. ASSUME NEW k \in Learners
      PROVE  /\ fd'[k] # None => stage'[k] = "open"
             /\ stage'[k] = "open" => fd'[k] = entry'["tmp"] /\ ~inode'[fd'[k]].whole
             /\ stage'[k] = "written" =>
                  /\ entry'["tmp"] # None
                  /\ inode'[entry'["tmp"]] = [whole |-> TRUE, policy |-> policy'[k]]
  BY DEF DiskInv
<1>2. entry'["file"] # None => inode'[entry'["file"]].whole /\ entry'["file"] # entry'["tmp"]
  BY DEF DiskInv
<1> QED
  BY DEF DiskInv

LEMMA MoreKept ==
  ASSUME NEW p, NEW q, NEW b, NEW F, Keeps(p, b, F),
         p.grants \subseteq q.grants, p.flags \subseteq q.flags, p.limit # 0 => q.limit = p.limit
  PROVE  Keeps(q, b, F)
BY DEF Keeps

LEMMA InitStored == StoreInit => DiskInv /\ KeepInv
<1> SUFFICES ASSUME StoreInit PROVE DiskInv /\ KeepInv
  OBVIOUS
<1>1. /\ \A l \in Learners : stage[l] = "learning" /\ fd[l] = None
      /\ entry["tmp"] = None /\ Finished = {} /\ 1 \in Nodes /\ 1 # None
      /\ entry["file"] = IF base = Blank THEN None ELSE 1
  BY NodesTyped DEF StoreInit, Finished, None
<1>2. entry["file"] # None => inode[entry["file"]] = [whole |-> TRUE, policy |-> base]
  BY <1>1 DEF StoreInit
<1>3. DiskInv
  BY <1>1, <1>2 DEF DiskInv, Busy, Working
<1>4. entry["file"] # None => Stored = base
  BY <1>2 DEF Stored
<1>5. KeepInv
  BY <1>1, <1>4 DEF KeepInv, Keeps, Busy, Working, Overlaid
<1> QED
  BY <1>3, <1>5

LEMMA LearnKeeps ==
  ASSUME StoreInv, NEW l \in Learners, Learn(l) \/ LearnFails(l)
  PROVE  DiskInv' /\ KeepInv'
<1> SUFFICES ASSUME ~overlapped' PROVE DiskInv' /\ KeepInv'
  BY DEF DiskInv, KeepInv
<1>1. /\ ~overlapped /\ base' = base /\ stage[l] = "learning" /\ stage'[l] \in {"learned", "failed"}
      /\ \A k \in Learners \ {l} : stage'[k] = stage[k] /\ policy'[k] = policy[k]
      /\ UNCHANGED <<writes, failedW, fd, entry, inode>>
      /\ stage'[l] = "failed" => l \in Linux
  BY MoveAlone DEF Learn, LearnFails, StoreInv, TypeInv, ShapeInv, Stages, Working
<1>2. stage'[l] = "learned" => /\ Observed[l].grants \subseteq policy'[l].grants
                               /\ l \notin Linux => Configured[l].flags \subseteq policy'[l].flags
  BY OverlayKeeps, StoreAssumption, MoveTyped DEF Learn, LearnFails, StoreInv, TypeInv,
     ShapeInv, Stages, Working
<1>3. Finished' = Finished /\ Stored' = Stored /\ \A k \in Learners : Busy(k)' <=> Busy(k)
  BY <1>1 DEF Finished, Stored, Busy, Working
<1>4. DiskInv'
  <2>1. \A k, m \in Learners : Busy(k)' /\ Busy(m)' => k = m
    BY <1>1, <1>3 DEF StoreInv, DiskInv
  <2> QED
    BY <1>1, <2>1, DiskAlone DEF StoreInv
<1>5. KeepInv'
  BY <1>1, <1>2, <1>3 DEF StoreInv, KeepInv, Busy, Working, Overlaid
<1> QED
  BY <1>4, <1>5

LEMMA ReadAndMergeKeeps ==
  ASSUME StoreInv, NEW l \in Learners, ReadAndMerge(l)
  PROVE  DiskInv' /\ KeepInv'
<1> SUFFICES ASSUME ~overlapped' PROVE DiskInv' /\ KeepInv'
  BY DEF DiskInv, KeepInv
<1>1. /\ ~overlapped /\ base' = base /\ stage[l] = "learned" /\ stage'[l] = "merged"
      /\ \A k \in Learners \ {l} : ~Busy(k) /\ stage'[k] = stage[k] /\ policy'[k] = policy[k]
      /\ UNCHANGED <<writes, failedW, fd, entry, inode>> /\ writes[l] = 0
  BY MoveAlone DEF ReadAndMerge, StoreInv, TypeInv, WritesInv, Stages, Working
<1>2. Finished' = Finished /\ Stored' = Stored /\ \A k \in Learners : Busy(k)' <=> k = l
  BY <1>1 DEF Finished, Stored, Busy, Working
<1>3. /\ Keeps(policy'[l], base, Finished) /\ Observed[l].grants \subseteq policy'[l].grants
      /\ l \notin Linux => Configured[l].flags \subseteq policy'[l].flags
  <2>1. /\ Observed[l].grants \subseteq policy[l].grants
        /\ l \notin Linux => Configured[l].flags \subseteq policy[l].flags
    BY <1>1 DEF StoreInv, KeepInv, Overlaid
  <2>2. CASE entry["file"] = None
    <3>1. policy'[l] = policy[l] /\ base = Blank /\ Finished = {}
      BY <1>1, <2>2 DEF ReadAndMerge, StoreInv, KeepInv
    <3> QED
      BY <2>1, <3>1 DEF Keeps
  <2>3. CASE entry["file"] # None
    <3>1. policy'[l] = MergePolicies(Stored, policy[l]) /\ Keeps(Stored, base, Finished)
      BY <1>1, <2>3 DEF ReadAndMerge, StoreInv, TypeInv, ShapeInv, KeepInv, DiskInv, Stored
    <3> QED
      BY <2>1, <3>1, MergeKeeps, MoreKept
  <2> QED
    BY <2>2, <2>3
<1>4. DiskInv'
  BY <1>1, <1>2 DEF StoreInv, DiskInv, Busy, Working
<1>5. KeepInv'
  BY <1>1, <1>2, <1>3 DEF StoreInv, KeepInv, Overlaid
<1> QED
  BY <1>4, <1>5

LEMMA OverlayAgainKeeps ==
  ASSUME StoreInv, NEW l \in Learners, OverlayAgain(l)
  PROVE  DiskInv' /\ KeepInv'
<1> SUFFICES ASSUME ~overlapped' PROVE DiskInv' /\ KeepInv'
  BY DEF DiskInv, KeepInv
<1>1. /\ ~overlapped /\ base' = base /\ stage[l] = "stored" /\ stage'[l] = "merged"
      /\ \A k \in Learners \ {l} : ~Busy(k) /\ stage'[k] = stage[k] /\ policy'[k] = policy[k]
      /\ UNCHANGED <<writes, failedW, fd, entry, inode>> /\ l \in Linux /\ writes[l] = 1
      /\ policy'[l] = OverlayExecConfigToPolicy(Configured[l], policy[l]) /\ IsPolicy(policy[l])
  BY MoveAlone DEF OverlayAgain, StoreInv, TypeInv, ShapeInv, Stages, Working
<1>2. Finished' = Finished /\ Stored' = Stored /\ \A k \in Learners : Busy(k)' <=> k = l
  BY <1>1 DEF Finished, Stored, Busy, Working
<1>3. /\ Keeps(policy'[l], base, Finished) /\ Observed[l].grants \subseteq policy'[l].grants
      /\ Configured[l].flags \subseteq policy'[l].flags
  <2>1. Observed[l].grants \subseteq policy[l].grants /\ Keeps(policy[l], base, Finished)
    BY <1>1 DEF StoreInv, KeepInv, Busy, Working
  <2> QED
    BY <1>1, <2>1, OverlayKeeps, MoreKept
<1>4. DiskInv'
  BY <1>1, <1>2, DiskAlone DEF StoreInv
<1>5. KeepInv'
  BY <1>1, <1>2, <1>3 DEF StoreInv, KeepInv, Overlaid
<1> QED
  BY <1>4, <1>5

LEMMA OpenTmpKeeps ==
  ASSUME StoreInv, NEW l \in Learners, OpenTmp(l)
  PROVE  DiskInv' /\ KeepInv'
<1> SUFFICES ASSUME ~overlapped' PROVE DiskInv' /\ KeepInv'
  BY DEF DiskInv, KeepInv
<1> DEFINE n == IF entry["tmp"] = None THEN FreeNode ELSE entry["tmp"]
<1>1. /\ ~overlapped /\ base' = base /\ stage[l] = "merged" /\ stage'[l] = "open"
      /\ \A k \in Learners \ {l} : ~Busy(k) /\ stage'[k] = stage[k]
      /\ UNCHANGED <<policy, failedW>>
  BY MoveAlone DEF OpenTmp, StoreInv, TypeInv, Stages, Working
<1>2. n \in Nodes /\ n # None /\ n # entry["file"]
  BY <1>1, NodeIsFree DEF StoreInv, TypeInv, StoreTypeOK, DiskInv, Used
<1>3. /\ entry' = [entry EXCEPT !["tmp"] = n] /\ inode' = [inode EXCEPT ![n] = NotWhole]
      /\ fd' = [fd EXCEPT ![l] = n] /\ writes' = [writes EXCEPT ![l] = @ + 1]
  BY DEF OpenTmp
<1> HIDE DEF n
<1>4. /\ entry'["tmp"] = n /\ entry'["file"] = entry["file"] /\ inode'[n] = NotWhole
      /\ fd'[l] = n /\ writes'[l] = writes[l] + 1
      /\ \A k \in Learners \ {l} : fd'[k] = fd[k] /\ writes'[k] = writes[k]
      /\ entry["file"] # None => inode'[entry["file"]] = inode[entry["file"]]
  BY <1>2, <1>3 DEF StoreInv, TypeInv, StoreTypeOK
<1>5. /\ Finished' = Finished /\ (entry["file"] # None => Stored' = Stored)
      /\ \A k \in Learners : Busy(k)' <=> k = l
  BY <1>1, <1>4 DEF Finished, Stored, Busy, Working
<1>6. DiskInv'
  BY <1>1, <1>4 DEF StoreInv, DiskInv, Busy, Working, NotWhole
<1>7. KeepInv'
  <2>1. /\ Keeps(policy[l], base, Finished) /\ Observed[l].grants \subseteq policy[l].grants
        /\ writes[l] = 0 \/ (writes[l] = 1 /\ l \in Linux)
        /\ Overlaid(l)' => Configured[l].flags \subseteq policy[l].flags
    BY <1>1, <1>4 DEF StoreInv, KeepInv, TypeInv, WritesInv, Busy, Working, Overlaid
  <2>2. \A k \in Learners \ {l} : Overlaid(k)' => Overlaid(k)
    BY <1>1, <1>4 DEF Overlaid
  <2> QED
    BY <1>1, <1>4, <1>5, <2>1, <2>2 DEF StoreInv, KeepInv
<1> QED
  BY <1>6, <1>7

LEMMA WriteTmpKeeps ==
  ASSUME StoreInv, NEW l \in Learners, WriteTmp(l) \/ WriteFails(l)
  PROVE  DiskInv' /\ KeepInv'
<1> SUFFICES ASSUME ~overlapped' PROVE DiskInv' /\ KeepInv'
  BY DEF DiskInv, KeepInv
<1>1. /\ ~overlapped /\ base' = base /\ stage[l] = "open" /\ stage'[l] \in {"written", "stored"}
      /\ \A k \in Learners \ {l} : ~Busy(k) /\ stage'[k] = stage[k]
      /\ UNCHANGED <<policy, writes, entry>>
  BY MoveAlone DEF WriteTmp, WriteFails, StoreInv, TypeInv, Stages, Working
<1>2. fd[l] = entry["tmp"] /\ fd[l] \in Nodes /\ fd[l] # entry["file"] /\ ~inode[fd[l]].whole
  BY <1>1, Opened, NodesTyped DEF StoreInv, DiskInv, None
<1>3. /\ fd'[l] = None /\ \A k \in Learners \ {l} : fd'[k] = fd[k]
      /\ entry["file"] # None => inode'[entry["file"]] = inode[entry["file"]]
  BY <1>2 DEF WriteTmp, WriteFails, StoreInv, TypeInv, StoreTypeOK
<1>4. /\ stage'[l] = "written" =>
           UNCHANGED failedW /\ inode'[entry["tmp"]] = [whole |-> TRUE, policy |-> policy[l]]
      /\ stage'[l] = "stored" =>
           failedW'[l] /\ \A k \in Learners \ {l} : failedW'[k] = failedW[k]
  <2>1. CASE WriteTmp(l)
    BY <1>2, <2>1, MoveTyped DEF WriteTmp, StoreInv, TypeInv, StoreTypeOK, Stages, Working
  <2>2. CASE WriteFails(l)
    BY <2>2, MoveTyped DEF WriteFails, StoreInv, TypeInv, StoreTypeOK, Stages, Working
  <2> QED
    BY <2>1, <2>2
<1>5. /\ Finished' = Finished /\ (entry["file"] # None => Stored' = Stored)
      /\ \A k \in Learners : Busy(k)' <=> k = l
  BY <1>1, <1>3, <1>4 DEF Finished, Stored, Busy, Working
<1>6. DiskInv'
  <2>1. ASSUME NEW k \in Learners, k # l
        PROVE  fd'[k] = None /\ stage'[k] \notin {"open", "written"}
    <3>1. ~Busy(k) /\ (fd[k] # None => stage[k] = "open") /\ stage'[k] = stage[k] /\ fd'[k] = fd[k]
      BY <1>1, <1>3, <2>1 DEF StoreInv, DiskInv
    <3> QED
      BY <3>1 DEF Busy, Working
  <2>2. /\ fd'[l] = None /\ stage'[l] # "open"
        /\ stage'[l] = "written" =>
             /\ entry'["tmp"] # None
             /\ inode'[entry'["tmp"]] = [whole |-> TRUE, policy |-> policy'[l]]
    BY <1>1, <1>2, <1>3, <1>4, NodesTyped DEF None
  <2>3. entry'["file"] # None => inode'[entry'["file"]].whole /\ entry'["file"] # entry'["tmp"]
    BY <1>1, <1>3 DEF StoreInv, DiskInv
  <2>4. \A k, m \in Learners : Busy(k)' /\ Busy(m)' => k = m
    BY <1>5
  <2>5. \A k \in Learners : /\ fd'[k] = None /\ stage'[k] # "open"
                            /\ stage'[k] = "written" => k = l
    BY <2>1, <2>2
  <2> QED
    BY <2>2, <2>3, <2>4, <2>5 DEF DiskInv
<1>7. KeepInv'
  <2>1. \A k \in Learners : Overlaid(k)' => Overlaid(k)
    BY <1>1 DEF Overlaid, Working
  <2> QED
    BY <1>1, <1>4, <1>5, <2>1 DEF StoreInv, KeepInv, Busy, Working
<1> QED
  BY <1>6, <1>7

LEMMA RenameTmpKeeps ==
  ASSUME StoreInv, NEW l \in Learners, RenameTmp(l)
  PROVE  DiskInv' /\ KeepInv'
<1> SUFFICES ASSUME ~overlapped' PROVE DiskInv' /\ KeepInv'
  BY DEF DiskInv, KeepInv
<1>1. /\ ~overlapped /\ base' = base /\ stage[l] = "written" /\ stage'[l] = "stored"
      /\ \A k \in Learners \ {l} : ~Busy(k) /\ stage'[k] = stage[k]
      /\ UNCHANGED <<policy, writes, fd, inode>>
  BY MoveAlone DEF RenameTmp, StoreInv, TypeInv, Stages, Working
<1>2. entry["tmp"] # None /\ inode[entry["tmp"]] = [whole |-> TRUE, policy |-> policy[l]]
  BY <1>1 DEF StoreInv, DiskInv
<1>3. /\ entry'["file"] = entry["tmp"] /\ entry'["tmp"] = None
      /\ ~failedW'[l] /\ \A k \in Learners \ {l} : failedW'[k] = failedW[k]
  BY <1>2 DEF RenameTmp, StoreInv, TypeInv, StoreTypeOK
<1>4. /\ Finished' = Finished /\ Stored' = policy[l]
      /\ \A k \in Learners : Busy(k)' <=> k = l
  BY <1>1, <1>2, <1>3 DEF Finished, Stored, Busy, Working
<1>5. DiskInv'
  <2>1. ASSUME NEW k \in Learners
        PROVE  fd'[k] = None /\ stage'[k] \notin {"open", "written"}
    <3>1. fd[k] # None => stage[k] = "open"
      BY <1>1 DEF StoreInv, DiskInv
    <3>2. stage[k] # "open" /\ stage'[k] \notin {"open", "written"}
      BY <1>1 DEF Busy, Working
    <3> QED
      BY <1>1, <3>1, <3>2
  <2>2. inode'[entry'["file"]].whole /\ entry'["file"] # entry'["tmp"]
    BY <1>1, <1>2, <1>3
  <2> QED
    BY <1>4, <2>1, <2>2 DEF DiskInv
<1>6. KeepInv'
  <2>1. \A k \in Learners : Overlaid(k)' => Overlaid(k)
    BY <1>1 DEF Overlaid, Working
  <2> QED
    BY <1>1, <1>2, <1>3, <1>4, <2>1 DEF StoreInv, KeepInv, Busy, Working
<1> QED
  BY <1>5, <1>6

\* A rename that fails, and the removal after it, leave the file alone.
LEMMA RefusedKeeps ==
  ASSUME StoreInv, NEW l \in Learners, RenameFails(l) \/ RemoveTmp(l)
  PROVE  DiskInv' /\ KeepInv'
<1> SUFFICES ASSUME ~overlapped' PROVE DiskInv' /\ KeepInv'
  BY DEF DiskInv, KeepInv
<1>1. /\ ~overlapped /\ base' = base /\ stage[l] \in {"written", "refused"}
      /\ stage'[l] \in {"refused", "stored"}
      /\ \A k \in Learners \ {l} : ~Busy(k) /\ stage'[k] = stage[k]
      /\ UNCHANGED <<policy, writes, fd, inode>>
  BY MoveAlone DEF RenameFails, RemoveTmp, StoreInv, TypeInv, Stages, Working
<1>2. /\ entry'["file"] = entry["file"] /\ entry'["tmp"] \in {entry["tmp"], None}
      /\ failedW'[l] /\ \A k \in Learners \ {l} : failedW'[k] = failedW[k]
  BY DEF RenameFails, RemoveTmp, StoreInv, TypeInv, StoreTypeOK, WritesInv
<1>3. /\ Finished' = Finished /\ Stored' = Stored
      /\ \A k \in Learners : Busy(k)' <=> k = l
  BY <1>1, <1>2 DEF Finished, Stored, Busy, Working
<1>4. DiskInv'
  <2>1. ASSUME NEW k \in Learners
        PROVE  fd'[k] = None /\ stage'[k] \notin {"open", "written"}
    <3>1. fd[k] # None => stage[k] = "open"
      BY <1>1 DEF StoreInv, DiskInv
    <3>2. stage[k] # "open" /\ stage'[k] \notin {"open", "written"}
      BY <1>1 DEF Busy, Working
    <3> QED
      BY <1>1, <3>1, <3>2
  <2>2. entry'["file"] # None => inode'[entry'["file"]].whole /\ entry'["file"] # entry'["tmp"]
    BY <1>1, <1>2 DEF StoreInv, DiskInv
  <2> QED
    BY <1>3, <2>1, <2>2 DEF DiskInv
<1>5. KeepInv'
  <2>1. \A k \in Learners : Overlaid(k)' => Overlaid(k)
    BY <1>1 DEF Overlaid, Working
  <2> QED
    BY <1>1, <1>2, <1>3, <2>1 DEF StoreInv, KeepInv, Busy, Working
<1> QED
  BY <1>4, <1>5

LEMMA EndKeeps ==
  ASSUME StoreInv, NEW l \in Learners, Emit(l) \/ Kill(l)
  PROVE  DiskInv' /\ KeepInv'
<1> SUFFICES ASSUME ~overlapped' PROVE DiskInv' /\ KeepInv'
  BY DEF DiskInv, KeepInv
<1>1. /\ ~overlapped /\ base' = base /\ stage'[l] \in {"done", "killed"}
      /\ \A k \in Learners \ {l} : stage'[k] = stage[k] /\ fd'[k] = fd[k]
      /\ UNCHANGED <<policy, writes, failedW, entry, inode>>
  BY MoveAlone DEF Emit, Kill, StoreInv, TypeInv, StoreTypeOK, Stages, Working
<1>2. /\ stage'[l] = "done" => /\ stage[l] = "stored" /\ Overlaid(l)
                               /\ UNCHANGED fd
      /\ stage'[l] = "killed" => stage[l] # "done" /\ fd'[l] = None
  <2>1. CASE Emit(l)
    BY <2>1, MoveTyped DEF Emit, StoreInv, TypeInv, WritesInv, Overlaid, Stages, Working
  <2>2. CASE Kill(l)
    BY <2>2, MoveTyped DEF Kill, StoreInv, TypeInv, StoreTypeOK, Stages, Working
  <2> QED
    BY <2>1, <2>2
<1>3. /\ Stored' = Stored /\ ~Busy(l)' /\ \A k \in Learners \ {l} : Busy(k)' <=> Busy(k)
      /\ \A k \in Learners \ {l} : Overlaid(k)' <=> Overlaid(k)
  BY <1>1 DEF Stored, Busy, Working, Overlaid
<1>4. DiskInv'
  BY <1>1, <1>2, <1>3 DEF StoreInv, DiskInv
<1>5. \/ Finished' = Finished
      \/ /\ Finished' = Finished \union {l} /\ stage[l] = "stored" /\ ~failedW[l] /\ Overlaid(l)
  BY <1>1, <1>2 DEF Finished
<1>6. Finished' # Finished =>
        /\ entry["file"] # None /\ Keeps(Stored, base, Finished')
        /\ \A k \in Learners \ {l} : ~Busy(k)
  <2>1. SUFFICES ASSUME Finished' # Finished PROVE /\ entry["file"] # None
                                                   /\ Keeps(Stored, base, Finished')
                                                   /\ \A k \in Learners \ {l} : ~Busy(k)
    OBVIOUS
  <2>2. /\ entry["file"] # None /\ Stored = policy[l] /\ Keeps(Stored, base, Finished)
        /\ Observed[l].grants \subseteq Stored.grants /\ Configured[l].flags \subseteq Stored.flags
        /\ \A k \in Learners \ {l} : ~Busy(k)
    BY <1>1, <1>5, <2>1 DEF StoreInv, KeepInv, DiskInv, Busy, Working
  <2> QED
    BY <1>5, <2>2 DEF Keeps
<1>7. KeepInv'
  <2>1. \/ stage'[l] \notin {"learned", "stored"} /\ ~Overlaid(l)'
        \/ Configured[l].flags \subseteq policy[l].flags
    BY <1>1, <1>2 DEF StoreInv, KeepInv, Overlaid, Working
  <2>2. CASE Finished' = Finished
    BY <1>1, <1>3, <2>1, <2>2 DEF StoreInv, KeepInv
  <2>3. CASE Finished' # Finished
    BY <1>1, <1>3, <1>6, <2>1 DEF StoreInv, KeepInv
  <2> QED
    BY <2>2, <2>3
<1> QED
  BY <1>4, <1>7

\* Every step of a learner keeps the invariant.
LEMMA StoreStepInv == StoreInv /\ [StoreNext]_storeVars => StoreInv'
<1> SUFFICES ASSUME StoreInv, [StoreNext]_storeVars PROVE StoreInv'
  OBVIOUS
<1>1. CASE UNCHANGED storeVars
  <2>1. TypeInv'
    BY <1>1 DEF storeVars, StoreInv, TypeInv, StoreTypeOK, WritesInv, ShapeInv
  <2>2. DiskInv'
    BY <1>1 DEF storeVars, StoreInv, DiskInv, Busy, Working
  <2>3. KeepInv'
    BY <1>1 DEF storeVars, StoreInv, KeepInv, Busy, Working, Overlaid, Finished, Stored
  <2> QED
    BY <2>1, <2>2, <2>3 DEF StoreInv
<1>2. ASSUME NEW l \in Learners, Learn(l) \/ LearnFails(l) \/ ReadAndMerge(l) \/ OverlayAgain(l)
      PROVE  StoreInv'
  BY <1>2, LearnTyped, LearnKeeps, ReadAndMergeKeeps, OverlayAgainKeeps DEF StoreInv
<1>3. ASSUME NEW l \in Learners,
             \/ OpenTmp(l) \/ WriteTmp(l) \/ WriteFails(l)
             \/ RenameTmp(l) \/ RenameFails(l) \/ RemoveTmp(l)
      PROVE  StoreInv'
  BY <1>3, WriteTyped, OpenTmpKeeps, WriteTmpKeeps, RenameTmpKeeps, RefusedKeeps DEF StoreInv
<1>4. ASSUME NEW l \in Learners, Emit(l) \/ Kill(l) PROVE StoreInv'
  BY <1>4, WriteTyped, EndKeeps DEF StoreInv
<1> QED
  BY <1>1, <1>2, <1>3, <1>4 DEF StoreNext

\* It holds in the beginning, whatever is in the file.
LEMMA StoreInitInv == StoreInit => StoreInv
  BY InitTyped, InitStored DEF StoreInv

\* The invariant holds while any number of learners share the file.
THEOREM StoreInvariant == StoreSpec => []StoreInv
  BY StoreInitInv, StoreStepInv, PTL DEF StoreSpec
------------------------------------------------------------------------------
(***************************************************************************)
(* The theorems.                                                           *)
(***************************************************************************)
\* The policy file is never half written, whatever learner is killed and
\* whatever write fails (WritePolicyFile), unless two worked on it at once.
THEOREM FileIsWhole == StoreSpec => []FileStaysWhole
<1>1. StoreInv => FileStaysWhole
  BY DEF StoreInv, DiskInv, FileStaysWhole
<1> QED
  BY <1>1, StoreInvariant, PTL

\* Learners that follow one another lose nothing: not what the file held, nor
\* an access or a control of a learner that finished (mergeAndWrite, runLearn).
THEOREM SerialLearningKeeps == StoreSpec => []SerialLearnersLoseNothing
<1>1. ASSUME StoreInv, ~overlapped PROVE SerialLearnersLoseNothing
  <2>1. base # Blank \/ Finished # {} => Keeps(Stored, base, Finished)
    BY <1>1 DEF StoreInv, KeepInv
  <2> QED
    BY <2>1 DEF Keeps, Finished, SerialLearnersLoseNothing
<1>2. overlapped => SerialLearnersLoseNothing
  BY DEF SerialLearnersLoseNothing
<1> QED
  BY <1>1, <1>2, StoreInvariant, PTL DEF StoreInv, TypeInv, StoreTypeOK
------------------------------------------------------------------------------

(***************************************************************************)
(* The watch of the egress calls.  That the notes are the calls rests on   *)
(* what serve knows at each stage of looking at one; that no call is       *)
(* refused early rests on who holds the listener.                          *)
(***************************************************************************)

Looking == {"inspecting", "read", "valid", "answering"}
States == Open \union {"continued", "unwatched", "enosys", "gone"}
Noteworthy == {Dest[c] : c \in Calls} \ {Proxy}
Full == Cardinality(notes) = MaxEgressNotes

\* Serve's looks: what was read from a caller that is still in its call is
\* the call's own, and what is answered is noted.
LooksRight ==
  /\ serve \in Looking => current \in Calls
  /\ serve = "read" /\ call[current] = "received" => read = Dest[current]
  /\ serve = "valid" => read = Dest[current]
  /\ serve = "answering" /\ call[current] = "received" =>
       Dest[current] \in notes \union {Proxy} \/ Full

NotesRight ==
  /\ IsFiniteSet(notes) /\ Cardinality(notes) <= MaxEgressNotes
  /\ notes \subseteq Noteworthy
  /\ \A c \in Calls : call[c] = "continued" => Dest[c] \in notes \union {Proxy} \/ Full

NotesInv == call \in [Calls -> States] /\ LooksRight /\ NotesRight

\* The holders: the inner process until it has sent the listener, then the
\* socket or the engine, and nobody only when the run is over for the watch.
Over == stop \/ lost \/ engine = "killed"
NoneOpen == \A c \in Calls : call[c] \notin Open
HeldRight ==
  /\ call \in [Calls -> States]
  /\ engine = "prepared" => inner = "unborn"
  /\ inner \in {"unborn", "starting"} => ~filtered
  /\ inner = "installed" => "inner" \in holders
  /\ "inner" \in holders => inner \in {"installed", "sent"}
  /\ filtered /\ holders \subseteq {"inner"} /\ inner # "installed" => Over \/ NoneOpen
  /\ \A c \in Calls : call[c] = "enosys" => Over

\* What closing descriptors of the listener does to the calls.
LEMMA ReleaseCalls ==
  ASSUME call \in [Calls -> States], NEW who, NEW dying, Release(who, dying)
  PROVE  /\ call' \in [Calls -> States]
         /\ holders' = holders \ who
         /\ \A c \in Calls :
              \/ call'[c] = call[c]
              \/ call[c] \in Open /\ call'[c] = "gone"
              \/ /\ call[c] \in {"waiting", "received"} /\ call'[c] = "enosys"
                 /\ c \notin dying /\ filtered /\ holders' = {}
         /\ \A c \in dying \intersect Calls : call'[c] \notin Open
<1>1. /\ holders' = holders \ who
      /\ call' = [c \in Calls |->
           CASE c \in dying /\ call[c] \in Open -> "gone"
             [] c \notin dying /\ filtered /\ holders' = {}
                /\ call[c] \in {"waiting", "received"} -> "enosys"
             [] OTHER -> call[c]]
  BY DEF Release
<1>2. ASSUME NEW c \in Calls
      PROVE  /\ call'[c] \in States
             /\ \/ call'[c] = call[c]
                \/ call[c] \in Open /\ call'[c] = "gone"
                \/ /\ call[c] \in {"waiting", "received"} /\ call'[c] = "enosys"
                   /\ c \notin dying /\ filtered /\ holders' = {}
             /\ c \in dying => call'[c] \notin Open
  <2>1. CASE c \in dying /\ call[c] \in Open
    BY <1>1, <2>1 DEF States, Open
  <2>2. CASE /\ ~(c \in dying /\ call[c] \in Open)
             /\ filtered /\ holders' = {} /\ call[c] \in {"waiting", "received"}
    BY <1>1, <2>2 DEF States, Open
  <2>3. CASE /\ ~(c \in dying /\ call[c] \in Open)
             /\ ~(filtered /\ holders' = {} /\ call[c] \in {"waiting", "received"})
    BY <1>1, <2>3 DEF States, Open
  <2> QED BY <2>1, <2>2, <2>3
<1>3. call' \in [Calls -> States]
  BY <1>1, <1>2
<1> QED BY <1>1, <1>2, <1>3

\* A state in which the engine's side and the notes are as before, and no call
\* is received or continued that was not.
LEMMA NotesStay ==
  ASSUME NotesInv, UNCHANGED <<serve, current, read, notes>>, call' \in [Calls -> States],
         \A c \in Calls : call'[c] \in {"received", "continued"} => call'[c] = call[c]
  PROVE  NotesInv'
<1>1. LooksRight'
  BY DEF NotesInv, LooksRight, Looking, Full
<1>2. NotesRight'
  BY DEF NotesInv, NotesRight, Noteworthy, Full
<1> QED BY <1>1, <1>2 DEF NotesInv

\* The steps of the inner process and its callers, and those of the engine's
\* own thread.
InnerMoves == InnerStep \/ EndInner \/ \E c \in Calls : MakeCall(c) \/ CallerDies(c)
EngineMoves == StartInner \/ Abandon \/ FinishStep \/ SampleTick \/ KillEngine

\* The workload moves calls on, but none to where serve has taken it.
LEMMA InnerNotes == ASSUME NotesInv, InnerMoves PROVE NotesInv'
<1>1. UNCHANGED <<serve, current, read, notes>>
  BY DEF InnerMoves, InnerStep, InstallFilter, InstallFails, SendListener, CloseOwnListener,
         EndInner, MakeCall, CallerDies, InnerOnly
<1>2. /\ call' \in [Calls -> States]
      /\ \A c \in Calls : call'[c] \in {"received", "continued"} => call'[c] = call[c]
  <2>1. CASE InstallFilter \/ InstallFails \/ SendListener
    BY <2>1 DEF InstallFilter, InstallFails, SendListener, NotesInv
  <2>2. CASE CloseOwnListener \/ EndInner
    BY <2>2, ReleaseCalls DEF CloseOwnListener, EndInner, NotesInv
  <2>3. CASE \E c \in Calls : MakeCall(c) \/ CallerDies(c)
    BY <2>3 DEF MakeCall, CallerDies, NotesInv, States, Open
  <2> QED BY <2>1, <2>2, <2>3 DEF InnerMoves, InnerStep
<1> QED BY <1>1, <1>2, NotesStay

\* The engine's thread ends the looks and adds no note.
LEMMA EngineNotes == ASSUME NotesInv, EngineMoves PROVE NotesInv'
<1>1. CASE KillEngine
  <2>1. /\ serve' = "done" /\ notes' = notes /\ call' \in [Calls -> States]
        /\ \A c \in Calls : call'[c] = "continued" => call[c] = "continued"
    BY <1>1, ReleaseCalls DEF KillEngine, NotesInv
  <2>2. LooksRight'
    BY <2>1 DEF LooksRight, Looking
  <2>3. NotesRight'
    BY <2>1 DEF NotesInv, NotesRight, Noteworthy, Full
  <2> QED BY <2>1, <2>2, <2>3 DEF NotesInv
<1>2. CASE StartInner
  <2>1. serve' = "receiving" /\ UNCHANGED <<current, read, notes, call>>
    BY <1>2 DEF StartInner
  <2>2. LooksRight'
    BY <2>1 DEF LooksRight, Looking
  <2>3. NotesRight'
    BY <2>1 DEF NotesInv, NotesRight, Noteworthy, Full
  <2> QED BY <2>1, <2>2, <2>3 DEF NotesInv
<1>3. CASE Abandon \/ FinishStep \/ SampleTick
  <2>1. UNCHANGED <<serve, current, read, notes, call>>
    BY <1>3 DEF Abandon, FinishStep, SampleTick, BeginFinish, EndFinish, StopSampler,
                RemoveCgroup, serveVars
  <2> QED BY <2>1, NotesStay DEF NotesInv
<1> QED BY <1>1, <1>2, <1>3 DEF EngineMoves

\* A look at a call, stage by stage.
LEMMA ServeNotes == ASSUME NotesInv, ServeStep PROVE NotesInv'
<1> USE DEF NotesInv
<1>1. CASE ReceiveListener \/ ServeLoop \/ PollTimesOut \/ ReceiveGivesUp \/ ServeEnds
  <2>1. /\ serve' \notin Looking /\ notes' = notes /\ call' \in [Calls -> States]
        /\ \A c \in Calls : call'[c] = "continued" => call[c] = "continued"
    <3>1. CASE ReceiveListener \/ ServeLoop \/ PollTimesOut
      BY <3>1 DEF ReceiveListener, ServeLoop, PollTimesOut, Looking
    <3>2. CASE ReceiveGivesUp \/ ServeEnds
      BY <3>2, ReleaseCalls DEF ReceiveGivesUp, ServeEnds, Looking
    <3> QED BY <1>1, <3>1, <3>2
  <2>2. LooksRight'
    BY <2>1 DEF LooksRight, Looking
  <2>3. NotesRight'
    BY <2>1 DEF NotesRight, Noteworthy, Full
  <2> QED BY <2>1, <2>2, <2>3
<1>2. CASE \E c \in Calls : ReceiveCall(c)
  <2> PICK c \in Calls : ReceiveCall(c)
    BY <1>2
  <2> USE DEF ReceiveCall
  <2>1. call' \in [Calls -> States]
    BY DEF States, Open
  <2>2. LooksRight'
    BY DEF LooksRight, Looking
  <2>3. NotesRight'
    BY DEF NotesRight, Noteworthy, Full
  <2> QED BY <2>1, <2>2, <2>3
<1>3. CASE ReadTarget
  <2>1. /\ serve = "inspecting" /\ UNCHANGED <<call, current, notes>> /\ current \in Calls
        /\ serve' \in {"read", "valid", "answering"}
        /\ call[current] = "received" => read' = Dest[current]
        /\ serve' = "valid" => read' = UdpSocket
        /\ serve' = "answering" => read' = Unread
        /\ read' \in {Dest[current], Elsewhere, Unread}
    BY <1>3 DEF ReadTarget, LooksRight, Looking
  <2>2. Unread # Dest[current] /\ Elsewhere # UdpSocket /\ Unread # UdpSocket
    BY <2>1, WatchAssumption
  <2>3. LooksRight'
    BY <2>1, <2>2 DEF LooksRight, Looking
  <2>4. NotesRight'
    BY <2>1 DEF NotesRight, Noteworthy, Full
  <2> QED BY <2>1, <2>3, <2>4
<1>4. CASE CheckId
  <2> USE <1>4 DEF CheckId
  <2>1. LooksRight'
    BY DEF LooksRight, Looking, Full
  <2>2. NotesRight'
    BY DEF NotesRight, Noteworthy, Full
  <2> QED BY <2>1, <2>2
<1>5. CASE Record
  <2>1. /\ serve = "valid" /\ serve' = "answering" /\ UNCHANGED <<call, current, read>>
        /\ notes' = IF Noted(read) /\ Cardinality(notes) < MaxEgressNotes
                    THEN notes \union {read} ELSE notes
        /\ read = Dest[current] /\ current \in Calls
    BY <1>5 DEF Record, LooksRight, Looking
  <2>2. Cardinality(notes) \in Nat /\ MaxEgressNotes \in Nat
    BY FS_CardinalityType, WatchAssumption DEF NotesRight
  <2>3. IsFiniteSet(notes') /\ Cardinality(notes') <= MaxEgressNotes
    <3>1. CASE Noted(read) /\ Cardinality(notes) < MaxEgressNotes
      <4>1. notes' = notes \union {read} /\ IsFiniteSet(notes)
        BY <2>1, <3>1 DEF NotesRight
      <4>2. IsFiniteSet(notes') /\ Cardinality(notes') \in {Cardinality(notes), Cardinality(notes) + 1}
        BY <4>1, FS_AddElement
      <4> QED BY <2>2, <3>1, <4>2
    <3>2. CASE ~(Noted(read) /\ Cardinality(notes) < MaxEgressNotes)
      BY <2>1, <3>2 DEF NotesRight
    <3> QED BY <3>1, <3>2
  <2>4. Full => notes' = notes
    BY <2>1, <2>2 DEF Full
  <2>5. notes \subseteq notes' /\ notes' \subseteq Noteworthy
    BY <2>1 DEF NotesRight, Noteworthy, Noted
  <2>6. NotesRight'
    BY <2>1, <2>3, <2>4, <2>5 DEF NotesRight, Noteworthy, Full
  <2>7. Dest[current] \in notes' \union {Proxy} \/ Full'
    BY <2>1, <2>2 DEF Noted, Full, NotesRight
  <2>8. LooksRight'
    BY <2>1, <2>7 DEF LooksRight, Looking
  <2> QED BY <2>1, <2>6, <2>8
<1>6. CASE Answer
  <2>1. /\ serve = "answering" /\ serve' = "loop" /\ notes' = notes
        /\ call' = [c \in Calls |-> IF c = current /\ call[c] = "received"
                                    THEN "continued" ELSE call[c]]
    BY <1>6 DEF Answer
  <2>2. call' \in [Calls -> States]
    BY <2>1 DEF States
  <2>3. LooksRight'
    BY <2>1 DEF LooksRight, Looking
  <2>4. NotesRight'
    BY <2>1 DEF NotesRight, Noteworthy, Full, LooksRight
  <2> QED BY <2>2, <2>3, <2>4
<1> QED BY <1>1, <1>2, <1>3, <1>4, <1>5, <1>6 DEF ServeStep
-----------------------------------------------------------------------------
\* Until the run is over a listener that has left the inner process is in the
\* socket or with the engine.
LEMMA InnerHeld == ASSUME HeldRight, InnerMoves PROVE HeldRight'
<1>1. UNCHANGED <<engine, stop>>
  BY DEF InnerMoves, InnerStep, InstallFilter, InstallFails, SendListener, CloseOwnListener,
         EndInner, MakeCall, CallerDies, InnerOnly
<1>2. CASE InstallFilter
  BY <1>1, <1>2 DEF InstallFilter, HeldRight, Over, NoneOpen
<1>3. CASE InstallFails
  BY <1>1, <1>3 DEF InstallFails, HeldRight, Over, NoneOpen
<1>4. CASE SendListener
  BY <1>1, <1>4 DEF SendListener, HeldRight, Over, NoneOpen
<1>5. CASE CloseOwnListener
  <2>1. /\ inner = "sent" /\ inner' = "command" /\ holders' = holders \ {"inner"}
        /\ UNCHANGED <<filtered, lost>> /\ call' \in [Calls -> States]
        /\ \A c \in Calls : \/ call'[c] = call[c] \/ call'[c] = "gone"
                            \/ call'[c] = "enosys" /\ call[c] \in Open /\ filtered /\ holders' = {}
    BY <1>5, ReleaseCalls DEF CloseOwnListener, HeldRight, Open
  <2>2. filtered /\ holders' = {} => Over \/ NoneOpen
    BY <2>1 DEF HeldRight
  <2> QED BY <1>1, <2>1, <2>2 DEF HeldRight, Over, NoneOpen, Open
<1>6. CASE EndInner
  <2> DEFINE dying == IF confined \/ inner # "command" THEN Calls ELSE {}
  <2>1. /\ inner \notin {"unborn", "ended"} /\ inner' = "ended" /\ holders' = holders \ {"inner"}
        /\ UNCHANGED <<filtered, lost>> /\ call' \in [Calls -> States]
        /\ \A c \in Calls : \/ call'[c] = call[c] \/ call'[c] = "gone"
                            \/ /\ call'[c] = "enosys" /\ call[c] \in Open
                               /\ c \notin dying /\ filtered /\ holders' = {}
        /\ \A c \in dying \intersect Calls : call'[c] \notin Open
    BY <1>6, ReleaseCalls DEF EndInner, HeldRight, Open
  <2>2. CASE dying = Calls
    <3>1. NoneOpen'
      BY <2>1, <2>2 DEF NoneOpen
    <3> QED BY <1>1, <2>1, <2>2, <3>1 DEF HeldRight, Over
  <2>3. CASE dying # Calls
    <3>1. inner = "command" /\ holders' = holders
      BY <2>1, <2>3 DEF HeldRight
    <3>2. filtered /\ holders = {} => Over \/ NoneOpen
      BY <3>1 DEF HeldRight
    <3> QED BY <1>1, <2>1, <3>1, <3>2 DEF HeldRight, Over, NoneOpen, Open
  <2> QED BY <2>2, <2>3
<1>7. CASE \E c \in Calls : MakeCall(c) \/ CallerDies(c)
  <2>1. PICK c \in Calls : MakeCall(c) \/ CallerDies(c)
    BY <1>7
  <2>2. PICK to \in States \ {"idle"} :
          /\ call' = [call EXCEPT ![c] = to]
          /\ to = "enosys" => filtered /\ holders = {} /\ inner \in {"command", "ended"}
    <3>1. CASE MakeCall(c)
      <4>1. CASE ~filtered
        BY <3>1, <4>1 DEF MakeCall, States, Open
      <4>2. CASE filtered /\ holders = {}
        BY <3>1, <4>2 DEF MakeCall, States, Open
      <4>3. CASE filtered /\ holders # {}
        BY <3>1, <4>3 DEF MakeCall, States, Open
      <4> QED BY <4>1, <4>2, <4>3
    <3>2. CASE CallerDies(c)
      <4>1. call' = [call EXCEPT ![c] = "gone"]
        BY <3>2 DEF CallerDies
      <4>2. "gone" \in States \ {"idle"} /\ "gone" # "enosys"
        BY DEF States
      <4> QED BY <4>1, <4>2
    <3> QED BY <2>1, <3>1, <3>2
  <2>3. UNCHANGED <<inner, holders, filtered, lost>> /\ call[c] \in Open
    BY <2>1 DEF MakeCall, CallerDies, Open
  <2>4. /\ call' \in [Calls -> States] /\ \A d \in Calls : d # c => call'[d] = call[d]
        /\ call'[c] = "enosys" => filtered /\ holders = {} /\ inner \in {"command", "ended"}
    BY <2>2 DEF HeldRight
  <2>5. ~NoneOpen
    BY <2>3 DEF NoneOpen
  <2>6. call'[c] = "enosys" => Over
    BY <2>4, <2>5 DEF HeldRight
  <2> QED BY <1>1, <2>3, <2>4, <2>5, <2>6 DEF HeldRight, Over
<1> QED BY <1>2, <1>3, <1>4, <1>5, <1>6, <1>7 DEF InnerMoves, InnerStep

\* The engine's thread lets go of the listener only by being killed.
LEMMA EngineHeld == ASSUME HeldRight, EngineMoves PROVE HeldRight'
<1>1. CASE KillEngine
  <2>1. /\ engine' = "killed" /\ call' \in [Calls -> States] /\ UNCHANGED <<inner, filtered>>
        /\ holders' = holders \ {"engine", "socket"}
    BY <1>1, ReleaseCalls DEF KillEngine, EngineOnly, HeldRight
  <2>2. Over'
    BY <2>1 DEF Over
  <2>3. "inner" \in holders' <=> "inner" \in holders
    BY <2>1
  <2> QED BY <2>1, <2>2, <2>3 DEF HeldRight
<1>2. CASE StartInner
  <2>1. /\ inner' = "starting" /\ UNCHANGED <<holders, filtered, call, stop, lost>>
        /\ engine = "prepared"
    BY <1>2 DEF StartInner
  <2>2. Over => Over'
    BY <2>1 DEF Over
  <2> QED BY <1>2, <2>1, <2>2 DEF StartInner, HeldRight, NoneOpen
<1>3. CASE Abandon \/ FinishStep \/ SampleTick
  <2>1. /\ UNCHANGED <<inner, holders, filtered, call, lost>>
        /\ (stop => stop') /\ (engine = "killed" => engine' = "killed")
        /\ engine' = "prepared" => engine = "prepared"
    BY <1>3 DEF Abandon, FinishStep, SampleTick, BeginFinish, EndFinish, StopSampler,
                RemoveCgroup, serveVars, EngineOnly
  <2> QED BY <2>1 DEF HeldRight, Over, NoneOpen
<1> QED BY <1>1, <1>2, <1>3 DEF EngineMoves

\* Serve lets go of it on stop, or when no process is left to make a call, and
\* says so when it could not take it.
LEMMA ServeHeld == ASSUME HeldRight, ServeStep PROVE HeldRight'
<1>1. CASE ReceiveListener
  BY <1>1 DEF ReceiveListener, ServeOnly, HeldRight, Over, NoneOpen
<1>2. CASE ReceiveGivesUp
  <2>1. /\ UNCHANGED <<inner, filtered, engine, stop>> /\ call' \in [Calls -> States]
        /\ holders' = holders \ {"socket"} /\ lost' = (lost \/ "socket" \in holders)
        /\ \A c \in Calls : \/ call'[c] = call[c] \/ call'[c] = "gone"
                            \/ call'[c] = "enosys" /\ call[c] \in Open /\ filtered /\ holders' = {}
    BY <1>2, ReleaseCalls DEF ReceiveGivesUp, ServeOnly, HeldRight, Open
  <2>2. CASE "socket" \in holders
    BY <2>1, <2>2 DEF HeldRight, Over
  <2>3. CASE "socket" \notin holders
    <3>1. holders' = holders /\ Over' = Over
      BY <2>1, <2>3 DEF Over
    <3>2. filtered /\ holders = {} => Over \/ NoneOpen
      BY DEF HeldRight
    <3> QED BY <2>1, <3>1, <3>2 DEF HeldRight, Over, NoneOpen, Open
  <2> QED BY <2>2, <2>3
<1>3. CASE ServeEnds
  <2>1. /\ UNCHANGED <<inner, filtered, engine, stop, lost>> /\ call' \in [Calls -> States]
        /\ holders' = holders \ {"engine"} /\ (stop \/ Exited)
        /\ \A c \in Calls : \/ call'[c] = call[c] \/ call'[c] = "gone"
                            \/ call'[c] = "enosys" /\ call[c] \in Open
    BY <1>3, ReleaseCalls DEF ServeEnds, ServeOnly, HeldRight, Open
  <2>2. CASE stop
    BY <2>1, <2>2 DEF HeldRight, Over
  <2>3. CASE Exited
    BY <2>1, <2>3 DEF HeldRight, Over, NoneOpen, Exited, Open
  <2> QED BY <2>1, <2>2, <2>3
<1>4. CASE \/ ServeLoop \/ PollTimesOut \/ ReadTarget \/ CheckId \/ Record \/ Answer
           \/ \E c \in Calls : ReceiveCall(c)
  <2>1. /\ UNCHANGED <<inner, holders, filtered, engine, stop, lost>>
        /\ call' \in [Calls -> States]
        /\ \A c \in Calls : \/ call'[c] = call[c]
                            \/ call'[c] \in {"received", "continued"} /\ call[c] \in Open
    BY <1>4 DEF ServeLoop, PollTimesOut, ReadTarget, CheckId, Record, Answer, ReceiveCall,
                ServeOnly, HeldRight, States, Open
  <2> QED BY <2>1 DEF HeldRight, Over, NoneOpen, Open
<1> QED BY <1>1, <1>2, <1>3, <1>4 DEF ServeStep
-----------------------------------------------------------------------------
\* In the beginning nobody holds the listener and no filter is installed.
LEMMA WatchInitInv == WatchInit => NotesInv /\ HeldRight
<1> SUFFICES ASSUME WatchInit PROVE NotesInv /\ HeldRight
  OBVIOUS
<1> USE DEF WatchInit
<1>1. call \in [Calls -> States]
  BY DEF States, Open
<1>2. LooksRight
  BY DEF LooksRight, Looking
<1>3. NotesRight
  BY FS_EmptySet, WatchAssumption DEF NotesRight
<1>4. HeldRight
  BY <1>1 DEF HeldRight, Open
<1> QED BY <1>1, <1>2, <1>3, <1>4 DEF NotesInv

\* Every step keeps both invariants.
LEMMA WatchStepInv ==
  NotesInv /\ HeldRight /\ [WatchNext]_watchVars => (NotesInv /\ HeldRight)'
<1> SUFFICES ASSUME NotesInv, HeldRight, [WatchNext]_watchVars PROVE (NotesInv /\ HeldRight)'
  OBVIOUS
<1>1. CASE WatchNext
  <2>1. InnerMoves \/ EngineMoves \/ ServeStep
    BY <1>1 DEF WatchNext, InnerMoves, EngineMoves
  <2> QED BY <2>1, InnerNotes, InnerHeld, EngineNotes, EngineHeld, ServeNotes, ServeHeld
<1>2. CASE UNCHANGED watchVars
  <2> USE <1>2 DEF watchVars
  <2>1. LooksRight' /\ NotesRight'
    BY DEF NotesInv, LooksRight, NotesRight, Noteworthy, Full, Looking
  <2>2. HeldRight'
    BY DEF HeldRight, Over, NoneOpen
  <2> QED BY <2>1, <2>2 DEF NotesInv
<1> QED BY <1>1, <1>2

\* They hold in every state of every behaviour.
LEMMA WatchAlways == WatchSpec => [](NotesInv /\ HeldRight)
  BY WatchInitInv, WatchStepInv, PTL DEF WatchSpec

\* inspect and record: every call the engine let continue is noted unless the
\* notes are full, and no note is about another process' memory.
THEOREM NotesAreOfTheCalls == WatchSpec => []NotesAreTheCalls
<1>1. NotesInv => NotesAreTheCalls
  BY DEF NotesInv, NotesRight, Noteworthy, Full, NotesAreTheCalls
<1> QED BY <1>1, WatchAlways, PTL

\* installEgressNotify and serve: somebody holds the listener until the run is
\* over, so that the kernel refuses no watched call before.
THEOREM NoCallRefusedEarly == WatchSpec => []NoEarlyRefusal
<1>1. HeldRight => NoEarlyRefusal
  BY DEF HeldRight, Over, NoEarlyRefusal
<1> QED BY <1>1, WatchAlways, PTL

(***************************************************************************)
(* The trace sessions.  That no engine loses its session to another's      *)
(* cleaning up rests on one fact: what an engine has condemned is owned by *)
(* no engine that runs, and it stays so although ids are used again,       *)
(* because an engine that comes is created after every one of its id that  *)
(* a session still names.                                                  *)
(***************************************************************************)

Names == [id : EngineIds, created : Nat]

SessionsTypes ==
  /\ tracer \in [EngineIds -> [at : {"off", "list", "clean", "tracing"}, created : Nat]]
  /\ sessions \in SUBSET Names
  /\ listed \in [EngineIds -> SUBSET Names]
  /\ condemned \in [EngineIds -> SUBSET Names]
  /\ robbed \in BOOLEAN

\* What an engine is about to stop is no running engine's.
CondemnedAreDead == \A p \in EngineIds : \A s \in condemned[p] : ~Owns(s)

\* The inductive invariant.
SessionsInv == SessionsTypes /\ CondemnedAreDead /\ LiveSessionsStay

\* The first state has no engine and no session.
LEMMA SessionsInitInv == SessionsInit => SessionsInv
<1> SUFFICES ASSUME SessionsInit PROVE SessionsInv
  OBVIOUS
<1>1. SessionsTypes
  BY DEF SessionsInit, SessionsTypes, Nobody
<1>2. CondemnedAreDead
  BY DEF SessionsInit, CondemnedAreDead
<1>3. LiveSessionsStay
  BY DEF SessionsInit, LiveSessionsStay, Nobody
<1> QED BY <1>1, <1>2, <1>3 DEF SessionsInv

\* An engine that comes is younger than every one of its id a session names, so
\* it owns nothing that is condemned.
LEMMA TracerComesInv ==
  ASSUME SessionsInv, NEW p \in EngineIds, TracerComes(p)
  PROVE  SessionsInv'
<1>1. PICK t \in 1..MaxEngines :
        /\ \A s \in Known : s.id = p => s.created < t
        /\ tracer' = [tracer EXCEPT ![p] = [at |-> "list", created |-> t]]
  BY DEF TracerComes
<1> USE DEF SessionsInv
<1>2. UNCHANGED <<sessions, listed, condemned, robbed>> /\ tracer[p].at = "off"
  BY DEF TracerComes
<1>3. t \in Nat
  OBVIOUS
<1>4. SessionsTypes'
  BY <1>1, <1>2, <1>3 DEF SessionsTypes
<1>5. CondemnedAreDead'
  <2> SUFFICES ASSUME NEW q \in EngineIds, NEW s \in condemned[q], Owns(s)'
               PROVE  FALSE
    BY <1>2 DEF CondemnedAreDead
  <2>1. s \in Names /\ ~Owns(s) /\ s \in Known
    BY DEF SessionsTypes, CondemnedAreDead, Known
  <2>2. CASE s.id = p
    <3>1. s.created < t /\ s.created \in Nat
      BY <1>1, <2>1, <2>2 DEF Names
    <3>2. s.created = t
      BY <1>1, <2>2 DEF Owns, SessionsTypes
    <3> QED BY <3>1, <3>2, <1>3
  <2>3. CASE s.id # p
    BY <1>1, <2>1, <2>3 DEF Owns, SessionsTypes, Names
  <2> QED BY <2>2, <2>3
<1>6. LiveSessionsStay'
  BY <1>1, <1>2 DEF LiveSessionsStay, SessionsTypes, SessionName
<1> QED BY <1>4, <1>5, <1>6

\* A listing changes neither who runs nor what is condemned.
LEMMA ListSessionsInv ==
  ASSUME SessionsInv, NEW p \in EngineIds, ListSessions(p)
  PROVE  SessionsInv'
<1> USE DEF SessionsInv, ListSessions
<1>1. SessionsTypes'
  BY DEF SessionsTypes
<1>2. CondemnedAreDead'
  BY DEF CondemnedAreDead, Owns, SessionsTypes, Names
<1>3. LiveSessionsStay'
  BY DEF LiveSessionsStay, SessionName, SessionsTypes
<1> QED BY <1>1, <1>2, <1>3

\* The look is wrong only towards leaving a session alone.
LEMMA CheckSessionInv ==
  ASSUME SessionsInv, NEW p \in EngineIds, NEW s \in listed[p], CheckSession(p, s)
  PROVE  SessionsInv'
<1> USE DEF SessionsInv
<1>1. PICK opened \in BOOLEAN :
        condemned' = [condemned EXCEPT ![p] = IF OwnerRunning(s, opened) THEN {} ELSE {s}]
  BY DEF CheckSession
<1>2. UNCHANGED <<tracer, sessions, robbed>> /\ listed' = [listed EXCEPT ![p] = @ \ {s}]
  BY DEF CheckSession
<1>3. s \in Names
  BY DEF SessionsTypes
<1>4. SessionsTypes'
  BY <1>1, <1>2, <1>3 DEF SessionsTypes
<1>5. ~OwnerRunning(s, opened) => ~Owns(s)
  BY DEF OwnerRunning, Owns
<1>6. CondemnedAreDead'
  <2> SUFFICES ASSUME NEW q \in EngineIds, NEW d \in condemned'[q]
               PROVE  ~Owns(d)
    BY <1>2 DEF CondemnedAreDead, Owns
  <2>1. CASE q = p
    BY <1>1, <1>5, <2>1 DEF SessionsTypes
  <2>2. CASE q # p
    BY <1>1, <2>2 DEF SessionsTypes, CondemnedAreDead
  <2> QED BY <2>1, <2>2
<1>7. LiveSessionsStay'
  BY <1>2 DEF LiveSessionsStay, SessionName
<1> QED BY <1>4, <1>6, <1>7

\* What is stopped is dead, so it is the session of no engine that traces.
LEMMA StopStaleInv ==
  ASSUME SessionsInv, NEW p \in EngineIds, StopStale(p)
  PROVE  SessionsInv'
<1> USE DEF SessionsInv
<1>1. /\ condemned' = [condemned EXCEPT ![p] = {}]
      /\ sessions' = sessions \ condemned[p]
      /\ UNCHANGED <<tracer, listed>>
      /\ robbed' = (robbed \/ \E s \in condemned[p] \intersect sessions : Owns(s))
  BY DEF StopStale
<1>2. ~robbed'
  BY <1>1 DEF CondemnedAreDead, LiveSessionsStay
<1>3. SessionsTypes'
  BY <1>1 DEF SessionsTypes
<1>4. CondemnedAreDead'
  BY <1>1 DEF CondemnedAreDead, Owns, SessionsTypes
<1>5. ASSUME NEW q \in EngineIds, tracer[q].at = "tracing"
      PROVE  SessionName(q) \in sessions \ condemned[p]
  <2>1. Owns(SessionName(q))
    BY <1>5 DEF Owns, SessionName
  <2> QED BY <1>5, <2>1 DEF CondemnedAreDead, LiveSessionsStay
<1>6. LiveSessionsStay'
  BY <1>1, <1>2, <1>5 DEF LiveSessionsStay, SessionName
<1> QED BY <1>3, <1>4, <1>6

\* The session an engine starts is its own.
LEMMA StartTraceInv ==
  ASSUME SessionsInv, NEW p \in EngineIds, StartTrace(p)
  PROVE  SessionsInv'
<1> USE DEF SessionsInv
<1>1. UNCHANGED <<listed, condemned, robbed>> /\ tracer[p].at = "clean"
  BY DEF StartTrace
<1>2. CASE /\ sessions' = sessions \union {SessionName(p)}
           /\ tracer' = [tracer EXCEPT ![p].at = "tracing"]
  <2>1. SessionName(p) \in Names
    BY DEF SessionName, SessionsTypes, Names
  <2>2. SessionsTypes'
    BY <1>1, <1>2, <2>1 DEF SessionsTypes
  <2>3. CondemnedAreDead'
    BY <1>1, <1>2 DEF CondemnedAreDead, Owns, SessionsTypes, Names
  <2>4. LiveSessionsStay'
    BY <1>1, <1>2 DEF LiveSessionsStay, SessionName, SessionsTypes
  <2> QED BY <2>2, <2>3, <2>4
<1>3. CASE tracer' = [tracer EXCEPT ![p] = Nobody] /\ UNCHANGED sessions
  <2>1. SessionsTypes'
    BY <1>1, <1>3 DEF SessionsTypes, Nobody
  <2>2. CondemnedAreDead'
    BY <1>1, <1>3 DEF CondemnedAreDead, Owns, SessionsTypes, Names, Nobody
  <2>3. LiveSessionsStay'
    BY <1>1, <1>3 DEF LiveSessionsStay, SessionName, SessionsTypes, Nobody
  <2> QED BY <2>1, <2>2, <2>3
<1> QED BY <1>2, <1>3 DEF StartTrace

\* Two ids never share a name.
LEMMA StopTraceInv ==
  ASSUME SessionsInv, NEW p \in EngineIds, StopTrace(p)
  PROVE  SessionsInv'
<1> USE DEF SessionsInv, StopTrace
<1>1. SessionsTypes'
  BY DEF SessionsTypes, Nobody
<1>2. CondemnedAreDead'
  BY DEF CondemnedAreDead, Owns, SessionsTypes, Names, Nobody
<1>3. ASSUME NEW q \in EngineIds, q # p
      PROVE  SessionName(q) # SessionName(p)
  BY <1>3 DEF SessionName
<1>4. LiveSessionsStay'
  BY <1>3 DEF LiveSessionsStay, SessionName, SessionsTypes, Nobody
<1> QED BY <1>1, <1>2, <1>4

\* A killed engine owns nothing any more and condemns nothing.
LEMMA KillTracerInv ==
  ASSUME SessionsInv, NEW p \in EngineIds, KillTracer(p)
  PROVE  SessionsInv'
<1> USE DEF SessionsInv, KillTracer
<1>1. SessionsTypes'
  BY DEF SessionsTypes, Nobody
<1>2. CondemnedAreDead'
  BY DEF CondemnedAreDead, Owns, SessionsTypes, Names, Nobody
<1>3. LiveSessionsStay'
  BY DEF LiveSessionsStay, SessionName, SessionsTypes, Nobody
<1> QED BY <1>1, <1>2, <1>3

\* Every step keeps the invariant.
LEMMA SessionsStepInv == SessionsInv /\ [SessionsNext]_sessionsVars => SessionsInv'
<1> SUFFICES ASSUME SessionsInv, [SessionsNext]_sessionsVars
             PROVE  SessionsInv'
  OBVIOUS
<1>1. CASE SessionsNext
  <2> PICK p \in EngineIds :
        \/ TracerComes(p) \/ ListSessions(p) \/ (\E s \in listed[p] : CheckSession(p, s)) \/ StopStale(p)
        \/ StartTrace(p) \/ StopTrace(p) \/ KillTracer(p)
    BY <1>1 DEF SessionsNext
  <2> QED BY TracerComesInv, ListSessionsInv, CheckSessionInv, StopStaleInv,
             StartTraceInv, StopTraceInv, KillTracerInv
<1>2. CASE UNCHANGED sessionsVars
  BY <1>2 DEF sessionsVars, SessionsInv, SessionsTypes, CondemnedAreDead, Owns,
              LiveSessionsStay, SessionName
<1> QED BY <1>1, <1>2

\* stopStaleSessions takes the session of no engine that runs: the session an
\* engine goes on to stop is nobody's, and every engine that traces has its own.
THEOREM LiveSessionsSafe == SessionsSpec => []LiveSessionsStay
<1>1. SessionsInv => LiveSessionsStay
  BY DEF SessionsInv
<1> QED BY <1>1, SessionsInitInv, SessionsStepInv, PTL DEF SessionsSpec

-----------------------------------------------------------------------------
(***************************************************************************)
(* The host: the types of every machine, whichever moves.                  *)
(***************************************************************************)

\* A place that is taken is one of the list.
LocksInv ==
  /\ LocksTypeOK
  /\ DOMAIN held = Lockers
  /\ \A r \in Lockers : IsFiniteSet(held[r]) /\ Len(locks[r]) \in Nat

LEMMA LocksInitInv == LocksInit => LocksInv
  BY FS_EmptySet, LocksAssumption DEF LocksInit, LocksInv, LocksTypeOK

LEMMA LocksStepInv == LocksInv /\ [LocksNext]_lockVars => LocksInv'
<1> SUFFICES ASSUME LocksInv, [LocksNext]_lockVars PROVE LocksInv'
  OBVIOUS
<1> USE DEF LocksInv, LocksTypeOK
<1>1. ASSUME NEW r \in Lockers, TakeLock(r) PROVE LocksInv'
  <2>1. Cardinality(held[r]) \in Nat
    BY FS_CardinalityType
  <2>2. Place(r) \in 1..Len(locks[r])
    BY <1>1, <2>1 DEF TakeLock, Place
  <2>3. IsFiniteSet(held[r] \union {Place(r)})
    BY FS_AddElement
  <2> QED
    BY <1>1, <2>2, <2>3 DEF TakeLock
<1>2. ASSUME NEW r \in Lockers, ReleaseLock(r) PROVE LocksInv'
  <2>1. \A S \in SUBSET held[r] : IsFiniteSet(S)
    BY FS_Subset
  <2>2. IsFiniteSet({i \in held[r] : \E j \in held[r] : j < i})
    BY <2>1
  <2> QED
    BY <1>2, <2>2 DEF ReleaseLock
<1>3. ASSUME NEW r \in Lockers, TakeFails(r) \/ KillLocker(r) \/ StartCommand(r) \/ EndLocked(r)
      PROVE  LocksInv'
  BY <1>3, FS_EmptySet DEF TakeFails, KillLocker, StartCommand, EndLocked
<1>4. CASE UNCHANGED lockVars
  BY <1>4 DEF lockVars
<1> QED
  BY <1>1, <1>2, <1>3, <1>4 DEF LocksNext, LockStep

\* Everything in its range, notes and samples within their caps, and what is
\* reported is noted.
WatchFlags ==
  /\ confined \in BOOLEAN /\ filtered \in BOOLEAN /\ parentEnd \in BOOLEAN
  /\ stop \in BOOLEAN /\ lost \in BOOLEAN

WatchTypes ==
  /\ engine \in {"prepared", "running", "stopping", "stopped", "cleaning", "done",
                 "abandoned", "killed"}
  /\ inner \in {"unborn", "starting", "installed", "sent", "command", "ended"}
  /\ holders \subseteq {"inner", "socket", "engine"}
  /\ serve \in {"none", "receiving", "done"} \union InsideServe
  /\ current \in Calls \union {NoCall}
  /\ report \subseteq notes
  /\ sampler \in {"off", "ticking", "stopping", "done"}
  /\ samples \in 0..MaxContentionSamples
  /\ cgroup \in {"none", "there", "removed", "left"}

WatchInv == NotesInv /\ HeldRight /\ WatchTypes /\ WatchFlags

LEMMA WatchTypesInit == WatchInit => WatchTypes
  BY WatchAssumption DEF WatchInit, WatchTypes

LEMMA WatchTypesStep == NotesInv /\ WatchTypes /\ [WatchNext]_watchVars => WatchTypes'
<1> SUFFICES ASSUME NotesInv, WatchTypes, [WatchNext]_watchVars PROVE WatchTypes'
  OBVIOUS
<1> USE WatchAssumption DEF WatchTypes, Release, serveVars, cgroupVars, InsideServe
<1>1. CASE InnerStep
  BY <1>1 DEF InnerStep, InstallFilter, InstallFails, SendListener, CloseOwnListener, InnerOnly
<1>2. CASE EndInner \/ \E c \in Calls : MakeCall(c) \/ CallerDies(c)
  BY <1>2 DEF EndInner, MakeCall, CallerDies, InnerOnly
<1>3. CASE StartInner \/ Abandon
  BY <1>3 DEF StartInner, Abandon
<1>4. CASE SampleTick
  <2>1. samples' \in 0..MaxContentionSamples
    BY <1>4 DEF SampleTick
  <2> QED
    BY <1>4, <2>1 DEF SampleTick
<1>5. CASE FinishStep \/ KillEngine
  BY <1>5 DEF FinishStep, BeginFinish, EndFinish, StopSampler, RemoveCgroup, KillEngine, EngineOnly
<1>6. CASE ReceiveListener \/ ReceiveGivesUp \/ ServeLoop \/ ServeEnds \/ PollTimesOut
  BY <1>6 DEF ReceiveListener, ReceiveGivesUp, ServeLoop, ServeEnds, PollTimesOut, ServeOnly
<1>7. CASE (\E c \in Calls : ReceiveCall(c)) \/ ReadTarget \/ CheckId \/ Record \/ Answer
  BY <1>7 DEF ReceiveCall, ReadTarget, CheckId, Record, Answer, ServeOnly
<1>8. CASE UNCHANGED watchVars
  BY <1>8 DEF watchVars
<1> QED
  BY <1>1, <1>2, <1>3, <1>4, <1>5, <1>6, <1>7, <1>8 DEF WatchNext, ServeStep

LEMMA WatchFlagsInit == WatchInit => WatchFlags
  BY DEF WatchInit, WatchFlags

LEMMA WatchFlagsStep == WatchFlags /\ [WatchNext]_watchVars => WatchFlags'
<1> SUFFICES ASSUME WatchFlags, [WatchNext]_watchVars PROVE WatchFlags'
  OBVIOUS
<1> USE DEF WatchFlags, Release, serveVars, cgroupVars
<1>1. CASE InnerStep
  BY <1>1 DEF InnerStep, InstallFilter, InstallFails, SendListener, CloseOwnListener, InnerOnly
<1>2. CASE EndInner \/ \E c \in Calls : MakeCall(c) \/ CallerDies(c)
  BY <1>2 DEF EndInner, MakeCall, CallerDies, InnerOnly
<1>3. CASE StartInner \/ Abandon \/ SampleTick
  BY <1>3 DEF StartInner, Abandon, SampleTick
<1>4. CASE FinishStep \/ KillEngine
  BY <1>4 DEF FinishStep, BeginFinish, EndFinish, StopSampler, RemoveCgroup, KillEngine, EngineOnly
<1>5. CASE ReceiveListener \/ ReceiveGivesUp \/ ServeLoop \/ ServeEnds \/ PollTimesOut
  BY <1>5 DEF ReceiveListener, ReceiveGivesUp, ServeLoop, ServeEnds, PollTimesOut, ServeOnly
<1>6. CASE (\E c \in Calls : ReceiveCall(c)) \/ ReadTarget \/ CheckId \/ Record \/ Answer
  BY <1>6 DEF ReceiveCall, ReadTarget, CheckId, Record, Answer, ServeOnly
<1>7. CASE UNCHANGED watchVars
  BY <1>7 DEF watchVars
<1> QED
  BY <1>1, <1>2, <1>3, <1>4, <1>5, <1>6, <1>7 DEF WatchNext, ServeStep

\* How many sessions one engine looks at, and stops at a time, and that no
\* session is named after an engine that never was.
SessionsBounds ==
  /\ IsFiniteSet(sessions) /\ sessions \subseteq [id : EngineIds, created : 1..MaxEngines]
  /\ \A p \in EngineIds :
       /\ tracer[p].at # "off" => tracer[p].created \in 1..MaxEngines
       /\ IsFiniteSet(listed[p]) /\ Cardinality(listed[p]) <= MaxListedSessions
       /\ Cardinality(condemned[p]) <= 1

LEMMA SessionsBoundsInit == SessionsInit => SessionsBounds
<1> SUFFICES ASSUME SessionsInit PROVE SessionsBounds
  OBVIOUS
<1>1. IsFiniteSet({}) /\ Cardinality({}) = 0
  BY FS_EmptySet
<1> QED
  BY <1>1, SessionsAssumption DEF SessionsInit, SessionsBounds, Nobody

LEMMA SessionsBoundsStep ==
  SessionsTypes /\ SessionsBounds /\ [SessionsNext]_sessionsVars => SessionsBounds'
<1> SUFFICES ASSUME SessionsTypes, SessionsBounds, [SessionsNext]_sessionsVars
             PROVE  SessionsBounds'
  OBVIOUS
<1>0. /\ IsFiniteSet({}) /\ Cardinality({}) = 0
      /\ \A x : Cardinality({x}) = 1
  BY FS_EmptySet, FS_Singleton
<1> USE SessionsAssumption DEF SessionsTypes, SessionsBounds
<1>1. ASSUME NEW p \in EngineIds, TracerComes(p) PROVE SessionsBounds'
  BY <1>1 DEF TracerComes
<1>2. ASSUME NEW p \in EngineIds, ListSessions(p) PROVE SessionsBounds'
  <2>1. PICK some \in SUBSET sessions : /\ Cardinality(some) <= MaxListedSessions
                                        /\ listed' = [listed EXCEPT ![p] = some]
    BY <1>2 DEF ListSessions
  <2>2. IsFiniteSet(some)
    BY FS_Subset
  <2> QED
    BY <1>2, <2>1, <2>2 DEF ListSessions
<1>3. ASSUME NEW p \in EngineIds, NEW s \in listed[p], CheckSession(p, s) PROVE SessionsBounds'
  <2>1. /\ IsFiniteSet(listed[p] \ {s})
        /\ Cardinality(listed[p] \ {s}) <= Cardinality(listed[p])
        /\ Cardinality(listed[p] \ {s}) \in Nat /\ Cardinality(listed[p]) \in Nat
    BY FS_Subset, FS_CardinalityType
  <2>2. condemned'[p] \in {{}, {s}} /\ \A q \in EngineIds \ {p} : condemned'[q] = condemned[q]
    BY <1>3 DEF CheckSession
  <2>3. \A q \in EngineIds : Cardinality(condemned'[q]) <= 1
    <3>1. Cardinality(condemned'[p]) <= 1
      <4>1. CASE condemned'[p] = {}
        BY <1>0, <4>1
      <4>2. CASE condemned'[p] = {s}
        <5>1. Cardinality({s}) = 1
          BY <1>0
        <5> QED BY <4>2, <5>1
      <4> QED BY <2>2, <4>1, <4>2
    <3> QED BY <2>2, <3>1
  <2>4. Cardinality(listed[p] \ {s}) <= MaxListedSessions
    BY <2>1
  <2>5. \A q \in EngineIds : IsFiniteSet(listed'[q]) /\ Cardinality(listed'[q]) <= MaxListedSessions
    BY <1>3, <2>1, <2>4 DEF CheckSession
  <2> QED
    BY <1>3, <2>3, <2>5 DEF CheckSession
<1>4. ASSUME NEW p \in EngineIds, StopStale(p) PROVE SessionsBounds'
  <2>1. IsFiniteSet(sessions \ condemned[p])
    BY FS_Subset
  <2> QED
    BY <1>0, <1>4, <2>1 DEF StopStale
<1>5. ASSUME NEW p \in EngineIds, StartTrace(p) PROVE SessionsBounds'
  <2>1. IsFiniteSet(sessions \union {SessionName(p)})
    BY FS_AddElement
  <2>2. SessionName(p) \in [id : EngineIds, created : 1..MaxEngines]
    BY <1>5 DEF StartTrace, SessionName
  <2>3. /\ sessions' \in {sessions, sessions \union {SessionName(p)}}
        /\ UNCHANGED <<listed, condemned>>
        /\ \A q \in EngineIds : tracer'[q].at = "off" \/ tracer'[q].created = tracer[q].created
        /\ \A q \in EngineIds : tracer'[q].at # "off" => tracer[q].at # "off"
    BY <1>5 DEF StartTrace, Nobody
  <2> QED
    BY <2>1, <2>2, <2>3
<1>6. ASSUME NEW p \in EngineIds, StopTrace(p) PROVE SessionsBounds'
  <2>1. IsFiniteSet(sessions \ {SessionName(p)})
    BY FS_Subset
  <2> QED
    BY <1>6, <2>1 DEF StopTrace, Nobody
<1>7. ASSUME NEW p \in EngineIds, KillTracer(p) PROVE SessionsBounds'
  BY <1>0, <1>7 DEF KillTracer, Nobody
<1>8. CASE UNCHANGED sessionsVars
  BY <1>8 DEF sessionsVars
<1> QED
  BY <1>1, <1>2, <1>3, <1>4, <1>5, <1>6, <1>7, <1>8 DEF SessionsNext

\* The invariants of the machines together.
HostInv == RegistryInv /\ StoreInv /\ LocksInv /\ WatchInv /\ SessionsInv /\ SessionsBounds

\* A step of the host is a step of one machine and a stutter of the others.
LEMMA HostSteps ==
  [HostNext]_hostVars => /\ [RegistryNext]_registryVars /\ [StoreNext]_storeVars
                         /\ [LocksNext]_lockVars /\ [WatchNext]_watchVars
                         /\ [SessionsNext]_sessionsVars
BY DEF HostNext, hostVars, Registry, Store, Locks, Watch, Sessions

THEOREM HostInvariant == HostSpec => []HostInv
<1>1. HostInit => HostInv
  BY RegistryInitInv, StoreInitInv, LocksInitInv, WatchInitInv, WatchTypesInit, WatchFlagsInit, SessionsInitInv,
     SessionsBoundsInit DEF HostInit, HostInv, WatchInv
<1>2. HostInv /\ [HostNext]_hostVars => HostInv'
  BY HostSteps, RegistryStepInv, StoreStepInv, LocksStepInv, WatchStepInv, WatchTypesStep, WatchFlagsStep,
     SessionsStepInv, SessionsBoundsStep DEF HostInv, WatchInv, SessionsInv
<1> QED
  BY <1>1, <1>2, PTL DEF HostSpec

\* HostTypeOK: on any host, whichever of its machines moves, each keeps its
\* variables in range, its notes, samples and listings within their caps.
THEOREM HostTypes == HostSpec => []HostTypeOK
<1>1. HostInv => HostTypeOK
  BY DEF HostInv, HostTypeOK, RegistryInv, StoreInv, TypeInv, LocksInv, WatchInv, WatchTypes, WatchFlags,
     WatchTypeOK, NotesInv, NotesRight, States, SessionsInv, SessionsTypes, SessionsBounds,
     SessionsTypeOK
<1> QED
  BY <1>1, HostInvariant, PTL

\* What runs of one host share does what each machine promises on its own: the
\* host's behaviours are behaviours of the registry, the store and the trace
\* sessions, and what the watch of a run promises holds beside them.
THEOREM HostKeepsPromises ==
  HostSpec => /\ RegistrySpec /\ StoreSpec /\ SessionsSpec
              /\ [](NotesAreTheCalls /\ NoEarlyRefusal)
<1>1. HostInit => RegistryInit /\ StoreInit /\ SessionsInit
  BY DEF HostInit
<1>2. HostInv => NotesAreTheCalls /\ NoEarlyRefusal
  BY DEF HostInv, WatchInv, HeldRight, Over, NotesInv, NotesRight, Noteworthy, Full,
     NotesAreTheCalls, NoEarlyRefusal
<1> QED
  BY <1>1, <1>2, HostSteps, HostInvariant, PTL DEF HostSpec, RegistrySpec, StoreSpec, SessionsSpec
=============================================================================
