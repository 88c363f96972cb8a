-------------------------- MODULE EgressProxyProofs --------------------------
(***************************************************************************)
(* Theorems about EgressProxy, for every set of connections, requests,     *)
(* configurations and caps: what it lets through and who may touch what;   *)
(* then its records: what is recorded once, what the caps leave out and    *)
(* say they leave out, and what a report holds that saw the handlers end.  *)
(***************************************************************************)
EXTENDS EgressProxy, DataInduction

(***************************************************************************)
(* The policy: what the check on the name and the check on the address let *)
(* through together is granted (targetAllowed, then Dialer.Control).       *)
(***************************************************************************)
LEMMA TwoChecksGrant ==
  ASSUME NEW pol, NEW h, NEW port, NEW a \in AddressesOf(h), a \in Addrs,
         TargetAllowed(pol, h, port), DialPermitted(pol, h, a)
  PROVE  Granted(pol, h, a, port)
<1>1. CASE pol.learn
  BY <1>1 DEF TargetAllowed, DialPermitted, Granted
<1>2. CASE ~pol.learn
  <2>1. HostAllowed(pol, h) /\ PortAllowed(pol, port)
    BY <1>2 DEF TargetAllowed
  <2>2. a.class \in AddrClasses /\ a.form \in {"plain", "embedded"}
        /\ a = [class |-> a.class, form |-> a.form]
    BY DEF Addrs
  <2>3. CASE h \in Addrs
    <3>1. h = a
      BY <2>3 DEF AddressesOf
    <3>2. CASE h \in pol.ips
      BY <1>2, <2>1, <2>3, <3>1, <3>2 DEF Granted
    <3>3. CASE InAllowedNet(pol, h)
      <4>1. \E r \in pol.nets : a \in Within[r]
        BY <3>1, <3>3 DEF InAllowedNet
      <4>2. a.class = "public" \/ a = [class |-> "loopback", form |-> "plain"]
        BY <3>1, <3>3, <2>2 DEF InAllowedNet, RangeExcluded, AddrClasses
      <4> QED
        BY <1>2, <2>1, <2>3, <3>1, <4>1, <4>2 DEF Granted
    <3> QED
      BY <2>1, <2>3, <3>2, <3>3 DEF HostAllowed
  <2>4. CASE h \notin Addrs /\ NamedHost(pol, h)
    BY <1>2, <2>1, <2>4 DEF Granted
  <2>5. CASE h \notin Addrs /\ ~NamedHost(pol, h)
    <3>1. pol.anyHost /\ WildcardOnly(pol, h)
      BY <2>1, <2>5 DEF HostAllowed, WildcardOnly
    <3>2. a \in pol.ips \/ a.class = "public"
      BY <1>2, <3>1, <2>2 DEF DialPermitted, HostLocalIP, RangeExcluded, AddrClasses
    <3> QED
      BY <1>2, <2>1, <2>5, <3>1, <3>2 DEF Granted
  <2> QED
    BY <2>3, <2>4, <2>5
<1> QED
  BY <1>1, <1>2
------------------------------------------------------------------------------
(***************************************************************************)
(* Facts about the definitions the actions are built from.                 *)
(***************************************************************************)
LEMMA TargetTyped == \A r \in Requests : Target(r) \in Targets
BY DEF Targets

LEMMA OverflowTyped == Overflow \in Targets
BY DEF Targets

LEMMA EntryTyped ==
  ASSUME NEW type \in EntryTypes, NEW t \in Targets
  PROVE  Entry(type, t) \in Entries
BY DEF Entry, Entries

LEMMA SuspectsTyped ==
  ASSUME NEW r \in Requests
  PROVE  Suspects(r) \cup Handshakes(r) \subseteq Observations
<1>1. FindingType(r) \in FindingTypes
  BY DEF FindingType, FindingTypes
<1>2. Suspects(r) \subseteq Observations
  BY <1>1, TargetTyped DEF Suspects, Observations
<1>3. Handshakes(r) \subseteq Observations
  BY TargetTyped DEF Handshakes, Observations
<1> QED
  BY <1>2, <1>3

LEMMA UploadHeavyTyped ==
  ASSUME NEW tr, DOMAIN tr \subseteq Targets
  PROVE  UploadHeavyEntries(tr) \subseteq Entries
<1>1. \A t \in Targets : Entry("proxy-upload-heavy", t) \in Entries
  BY EntryTyped DEF EntryTypes
<1> QED
  BY <1>1, OverflowTyped DEF UploadHeavyEntries, HeavyTargets

LEMMA CountBumped ==
  ASSUME NEW n \in [FindingTypes -> Nat], NEW k \in FindingTypes
  PROVE  [n EXCEPT ![k] = n[k] + 1] \in [FindingTypes -> Nat]
OBVIOUS

LEMMA SocketTyped == \A c \in Conns : Client(c) \in Sockets /\ Upstream(c) \in Sockets
BY DEF Client, Upstream, Sockets

LEMMA ViolationTyped ==
  ASSUME violations \in Seq(Entries), NEW r \in Requests, NEW type \in EntryTypes
  PROVE  Append(violations, Entry(type, Target(r))) \in Seq(Entries)
BY EntryTyped, TargetTyped

(***************************************************************************)
(* A handler that has read its request keeps it, and the WaitGroup counts  *)
(* the handlers that run.                                                  *)
(***************************************************************************)
Answering ==
  {"decide", "dial", "refused", "track", "connect", "tunnel", "half", "count",
   "untrack", "upstream"}
RequestRead == \A c \in Conns : pc[c] \in Answering => req[c] \in Requests

Counted == handlers = Cardinality({c \in Conns : Serving(c)})

TypeInv == TypeOK /\ RequestRead /\ Counted

USE DEF netVars, locals, handlerVars, recordVars, flushVars

LEMMA TypeOKPreserved ==
  ASSUME TypeInv, [Next]_vars
  PROVE  TypeOK'
<1>1. ASSUME NEW c \in Conns, Connect(c) PROVE TypeOK'
  BY <1>1 DEF TypeInv, TypeOK, Connect, Goto, PCs
<1>2. ASSUME NEW c \in Conns, Accept(c) PROVE TypeOK'
  BY <1>2, SocketTyped DEF TypeInv, TypeOK, Accept, Goto, PCs
<1>3. ASSUME NEW c \in Conns, Admit(c) PROVE TypeOK'
  BY <1>3, SocketTyped DEF TypeInv, TypeOK, Admit, Goto, PCs
<1>4. ASSUME NEW c \in Conns, TurnAway(c) PROVE TypeOK'
  BY <1>4 DEF TypeInv, TypeOK, TurnAway, Goto, PCs
<1>5. CASE AcceptFails
  BY <1>5 DEF TypeInv, TypeOK, AcceptFails, Goto, PCs
<1>6. ASSUME NEW c \in Conns, NEW r \in Requests, ReadRequest(c, r) PROVE TypeOK'
  BY <1>6 DEF TypeInv, TypeOK, ReadRequest, Goto, PCs
<1>7. ASSUME NEW c \in Conns, ReadFails(c) PROVE TypeOK'
  BY <1>7 DEF TypeInv, TypeOK, ReadFails, Goto, PCs
<1>8. ASSUME NEW c \in Conns, Deny(c) PROVE TypeOK'
  <2>1. req[c] \in Requests
    BY <1>8 DEF TypeInv, RequestRead, Deny, Goto, Answering
  <2>2. violations' \in Seq(Entries)
    BY <1>8, <2>1, ViolationTyped DEF TypeInv, TypeOK, Deny, RecordViolation,
       EntryTypes
  <2> QED
    BY <1>8, <2>2 DEF TypeInv, TypeOK, Deny, Goto, PCs
<1>9. ASSUME NEW c \in Conns, StartDial(c) PROVE TypeOK'
  BY <1>9 DEF TypeInv, TypeOK, StartDial, Goto, PCs
<1>10. ASSUME NEW c \in Conns, NEW a \in Addrs, DialSucceeds(c, a) PROVE TypeOK'
  BY <1>10, SocketTyped DEF TypeInv, TypeOK, DialSucceeds, Goto, PCs
<1>11. ASSUME NEW c \in Conns, NEW a \in Addrs, DialRefused(c, a) PROVE TypeOK'
  BY <1>11 DEF TypeInv, TypeOK, DialRefused, Goto, PCs
<1>12. ASSUME NEW c \in Conns, DialFails(c) PROVE TypeOK'
  BY <1>12 DEF TypeInv, TypeOK, DialFails, Goto, PCs
<1>13. ASSUME NEW c \in Conns, DialRefusedReply(c) PROVE TypeOK'
  <2>1. req[c] \in Requests
    BY <1>13 DEF TypeInv, RequestRead, DialRefusedReply, Goto, Answering
  <2>2. violations' \in Seq(Entries)
    BY <1>13, <2>1, ViolationTyped DEF TypeInv, TypeOK, DialRefusedReply,
       RecordViolation, EntryTypes
  <2> QED
    BY <1>13, <2>2 DEF TypeInv, TypeOK, DialRefusedReply, Goto, PCs
<1>14. ASSUME NEW c \in Conns, Track(c) PROVE TypeOK'
  BY <1>14, SocketTyped DEF TypeInv, TypeOK, Track, Goto, PCs
<1>15. ASSUME NEW c \in Conns, RecordConnect(c) PROVE TypeOK'
  <2>1. req[c] \in Requests
    BY <1>15 DEF TypeInv, RequestRead, RecordConnect, Goto, Answering
  <2> DEFINE t == Target(req[c])
  <2>2. t \in Targets /\ Append(violations, Entry("proxy-connect",
     t)) \in Seq(Entries)
    BY <2>1, ViolationTyped, TargetTyped DEF TypeInv, TypeOK, EntryTypes
  <2>3. \/ connected' = connected /\ violations' = violations
        \/ /\ connected' = connected \cup {t}
           /\ violations' = Append(violations, Entry("proxy-connect", t))
    BY <1>15 DEF RecordConnect
  <2>4. violations' \in Seq(Entries) /\ connected' \subseteq Targets
    BY <2>2, <2>3 DEF TypeInv, TypeOK
  <2>5. todo' \in [Conns -> SUBSET Observations]
    BY <1>15, <2>1, SuspectsTyped DEF TypeInv, TypeOK, RecordConnect
  <2> QED
    BY <1>15, <2>5, <2>4 DEF TypeInv, TypeOK, RecordConnect, Goto, PCs
<1>16. ASSUME NEW c \in Conns, NEW f \in todo[c], RecordFinding(c, f) PROVE TypeOK'
  <2>1. f \in Observations /\ f[1] \in FindingTypes /\ f[2] \in Targets
    BY <1>16 DEF TypeInv, TypeOK, RecordFinding, Observations, FindingTypes
  <2>2. \/ findingCount' = findingCount
        \/ findingCount' = [findingCount EXCEPT ![f[1]] = findingCount[f[1]] + 1]
    BY <1>16 DEF RecordFinding
  <2>3. findingCount' \in [FindingTypes -> Nat]
    BY <2>1, <2>2, CountBumped DEF TypeInv, TypeOK
  <2>4. \A t \in Targets : Append(violations, Entry(f[1], t)) \in Seq(Entries)
    BY <2>1, EntryTyped DEF TypeInv, TypeOK, EntryTypes
  <2>5. violations' \in Seq(Entries)
    BY <1>16, <2>1, <2>4, OverflowTyped DEF TypeInv, TypeOK, RecordFinding
  <2> QED
    BY <1>16, <2>1, <2>3, <2>5 DEF TypeInv, TypeOK, RecordFinding
<1>17. ASSUME NEW c \in Conns, NEW f \in todo[c], RecordTLS(c, f) PROVE TypeOK'
  BY <1>17 DEF TypeInv, TypeOK, RecordTLS, Goto, PCs
<1>18. ASSUME NEW c \in Conns, NEW d \in Directions, EndCopy(c, d) PROVE TypeOK'
  BY <1>18 DEF TypeInv, TypeOK, EndCopy, Goto, PCs
<1>19. ASSUME NEW c \in Conns, HalfClose(c) PROVE TypeOK'
  BY <1>19 DEF TypeInv, TypeOK, HalfClose, Goto, PCs
<1>20. ASSUME NEW c \in Conns, NEW v \in Volumes, TunnelEnds(c, v) PROVE TypeOK'
  BY <1>20, ProxyAssumption DEF TypeInv, TypeOK, TunnelEnds, Goto, PCs, ByteCounts
<1>21. ASSUME NEW c \in Conns, RecordTraffic(c) PROVE TypeOK'
  <2>1. Target(req[c]) \in Targets /\ bytes[c] \in ByteCounts
    BY <1>21, TargetTyped DEF TypeInv, TypeOK, RequestRead, RecordTraffic,
       Goto, Answering
  <2>2. TrafficTo(Target(req[c])) \in ByteCounts
    BY DEF TypeInv, TypeOK, TrafficTo, ByteCounts
  <2>3. DOMAIN traffic' \subseteq Targets /\ \A t \in DOMAIN traffic' : traffic'[t] \in ByteCounts
    BY <1>21, <2>1, <2>2 DEF TypeInv, TypeOK, RecordTraffic, ByteCounts
  <2> QED
    BY <1>21, <2>3 DEF TypeInv, TypeOK, RecordTraffic, Goto, PCs
<1>22. ASSUME NEW c \in Conns, Untrack(c) PROVE TypeOK'
  BY <1>22 DEF TypeInv, TypeOK, Untrack, Goto, PCs
<1>23. ASSUME NEW c \in Conns, CloseUpstream(c) PROVE TypeOK'
  BY <1>23 DEF TypeInv, TypeOK, CloseUpstream, Goto, PCs
<1>24. ASSUME NEW c \in Conns, Cleanup(c) PROVE TypeOK'
  BY <1>24 DEF TypeInv, TypeOK, Cleanup, Goto, PCs
<1>25. ASSUME NEW c \in Conns, Finish(c) PROVE TypeOK'
  <2>1. handlers - 1 \in Nat
    <3>1. IsFiniteSet({x \in Conns : Serving(x)})
      BY ProxyAssumption, FS_Subset
    <3>2. c \in {x \in Conns : Serving(x)}
      BY <1>25 DEF Finish, Goto, Serving
    <3> QED
      BY <3>1, <3>2, FS_EmptySet, FS_CardinalityType DEF TypeInv, Counted
  <2> QED
    BY <1>25, <2>1 DEF TypeInv, TypeOK, Finish, Goto, PCs
<1>26. CASE BeginClose
  BY <1>26 DEF TypeInv, TypeOK, BeginClose, Goto, PCs
<1>27. CASE CloseListener
  BY <1>27 DEF TypeInv, TypeOK, CloseListener, Goto, PCs
<1>28. ASSUME NEW s \in Sockets, CloseSocket(s) PROVE TypeOK'
  BY <1>28 DEF TypeInv, TypeOK, CloseSocket, Goto, PCs
<1>29. CASE CloseReturns
  BY <1>29 DEF TypeInv, TypeOK, CloseReturns, Goto, PCs
<1>30. CASE HandlersDrained
  BY <1>30 DEF TypeInv, TypeOK, HandlersDrained, Goto, PCs
<1>31. CASE DrainTimesOut
  BY <1>31 DEF TypeInv, TypeOK, DrainTimesOut, Goto, PCs
<1>32. CASE ViolationsSnapshot
  <2>1. {violations[i] : i \in DOMAIN violations} \subseteq Entries
    BY DEF TypeInv, TypeOK
  <2>2. report' \subseteq Entries
    BY <1>32, <2>1, UploadHeavyTyped DEF TypeInv, TypeOK, ViolationsSnapshot
  <2>3. violations' \in Seq(Entries) /\ DOMAIN traffic' = {}
    BY <1>32 DEF ViolationsSnapshot
  <2> QED
    BY <1>32, <2>2, <2>3 DEF TypeInv, TypeOK, ViolationsSnapshot
<1>33. CASE UNCHANGED vars
  BY <1>33 DEF TypeInv, TypeOK, vars
<1> QED
  BY <1>1, <1>2, <1>3, <1>4, <1>5, <1>6, <1>7, <1>8, <1>9, <1>10, <1>11, <1>12,
     <1>13, <1>14, <1>15, <1>16, <1>17, <1>18, <1>19, <1>20, <1>21, <1>22, <1>23,
     <1>24, <1>25, <1>26, <1>27, <1>28, <1>29, <1>30, <1>31, <1>32, <1>33
  DEF Next, AcceptLoop, FlushStep, Handler, HandlerStep, ReadReturns, DialReturns,
      TunnelReturns, RecordURL, CopyFindsClosed, PeerFinishes, CopyWriteFails

(***************************************************************************)
(* The count and the requests read.                                       *)
(***************************************************************************)
LEMMA RequestReadPreserved ==
  ASSUME TypeInv, [Next]_vars
  PROVE  RequestRead'
<1>1. ASSUME NEW c \in Conns, Connect(c) PROVE RequestRead'
  BY <1>1 DEF TypeInv, TypeOK, RequestRead, Connect, Goto, Answering
<1>2. ASSUME NEW c \in Conns, Accept(c) PROVE RequestRead'
  BY <1>2 DEF TypeInv, TypeOK, RequestRead, Accept, Goto, Answering
<1>3. ASSUME NEW c \in Conns, Admit(c) PROVE RequestRead'
  BY <1>3 DEF TypeInv, TypeOK, RequestRead, Admit, Goto, Answering
<1>4. ASSUME NEW c \in Conns, TurnAway(c) PROVE RequestRead'
  BY <1>4 DEF TypeInv, TypeOK, RequestRead, TurnAway, Goto, Answering
<1>5. CASE AcceptFails
  BY <1>5 DEF TypeInv, TypeOK, RequestRead, AcceptFails, Goto, Answering
<1>6. ASSUME NEW c \in Conns, NEW r \in Requests, ReadRequest(c,
   r) PROVE RequestRead'
  BY <1>6 DEF TypeInv, TypeOK, RequestRead, ReadRequest, Goto, Answering
<1>7. ASSUME NEW c \in Conns, ReadFails(c) PROVE RequestRead'
  BY <1>7 DEF TypeInv, TypeOK, RequestRead, ReadFails, Goto, Answering
<1>8. ASSUME NEW c \in Conns, Deny(c) PROVE RequestRead'
  BY <1>8 DEF TypeInv, TypeOK, RequestRead, Deny, Goto, Answering
<1>9. ASSUME NEW c \in Conns, StartDial(c) PROVE RequestRead'
  BY <1>9 DEF TypeInv, TypeOK, RequestRead, StartDial, Goto, Answering
<1>10. ASSUME NEW c \in Conns, NEW a \in Addrs, DialSucceeds(c,
   a) PROVE RequestRead'
  BY <1>10 DEF TypeInv, TypeOK, RequestRead, DialSucceeds, Goto, Answering
<1>11. ASSUME NEW c \in Conns, NEW a \in Addrs, DialRefused(c, a) PROVE RequestRead'
  BY <1>11 DEF TypeInv, TypeOK, RequestRead, DialRefused, Goto, Answering
<1>12. ASSUME NEW c \in Conns, DialFails(c) PROVE RequestRead'
  BY <1>12 DEF TypeInv, TypeOK, RequestRead, DialFails, Goto, Answering
<1>13. ASSUME NEW c \in Conns, DialRefusedReply(c) PROVE RequestRead'
  BY <1>13 DEF TypeInv, TypeOK, RequestRead, DialRefusedReply, Goto, Answering
<1>14. ASSUME NEW c \in Conns, Track(c) PROVE RequestRead'
  BY <1>14 DEF TypeInv, TypeOK, RequestRead, Track, Goto, Answering
<1>15. ASSUME NEW c \in Conns, RecordConnect(c) PROVE RequestRead'
  BY <1>15 DEF TypeInv, TypeOK, RequestRead, RecordConnect, Goto, Answering
<1>16. ASSUME NEW c \in Conns, NEW f \in todo[c], RecordFinding(c,
   f) PROVE RequestRead'
  BY <1>16 DEF TypeInv, TypeOK, RequestRead, RecordFinding, Goto, Answering
<1>17. ASSUME NEW c \in Conns, NEW f \in todo[c], RecordTLS(c, f) PROVE RequestRead'
  BY <1>17 DEF TypeInv, TypeOK, RequestRead, RecordTLS, Goto, Answering
<1>18. ASSUME NEW c \in Conns, NEW d \in Directions, EndCopy(c,
   d) PROVE RequestRead'
  BY <1>18 DEF TypeInv, TypeOK, RequestRead, EndCopy, Goto, Answering
<1>19. ASSUME NEW c \in Conns, HalfClose(c) PROVE RequestRead'
  BY <1>19 DEF TypeInv, TypeOK, RequestRead, HalfClose, Goto, Answering
<1>20. ASSUME NEW c \in Conns, NEW v \in Volumes, TunnelEnds(c,
   v) PROVE RequestRead'
  BY <1>20 DEF TypeInv, TypeOK, RequestRead, TunnelEnds, Goto, Answering
<1>21. ASSUME NEW c \in Conns, RecordTraffic(c) PROVE RequestRead'
  BY <1>21 DEF TypeInv, TypeOK, RequestRead, RecordTraffic, Goto, Answering
<1>22. ASSUME NEW c \in Conns, Untrack(c) PROVE RequestRead'
  BY <1>22 DEF TypeInv, TypeOK, RequestRead, Untrack, Goto, Answering
<1>23. ASSUME NEW c \in Conns, CloseUpstream(c) PROVE RequestRead'
  BY <1>23 DEF TypeInv, TypeOK, RequestRead, CloseUpstream, Goto, Answering
<1>24. ASSUME NEW c \in Conns, Cleanup(c) PROVE RequestRead'
  BY <1>24 DEF TypeInv, TypeOK, RequestRead, Cleanup, Goto, Answering
<1>25. ASSUME NEW c \in Conns, Finish(c) PROVE RequestRead'
  BY <1>25 DEF TypeInv, TypeOK, RequestRead, Finish, Goto, Answering
<1>26. CASE BeginClose
  BY <1>26 DEF TypeInv, TypeOK, RequestRead, BeginClose, Goto, Answering
<1>27. CASE CloseListener
  BY <1>27 DEF TypeInv, TypeOK, RequestRead, CloseListener, Goto, Answering
<1>28. ASSUME NEW s \in Sockets, CloseSocket(s) PROVE RequestRead'
  BY <1>28 DEF TypeInv, TypeOK, RequestRead, CloseSocket, Goto, Answering
<1>29. CASE CloseReturns
  BY <1>29 DEF TypeInv, TypeOK, RequestRead, CloseReturns, Goto, Answering
<1>30. CASE HandlersDrained
  BY <1>30 DEF TypeInv, TypeOK, RequestRead, HandlersDrained, Goto, Answering
<1>31. CASE DrainTimesOut
  BY <1>31 DEF TypeInv, TypeOK, RequestRead, DrainTimesOut, Goto, Answering
<1>32. CASE ViolationsSnapshot
  BY <1>32 DEF TypeInv, TypeOK, RequestRead, ViolationsSnapshot, Goto, Answering
<1>33. CASE UNCHANGED vars
  BY <1>33 DEF TypeInv, RequestRead, vars
<1> QED
  BY <1>1, <1>2, <1>3, <1>4, <1>5, <1>6, <1>7, <1>8, <1>9, <1>10, <1>11, <1>12,
     <1>13, <1>14, <1>15, <1>16, <1>17, <1>18, <1>19, <1>20, <1>21, <1>22, <1>23,
     <1>24, <1>25, <1>26, <1>27, <1>28, <1>29, <1>30, <1>31, <1>32, <1>33
  DEF Next, AcceptLoop, FlushStep, Handler, HandlerStep, ReadReturns, DialReturns,
      TunnelReturns, RecordURL, CopyFindsClosed, PeerFinishes, CopyWriteFails

LEMMA SameHandlers ==
  ASSUME Counted, handlers' = handlers, \A c \in Conns : Serving(c)' <=> Serving(c)
  PROVE  Counted'
<1>1. {c \in Conns : Serving(c)}' = {c \in Conns : Serving(c)}
  OBVIOUS
<1> QED
  BY <1>1 DEF Counted

LEMMA CountedPreserved ==
  ASSUME TypeInv, [Next]_vars
  PROVE  Counted'
<1>1. ASSUME NEW c \in Conns, Connect(c) PROVE Counted'
  <2>1. handlers' = handlers /\ \A x \in Conns : Serving(x)' <=> Serving(x)
    BY <1>1 DEF TypeInv, TypeOK, Connect, Goto, Serving
  <2> QED
    BY <2>1, SameHandlers DEF TypeInv
<1>2. ASSUME NEW c \in Conns, Accept(c) PROVE Counted'
  <2>1. handlers' = handlers /\ \A x \in Conns : Serving(x)' <=> Serving(x)
    BY <1>2 DEF TypeInv, TypeOK, Accept, Goto, Serving
  <2> QED
    BY <2>1, SameHandlers DEF TypeInv
<1>3. ASSUME NEW c \in Conns, Admit(c) PROVE Counted'
  <2> DEFINE S == {x \in Conns : Serving(x)}
  <2>1. S' = S \cup {c} /\ c \notin S
    BY <1>3 DEF TypeInv, TypeOK, Admit, Goto, Serving, PCs
  <2>2. IsFiniteSet(S)
    BY ProxyAssumption, FS_Subset
  <2>3. Cardinality(S') = Cardinality(S) + 1
    BY <2>1, <2>2, FS_AddElement
  <2> QED
    BY <1>3, <2>3 DEF TypeInv, Counted, Admit
<1>4. ASSUME NEW c \in Conns, TurnAway(c) PROVE Counted'
  <2>1. handlers' = handlers /\ \A x \in Conns : Serving(x)' <=> Serving(x)
    BY <1>4 DEF TypeInv, TypeOK, TurnAway, Goto, Serving
  <2> QED
    BY <2>1, SameHandlers DEF TypeInv
<1>5. CASE AcceptFails
  <2>1. handlers' = handlers /\ \A x \in Conns : Serving(x)' <=> Serving(x)
    BY <1>5 DEF TypeInv, TypeOK, AcceptFails, Goto, Serving
  <2> QED
    BY <2>1, SameHandlers DEF TypeInv
<1>6. ASSUME NEW c \in Conns, NEW r \in Requests, ReadRequest(c, r) PROVE Counted'
  <2>1. handlers' = handlers /\ \A x \in Conns : Serving(x)' <=> Serving(x)
    BY <1>6 DEF TypeInv, TypeOK, ReadRequest, Goto, Serving
  <2> QED
    BY <2>1, SameHandlers DEF TypeInv
<1>7. ASSUME NEW c \in Conns, ReadFails(c) PROVE Counted'
  <2>1. handlers' = handlers /\ \A x \in Conns : Serving(x)' <=> Serving(x)
    BY <1>7 DEF TypeInv, TypeOK, ReadFails, Goto, Serving
  <2> QED
    BY <2>1, SameHandlers DEF TypeInv
<1>8. ASSUME NEW c \in Conns, Deny(c) PROVE Counted'
  <2>1. handlers' = handlers /\ \A x \in Conns : Serving(x)' <=> Serving(x)
    BY <1>8 DEF TypeInv, TypeOK, Deny, Goto, Serving
  <2> QED
    BY <2>1, SameHandlers DEF TypeInv
<1>9. ASSUME NEW c \in Conns, StartDial(c) PROVE Counted'
  <2>1. handlers' = handlers /\ \A x \in Conns : Serving(x)' <=> Serving(x)
    BY <1>9 DEF TypeInv, TypeOK, StartDial, Goto, Serving
  <2> QED
    BY <2>1, SameHandlers DEF TypeInv
<1>10. ASSUME NEW c \in Conns, NEW a \in Addrs, DialSucceeds(c, a) PROVE Counted'
  <2>1. handlers' = handlers /\ \A x \in Conns : Serving(x)' <=> Serving(x)
    BY <1>10 DEF TypeInv, TypeOK, DialSucceeds, Goto, Serving
  <2> QED
    BY <2>1, SameHandlers DEF TypeInv
<1>11. ASSUME NEW c \in Conns, NEW a \in Addrs, DialRefused(c, a) PROVE Counted'
  <2>1. handlers' = handlers /\ \A x \in Conns : Serving(x)' <=> Serving(x)
    BY <1>11 DEF TypeInv, TypeOK, DialRefused, Goto, Serving
  <2> QED
    BY <2>1, SameHandlers DEF TypeInv
<1>12. ASSUME NEW c \in Conns, DialFails(c) PROVE Counted'
  <2>1. handlers' = handlers /\ \A x \in Conns : Serving(x)' <=> Serving(x)
    BY <1>12 DEF TypeInv, TypeOK, DialFails, Goto, Serving
  <2> QED
    BY <2>1, SameHandlers DEF TypeInv
<1>13. ASSUME NEW c \in Conns, DialRefusedReply(c) PROVE Counted'
  <2>1. handlers' = handlers /\ \A x \in Conns : Serving(x)' <=> Serving(x)
    BY <1>13 DEF TypeInv, TypeOK, DialRefusedReply, Goto, Serving
  <2> QED
    BY <2>1, SameHandlers DEF TypeInv
<1>14. ASSUME NEW c \in Conns, Track(c) PROVE Counted'
  <2>1. handlers' = handlers /\ \A x \in Conns : Serving(x)' <=> Serving(x)
    BY <1>14 DEF TypeInv, TypeOK, Track, Goto, Serving
  <2> QED
    BY <2>1, SameHandlers DEF TypeInv
<1>15. ASSUME NEW c \in Conns, RecordConnect(c) PROVE Counted'
  <2>1. handlers' = handlers /\ \A x \in Conns : Serving(x)' <=> Serving(x)
    BY <1>15 DEF TypeInv, TypeOK, RecordConnect, Goto, Serving
  <2> QED
    BY <2>1, SameHandlers DEF TypeInv
<1>16. ASSUME NEW c \in Conns, NEW f \in todo[c], RecordFinding(c, f) PROVE Counted'
  <2>1. handlers' = handlers /\ \A x \in Conns : Serving(x)' <=> Serving(x)
    BY <1>16 DEF TypeInv, TypeOK, RecordFinding, Goto, Serving
  <2> QED
    BY <2>1, SameHandlers DEF TypeInv
<1>17. ASSUME NEW c \in Conns, NEW f \in todo[c], RecordTLS(c, f) PROVE Counted'
  <2>1. handlers' = handlers /\ \A x \in Conns : Serving(x)' <=> Serving(x)
    BY <1>17 DEF TypeInv, TypeOK, RecordTLS, Goto, Serving
  <2> QED
    BY <2>1, SameHandlers DEF TypeInv
<1>18. ASSUME NEW c \in Conns, NEW d \in Directions, EndCopy(c, d) PROVE Counted'
  <2>1. handlers' = handlers /\ \A x \in Conns : Serving(x)' <=> Serving(x)
    BY <1>18 DEF TypeInv, TypeOK, EndCopy, Goto, Serving
  <2> QED
    BY <2>1, SameHandlers DEF TypeInv
<1>19. ASSUME NEW c \in Conns, HalfClose(c) PROVE Counted'
  <2>1. handlers' = handlers /\ \A x \in Conns : Serving(x)' <=> Serving(x)
    BY <1>19 DEF TypeInv, TypeOK, HalfClose, Goto, Serving
  <2> QED
    BY <2>1, SameHandlers DEF TypeInv
<1>20. ASSUME NEW c \in Conns, NEW v \in Volumes, TunnelEnds(c, v) PROVE Counted'
  <2>1. handlers' = handlers /\ \A x \in Conns : Serving(x)' <=> Serving(x)
    BY <1>20 DEF TypeInv, TypeOK, TunnelEnds, Goto, Serving
  <2> QED
    BY <2>1, SameHandlers DEF TypeInv
<1>21. ASSUME NEW c \in Conns, RecordTraffic(c) PROVE Counted'
  <2>1. handlers' = handlers /\ \A x \in Conns : Serving(x)' <=> Serving(x)
    BY <1>21 DEF TypeInv, TypeOK, RecordTraffic, Goto, Serving
  <2> QED
    BY <2>1, SameHandlers DEF TypeInv
<1>22. ASSUME NEW c \in Conns, Untrack(c) PROVE Counted'
  <2>1. handlers' = handlers /\ \A x \in Conns : Serving(x)' <=> Serving(x)
    BY <1>22 DEF TypeInv, TypeOK, Untrack, Goto, Serving
  <2> QED
    BY <2>1, SameHandlers DEF TypeInv
<1>23. ASSUME NEW c \in Conns, CloseUpstream(c) PROVE Counted'
  <2>1. handlers' = handlers /\ \A x \in Conns : Serving(x)' <=> Serving(x)
    BY <1>23 DEF TypeInv, TypeOK, CloseUpstream, Goto, Serving
  <2> QED
    BY <2>1, SameHandlers DEF TypeInv
<1>24. ASSUME NEW c \in Conns, Cleanup(c) PROVE Counted'
  <2>1. handlers' = handlers /\ \A x \in Conns : Serving(x)' <=> Serving(x)
    BY <1>24 DEF TypeInv, TypeOK, Cleanup, Goto, Serving
  <2> QED
    BY <2>1, SameHandlers DEF TypeInv
<1>25. ASSUME NEW c \in Conns, Finish(c) PROVE Counted'
  <2> DEFINE S == {x \in Conns : Serving(x)}
  <2>1. S' = S \ {c} /\ c \in S
    BY <1>25 DEF TypeInv, TypeOK, Finish, Goto, Serving, PCs
  <2>2. IsFiniteSet(S)
    BY ProxyAssumption, FS_Subset
  <2>3. Cardinality(S') = Cardinality(S) - 1
    BY <2>1, <2>2, FS_RemoveElement
  <2> QED
    BY <1>25, <2>3 DEF TypeInv, Counted, Finish
<1>26. CASE BeginClose
  <2>1. handlers' = handlers /\ \A x \in Conns : Serving(x)' <=> Serving(x)
    BY <1>26 DEF TypeInv, TypeOK, BeginClose, Goto, Serving
  <2> QED
    BY <2>1, SameHandlers DEF TypeInv
<1>27. CASE CloseListener
  <2>1. handlers' = handlers /\ \A x \in Conns : Serving(x)' <=> Serving(x)
    BY <1>27 DEF TypeInv, TypeOK, CloseListener, Goto, Serving
  <2> QED
    BY <2>1, SameHandlers DEF TypeInv
<1>28. ASSUME NEW s \in Sockets, CloseSocket(s) PROVE Counted'
  <2>1. handlers' = handlers /\ \A x \in Conns : Serving(x)' <=> Serving(x)
    BY <1>28 DEF TypeInv, TypeOK, CloseSocket, Goto, Serving
  <2> QED
    BY <2>1, SameHandlers DEF TypeInv
<1>29. CASE CloseReturns
  <2>1. handlers' = handlers /\ \A x \in Conns : Serving(x)' <=> Serving(x)
    BY <1>29 DEF TypeInv, TypeOK, CloseReturns, Goto, Serving
  <2> QED
    BY <2>1, SameHandlers DEF TypeInv
<1>30. CASE HandlersDrained
  <2>1. handlers' = handlers /\ \A x \in Conns : Serving(x)' <=> Serving(x)
    BY <1>30 DEF TypeInv, TypeOK, HandlersDrained, Goto, Serving
  <2> QED
    BY <2>1, SameHandlers DEF TypeInv
<1>31. CASE DrainTimesOut
  <2>1. handlers' = handlers /\ \A x \in Conns : Serving(x)' <=> Serving(x)
    BY <1>31 DEF TypeInv, TypeOK, DrainTimesOut, Goto, Serving
  <2> QED
    BY <2>1, SameHandlers DEF TypeInv
<1>32. CASE ViolationsSnapshot
  <2>1. handlers' = handlers /\ \A x \in Conns : Serving(x)' <=> Serving(x)
    BY <1>32 DEF TypeInv, TypeOK, ViolationsSnapshot, Goto, Serving
  <2> QED
    BY <2>1, SameHandlers DEF TypeInv
<1>33. CASE UNCHANGED vars
  <2>1. handlers' = handlers /\ \A x \in Conns : Serving(x)' <=> Serving(x)
    BY <1>33 DEF TypeInv, TypeOK, vars, Goto, Serving
  <2> QED
    BY <2>1, SameHandlers DEF TypeInv
<1> QED
  BY <1>1, <1>2, <1>3, <1>4, <1>5, <1>6, <1>7, <1>8, <1>9, <1>10, <1>11, <1>12,
     <1>13, <1>14, <1>15, <1>16, <1>17, <1>18, <1>19, <1>20, <1>21, <1>22, <1>23,
     <1>24, <1>25, <1>26, <1>27, <1>28, <1>29, <1>30, <1>31, <1>32, <1>33
  DEF Next, AcceptLoop, FlushStep, Handler, HandlerStep, ReadReturns, DialReturns,
      TunnelReturns, RecordURL, CopyFindsClosed, PeerFinishes, CopyWriteFails

THEOREM TypeInvariant == Spec => []TypeInv
<1>1. Init => TypeInv
  <2> SUFFICES ASSUME Init PROVE TypeInv
    OBVIOUS
  <2>1. TypeOK
    <3>1. violations \in Seq(Entries) /\ DOMAIN traffic = {}
      BY DEF Init
    <3>2. findingCount \in [FindingTypes -> Nat] /\ bytes \in [Conns -> ByteCounts]
      BY DEF Init, ByteCounts
    <3> QED
      BY <3>1, <3>2 DEF Init, TypeOK, PCs
  <2>2. RequestRead
    BY DEF Init, RequestRead, Answering
  <2>3. {c \in Conns : Serving(c)} = {}
    BY DEF Init, Serving
  <2>4. Counted
    BY <2>3, FS_EmptySet DEF Init, Counted
  <2> QED
    BY <2>1, <2>2, <2>4 DEF TypeInv
<1>2. TypeInv /\ [Next]_vars => TypeInv'
  BY TypeOKPreserved, RequestReadPreserved, CountedPreserved DEF TypeInv
<1> QED
  BY <1>1, <1>2, PTL DEF Spec

(***************************************************************************)
(* TypeOK holds throughout.                                                *)
(***************************************************************************)
THEOREM TypeCorrect == Spec => []TypeOK
BY TypeInvariant, PTL DEF TypeInv
------------------------------------------------------------------------------
(***************************************************************************)
(* The sockets.  Holding: the handler has an upstream; Registered: it is   *)
(* one Close knows of, if it was open when track looked.  Together with    *)
(* the order of the flush this is inductive, which CloseLeavesNothing      *)
(* alone is not: it says nothing before Close has returned.                *)
(***************************************************************************)
Registered == {"connect", "tunnel", "half", "count", "untrack"}
Holding    == Registered \cup {"track", "upstream"}
Admitted   == Answering \cup {"reading", "cleanup"}

FlushOrder ==
  /\ closed <=> phase # "running"
  /\ phase \in {"running", "waiting", "snapshot", "reported"} => snapshot = {}
  /\ drained => closed /\ \A c \in Conns : ~Serving(c)

SocketOwned ==
  \A c \in Conns :
    /\ Client(c) \in open => pc[c] \in Admitted \cup {"accepted", "finish"}
    /\ Client(c) \in conns => pc[c] \in Admitted
    /\ Client(c) \in open /\ pc[c] \in Admitted => Client(c) \in conns
    /\ Upstream(c) \in open => pc[c] \in Holding
    /\ Upstream(c) \in conns => pc[c] \in Registered
    /\ Upstream(c) \in open /\ pc[c] \in Registered => Upstream(c) \in conns

CloseKnows == closed => conns \cap open \subseteq snapshot

NetInv == FlushOrder /\ SocketOwned /\ CloseKnows

LEMMA SocketsDistinct ==
  \A c, d \in Conns :
    /\ Client(c) = Client(d) <=> c = d
    /\ Upstream(c) = Upstream(d) <=> c = d
    /\ Client(c) # Upstream(d)
BY DEF Client, Upstream

LEMMA FlushOrderPreserved ==
  ASSUME TypeInv, NetInv, [Next]_vars
  PROVE  FlushOrder'
<1>1. ASSUME NEW c \in Conns, Connect(c) PROVE FlushOrder'
  BY <1>1 DEF TypeInv, TypeOK, NetInv, FlushOrder, Connect, Goto, Serving
<1>2. ASSUME NEW c \in Conns, Accept(c) PROVE FlushOrder'
  BY <1>2 DEF TypeInv, TypeOK, NetInv, FlushOrder, Accept, Goto, Serving
<1>3. ASSUME NEW c \in Conns, Admit(c) PROVE FlushOrder'
  BY <1>3 DEF TypeInv, TypeOK, NetInv, FlushOrder, Admit, Goto, Serving
<1>4. ASSUME NEW c \in Conns, TurnAway(c) PROVE FlushOrder'
  BY <1>4 DEF TypeInv, TypeOK, NetInv, FlushOrder, TurnAway, Goto, Serving
<1>5. CASE AcceptFails
  BY <1>5 DEF TypeInv, TypeOK, NetInv, FlushOrder, AcceptFails, Goto, Serving
<1>6. ASSUME NEW c \in Conns, NEW r \in Requests, ReadRequest(c,
   r) PROVE FlushOrder'
  BY <1>6 DEF TypeInv, TypeOK, NetInv, FlushOrder, ReadRequest, Goto, Serving
<1>7. ASSUME NEW c \in Conns, ReadFails(c) PROVE FlushOrder'
  BY <1>7 DEF TypeInv, TypeOK, NetInv, FlushOrder, ReadFails, Goto, Serving
<1>8. ASSUME NEW c \in Conns, Deny(c) PROVE FlushOrder'
  BY <1>8 DEF TypeInv, TypeOK, NetInv, FlushOrder, Deny, Goto, Serving
<1>9. ASSUME NEW c \in Conns, StartDial(c) PROVE FlushOrder'
  BY <1>9 DEF TypeInv, TypeOK, NetInv, FlushOrder, StartDial, Goto, Serving
<1>10. ASSUME NEW c \in Conns, NEW a \in Addrs, DialSucceeds(c, a) PROVE FlushOrder'
  BY <1>10 DEF TypeInv, TypeOK, NetInv, FlushOrder, DialSucceeds, Goto, Serving
<1>11. ASSUME NEW c \in Conns, NEW a \in Addrs, DialRefused(c, a) PROVE FlushOrder'
  BY <1>11 DEF TypeInv, TypeOK, NetInv, FlushOrder, DialRefused, Goto, Serving
<1>12. ASSUME NEW c \in Conns, DialFails(c) PROVE FlushOrder'
  BY <1>12 DEF TypeInv, TypeOK, NetInv, FlushOrder, DialFails, Goto, Serving
<1>13. ASSUME NEW c \in Conns, DialRefusedReply(c) PROVE FlushOrder'
  BY <1>13 DEF TypeInv, TypeOK, NetInv, FlushOrder, DialRefusedReply, Goto, Serving
<1>14. ASSUME NEW c \in Conns, Track(c) PROVE FlushOrder'
  BY <1>14 DEF TypeInv, TypeOK, NetInv, FlushOrder, Track, Goto, Serving
<1>15. ASSUME NEW c \in Conns, RecordConnect(c) PROVE FlushOrder'
  BY <1>15 DEF TypeInv, TypeOK, NetInv, FlushOrder, RecordConnect, Goto, Serving
<1>16. ASSUME NEW c \in Conns, NEW f \in todo[c], RecordFinding(c,
   f) PROVE FlushOrder'
  BY <1>16 DEF TypeInv, TypeOK, NetInv, FlushOrder, RecordFinding, Goto, Serving
<1>17. ASSUME NEW c \in Conns, NEW f \in todo[c], RecordTLS(c, f) PROVE FlushOrder'
  BY <1>17 DEF TypeInv, TypeOK, NetInv, FlushOrder, RecordTLS, Goto, Serving
<1>18. ASSUME NEW c \in Conns, NEW d \in Directions, EndCopy(c, d) PROVE FlushOrder'
  BY <1>18 DEF TypeInv, TypeOK, NetInv, FlushOrder, EndCopy, Goto, Serving
<1>19. ASSUME NEW c \in Conns, HalfClose(c) PROVE FlushOrder'
  BY <1>19 DEF TypeInv, TypeOK, NetInv, FlushOrder, HalfClose, Goto, Serving
<1>20. ASSUME NEW c \in Conns, NEW v \in Volumes, TunnelEnds(c, v) PROVE FlushOrder'
  BY <1>20 DEF TypeInv, TypeOK, NetInv, FlushOrder, TunnelEnds, Goto, Serving
<1>21. ASSUME NEW c \in Conns, RecordTraffic(c) PROVE FlushOrder'
  BY <1>21 DEF TypeInv, TypeOK, NetInv, FlushOrder, RecordTraffic, Goto, Serving
<1>22. ASSUME NEW c \in Conns, Untrack(c) PROVE FlushOrder'
  BY <1>22 DEF TypeInv, TypeOK, NetInv, FlushOrder, Untrack, Goto, Serving
<1>23. ASSUME NEW c \in Conns, CloseUpstream(c) PROVE FlushOrder'
  BY <1>23 DEF TypeInv, TypeOK, NetInv, FlushOrder, CloseUpstream, Goto, Serving
<1>24. ASSUME NEW c \in Conns, Cleanup(c) PROVE FlushOrder'
  BY <1>24 DEF TypeInv, TypeOK, NetInv, FlushOrder, Cleanup, Goto, Serving
<1>25. ASSUME NEW c \in Conns, Finish(c) PROVE FlushOrder'
  BY <1>25 DEF TypeInv, TypeOK, NetInv, FlushOrder, Finish, Goto, Serving
<1>26. CASE BeginClose
  BY <1>26 DEF TypeInv, TypeOK, NetInv, FlushOrder, BeginClose, Goto, Serving
<1>27. CASE CloseListener
  BY <1>27 DEF TypeInv, TypeOK, NetInv, FlushOrder, CloseListener, Goto, Serving
<1>28. ASSUME NEW s \in Sockets, CloseSocket(s) PROVE FlushOrder'
  BY <1>28 DEF TypeInv, TypeOK, NetInv, FlushOrder, CloseSocket, Goto, Serving
<1>29. CASE CloseReturns
  BY <1>29 DEF TypeInv, TypeOK, NetInv, FlushOrder, CloseReturns, Goto, Serving
<1>30. CASE HandlersDrained
  <2>1. IsFiniteSet({c \in Conns : Serving(c)})
    BY ProxyAssumption, FS_Subset
  <2>2. {c \in Conns : Serving(c)} = {}
    BY <1>30, <2>1, FS_EmptySet DEF TypeInv, Counted, HandlersDrained
  <2> QED
    BY <1>30, <2>2 DEF NetInv, FlushOrder, HandlersDrained, Serving
<1>31. CASE DrainTimesOut
  BY <1>31 DEF TypeInv, TypeOK, NetInv, FlushOrder, DrainTimesOut, Goto, Serving
<1>32. CASE ViolationsSnapshot
  BY <1>32 DEF TypeInv, TypeOK, NetInv, FlushOrder, ViolationsSnapshot, Goto,
     Serving
<1>33. CASE UNCHANGED vars
  BY <1>33 DEF NetInv, FlushOrder, Serving, vars
<1> QED
  BY <1>1, <1>2, <1>3, <1>4, <1>5, <1>6, <1>7, <1>8, <1>9, <1>10, <1>11, <1>12,
     <1>13, <1>14, <1>15, <1>16, <1>17, <1>18, <1>19, <1>20, <1>21, <1>22, <1>23,
     <1>24, <1>25, <1>26, <1>27, <1>28, <1>29, <1>30, <1>31, <1>32, <1>33
  DEF Next, AcceptLoop, FlushStep, Handler, HandlerStep, ReadReturns, DialReturns,
      TunnelReturns, RecordURL, CopyFindsClosed, PeerFinishes, CopyWriteFails

LEMMA SocketOwnedPreserved ==
  ASSUME TypeInv, NetInv, [Next]_vars
  PROVE  SocketOwned'
<1>1. ASSUME NEW c \in Conns, Connect(c) PROVE SocketOwned'
  BY <1>1, SocketsDistinct DEF TypeInv, TypeOK, NetInv, SocketOwned,
     FlushOrder, Connect, Goto, Admitted, Answering, Holding, Registered
<1>2. ASSUME NEW c \in Conns, Accept(c) PROVE SocketOwned'
  BY <1>2, SocketsDistinct DEF TypeInv, TypeOK, NetInv, SocketOwned,
     FlushOrder, Accept, Goto, Admitted, Answering, Holding, Registered
<1>3. ASSUME NEW c \in Conns, Admit(c) PROVE SocketOwned'
  BY <1>3, SocketsDistinct DEF TypeInv, TypeOK, NetInv, SocketOwned,
     FlushOrder, Admit, Goto, Admitted, Answering, Holding, Registered
<1>4. ASSUME NEW c \in Conns, TurnAway(c) PROVE SocketOwned'
  BY <1>4, SocketsDistinct DEF TypeInv, TypeOK, NetInv, SocketOwned,
     FlushOrder, TurnAway, Goto, Admitted, Answering, Holding, Registered
<1>5. CASE AcceptFails
  BY <1>5, SocketsDistinct DEF TypeInv, TypeOK, NetInv, SocketOwned,
     FlushOrder, AcceptFails, Goto, Admitted, Answering, Holding, Registered
<1>6. ASSUME NEW c \in Conns, NEW r \in Requests, ReadRequest(c,
   r) PROVE SocketOwned'
  BY <1>6, SocketsDistinct DEF TypeInv, TypeOK, NetInv, SocketOwned,
     FlushOrder, ReadRequest, Goto, Admitted, Answering, Holding, Registered
<1>7. ASSUME NEW c \in Conns, ReadFails(c) PROVE SocketOwned'
  BY <1>7, SocketsDistinct DEF TypeInv, TypeOK, NetInv, SocketOwned,
     FlushOrder, ReadFails, Goto, Admitted, Answering, Holding, Registered
<1>8. ASSUME NEW c \in Conns, Deny(c) PROVE SocketOwned'
  BY <1>8, SocketsDistinct DEF TypeInv, TypeOK, NetInv, SocketOwned,
     FlushOrder, Deny, Goto, Admitted, Answering, Holding, Registered
<1>9. ASSUME NEW c \in Conns, StartDial(c) PROVE SocketOwned'
  BY <1>9, SocketsDistinct DEF TypeInv, TypeOK, NetInv, SocketOwned,
     FlushOrder, StartDial, Goto, Admitted, Answering, Holding, Registered
<1>10. ASSUME NEW c \in Conns, NEW a \in Addrs, DialSucceeds(c,
   a) PROVE SocketOwned'
  BY <1>10, SocketsDistinct DEF TypeInv, TypeOK, NetInv, SocketOwned,
     FlushOrder, DialSucceeds, Goto, Admitted, Answering, Holding, Registered
<1>11. ASSUME NEW c \in Conns, NEW a \in Addrs, DialRefused(c, a) PROVE SocketOwned'
  BY <1>11, SocketsDistinct DEF TypeInv, TypeOK, NetInv, SocketOwned,
     FlushOrder, DialRefused, Goto, Admitted, Answering, Holding, Registered
<1>12. ASSUME NEW c \in Conns, DialFails(c) PROVE SocketOwned'
  BY <1>12, SocketsDistinct DEF TypeInv, TypeOK, NetInv, SocketOwned,
     FlushOrder, DialFails, Goto, Admitted, Answering, Holding, Registered
<1>13. ASSUME NEW c \in Conns, DialRefusedReply(c) PROVE SocketOwned'
  BY <1>13, SocketsDistinct DEF TypeInv, TypeOK, NetInv, SocketOwned,
     FlushOrder, DialRefusedReply, Goto, Admitted, Answering, Holding, Registered
<1>14. ASSUME NEW c \in Conns, Track(c) PROVE SocketOwned'
  BY <1>14, SocketsDistinct DEF TypeInv, TypeOK, NetInv, SocketOwned,
     FlushOrder, Track, Goto, Admitted, Answering, Holding, Registered
<1>15. ASSUME NEW c \in Conns, RecordConnect(c) PROVE SocketOwned'
  BY <1>15, SocketsDistinct DEF TypeInv, TypeOK, NetInv, SocketOwned,
     FlushOrder, RecordConnect, Goto, Admitted, Answering, Holding, Registered
<1>16. ASSUME NEW c \in Conns, NEW f \in todo[c], RecordFinding(c,
   f) PROVE SocketOwned'
  BY <1>16, SocketsDistinct DEF TypeInv, TypeOK, NetInv, SocketOwned,
     FlushOrder, RecordFinding, Goto, Admitted, Answering, Holding, Registered
<1>17. ASSUME NEW c \in Conns, NEW f \in todo[c], RecordTLS(c, f) PROVE SocketOwned'
  BY <1>17, SocketsDistinct DEF TypeInv, TypeOK, NetInv, SocketOwned,
     FlushOrder, RecordTLS, Goto, Admitted, Answering, Holding, Registered
<1>18. ASSUME NEW c \in Conns, NEW d \in Directions, EndCopy(c,
   d) PROVE SocketOwned'
  BY <1>18, SocketsDistinct DEF TypeInv, TypeOK, NetInv, SocketOwned,
     FlushOrder, EndCopy, Goto, Admitted, Answering, Holding, Registered
<1>19. ASSUME NEW c \in Conns, HalfClose(c) PROVE SocketOwned'
  BY <1>19, SocketsDistinct DEF TypeInv, TypeOK, NetInv, SocketOwned,
     FlushOrder, HalfClose, Goto, Admitted, Answering, Holding, Registered
<1>20. ASSUME NEW c \in Conns, NEW v \in Volumes, TunnelEnds(c,
   v) PROVE SocketOwned'
  BY <1>20, SocketsDistinct DEF TypeInv, TypeOK, NetInv, SocketOwned,
     FlushOrder, TunnelEnds, Goto, Admitted, Answering, Holding, Registered
<1>21. ASSUME NEW c \in Conns, RecordTraffic(c) PROVE SocketOwned'
  BY <1>21, SocketsDistinct DEF TypeInv, TypeOK, NetInv, SocketOwned,
     FlushOrder, RecordTraffic, Goto, Admitted, Answering, Holding, Registered
<1>22. ASSUME NEW c \in Conns, Untrack(c) PROVE SocketOwned'
  BY <1>22, SocketsDistinct DEF TypeInv, TypeOK, NetInv, SocketOwned,
     FlushOrder, Untrack, Goto, Admitted, Answering, Holding, Registered
<1>23. ASSUME NEW c \in Conns, CloseUpstream(c) PROVE SocketOwned'
  BY <1>23, SocketsDistinct DEF TypeInv, TypeOK, NetInv, SocketOwned,
     FlushOrder, CloseUpstream, Goto, Admitted, Answering, Holding, Registered
<1>24. ASSUME NEW c \in Conns, Cleanup(c) PROVE SocketOwned'
  BY <1>24, SocketsDistinct DEF TypeInv, TypeOK, NetInv, SocketOwned,
     FlushOrder, Cleanup, Goto, Admitted, Answering, Holding, Registered
<1>25. ASSUME NEW c \in Conns, Finish(c) PROVE SocketOwned'
  BY <1>25, SocketsDistinct DEF TypeInv, TypeOK, NetInv, SocketOwned,
     FlushOrder, Finish, Goto, Admitted, Answering, Holding, Registered
<1>26. CASE BeginClose
  BY <1>26, SocketsDistinct DEF TypeInv, TypeOK, NetInv, SocketOwned,
     FlushOrder, BeginClose, Goto, Admitted, Answering, Holding, Registered
<1>27. CASE CloseListener
  BY <1>27, SocketsDistinct DEF TypeInv, TypeOK, NetInv, SocketOwned,
     FlushOrder, CloseListener, Goto, Admitted, Answering, Holding, Registered
<1>28. ASSUME NEW s \in Sockets, CloseSocket(s) PROVE SocketOwned'
  BY <1>28, SocketsDistinct DEF TypeInv, TypeOK, NetInv, SocketOwned,
     FlushOrder, CloseSocket, Goto, Admitted, Answering, Holding, Registered
<1>29. CASE CloseReturns
  BY <1>29, SocketsDistinct DEF TypeInv, TypeOK, NetInv, SocketOwned,
     FlushOrder, CloseReturns, Goto, Admitted, Answering, Holding, Registered
<1>30. CASE HandlersDrained
  BY <1>30, SocketsDistinct DEF TypeInv, TypeOK, NetInv, SocketOwned,
     FlushOrder, HandlersDrained, Goto, Admitted, Answering, Holding, Registered
<1>31. CASE DrainTimesOut
  BY <1>31, SocketsDistinct DEF TypeInv, TypeOK, NetInv, SocketOwned,
     FlushOrder, DrainTimesOut, Goto, Admitted, Answering, Holding, Registered
<1>32. CASE ViolationsSnapshot
  BY <1>32, SocketsDistinct DEF TypeInv, TypeOK, NetInv, SocketOwned,
     FlushOrder, ViolationsSnapshot, Goto, Admitted, Answering, Holding, Registered
<1>33. CASE UNCHANGED vars
  BY <1>33 DEF NetInv, SocketOwned, vars
<1> QED
  BY <1>1, <1>2, <1>3, <1>4, <1>5, <1>6, <1>7, <1>8, <1>9, <1>10, <1>11, <1>12,
     <1>13, <1>14, <1>15, <1>16, <1>17, <1>18, <1>19, <1>20, <1>21, <1>22, <1>23,
     <1>24, <1>25, <1>26, <1>27, <1>28, <1>29, <1>30, <1>31, <1>32, <1>33
  DEF Next, AcceptLoop, FlushStep, Handler, HandlerStep, ReadReturns, DialReturns,
      TunnelReturns, RecordURL, CopyFindsClosed, PeerFinishes, CopyWriteFails

LEMMA CloseKnowsPreserved ==
  ASSUME TypeInv, NetInv, [Next]_vars
  PROVE  CloseKnows'
<1>1. ASSUME NEW c \in Conns, Connect(c) PROVE CloseKnows'
  BY <1>1, SocketsDistinct DEF TypeInv, TypeOK, NetInv, CloseKnows,
     SocketOwned, FlushOrder, Connect, Goto, Admitted, Answering, Holding,
     Registered
<1>2. ASSUME NEW c \in Conns, Accept(c) PROVE CloseKnows'
  BY <1>2, SocketsDistinct DEF TypeInv, TypeOK, NetInv, CloseKnows,
     SocketOwned, FlushOrder, Accept, Goto, Admitted, Answering, Holding, Registered
<1>3. ASSUME NEW c \in Conns, Admit(c) PROVE CloseKnows'
  BY <1>3, SocketsDistinct DEF TypeInv, TypeOK, NetInv, CloseKnows,
     SocketOwned, FlushOrder, Admit, Goto, Admitted, Answering, Holding, Registered
<1>4. ASSUME NEW c \in Conns, TurnAway(c) PROVE CloseKnows'
  BY <1>4, SocketsDistinct DEF TypeInv, TypeOK, NetInv, CloseKnows,
     SocketOwned, FlushOrder, TurnAway, Goto, Admitted, Answering, Holding,
     Registered
<1>5. CASE AcceptFails
  BY <1>5, SocketsDistinct DEF TypeInv, TypeOK, NetInv, CloseKnows,
     SocketOwned, FlushOrder, AcceptFails, Goto, Admitted, Answering, Holding,
     Registered
<1>6. ASSUME NEW c \in Conns, NEW r \in Requests, ReadRequest(c,
   r) PROVE CloseKnows'
  BY <1>6, SocketsDistinct DEF TypeInv, TypeOK, NetInv, CloseKnows,
     SocketOwned, FlushOrder, ReadRequest, Goto, Admitted, Answering, Holding,
     Registered
<1>7. ASSUME NEW c \in Conns, ReadFails(c) PROVE CloseKnows'
  BY <1>7, SocketsDistinct DEF TypeInv, TypeOK, NetInv, CloseKnows,
     SocketOwned, FlushOrder, ReadFails, Goto, Admitted, Answering, Holding,
     Registered
<1>8. ASSUME NEW c \in Conns, Deny(c) PROVE CloseKnows'
  BY <1>8, SocketsDistinct DEF TypeInv, TypeOK, NetInv, CloseKnows,
     SocketOwned, FlushOrder, Deny, Goto, Admitted, Answering, Holding, Registered
<1>9. ASSUME NEW c \in Conns, StartDial(c) PROVE CloseKnows'
  BY <1>9, SocketsDistinct DEF TypeInv, TypeOK, NetInv, CloseKnows,
     SocketOwned, FlushOrder, StartDial, Goto, Admitted, Answering, Holding,
     Registered
<1>10. ASSUME NEW c \in Conns, NEW a \in Addrs, DialSucceeds(c, a) PROVE CloseKnows'
  BY <1>10, SocketsDistinct DEF TypeInv, TypeOK, NetInv, CloseKnows,
     SocketOwned, FlushOrder, DialSucceeds, Goto, Admitted, Answering, Holding,
     Registered
<1>11. ASSUME NEW c \in Conns, NEW a \in Addrs, DialRefused(c, a) PROVE CloseKnows'
  BY <1>11, SocketsDistinct DEF TypeInv, TypeOK, NetInv, CloseKnows,
     SocketOwned, FlushOrder, DialRefused, Goto, Admitted, Answering, Holding,
     Registered
<1>12. ASSUME NEW c \in Conns, DialFails(c) PROVE CloseKnows'
  BY <1>12, SocketsDistinct DEF TypeInv, TypeOK, NetInv, CloseKnows,
     SocketOwned, FlushOrder, DialFails, Goto, Admitted, Answering, Holding,
     Registered
<1>13. ASSUME NEW c \in Conns, DialRefusedReply(c) PROVE CloseKnows'
  BY <1>13, SocketsDistinct DEF TypeInv, TypeOK, NetInv, CloseKnows,
     SocketOwned, FlushOrder, DialRefusedReply, Goto, Admitted, Answering,
     Holding, Registered
<1>14. ASSUME NEW c \in Conns, Track(c) PROVE CloseKnows'
  BY <1>14, SocketsDistinct DEF TypeInv, TypeOK, NetInv, CloseKnows,
     SocketOwned, FlushOrder, Track, Goto, Admitted, Answering, Holding, Registered
<1>15. ASSUME NEW c \in Conns, RecordConnect(c) PROVE CloseKnows'
  BY <1>15, SocketsDistinct DEF TypeInv, TypeOK, NetInv, CloseKnows,
     SocketOwned, FlushOrder, RecordConnect, Goto, Admitted, Answering, Holding,
     Registered
<1>16. ASSUME NEW c \in Conns, NEW f \in todo[c], RecordFinding(c,
   f) PROVE CloseKnows'
  BY <1>16, SocketsDistinct DEF TypeInv, TypeOK, NetInv, CloseKnows,
     SocketOwned, FlushOrder, RecordFinding, Goto, Admitted, Answering, Holding,
     Registered
<1>17. ASSUME NEW c \in Conns, NEW f \in todo[c], RecordTLS(c, f) PROVE CloseKnows'
  BY <1>17, SocketsDistinct DEF TypeInv, TypeOK, NetInv, CloseKnows,
     SocketOwned, FlushOrder, RecordTLS, Goto, Admitted, Answering, Holding,
     Registered
<1>18. ASSUME NEW c \in Conns, NEW d \in Directions, EndCopy(c, d) PROVE CloseKnows'
  BY <1>18, SocketsDistinct DEF TypeInv, TypeOK, NetInv, CloseKnows,
     SocketOwned, FlushOrder, EndCopy, Goto, Admitted, Answering, Holding,
     Registered
<1>19. ASSUME NEW c \in Conns, HalfClose(c) PROVE CloseKnows'
  BY <1>19, SocketsDistinct DEF TypeInv, TypeOK, NetInv, CloseKnows,
     SocketOwned, FlushOrder, HalfClose, Goto, Admitted, Answering, Holding,
     Registered
<1>20. ASSUME NEW c \in Conns, NEW v \in Volumes, TunnelEnds(c, v) PROVE CloseKnows'
  BY <1>20, SocketsDistinct DEF TypeInv, TypeOK, NetInv, CloseKnows,
     SocketOwned, FlushOrder, TunnelEnds, Goto, Admitted, Answering, Holding,
     Registered
<1>21. ASSUME NEW c \in Conns, RecordTraffic(c) PROVE CloseKnows'
  BY <1>21, SocketsDistinct DEF TypeInv, TypeOK, NetInv, CloseKnows,
     SocketOwned, FlushOrder, RecordTraffic, Goto, Admitted, Answering, Holding,
     Registered
<1>22. ASSUME NEW c \in Conns, Untrack(c) PROVE CloseKnows'
  BY <1>22, SocketsDistinct DEF TypeInv, TypeOK, NetInv, CloseKnows,
     SocketOwned, FlushOrder, Untrack, Goto, Admitted, Answering, Holding,
     Registered
<1>23. ASSUME NEW c \in Conns, CloseUpstream(c) PROVE CloseKnows'
  BY <1>23, SocketsDistinct DEF TypeInv, TypeOK, NetInv, CloseKnows,
     SocketOwned, FlushOrder, CloseUpstream, Goto, Admitted, Answering, Holding,
     Registered
<1>24. ASSUME NEW c \in Conns, Cleanup(c) PROVE CloseKnows'
  BY <1>24, SocketsDistinct DEF TypeInv, TypeOK, NetInv, CloseKnows,
     SocketOwned, FlushOrder, Cleanup, Goto, Admitted, Answering, Holding,
     Registered
<1>25. ASSUME NEW c \in Conns, Finish(c) PROVE CloseKnows'
  BY <1>25, SocketsDistinct DEF TypeInv, TypeOK, NetInv, CloseKnows,
     SocketOwned, FlushOrder, Finish, Goto, Admitted, Answering, Holding, Registered
<1>26. CASE BeginClose
  BY <1>26, SocketsDistinct DEF TypeInv, TypeOK, NetInv, CloseKnows,
     SocketOwned, FlushOrder, BeginClose, Goto, Admitted, Answering, Holding,
     Registered
<1>27. CASE CloseListener
  BY <1>27, SocketsDistinct DEF TypeInv, TypeOK, NetInv, CloseKnows,
     SocketOwned, FlushOrder, CloseListener, Goto, Admitted, Answering, Holding,
     Registered
<1>28. ASSUME NEW s \in Sockets, CloseSocket(s) PROVE CloseKnows'
  BY <1>28, SocketsDistinct DEF TypeInv, TypeOK, NetInv, CloseKnows,
     SocketOwned, FlushOrder, CloseSocket, Goto, Admitted, Answering, Holding,
     Registered
<1>29. CASE CloseReturns
  BY <1>29, SocketsDistinct DEF TypeInv, TypeOK, NetInv, CloseKnows,
     SocketOwned, FlushOrder, CloseReturns, Goto, Admitted, Answering, Holding,
     Registered
<1>30. CASE HandlersDrained
  BY <1>30, SocketsDistinct DEF TypeInv, TypeOK, NetInv, CloseKnows,
     SocketOwned, FlushOrder, HandlersDrained, Goto, Admitted, Answering,
     Holding, Registered
<1>31. CASE DrainTimesOut
  BY <1>31, SocketsDistinct DEF TypeInv, TypeOK, NetInv, CloseKnows,
     SocketOwned, FlushOrder, DrainTimesOut, Goto, Admitted, Answering, Holding,
     Registered
<1>32. CASE ViolationsSnapshot
  BY <1>32, SocketsDistinct DEF TypeInv, TypeOK, NetInv, CloseKnows,
     SocketOwned, FlushOrder, ViolationsSnapshot, Goto, Admitted, Answering,
     Holding, Registered
<1>33. CASE UNCHANGED vars
  BY <1>33 DEF NetInv, CloseKnows, vars
<1> QED
  BY <1>1, <1>2, <1>3, <1>4, <1>5, <1>6, <1>7, <1>8, <1>9, <1>10, <1>11, <1>12,
     <1>13, <1>14, <1>15, <1>16, <1>17, <1>18, <1>19, <1>20, <1>21, <1>22, <1>23,
     <1>24, <1>25, <1>26, <1>27, <1>28, <1>29, <1>30, <1>31, <1>32, <1>33
  DEF Next, AcceptLoop, FlushStep, Handler, HandlerStep, ReadReturns, DialReturns,
      TunnelReturns, RecordURL, CopyFindsClosed, PeerFinishes, CopyWriteFails

THEOREM NetInvariant == Spec => []NetInv
<1>1. Init => NetInv
  BY DEF Init, NetInv, FlushOrder, SocketOwned, CloseKnows
<1>2. TypeInv /\ NetInv /\ [Next]_vars => NetInv'
  BY FlushOrderPreserved, SocketOwnedPreserved, CloseKnowsPreserved DEF NetInv
<1> QED
  BY <1>1, <1>2, TypeInvariant, PTL DEF Spec

(***************************************************************************)
(* Close leaves nothing behind but what its owner is about to close.       *)
(***************************************************************************)
THEOREM CloseIsComplete == Spec => []CloseLeavesNothing
<1>1. TypeInv /\ NetInv => CloseLeavesNothing
  <2> SUFFICES ASSUME TypeInv, NetInv, phase \in {"waiting", "snapshot",
     "reported"},
                      NEW c \in Conns
               PROVE  /\ Upstream(c) \in open => pc[c] \in {"track", "upstream"}
                      /\ Client(c) \in open => pc[c] \in {"accepted", "finish"}
    BY DEF CloseLeavesNothing
  <2>1. conns \cap open = {}
    BY DEF NetInv, FlushOrder, CloseKnows
  <2> QED
    BY <2>1 DEF NetInv, SocketOwned, Holding
<1> QED
  BY <1>1, TypeInvariant, NetInvariant, PTL

(***************************************************************************)
(* The WaitGroup counts the running handlers, and drained is for good.     *)
(***************************************************************************)
THEOREM DrainIsQuiet == Spec => []DrainedMeansQuiet
<1>1. TypeInv /\ NetInv => DrainedMeansQuiet
  BY DEF TypeInv, Counted, NetInv, FlushOrder, DrainedMeansQuiet
<1> QED
  BY <1>1, TypeInvariant, NetInvariant, PTL
------------------------------------------------------------------------------
(***************************************************************************)
(* The destinations: what was checked before the dial still holds of what  *)
(* the dial reached.                                                       *)
(***************************************************************************)
Unconnected ==
  {"idle", "queued", "accepted", "reset", "reading", "decide", "dial", "refused"}
Dialing == {"dial", "refused", "track", "connect", "tunnel", "half", "count",
            "untrack", "upstream"}

DestInv ==
  \A c \in Conns :
    /\ pc[c] \in Dialing => Allowed(req[c])
    /\ pc[c] \in Unconnected => addr[c] = {}
    /\ pc[c] \in Holding => addr[c] # {}
    /\ \A a \in addr[c] :
         /\ req[c] \in Requests /\ Allowed(req[c])
         /\ a \in AddressesOf(NormalizeProxyHost(req[c].host))
         /\ DialPermitted(policy, NormalizeProxyHost(req[c].host), a)

LEMMA DestInvPreserved ==
  ASSUME TypeInv, DestInv, [Next]_vars
  PROVE  DestInv'
<1>1. ASSUME NEW c \in Conns, Connect(c) PROVE DestInv'
  BY <1>1 DEF TypeInv, TypeOK, DestInv, Connect, Goto, Allowed, Dialing,
     Unconnected, Holding,
     Registered
<1>2. ASSUME NEW c \in Conns, Accept(c) PROVE DestInv'
  BY <1>2 DEF TypeInv, TypeOK, DestInv, Accept, Goto, Allowed, Dialing,
     Unconnected, Holding,
     Registered
<1>3. ASSUME NEW c \in Conns, Admit(c) PROVE DestInv'
  BY <1>3 DEF TypeInv, TypeOK, DestInv, Admit, Goto, Allowed, Dialing,
     Unconnected, Holding,
     Registered
<1>4. ASSUME NEW c \in Conns, TurnAway(c) PROVE DestInv'
  BY <1>4 DEF TypeInv, TypeOK, DestInv, TurnAway, Goto, Allowed, Dialing,
     Unconnected, Holding,
     Registered
<1>5. CASE AcceptFails
  BY <1>5 DEF TypeInv, TypeOK, DestInv, AcceptFails, Goto, Allowed, Dialing,
     Unconnected, Holding,
     Registered
<1>6. ASSUME NEW c \in Conns, NEW r \in Requests, ReadRequest(c, r) PROVE DestInv'
  BY <1>6 DEF TypeInv, TypeOK, DestInv, ReadRequest, Goto, Allowed, Dialing,
     Unconnected, Holding,
     Registered
<1>7. ASSUME NEW c \in Conns, ReadFails(c) PROVE DestInv'
  BY <1>7 DEF TypeInv, TypeOK, DestInv, ReadFails, Goto, Allowed, Dialing,
     Unconnected, Holding,
     Registered
<1>8. ASSUME NEW c \in Conns, Deny(c) PROVE DestInv'
  BY <1>8 DEF TypeInv, TypeOK, DestInv, Deny, Goto, Allowed, Dialing,
     Unconnected, Holding,
     Registered
<1>9. ASSUME NEW c \in Conns, StartDial(c) PROVE DestInv'
  BY <1>9 DEF TypeInv, TypeOK, DestInv, StartDial, Goto, Allowed, Dialing,
     Unconnected, Holding,
     Registered
<1>10. ASSUME NEW c \in Conns, NEW a \in Addrs, DialSucceeds(c, a) PROVE DestInv'
  <2> DEFINE h == NormalizeProxyHost(req[c].host)
  <2>1. /\ req[c] \in Requests /\ Allowed(req[c])
        /\ a \in AddressesOf(h) /\ DialPermitted(policy, h, a)
    BY <1>10 DEF TypeInv, RequestRead, DestInv, DialSucceeds, Goto, Answering,
       Dialing
  <2>2. /\ policy' = policy /\ req' = req /\ addr'[c] = {a} /\ pc'[c] = "track"
        /\ \A x \in Conns \ {c} : pc'[x] = pc[x] /\ addr'[x] = addr[x]
    BY <1>10 DEF TypeInv, TypeOK, DialSucceeds, Goto
  <2> HIDE DEF h
  <2> SUFFICES ASSUME NEW x \in Conns
      PROVE  /\ pc'[x] \in Dialing => Allowed(req[x])'
             /\ pc'[x] \in Unconnected => addr'[x] = {}
             /\ pc'[x] \in Holding => addr'[x] # {}
             /\ \A b \in addr'[x] :
                  /\ req'[x] \in Requests /\ Allowed(req[x])'
                  /\ b \in AddressesOf(NormalizeProxyHost(req'[x].host))
                  /\ DialPermitted(policy', NormalizeProxyHost(req'[x].host), b)
    BY DEF DestInv
  <2>3. Allowed(req[x])' <=> Allowed(req[x])
    BY <2>2 DEF Allowed
  <2>4. CASE x = c
    BY <2>1, <2>2, <2>3, <2>4 DEF h, Unconnected
  <2>5. CASE x # c
    BY <2>2, <2>3, <2>5 DEF DestInv
  <2> QED
    BY <2>4, <2>5
<1>11. ASSUME NEW c \in Conns, NEW a \in Addrs, DialRefused(c, a) PROVE DestInv'
  BY <1>11 DEF TypeInv, TypeOK, DestInv, DialRefused, Goto, Allowed, Dialing,
     Unconnected, Holding,
     Registered
<1>12. ASSUME NEW c \in Conns, DialFails(c) PROVE DestInv'
  BY <1>12 DEF TypeInv, TypeOK, DestInv, DialFails, Goto, Allowed, Dialing,
     Unconnected, Holding,
     Registered
<1>13. ASSUME NEW c \in Conns, DialRefusedReply(c) PROVE DestInv'
  BY <1>13 DEF TypeInv, TypeOK, DestInv, DialRefusedReply, Goto, Allowed,
     Dialing, Unconnected, Holding,
     Registered
<1>14. ASSUME NEW c \in Conns, Track(c) PROVE DestInv'
  BY <1>14 DEF TypeInv, TypeOK, DestInv, Track, Goto, Allowed, Dialing,
     Unconnected, Holding,
     Registered
<1>15. ASSUME NEW c \in Conns, RecordConnect(c) PROVE DestInv'
  BY <1>15 DEF TypeInv, TypeOK, DestInv, RecordConnect, Goto, Allowed, Dialing,
     Unconnected, Holding,
     Registered
<1>16. ASSUME NEW c \in Conns, NEW f \in todo[c], RecordFinding(c, f) PROVE DestInv'
  BY <1>16 DEF TypeInv, TypeOK, DestInv, RecordFinding, Goto, Allowed, Dialing,
     Unconnected, Holding,
     Registered
<1>17. ASSUME NEW c \in Conns, NEW f \in todo[c], RecordTLS(c, f) PROVE DestInv'
  BY <1>17 DEF TypeInv, TypeOK, DestInv, RecordTLS, Goto, Allowed, Dialing,
     Unconnected, Holding,
     Registered
<1>18. ASSUME NEW c \in Conns, NEW d \in Directions, EndCopy(c, d) PROVE DestInv'
  BY <1>18 DEF TypeInv, TypeOK, DestInv, EndCopy, Goto, Allowed, Dialing,
     Unconnected, Holding,
     Registered
<1>19. ASSUME NEW c \in Conns, HalfClose(c) PROVE DestInv'
  BY <1>19 DEF TypeInv, TypeOK, DestInv, HalfClose, Goto, Allowed, Dialing,
     Unconnected, Holding,
     Registered
<1>20. ASSUME NEW c \in Conns, NEW v \in Volumes, TunnelEnds(c, v) PROVE DestInv'
  BY <1>20 DEF TypeInv, TypeOK, DestInv, TunnelEnds, Goto, Allowed, Dialing,
     Unconnected, Holding,
     Registered
<1>21. ASSUME NEW c \in Conns, RecordTraffic(c) PROVE DestInv'
  BY <1>21 DEF TypeInv, TypeOK, DestInv, RecordTraffic, Goto, Allowed, Dialing,
     Unconnected, Holding,
     Registered
<1>22. ASSUME NEW c \in Conns, Untrack(c) PROVE DestInv'
  BY <1>22 DEF TypeInv, TypeOK, DestInv, Untrack, Goto, Allowed, Dialing,
     Unconnected, Holding,
     Registered
<1>23. ASSUME NEW c \in Conns, CloseUpstream(c) PROVE DestInv'
  BY <1>23 DEF TypeInv, TypeOK, DestInv, CloseUpstream, Goto, Allowed, Dialing,
     Unconnected, Holding,
     Registered
<1>24. ASSUME NEW c \in Conns, Cleanup(c) PROVE DestInv'
  BY <1>24 DEF TypeInv, TypeOK, DestInv, Cleanup, Goto, Allowed, Dialing,
     Unconnected, Holding,
     Registered
<1>25. ASSUME NEW c \in Conns, Finish(c) PROVE DestInv'
  BY <1>25 DEF TypeInv, TypeOK, DestInv, Finish, Goto, Allowed, Dialing,
     Unconnected, Holding,
     Registered
<1>26. CASE BeginClose
  BY <1>26 DEF TypeInv, TypeOK, DestInv, BeginClose, Goto, Allowed, Dialing,
     Unconnected, Holding,
     Registered
<1>27. CASE CloseListener
  BY <1>27 DEF TypeInv, TypeOK, DestInv, CloseListener, Goto, Allowed, Dialing,
     Unconnected, Holding,
     Registered
<1>28. ASSUME NEW s \in Sockets, CloseSocket(s) PROVE DestInv'
  BY <1>28 DEF TypeInv, TypeOK, DestInv, CloseSocket, Goto, Allowed, Dialing,
     Unconnected, Holding,
     Registered
<1>29. CASE CloseReturns
  BY <1>29 DEF TypeInv, TypeOK, DestInv, CloseReturns, Goto, Allowed, Dialing,
     Unconnected, Holding,
     Registered
<1>30. CASE HandlersDrained
  BY <1>30 DEF TypeInv, TypeOK, DestInv, HandlersDrained, Goto, Allowed,
     Dialing, Unconnected, Holding,
     Registered
<1>31. CASE DrainTimesOut
  BY <1>31 DEF TypeInv, TypeOK, DestInv, DrainTimesOut, Goto, Allowed, Dialing,
     Unconnected, Holding,
     Registered
<1>32. CASE ViolationsSnapshot
  BY <1>32 DEF TypeInv, TypeOK, DestInv, ViolationsSnapshot, Goto, Allowed,
     Dialing, Unconnected, Holding,
     Registered
<1>33. CASE UNCHANGED vars
  BY <1>33 DEF DestInv, Allowed, vars
<1> QED
  BY <1>1, <1>2, <1>3, <1>4, <1>5, <1>6, <1>7, <1>8, <1>9, <1>10, <1>11, <1>12,
     <1>13, <1>14, <1>15, <1>16, <1>17, <1>18, <1>19, <1>20, <1>21, <1>22, <1>23,
     <1>24, <1>25, <1>26, <1>27, <1>28, <1>29, <1>30, <1>31, <1>32, <1>33
  DEF Next, AcceptLoop, FlushStep, Handler, HandlerStep, ReadReturns, DialReturns,
      TunnelReturns, RecordURL, CopyFindsClosed, PeerFinishes, CopyWriteFails

THEOREM DestInvariant == Spec => []DestInv
<1>1. Init => DestInv
  BY DEF Init, DestInv, Dialing, Unconnected, Holding, Registered
<1>2. TypeInv /\ DestInv /\ [Next]_vars => DestInv'
  BY DestInvPreserved
<1> QED
  BY <1>1, <1>2, TypeInvariant, PTL DEF Spec

LEMMA ReachedIsGranted ==
  ASSUME TypeInv, DestInv, NEW c \in Conns, NEW a \in addr[c]
  PROVE  /\ Granted(policy, NormalizeProxyHost(req[c].host), a, req[c].port)
         /\ req[c] \in Requests /\ a \in AddressesOf(NormalizeProxyHost(req[c].host))
<1>1. a \in Addrs
  BY DEF TypeInv, TypeOK
<1>2. TargetAllowed(policy, NormalizeProxyHost(req[c].host), req[c].port)
  BY DEF DestInv, Allowed
<1> QED
  BY <1>1, <1>2, TwoChecksGrant DEF DestInv

(***************************************************************************)
(* No upstream is open to an address the configuration does not open.      *)
(***************************************************************************)
THEOREM ReachIsGranted == Spec => []OnlyGrantedReach
<1>1. TypeInv /\ NetInv /\ DestInv => OnlyGrantedReach
  BY ReachedIsGranted DEF NetInv, SocketOwned, DestInv, OnlyGrantedReach
<1> QED
  BY <1>1, TypeInvariant, NetInvariant, DestInvariant, PTL

------------------------------------------------------------------------------
(***************************************************************************)
(* The proxy implements the safety part of EgressGate.  Five actions are    *)
(* steps of the gate; the others leave every connection's stage and        *)
(* destination as they are.                                                *)
(***************************************************************************)
GateView(c) == <<GateStage(c), GateDest(c)>>

LEMMA SameView ==
  ASSUME policy' = policy, GatePhase' = GatePhase,
         \A c \in Conns : GateView(c)' = GateView(c)
  PROVE  UNCHANGED Gate!gateVars
<1>1. GateGrants' = GateGrants
  BY DEF GateGrants, Destinations
<1>2. \A c \in Conns : GateStage(c)' = GateStage(c) /\ GateDest(c)' = GateDest(c)
  BY DEF GateView
<1> QED
  BY <1>1, <1>2 DEF Gate!gateVars

LEMMA OthersView ==
  ASSUME TypeInv, NEW c \in Conns, NEW x \in Conns \ {c},
         pc'[x] = pc[x], req'[x] = req[x], addr'[x] = addr[x]
  PROVE  GateStage(x)' = GateStage(x) /\ GateDest(x)' = GateDest(x)
BY DEF GateStage, GateDest

LEMMA StepIsGateStep ==
  ASSUME TypeInv, NetInv, DestInv, [Next]_vars
  PROVE  [Gate!Next]_Gate!gateVars
<1>1. ASSUME NEW c \in Conns, Connect(c) PROVE [Gate!Next]_Gate!gateVars
  <2>1. policy' = policy /\ GatePhase' = GatePhase
    BY <1>1 DEF Connect, GatePhase
  <2>2. \A x \in Conns : GateView(x)' = GateView(x)
    BY <1>1 DEF TypeInv, TypeOK, DestInv, Connect, Goto, GateView, GateStage,
       GateDest, Unconnected
  <2> QED
    BY <2>1, <2>2, SameView
<1>2. ASSUME NEW c \in Conns, Accept(c) PROVE [Gate!Next]_Gate!gateVars
  <2>1. policy' = policy /\ GatePhase' = GatePhase
    BY <1>2 DEF Accept, GatePhase
  <2>2. \A x \in Conns : GateView(x)' = GateView(x)
    BY <1>2 DEF TypeInv, TypeOK, DestInv, Accept, Goto, GateView, GateStage,
       GateDest, Unconnected
  <2> QED
    BY <2>1, <2>2, SameView
<1>3. ASSUME NEW c \in Conns, Admit(c) PROVE [Gate!Next]_Gate!gateVars
  <2>1. GatePhase = "open" /\ UNCHANGED <<policy, GatePhase>>
    BY <1>3 DEF Admit, NetInv, FlushOrder, GatePhase
  <2>2. GateStage(c) = "out" /\ GateStage(c)' = "in" /\ GateDest(c)' = GateDest(c)
    BY <1>3 DEF TypeInv, TypeOK, DestInv, Admit, Goto, GateStage, GateDest,
       Unconnected
  <2>3. \A x \in Conns \ {c} : GateStage(x)' = GateStage(x) /\ GateDest(x)' = GateDest(x)
    BY <1>3, OthersView DEF TypeInv, TypeOK, Admit, Goto
  <2>4. GateGrants' = GateGrants
    BY <2>1 DEF GateGrants, Destinations
  <2>5. Gate!Admit(c)
    BY <2>1, <2>2, <2>3, <2>4 DEF Gate!Admit
  <2> QED
    BY <2>5 DEF Gate!Next
<1>4. ASSUME NEW c \in Conns, TurnAway(c) PROVE [Gate!Next]_Gate!gateVars
  <2>1. policy' = policy /\ GatePhase' = GatePhase
    BY <1>4 DEF TurnAway, GatePhase
  <2>2. \A x \in Conns : GateView(x)' = GateView(x)
    BY <1>4 DEF TypeInv, TypeOK, DestInv, TurnAway, Goto, GateView, GateStage,
       GateDest, Unconnected
  <2> QED
    BY <2>1, <2>2, SameView
<1>5. CASE AcceptFails
  <2>1. policy' = policy /\ GatePhase' = GatePhase
    BY <1>5 DEF AcceptFails, GatePhase
  <2>2. \A x \in Conns : GateView(x)' = GateView(x)
    BY <1>5 DEF TypeInv, TypeOK, DestInv, AcceptFails, Goto, GateView,
       GateStage, GateDest, Unconnected
  <2> QED
    BY <2>1, <2>2, SameView
<1>6. ASSUME NEW c \in Conns, NEW r \in Requests, ReadRequest(c,
   r) PROVE [Gate!Next]_Gate!gateVars
  <2>1. policy' = policy /\ GatePhase' = GatePhase
    BY <1>6 DEF ReadRequest, GatePhase
  <2>2. \A x \in Conns : GateView(x)' = GateView(x)
    BY <1>6 DEF TypeInv, TypeOK, DestInv, ReadRequest, Goto, GateView,
       GateStage, GateDest, Unconnected
  <2> QED
    BY <2>1, <2>2, SameView
<1>7. ASSUME NEW c \in Conns, ReadFails(c) PROVE [Gate!Next]_Gate!gateVars
  <2>1. policy' = policy /\ GatePhase' = GatePhase
    BY <1>7 DEF ReadFails, GatePhase
  <2>2. \A x \in Conns : GateView(x)' = GateView(x)
    BY <1>7 DEF TypeInv, TypeOK, DestInv, ReadFails, Goto, GateView, GateStage,
       GateDest, Unconnected
  <2> QED
    BY <2>1, <2>2, SameView
<1>8. ASSUME NEW c \in Conns, Deny(c) PROVE [Gate!Next]_Gate!gateVars
  <2>1. policy' = policy /\ GatePhase' = GatePhase
    BY <1>8 DEF Deny, GatePhase
  <2>2. \A x \in Conns : GateView(x)' = GateView(x)
    BY <1>8 DEF TypeInv, TypeOK, DestInv, Deny, Goto, GateView, GateStage,
       GateDest, Unconnected
  <2> QED
    BY <2>1, <2>2, SameView
<1>9. ASSUME NEW c \in Conns, StartDial(c) PROVE [Gate!Next]_Gate!gateVars
  <2>1. policy' = policy /\ GatePhase' = GatePhase
    BY <1>9 DEF StartDial, GatePhase
  <2>2. \A x \in Conns : GateView(x)' = GateView(x)
    BY <1>9 DEF TypeInv, TypeOK, DestInv, StartDial, Goto, GateView, GateStage,
       GateDest, Unconnected
  <2> QED
    BY <2>1, <2>2, SameView
<1>10. ASSUME NEW c \in Conns, NEW a \in Addrs, DialSucceeds(c,
   a) PROVE [Gate!Next]_Gate!gateVars
  <2> DEFINE h == NormalizeProxyHost(req[c].host)
             dst == <<h, a, req[c].port>>
  <2>1. UNCHANGED <<policy, GatePhase>>
    BY <1>10 DEF DialSucceeds, GatePhase
  <2>2. /\ addr'[c] = {a} /\ req' = req
        /\ \A x \in Conns \ {c} : pc'[x] = pc[x] /\ addr'[x] = addr[x]
    BY <1>10 DEF TypeInv, TypeOK, DialSucceeds, Goto
  <2>3. GateStage(c) = "in" /\ GateStage(c)' = "through" /\ GateDest(c)' = {dst}
    BY <1>10, <2>2 DEF TypeInv, TypeOK, DestInv, DialSucceeds, Goto, GateStage,
       GateDest, Unconnected
  <2>4. \A x \in Conns \ {c} : GateStage(x)' = GateStage(x) /\ GateDest(x)' = GateDest(x)
    BY <2>2, OthersView
  <2>5. GateGrants' = GateGrants
    BY <2>1 DEF GateGrants, Destinations
  <2>6. dst \in GateGrants /\ dst \in Destinations
    <3>1. req[c] \in Requests /\ Allowed(req[c]) /\ a \in AddressesOf(h)
          /\ DialPermitted(policy, h, a)
      BY <1>10 DEF TypeInv, RequestRead, DestInv, DialSucceeds, Goto,
         Answering, Dialing
    <3>2. dst \in Destinations
      BY <3>1 DEF Destinations
    <3>3. Granted(policy, h, a, req[c].port)
      BY <3>1, TwoChecksGrant DEF Allowed
    <3> HIDE DEF h
    <3> QED
      BY <3>2, <3>3 DEF GateGrants
  <2> HIDE DEF h, dst
  <2>7. Gate!PassThrough(c, dst)
    BY <2>1, <2>3, <2>4, <2>5, <2>6 DEF Gate!PassThrough
  <2> QED
    BY <2>6, <2>7 DEF Gate!Next
<1>11. ASSUME NEW c \in Conns, NEW a \in Addrs, DialRefused(c,
   a) PROVE [Gate!Next]_Gate!gateVars
  <2>1. policy' = policy /\ GatePhase' = GatePhase
    BY <1>11 DEF DialRefused, GatePhase
  <2>2. \A x \in Conns : GateView(x)' = GateView(x)
    BY <1>11 DEF TypeInv, TypeOK, DestInv, DialRefused, Goto, GateView,
       GateStage, GateDest, Unconnected
  <2> QED
    BY <2>1, <2>2, SameView
<1>12. ASSUME NEW c \in Conns, DialFails(c) PROVE [Gate!Next]_Gate!gateVars
  <2>1. policy' = policy /\ GatePhase' = GatePhase
    BY <1>12 DEF DialFails, GatePhase
  <2>2. \A x \in Conns : GateView(x)' = GateView(x)
    BY <1>12 DEF TypeInv, TypeOK, DestInv, DialFails, Goto, GateView,
       GateStage, GateDest, Unconnected
  <2> QED
    BY <2>1, <2>2, SameView
<1>13. ASSUME NEW c \in Conns, DialRefusedReply(c) PROVE [Gate!Next]_Gate!gateVars
  <2>1. policy' = policy /\ GatePhase' = GatePhase
    BY <1>13 DEF DialRefusedReply, GatePhase
  <2>2. \A x \in Conns : GateView(x)' = GateView(x)
    BY <1>13 DEF TypeInv, TypeOK, DestInv, DialRefusedReply, Goto, GateView,
       GateStage, GateDest, Unconnected
  <2> QED
    BY <2>1, <2>2, SameView
<1>14. ASSUME NEW c \in Conns, Track(c) PROVE [Gate!Next]_Gate!gateVars
  <2>1. policy' = policy /\ GatePhase' = GatePhase
    BY <1>14 DEF Track, GatePhase
  <2>2. \A x \in Conns : GateView(x)' = GateView(x)
    BY <1>14 DEF TypeInv, TypeOK, DestInv, Track, Goto, GateView, GateStage,
       GateDest, Unconnected
  <2> QED
    BY <2>1, <2>2, SameView
<1>15. ASSUME NEW c \in Conns, RecordConnect(c) PROVE [Gate!Next]_Gate!gateVars
  <2>1. policy' = policy /\ GatePhase' = GatePhase
    BY <1>15 DEF RecordConnect, GatePhase
  <2>2. \A x \in Conns : GateView(x)' = GateView(x)
    BY <1>15 DEF TypeInv, TypeOK, DestInv, RecordConnect, Goto, GateView,
       GateStage, GateDest, Unconnected
  <2> QED
    BY <2>1, <2>2, SameView
<1>16. ASSUME NEW c \in Conns, NEW f \in todo[c], RecordFinding(c,
   f) PROVE [Gate!Next]_Gate!gateVars
  <2>1. policy' = policy /\ GatePhase' = GatePhase
    BY <1>16 DEF RecordFinding, GatePhase
  <2>2. \A x \in Conns : GateView(x)' = GateView(x)
    BY <1>16 DEF TypeInv, TypeOK, DestInv, RecordFinding, Goto, GateView,
       GateStage, GateDest, Unconnected
  <2> QED
    BY <2>1, <2>2, SameView
<1>17. ASSUME NEW c \in Conns, NEW f \in todo[c], RecordTLS(c,
   f) PROVE [Gate!Next]_Gate!gateVars
  <2>1. policy' = policy /\ GatePhase' = GatePhase
    BY <1>17 DEF RecordTLS, GatePhase
  <2>2. \A x \in Conns : GateView(x)' = GateView(x)
    BY <1>17 DEF TypeInv, TypeOK, DestInv, RecordTLS, Goto, GateView,
       GateStage, GateDest, Unconnected
  <2> QED
    BY <2>1, <2>2, SameView
<1>18. ASSUME NEW c \in Conns, NEW d \in Directions, EndCopy(c,
   d) PROVE [Gate!Next]_Gate!gateVars
  <2>1. policy' = policy /\ GatePhase' = GatePhase
    BY <1>18 DEF EndCopy, GatePhase
  <2>2. \A x \in Conns : GateView(x)' = GateView(x)
    BY <1>18 DEF TypeInv, TypeOK, DestInv, EndCopy, Goto, GateView, GateStage,
       GateDest, Unconnected
  <2> QED
    BY <2>1, <2>2, SameView
<1>19. ASSUME NEW c \in Conns, HalfClose(c) PROVE [Gate!Next]_Gate!gateVars
  <2>1. policy' = policy /\ GatePhase' = GatePhase
    BY <1>19 DEF HalfClose, GatePhase
  <2>2. \A x \in Conns : GateView(x)' = GateView(x)
    BY <1>19 DEF TypeInv, TypeOK, DestInv, HalfClose, Goto, GateView,
       GateStage, GateDest, Unconnected
  <2> QED
    BY <2>1, <2>2, SameView
<1>20. ASSUME NEW c \in Conns, NEW v \in Volumes, TunnelEnds(c,
   v) PROVE [Gate!Next]_Gate!gateVars
  <2>1. policy' = policy /\ GatePhase' = GatePhase
    BY <1>20 DEF TunnelEnds, GatePhase
  <2>2. \A x \in Conns : GateView(x)' = GateView(x)
    BY <1>20 DEF TypeInv, TypeOK, DestInv, TunnelEnds, Goto, GateView,
       GateStage, GateDest, Unconnected
  <2> QED
    BY <2>1, <2>2, SameView
<1>21. ASSUME NEW c \in Conns, RecordTraffic(c) PROVE [Gate!Next]_Gate!gateVars
  <2>1. policy' = policy /\ GatePhase' = GatePhase
    BY <1>21 DEF RecordTraffic, GatePhase
  <2>2. \A x \in Conns : GateView(x)' = GateView(x)
    BY <1>21 DEF TypeInv, TypeOK, DestInv, RecordTraffic, Goto, GateView,
       GateStage, GateDest, Unconnected
  <2> QED
    BY <2>1, <2>2, SameView
<1>22. ASSUME NEW c \in Conns, Untrack(c) PROVE [Gate!Next]_Gate!gateVars
  <2>1. policy' = policy /\ GatePhase' = GatePhase
    BY <1>22 DEF Untrack, GatePhase
  <2>2. \A x \in Conns : GateView(x)' = GateView(x)
    BY <1>22 DEF TypeInv, TypeOK, DestInv, Untrack, Goto, GateView, GateStage,
       GateDest, Unconnected
  <2> QED
    BY <2>1, <2>2, SameView
<1>23. ASSUME NEW c \in Conns, CloseUpstream(c) PROVE [Gate!Next]_Gate!gateVars
  <2>1. policy' = policy /\ GatePhase' = GatePhase
    BY <1>23 DEF CloseUpstream, GatePhase
  <2>2. \A x \in Conns : GateView(x)' = GateView(x)
    BY <1>23 DEF TypeInv, TypeOK, DestInv, CloseUpstream, Goto, GateView,
       GateStage, GateDest, Unconnected
  <2> QED
    BY <2>1, <2>2, SameView
<1>24. ASSUME NEW c \in Conns, Cleanup(c) PROVE [Gate!Next]_Gate!gateVars
  <2>1. policy' = policy /\ GatePhase' = GatePhase
    BY <1>24 DEF Cleanup, GatePhase
  <2>2. \A x \in Conns : GateView(x)' = GateView(x)
    BY <1>24 DEF TypeInv, TypeOK, DestInv, Cleanup, Goto, GateView, GateStage,
       GateDest, Unconnected
  <2> QED
    BY <2>1, <2>2, SameView
<1>25. ASSUME NEW c \in Conns, Finish(c) PROVE [Gate!Next]_Gate!gateVars
  <2>1. UNCHANGED <<policy, GatePhase>>
    BY <1>25 DEF Finish, GatePhase
  <2>2. /\ GateStage(c) \in {"in", "through"} /\ GateStage(c)' = "over"
        /\ GateDest(c)' = GateDest(c)
    BY <1>25 DEF TypeInv, TypeOK, Finish, Goto, GateStage, GateDest
  <2>3. \A x \in Conns \ {c} : GateStage(x)' = GateStage(x) /\ GateDest(x)' = GateDest(x)
    BY <1>25, OthersView DEF TypeInv, TypeOK, Finish, Goto
  <2>4. GateGrants' = GateGrants
    BY <2>1 DEF GateGrants, Destinations
  <2>5. Gate!Leave(c)
    BY <2>1, <2>2, <2>3, <2>4 DEF Gate!Leave
  <2> QED
    BY <2>5 DEF Gate!Next
<1>26. CASE BeginClose
  <2>1. policy' = policy /\ GatePhase = "open" /\ GatePhase' = "shut"
    BY <1>26 DEF BeginClose, GatePhase
  <2>2. \A x \in Conns : GateStage(x)' = GateStage(x) /\ GateDest(x)' = GateDest(x)
    BY <1>26 DEF BeginClose, GateStage, GateDest
  <2>3. GateGrants' = GateGrants
    BY <2>1 DEF GateGrants, Destinations
  <2>4. Gate!Shut
    BY <2>1, <2>2, <2>3 DEF Gate!Shut
  <2> QED
    BY <2>4 DEF Gate!Next
<1>27. CASE CloseListener
  <2>1. policy' = policy /\ GatePhase' = GatePhase
    BY <1>27 DEF CloseListener, GatePhase
  <2>2. \A x \in Conns : GateView(x)' = GateView(x)
    BY <1>27 DEF TypeInv, TypeOK, DestInv, CloseListener, Goto, GateView,
       GateStage, GateDest, Unconnected
  <2> QED
    BY <2>1, <2>2, SameView
<1>28. ASSUME NEW s \in Sockets, CloseSocket(s) PROVE [Gate!Next]_Gate!gateVars
  <2>1. policy' = policy /\ GatePhase' = GatePhase
    BY <1>28 DEF CloseSocket, GatePhase
  <2>2. \A x \in Conns : GateView(x)' = GateView(x)
    BY <1>28 DEF TypeInv, TypeOK, DestInv, CloseSocket, Goto, GateView,
       GateStage, GateDest, Unconnected
  <2> QED
    BY <2>1, <2>2, SameView
<1>29. CASE CloseReturns
  <2>1. policy' = policy /\ GatePhase' = GatePhase
    BY <1>29 DEF CloseReturns, GatePhase
  <2>2. \A x \in Conns : GateView(x)' = GateView(x)
    BY <1>29 DEF TypeInv, TypeOK, DestInv, CloseReturns, Goto, GateView,
       GateStage, GateDest, Unconnected
  <2> QED
    BY <2>1, <2>2, SameView
<1>30. CASE HandlersDrained
  <2>1. policy' = policy /\ GatePhase' = GatePhase
    BY <1>30 DEF HandlersDrained, GatePhase
  <2>2. \A x \in Conns : GateView(x)' = GateView(x)
    BY <1>30 DEF TypeInv, TypeOK, DestInv, HandlersDrained, Goto, GateView,
       GateStage, GateDest, Unconnected
  <2> QED
    BY <2>1, <2>2, SameView
<1>31. CASE DrainTimesOut
  <2>1. policy' = policy /\ GatePhase' = GatePhase
    BY <1>31 DEF DrainTimesOut, GatePhase
  <2>2. \A x \in Conns : GateView(x)' = GateView(x)
    BY <1>31 DEF TypeInv, TypeOK, DestInv, DrainTimesOut, Goto, GateView,
       GateStage, GateDest, Unconnected
  <2> QED
    BY <2>1, <2>2, SameView
<1>32. CASE ViolationsSnapshot
  <2>1. policy' = policy /\ GatePhase = "shut" /\ GatePhase' = "settled"
    BY <1>32 DEF ViolationsSnapshot, GatePhase
  <2>2. \A x \in Conns : GateStage(x)' = GateStage(x) /\ GateDest(x)' = GateDest(x)
    BY <1>32 DEF ViolationsSnapshot, GateStage, GateDest
  <2>3. GateGrants' = GateGrants
    BY <2>1 DEF GateGrants, Destinations
  <2>4. Gate!Settle
    BY <2>1, <2>2, <2>3 DEF Gate!Settle
  <2> QED
    BY <2>4 DEF Gate!Next
<1>33. CASE UNCHANGED vars
  <2>1. policy' = policy /\ GatePhase' = GatePhase
    BY <1>33 DEF vars, GatePhase
  <2>2. \A x \in Conns : GateView(x)' = GateView(x)
    BY <1>33 DEF TypeInv, TypeOK, DestInv, vars, Goto, GateView, GateStage,
       GateDest, Unconnected
  <2> QED
    BY <2>1, <2>2, SameView
<1> QED
  BY <1>1, <1>2, <1>3, <1>4, <1>5, <1>6, <1>7, <1>8, <1>9, <1>10, <1>11, <1>12,
     <1>13, <1>14, <1>15, <1>16, <1>17, <1>18, <1>19, <1>20, <1>21, <1>22, <1>23,
     <1>24, <1>25, <1>26, <1>27, <1>28, <1>29, <1>30, <1>31, <1>32, <1>33
  DEF Next, AcceptLoop, FlushStep, Handler, HandlerStep, ReadReturns, DialReturns,
      TunnelReturns, RecordURL, CopyFindsClosed, PeerFinishes, CopyWriteFails

(***************************************************************************)
(* Every behaviour of the proxy is one of the gate.                        *)
(***************************************************************************)
THEOREM ProxyIsAGate == Spec => GateSafety
<1>1. Init => Gate!Init
  <2> SUFFICES ASSUME Init PROVE Gate!Init
    OBVIOUS
  <2>1. GateGrants \subseteq Destinations /\ GatePhase = "open"
    BY DEF Init, GateGrants, GatePhase
  <2>2. \A c \in Conns : GateStage(c) = "out" /\ GateDest(c) = {}
    BY DEF Init, GateStage, GateDest
  <2> QED
    BY <2>1, <2>2 DEF Gate!Init
<1>2. TypeInv /\ NetInv /\ DestInv /\ [Next]_vars => [Gate!Next]_Gate!gateVars
  BY StepIsGateStep
<1> QED
  BY <1>1, <1>2, TypeInvariant, NetInvariant, DestInvariant, PTL
  DEF Spec, GateSafety, Gate!Safety
-----------------------------------------------------------------------------
(***************************************************************************)
(* The invariant.  Told is what waits to be emitted; from the snapshot on  *)
(* the report takes its place, and it is Whole unless handlers still ran.  *)
(***************************************************************************)
Told  == {violations[i] : i \in DOMAIN violations}
Known == IF phase = "reported" THEN report ELSE Told
Whole == phase # "reported" \/ drained

Violation(r)  == Entry("proxy-violation", Target(r))
Connection(t) == Entry("proxy-connect", t)
Unreached == {"track", "connect"}
Checking  == {"tunnel", "half", "count", "untrack"}

CopiesInv == \A c \in Conns : copies[c] # {} => pc[c] \in {"tunnel", "half"}

ConnectInv ==
  /\ IsFiniteSet(connected) /\ Cardinality(connected) <= MaxConnect
  /\ \A i, j \in DOMAIN violations :
       violations[i].type = "proxy-connect" /\ violations[i] = violations[j] => i = j
  /\ \A e \in Told \cup report : e.type = "proxy-connect" => e.target \in connected
  /\ \A e \in Told : e.type = "proxy-connect" => e \notin report
  /\ phase # "reported" => report = {}

\* What each connection owes the record, and whether it is there.
CompleteInv ==
  Whole =>
    /\ \A t \in connected : Connection(t) \in Known
    /\ \A c \in Conns : req[c] # NoRequest /\ pc[c] # "decide" /\ ~Allowed(req[c]) =>
         Violation(req[c]) \in Known
    /\ \A c \in Conns : addr[c] # {} /\ pc[c] \notin Unreached =>
         Target(req[c]) \in connected \/ Cardinality(connected) = MaxConnect
    /\ phase = "reported" => violations = <<>> /\ DOMAIN traffic = {}

\* The findings of a type, and where their entries are.
FoundOf(type) == {f \in findings : f[1] = type}
At(type) == {i \in DOMAIN violations : violations[i].type = type}

TallyInv ==
  /\ IsFiniteSet(findings)
  /\ phase # "reported" => \A type \in FindingTypes :
       /\ findingCount[type] = Cardinality(FoundOf(type))
       /\ findingCount[type] = Cardinality(At(type))
       /\ findingCount[type] <= MaxFindings + 1
       /\ \A i \in At(type) : violations[i].target = Overflow <=>
            findingCount[type] = MaxFindings + 1 /\ \A j \in At(type) : j <= i
       /\ findingCount[type] = MaxFindings + 1 => Entry(type, Overflow) \in Told

\* A suspect is still to be recorded, recorded, or past the cap.
CheckInv ==
  \A c \in Conns :
    /\ \A f \in todo[c] : f[1] \in FindingTypes => f[2] # Overflow
    /\ pc[c] \in Checking => \A f \in Suspects(req[c]) :
         f \in todo[c] \/ f \in findings \/ findingCount[f[1]] > MaxFindings

RecordInv == CopiesInv /\ ConnectInv /\ CompleteInv /\ TallyInv /\ CheckInv

LEMMA ZeroFindings == 0 <= MaxFindings + 1 /\ 0 # MaxFindings + 1
BY ProxyAssumption

LEMMA RecordsInit == Init => RecordInv
<1> SUFFICES ASSUME Init PROVE RecordInv
  OBVIOUS
<1>1. violations = <<>> /\ DOMAIN violations = {} /\ Told = {} /\ connected = {} /\ findings = {}
  BY DEF Init, Told
<1>2. IsFiniteSet({}) /\ Cardinality({}) = 0
  BY FS_EmptySet
<1>3. CopiesInv /\ CompleteInv /\ CheckInv
  BY <1>1 DEF Init, CopiesInv, CompleteInv, CheckInv, Checking
<1>4. ConnectInv
  BY <1>1, <1>2, ProxyAssumption DEF Init, ConnectInv
<1>5. TallyInv
  <2>1. \A type \in FindingTypes : FoundOf(type) = {} /\ At(type) = {} /\ findingCount[type] = 0
    BY <1>1 DEF Init, FoundOf, At
  <2> QED
    BY <1>1, <1>2, <2>1, ProxyAssumption, ZeroFindings DEF TallyInv
<1> QED
  BY <1>3, <1>4, <1>5 DEF RecordInv
------------------------------------------------------------------------------
(***************************************************************************)
(* Three kinds of steps: those that record nothing, those that record, and *)
(* the snapshot.                                                           *)
(***************************************************************************)
NotRecording ==
  /\ UNCHANGED <<policy, violations, connected, findings, findingCount, report>>
  /\ phase' = "reported" <=> phase = "reported"
  /\ phase = "reported" => UNCHANGED drained /\ (drained => UNCHANGED traffic)
  /\ \A c \in Conns :
       /\ copies'[c] # {} => copies[c] # {} /\ pc'[c] \in {"tunnel", "half"}
       /\ req'[c] # NoRequest /\ pc'[c] # "decide" =>
            req'[c] = req[c] /\ (pc[c] = "decide" => Allowed(req[c]))
       /\ addr'[c] # {} /\ pc'[c] \notin Unreached =>
            req'[c] = req[c] /\ addr[c] # {} /\ pc[c] \notin Unreached
       /\ todo'[c] \subseteq todo[c]
       /\ pc'[c] \in Checking =>
            /\ pc[c] \in Checking /\ req'[c] = req[c]
            /\ \A f \in todo[c] : f[1] \in FindingTypes => f \in todo'[c]

Recording(c) ==
  \/ Deny(c) \/ DialRefusedReply(c) \/ RecordConnect(c)
  \/ \E f \in todo[c] : RecordFinding(c, f)

LEMMA StepKinds ==
  ASSUME TypeInv, NetInv, DestInv, CopiesInv, [Next]_vars
  PROVE  NotRecording \/ (\E c \in Conns : Recording(c)) \/ ViolationsSnapshot
<1>1. ASSUME NEW c \in Conns, Connect(c) \/ Accept(c) \/ Admit(c) \/ TurnAway(c) PROVE NotRecording
  BY <1>1 DEF TypeInv, TypeOK, CopiesInv, NotRecording, Connect, Accept, Admit, TurnAway, Goto,
     Unreached, Checking
<1>2. CASE AcceptFails \/ UNCHANGED vars
  BY <1>2 DEF TypeInv, TypeOK, CopiesInv, NotRecording, AcceptFails, vars, Unreached, Checking
<1>3. ASSUME NEW c \in Conns, NEW r \in Requests, ReadRequest(c, r) PROVE NotRecording
  BY <1>3 DEF TypeInv, TypeOK, CopiesInv, DestInv, NotRecording, ReadRequest, Goto, Unreached,
     Checking, Unconnected
<1>4. ASSUME NEW c \in Conns,
             ReadFails(c) \/ StartDial(c) \/ DialFails(c) \/ Track(c) \/ HalfClose(c)
      PROVE  NotRecording
  BY <1>4 DEF TypeInv, TypeOK, CopiesInv, DestInv, NotRecording, ReadFails, StartDial,
     DialFails, Track, HalfClose, Goto, Unreached, Checking, Unconnected
<1>5. ASSUME NEW c \in Conns, NEW a \in Addrs, DialSucceeds(c, a) \/ DialRefused(c, a)
      PROVE  NotRecording
  BY <1>5 DEF TypeInv, TypeOK, CopiesInv, NotRecording, DialSucceeds, DialRefused, Goto,
     Unreached, Checking
<1>6. ASSUME NEW c \in Conns, NEW o \in todo[c], RecordTLS(c, o) PROVE NotRecording
  BY <1>6 DEF TypeInv, TypeOK, CopiesInv, NotRecording, RecordTLS, FindingTypes, Unreached,
     Checking
<1>7. ASSUME NEW c \in Conns, NEW d \in Directions, EndCopy(c, d) PROVE NotRecording
  BY <1>7 DEF TypeInv, TypeOK, CopiesInv, NotRecording, EndCopy, Unreached, Checking
<1>8. ASSUME NEW c \in Conns, NEW v \in Volumes, TunnelEnds(c, v) PROVE NotRecording
  BY <1>8 DEF TypeInv, TypeOK, CopiesInv, NotRecording, TunnelEnds, Goto, Unreached, Checking
<1>9. ASSUME NEW c \in Conns, RecordTraffic(c) PROVE NotRecording
  <2>1. Serving(c)
    BY <1>9 DEF RecordTraffic, Goto, Serving
  <2> QED
    BY <1>9, <2>1 DEF TypeInv, TypeOK, NetInv, FlushOrder, CopiesInv, NotRecording,
       RecordTraffic, Goto, Unreached, Checking
<1>10. ASSUME NEW c \in Conns, Untrack(c) \/ CloseUpstream(c) \/ Cleanup(c) \/ Finish(c)
       PROVE  NotRecording
  BY <1>10 DEF TypeInv, TypeOK, CopiesInv, NotRecording, Untrack, CloseUpstream, Cleanup,
     Finish, Goto, Unreached, Checking
<1>11. CASE BeginClose \/ CloseReturns \/ HandlersDrained \/ DrainTimesOut
  BY <1>11 DEF TypeInv, TypeOK, CopiesInv, NotRecording, BeginClose, CloseReturns,
     HandlersDrained, DrainTimesOut, Unreached, Checking
<1>12. ASSUME NEW s \in Sockets, CloseSocket(s) PROVE NotRecording
  BY <1>12 DEF TypeInv, TypeOK, CopiesInv, NotRecording, CloseSocket, Unreached, Checking
<1>13. CASE CloseListener
  BY <1>13 DEF TypeInv, TypeOK, CopiesInv, DestInv, NotRecording, CloseListener, Unreached,
     Checking, Unconnected
<1> QED
  BY <1>1, <1>2, <1>3, <1>4, <1>5, <1>6, <1>7, <1>8, <1>9, <1>10, <1>11, <1>12, <1>13 DEF
     Recording, Next, AcceptLoop, FlushStep, Handler, HandlerStep, ReadReturns, DialReturns,
     TunnelReturns, RecordURL, CopyFindsClosed, PeerFinishes, CopyWriteFails

\* A handler records only while it runs, so never after a flush that drained.
LEMMA RecordingServes ==
  ASSUME TypeInv, NetInv, CopiesInv, NEW c \in Conns, Recording(c)
  PROVE  Serving(c) /\ ~drained /\ UNCHANGED <<phase, drained, report, policy, req, addr>>
<1>1. Serving(c)
  BY DEF Recording, Deny, DialRefusedReply, RecordConnect, RecordFinding, Goto, Serving,
     CopiesInv
<1>2. UNCHANGED <<phase, drained, report, policy, req, addr>>
  BY DEF Recording, Deny, DialRefusedReply, RecordConnect, RecordFinding
<1> QED
  BY <1>1, <1>2 DEF NetInv, FlushOrder

LEMMA OneMore ==
  ASSUME TypeInv, NEW e, violations' = Append(violations, e)
  PROVE  /\ Told' = Told \cup {e}
         /\ Len(violations) + 1 \notin DOMAIN violations
         /\ DOMAIN violations' = DOMAIN violations \cup {Len(violations) + 1}
         /\ violations'[Len(violations) + 1] = e
         /\ \A i \in DOMAIN violations : violations'[i] = violations[i] /\ i <= Len(violations)
         /\ Len(violations) \in Nat /\ DOMAIN violations = 1..Len(violations)
<1>1. /\ Len(violations) + 1 \notin DOMAIN violations
      /\ DOMAIN violations' = DOMAIN violations \cup {Len(violations) + 1}
      /\ violations'[Len(violations) + 1] = e
      /\ \A i \in DOMAIN violations : violations'[i] = violations[i] /\ i <= Len(violations)
      /\ Len(violations) \in Nat /\ DOMAIN violations = 1..Len(violations)
  BY DEF TypeInv, TypeOK
<1> QED
  BY <1>1 DEF Told
------------------------------------------------------------------------------
LEMMA NotRecordingKeeps ==
  ASSUME TypeInv, NetInv, RecordInv, NotRecording
  PROVE  RecordInv'
<1>1. Told' = Told /\ Known' = Known /\ (Whole' => Whole)
  BY DEF NotRecording, Told, Known, Whole
<1>2. CopiesInv'
  BY DEF NotRecording, RecordInv, CopiesInv
<1>3. ConnectInv'
  BY <1>1 DEF NotRecording, RecordInv, ConnectInv
<1>4. CompleteInv'
  <2> SUFFICES ASSUME Whole' PROVE CompleteInv'
    BY DEF CompleteInv
  <2>1. \A c \in Conns : Allowed(req[c])' <=> Allowed(req'[c])
    BY DEF NotRecording, Allowed
  <2>2. phase' = "reported" => violations' = <<>> /\ DOMAIN traffic' = {}
    BY <1>1 DEF NotRecording, RecordInv, CompleteInv, Whole
  <2>3. \A t \in connected' : Connection(t) \in Known'
    BY <1>1 DEF NotRecording, RecordInv, CompleteInv
  <2>4. ASSUME NEW c \in Conns, req'[c] # NoRequest, pc'[c] # "decide", ~Allowed(req'[c])
        PROVE  Violation(req'[c]) \in Known'
    BY <1>1, <2>4 DEF NotRecording, RecordInv, CompleteInv
  <2>5. ASSUME NEW c \in Conns, addr'[c] # {}, pc'[c] \notin Unreached
        PROVE  Target(req'[c]) \in connected' \/ Cardinality(connected') = MaxConnect
    BY <1>1, <2>5 DEF NotRecording, RecordInv, CompleteInv
  <2> QED
    BY <2>1, <2>2, <2>3, <2>4, <2>5 DEF CompleteInv
<1>5. TallyInv'
  <2>1. \A type \in FindingTypes : FoundOf(type)' = FoundOf(type) /\ At(type)' = At(type)
    BY DEF NotRecording, FoundOf, At
  <2> QED
    BY <1>1, <2>1 DEF NotRecording, RecordInv, TallyInv
<1>6. CheckInv'
  <2> SUFFICES ASSUME NEW c \in Conns
               PROVE  /\ \A f \in todo'[c] : f[1] \in FindingTypes => f[2] # Overflow
                      /\ pc'[c] \in Checking => \A f \in Suspects(req[c])' :

                               \/ f \in todo'[c] \/ f \in findings'
                           \/ findingCount'[f[1]] > MaxFindings
    BY DEF CheckInv
  <2>1. \A f \in todo'[c] : f[1] \in FindingTypes => f[2] # Overflow
    BY DEF NotRecording, RecordInv, CheckInv
  <2>2. ASSUME pc'[c] \in Checking, NEW f \in Suspects(req[c])'
        PROVE  f \in todo'[c] \/ f \in findings' \/ findingCount'[f[1]] > MaxFindings
    <3>1. req'[c] = req[c] /\ pc[c] \in Checking /\ policy' = policy
      BY <2>2 DEF NotRecording
    <3>2. f \in Suspects(req[c])
      BY <2>2, <3>1 DEF Suspects
    <3>3. f[1] \in FindingTypes
      BY <3>2 DEF Suspects, FindingType, FindingTypes
    <3> QED
      BY <2>2, <3>1, <3>2, <3>3 DEF NotRecording, RecordInv, CheckInv
  <2> QED
    BY <2>1, <2>2
<1> QED
  BY <1>2, <1>3, <1>4, <1>5, <1>6 DEF RecordInv

LEMMA SnapshotKeeps ==
  ASSUME TypeInv, NetInv, RecordInv, ViolationsSnapshot
  PROVE  RecordInv'
<1>1. /\ phase = "snapshot" /\ phase' = "reported" /\ Told \subseteq report'
      /\ violations' = <<>> /\ DOMAIN violations' = {} /\ DOMAIN traffic' = {}
      /\ UNCHANGED <<policy, handlerVars, connected, findings, findingCount, drained>>
  BY DEF ViolationsSnapshot, Told
<1>2. Told' = {} /\ Known = Told /\ Known' = report' /\ Whole
  BY <1>1 DEF Told, Known, Whole
<1>3. \A e \in report' : e \in Told \/ e.type = "proxy-upload-heavy"
  BY DEF ViolationsSnapshot, Told, UploadHeavyEntries, Entry
<1>4. CopiesInv' /\ TallyInv'
  BY <1>1 DEF RecordInv, CopiesInv, TallyInv
<1>5. ConnectInv'
  BY <1>1, <1>2, <1>3 DEF RecordInv, ConnectInv
<1>6. CompleteInv'
  <2>1. \A r : Allowed(r)' <=> Allowed(r)
    BY <1>1 DEF Allowed
  <2> QED
    BY <1>1, <1>2, <2>1 DEF RecordInv, CompleteInv
<1>7. CheckInv'
  <2>1. \A c \in Conns : Suspects(req[c])' = Suspects(req[c])
    BY <1>1 DEF Suspects
  <2> QED
    BY <1>1, <2>1 DEF RecordInv, CheckInv
<1> QED
  BY <1>4, <1>5, <1>6, <1>7 DEF RecordInv
------------------------------------------------------------------------------
(***************************************************************************)
(* The steps that record.                                                  *)
(***************************************************************************)
\* An entry of another kind leaves a type's findings alone.
LEMMA OtherEntry ==
  ASSUME TypeInv, TallyInv, NEW e, violations' = Append(violations, e),
         e.type \notin FindingTypes, UNCHANGED <<findings, findingCount, phase>>
  PROVE  TallyInv'
<1>1. /\ Told \subseteq Told' /\ \A i \in DOMAIN violations : violations'[i] = violations[i]
      /\ \A i \in DOMAIN violations' : i \in DOMAIN violations \/ violations'[i] = e
      /\ DOMAIN violations \subseteq DOMAIN violations'
  BY OneMore
<1>2. ASSUME NEW type \in FindingTypes
      PROVE  FoundOf(type)' = FoundOf(type) /\ At(type)' = At(type)
  BY <1>1 DEF FoundOf, At
<1>3. ASSUME NEW type \in FindingTypes, NEW i \in At(type) PROVE violations'[i] = violations[i]
  BY <1>1 DEF At
<1> QED
  BY <1>1, <1>2, <1>3 DEF TallyInv

LEMMA DeniedKeeps ==
  ASSUME TypeInv, NetInv, DestInv, RecordInv, NEW c \in Conns, Deny(c) \/ DialRefusedReply(c)
  PROVE  RecordInv'
<1> DEFINE e == Violation(req[c])
<1>1. /\ violations' = Append(violations, e) /\ pc' = [pc EXCEPT ![c] = "cleanup"]
      /\ UNCHANGED <<policy, locals, connected, traffic, findings, findingCount, flushVars>>
      /\ copies[c] = {} /\ pc[c] \in {"decide", "refused"} /\ addr[c] = {}
  BY DEF Deny, DialRefusedReply, RecordViolation, Violation, Goto, RecordInv, CopiesInv,
     DestInv, Unconnected
<1>2. e.type = "proxy-violation" /\ e.type # "proxy-connect" /\ e.type \notin FindingTypes
  BY DEF Violation, Entry, FindingTypes
<1> HIDE DEF e
<1>3. /\ Told' = Told \cup {e}
      /\ \A i \in DOMAIN violations' :
           violations'[i] = e \/ (i \in DOMAIN violations /\ violations'[i] = violations[i])
  BY <1>1, OneMore
<1>4. ~drained /\ phase' = phase /\ (Whole' => phase # "reported")
  <2>1. Serving(c)
    BY <1>1 DEF Serving
  <2> QED
    BY <1>1, <2>1 DEF NetInv, FlushOrder, Whole
<1>5. CopiesInv'
  BY <1>1 DEF TypeInv, TypeOK, RecordInv, CopiesInv
<1>6. ConnectInv'
  BY <1>1, <1>2, <1>3 DEF RecordInv, ConnectInv
<1>7. CompleteInv'
  <2> SUFFICES ASSUME Whole' PROVE CompleteInv'
    BY DEF CompleteInv
  <2>1. Whole /\ phase # "reported" /\ Known = Told /\ Known' = Told \cup {e}
    BY <1>3, <1>4 DEF Whole, Known
  <2>2. \A d \in Conns : Allowed(req[d])' <=> Allowed(req[d])
    BY <1>1 DEF Allowed
  <2>3. ASSUME NEW d \in Conns, req'[d] # NoRequest, pc'[d] # "decide", ~Allowed(req[d])
        PROVE  Violation(req'[d]) \in Known'
    <3>1. CASE d = c
      BY <1>1, <2>1, <3>1 DEF e
    <3>2. CASE d # c
      <4>1. pc'[d] = pc[d] /\ req'[d] = req[d]
        BY <1>1, <3>2 DEF TypeInv, TypeOK
      <4> QED
        BY <2>1, <2>3, <4>1 DEF RecordInv, CompleteInv
    <3> QED
      BY <3>1, <3>2
  <2>4. ASSUME NEW d \in Conns, addr'[d] # {}, pc'[d] \notin Unreached
        PROVE  Target(req'[d]) \in connected' \/ Cardinality(connected') = MaxConnect
    BY <1>1, <2>1, <2>4 DEF TypeInv, TypeOK, RecordInv, CompleteInv
  <2>5. \A t \in connected' : Connection(t) \in Known'
    BY <1>1, <2>1 DEF RecordInv, CompleteInv
  <2> QED
    BY <1>4, <2>2, <2>3, <2>4, <2>5 DEF CompleteInv, Whole
<1>8. TallyInv'
  BY <1>1, <1>2, OtherEntry DEF RecordInv
<1>9. CheckInv'
  <2>1. \A d \in Conns : Suspects(req[d])' = Suspects(req[d])
    BY <1>1 DEF Suspects
  <2>2. \A d \in Conns : pc'[d] \in Checking => pc'[d] = pc[d]
    BY <1>1 DEF TypeInv, TypeOK, Checking
  <2> QED
    BY <1>1, <2>1, <2>2 DEF RecordInv, CheckInv
<1> QED
  BY <1>5, <1>6, <1>7, <1>8, <1>9 DEF RecordInv

LEMMA ConnectKeeps ==
  ASSUME TypeInv, NetInv, DestInv, RecordInv, NEW c \in Conns, RecordConnect(c)
  PROVE  RecordInv'
<1> DEFINE t == Target(req[c])
           e == Connection(t)
<1>1. /\ pc[c] = "connect" /\ pc' = [pc EXCEPT ![c] = "tunnel"]
      /\ todo' = [todo EXCEPT ![c] = Suspects(req[c]) \cup Handshakes(req[c])]
      /\ copies' = [copies EXCEPT ![c] = Directions]
      /\ UNCHANGED <<policy, req, addr, traffic, findings, findingCount, flushVars>>
  BY DEF RecordConnect, Goto
<1>2. \/ /\ t \in connected \/ Cardinality(connected) >= MaxConnect
         /\ UNCHANGED <<connected, violations>>
      \/ /\ t \notin connected /\ Cardinality(connected) < MaxConnect
         /\ connected' = connected \cup {t} /\ violations' = Append(violations, e)
  <2>1. Cardinality(connected) \in Nat /\ MaxConnect \in Nat
    BY FS_CardinalityType, ProxyAssumption DEF RecordInv, ConnectInv
  <2> QED
    BY <2>1 DEF RecordConnect, Connection
<1>3. e.type = "proxy-connect" /\ e.target = t /\ e.type \notin FindingTypes
  BY DEF Connection, Entry, FindingTypes
<1>4. req[c] \in Requests /\ Allowed(req[c])
  BY <1>1 DEF TypeInv, RequestRead, Answering, DestInv, Dialing
<1> HIDE DEF e, t
<1>5. ~drained /\ phase' = phase /\ (Whole' => Whole /\ phase # "reported")
  <2>1. Serving(c)
    BY <1>1 DEF Serving
  <2> QED
    BY <1>1, <2>1 DEF NetInv, FlushOrder, Whole
<1>6. /\ connected \subseteq connected' /\ Told \subseteq Told'
      /\ Cardinality(connected) \in Nat /\ MaxConnect \in Nat
      /\ IsFiniteSet(connected') /\ Cardinality(connected') <= MaxConnect
      /\ Cardinality(connected) = MaxConnect => Cardinality(connected') = MaxConnect
      /\ t \in connected' \/ Cardinality(connected') = MaxConnect
  <2>1. /\ IsFiniteSet(connected) /\ Cardinality(connected) <= MaxConnect
        /\ Cardinality(connected) \in Nat /\ MaxConnect \in Nat
    BY FS_CardinalityType, ProxyAssumption DEF RecordInv, ConnectInv
  <2>2. CASE UNCHANGED <<connected, violations>>
    BY <1>2, <2>1, <2>2 DEF Told
  <2>3. CASE /\ t \notin connected /\ Cardinality(connected) < MaxConnect
             /\ connected' = connected \cup {t} /\ violations' = Append(violations, e)
    <3>1. IsFiniteSet(connected') /\ Cardinality(connected') = Cardinality(connected) + 1
      BY <2>1, <2>3, FS_AddElement
    <3>2. Told \subseteq Told'
      BY <2>3, OneMore
    <3> QED
      BY <2>1, <2>3, <3>1, <3>2
  <2> QED
    BY <1>2, <2>2, <2>3
<1>7. CopiesInv'
  BY <1>1 DEF TypeInv, TypeOK, RecordInv, CopiesInv
<1>8. ConnectInv'
  <2>1. CASE UNCHANGED <<connected, violations>>
    BY <1>1, <2>1 DEF RecordInv, ConnectInv, Told
  <2>2. CASE t \notin connected /\ connected' = connected \cup {t}
             /\ violations' = Append(violations, e)
    <3>1. \A i \in DOMAIN violations : violations[i].type = "proxy-connect" => violations[i] # e
      BY <1>3, <2>2 DEF RecordInv, ConnectInv, Told
    <3>2. ASSUME NEW i \in DOMAIN violations', NEW j \in DOMAIN violations',
                 violations'[i].type = "proxy-connect", violations'[i] = violations'[j]
          PROVE  i = j
      BY <2>2, <3>1, <3>2, OneMore DEF RecordInv, ConnectInv
    <3>3. Told' = Told \cup {e} /\ report' = report
      BY <1>1, <2>2, OneMore
    <3>4. e \notin report
      BY <1>3, <2>2 DEF RecordInv, ConnectInv
    <3> QED
      BY <1>1, <1>3, <1>6, <2>2, <3>2, <3>3, <3>4 DEF RecordInv, ConnectInv
  <2> QED
    BY <1>2, <2>1, <2>2
<1>9. CompleteInv'
  <2> SUFFICES ASSUME Whole' PROVE CompleteInv'
    BY DEF CompleteInv
  <2>1. Whole /\ phase # "reported" /\ phase' # "reported" /\ Known = Told /\ Known' = Told'
    BY <1>5 DEF Known
  <2>2. \A x \in connected' : Connection(x) \in Known'
    <3>1. CASE UNCHANGED <<connected, violations>>
      BY <1>6, <2>1, <3>1 DEF RecordInv, CompleteInv
    <3>2. CASE connected' = connected \cup {t} /\ violations' = Append(violations, e)
      <4>1. Told' = Told \cup {e}
        BY <3>2, OneMore
      <4> QED
        BY <2>1, <3>2, <4>1 DEF RecordInv, CompleteInv, e
    <3> QED
      BY <1>2, <3>1, <3>2
  <2>3. \A d \in Conns : Allowed(req[d])' <=> Allowed(req[d])
    BY <1>1 DEF Allowed
  <2>4. ASSUME NEW d \in Conns, req'[d] # NoRequest, pc'[d] # "decide", ~Allowed(req[d])
        PROVE  Violation(req'[d]) \in Known'
    <3>1. d # c /\ pc'[d] = pc[d] /\ req'[d] = req[d]
      BY <1>1, <1>4, <2>4 DEF TypeInv, TypeOK
    <3> QED
      BY <1>6, <2>1, <2>4, <3>1 DEF RecordInv, CompleteInv
  <2>5. ASSUME NEW d \in Conns, addr'[d] # {}, pc'[d] \notin Unreached
        PROVE  Target(req'[d]) \in connected' \/ Cardinality(connected') = MaxConnect
    <3>1. CASE d = c
      BY <1>1, <1>6, <3>1 DEF t
    <3>2. CASE d # c
      <4>1. pc'[d] = pc[d] /\ req'[d] = req[d] /\ addr'[d] = addr[d]
        BY <1>1, <3>2 DEF TypeInv, TypeOK
      <4> QED
        BY <1>6, <2>1, <2>5, <4>1 DEF RecordInv, CompleteInv
    <3> QED
      BY <3>1, <3>2
  <2> QED
    BY <2>1, <2>2, <2>3, <2>4, <2>5 DEF CompleteInv
<1>10. TallyInv'
  <2>1. CASE UNCHANGED <<connected, violations>>
    <3>1. \A type \in FindingTypes : FoundOf(type)' = FoundOf(type) /\ At(type)' = At(type)
      BY <1>1, <2>1 DEF FoundOf, At
    <3> QED
      BY <1>1, <2>1, <3>1 DEF RecordInv, TallyInv, Told
  <2>2. CASE violations' = Append(violations, e)
    BY <1>1, <1>3, <2>2, OtherEntry DEF RecordInv
  <2> QED
    BY <1>2, <2>1, <2>2
<1>11. CheckInv'
  <2>1. \A d \in Conns : Suspects(req[d])' = Suspects(req[d])
    BY <1>1 DEF Suspects
  <2>2. t # Overflow
    BY <1>4, OverflowAssumption DEF Allowed, t
  <2>3. \A f \in Suspects(req[c]) \cup Handshakes(req[c]) : f[2] = t
    BY DEF Suspects, Handshakes, t
  <2>4. ASSUME NEW d \in Conns
        PROVE  /\ \A f \in todo'[d] : f[1] \in FindingTypes => f[2] # Overflow
               /\ pc'[d] \in Checking => \A f \in Suspects(req[d]) :
                    f \in todo'[d] \/ f \in findings' \/ findingCount'[f[1]] > MaxFindings
    <3>1. CASE d = c
      <4>1. todo'[d] = Suspects(req[c]) \cup Handshakes(req[c])
        BY <1>1, <3>1 DEF TypeInv, TypeOK
      <4> QED
        BY <2>2, <2>3, <3>1, <4>1
    <3>2. CASE d # c
      <4>1. pc'[d] = pc[d] /\ todo'[d] = todo[d]
        BY <1>1, <3>2 DEF TypeInv, TypeOK
      <4> QED
        BY <1>1, <4>1 DEF RecordInv, CheckInv
    <3> QED
      BY <3>1, <3>2
  <2> QED
    BY <2>1, <2>4 DEF CheckInv
<1> QED
  BY <1>7, <1>8, <1>9, <1>10, <1>11 DEF RecordInv

LEMMA FoundFinite ==
  ASSUME TypeInv, TallyInv, NEW type
  PROVE  IsFiniteSet(FoundOf(type)) /\ IsFiniteSet(At(type))
<1>1. IsFiniteSet(DOMAIN violations)
  BY FS_Interval DEF TypeInv, TypeOK
<1> QED
  BY <1>1, FS_Subset DEF TallyInv, FoundOf, At

\* recordFinding counts a new finding of a type that is not past its cap.
LEMMA FindingTallied ==
  ASSUME TypeInv, TallyInv, phase # "reported", phase' = phase,
         NEW f, f[1] \in FindingTypes, f[2] # Overflow, f \notin findings,
         findingCount[f[1]] <= MaxFindings, findings' = findings \cup {f},
         findingCount' = [findingCount EXCEPT ![f[1]] = @ + 1],
         violations' = Append(violations,
           Entry(f[1], IF findingCount'[f[1]] > MaxFindings THEN Overflow ELSE f[2]))
  PROVE  TallyInv'
<1> DEFINE type == f[1]
           n == Len(violations) + 1
           e == Entry(type, IF findingCount'[type] > MaxFindings THEN Overflow ELSE f[2])
<1>1. /\ findingCount \in [FindingTypes -> Nat] /\ MaxFindings \in Nat
      /\ findingCount'[type] = findingCount[type] + 1
      /\ \A k \in FindingTypes \ {type} : findingCount'[k] = findingCount[k]
  BY ProxyAssumption DEF TypeInv, TypeOK
<1>2. e.type = type /\ (e.target = Overflow <=> findingCount'[type] = MaxFindings + 1)
  BY <1>1 DEF Entry
<1>3. findingCount'[type] = MaxFindings + 1 => e = Entry(type, Overflow)
  BY <1>1
<1> HIDE DEF e
<1>4. violations' = Append(violations, e)
  BY DEF e
<1>5. /\ Told' = Told \cup {e} /\ n \notin DOMAIN violations /\ violations'[n] = e
      /\ DOMAIN violations' = DOMAIN violations \cup {n}
      /\ \A i \in DOMAIN violations : violations'[i] = violations[i] /\ i <= n /\ ~(n <= i)
      /\ n <= n
  BY <1>4, OneMore
<1> HIDE DEF n
<1>6. /\ FoundOf(type)' = FoundOf(type) \cup {f} /\ f \notin FoundOf(type)
      /\ At(type)' = At(type) \cup {n} /\ n \notin At(type)
  BY <1>2, <1>5 DEF FoundOf, At
<1>7. \A k \in FindingTypes \ {type} : FoundOf(k)' = FoundOf(k) /\ At(k)' = At(k)
  BY <1>2, <1>5 DEF FoundOf, At
<1>8. \A k : \A i \in At(k) : violations'[i] = violations[i] /\ i <= n /\ ~(n <= i)
  BY <1>5 DEF At
<1>9. /\ Cardinality(FoundOf(type)') = Cardinality(FoundOf(type)) + 1
      /\ Cardinality(At(type)') = Cardinality(At(type)) + 1
  BY <1>6, FoundFinite, FS_AddElement
<1>10. IsFiniteSet(findings')
  BY FS_AddElement DEF TallyInv
<1>11. ASSUME NEW k \in FindingTypes \ {type}
       PROVE  /\ findingCount'[k] = Cardinality(FoundOf(k)')
              /\ findingCount'[k] = Cardinality(At(k)')
              /\ findingCount'[k] <= MaxFindings + 1
              /\ \A i \in At(k)' : violations'[i].target = Overflow <=>
                   findingCount'[k] = MaxFindings + 1 /\ \A j \in At(k)' : j <= i
              /\ findingCount'[k] = MaxFindings + 1 => Entry(k, Overflow) \in Told'
  <2>1. findingCount'[k] = findingCount[k] /\ FoundOf(k)' = FoundOf(k) /\ At(k)' = At(k)
    BY <1>1, <1>7
  <2>2. \A i \in At(k) : violations[i].target = Overflow <=>
          findingCount[k] = MaxFindings + 1 /\ \A j \in At(k) : j <= i
    BY DEF TallyInv
  <2>3. \A i \in At(k) : violations'[i] = violations[i]
    BY <1>8
  <2>4. /\ findingCount[k] = Cardinality(FoundOf(k)) /\ findingCount[k] = Cardinality(At(k))
        /\ findingCount[k] <= MaxFindings + 1
        /\ findingCount[k] = MaxFindings + 1 => Entry(k, Overflow) \in Told
    BY DEF TallyInv
  <2>5. Told \subseteq Told'
    BY <1>5
  <2>6. \A i \in At(k)' : violations'[i].target = Overflow <=>
          findingCount'[k] = MaxFindings + 1 /\ \A j \in At(k)' : j <= i
    BY <2>1, <2>2, <2>3
  <2> QED
    BY <2>1, <2>4, <2>5, <2>6
<1>12. ASSUME NEW i \in At(type)'
       PROVE  violations'[i].target = Overflow <=>
                findingCount'[type] = MaxFindings + 1 /\ \A j \in At(type)' : j <= i
  <2>1. CASE i = n
    BY <1>2, <1>5, <1>6, <1>8, <2>1
  <2>2. CASE i # n
    <3>1. i \in At(type) /\ violations'[i] = violations[i] /\ ~(n <= i)
      BY <1>6, <1>8, <2>2
    <3>2. violations[i].target # Overflow
      BY <1>1, <3>1 DEF TallyInv
    <3> QED
      BY <1>6, <3>1, <3>2
  <2> QED
    BY <2>1, <2>2
<1>13. /\ findingCount'[type] = Cardinality(FoundOf(type)')
       /\ findingCount'[type] = Cardinality(At(type)')
       /\ findingCount'[type] <= MaxFindings + 1
       /\ findingCount'[type] = MaxFindings + 1 => Entry(type, Overflow) \in Told'
  BY <1>1, <1>3, <1>5, <1>9 DEF TallyInv
<1> QED
  BY <1>10, <1>11, <1>12, <1>13 DEF TallyInv

LEMMA FindingKeeps ==
  ASSUME TypeInv, NetInv, RecordInv, NEW c \in Conns, NEW f \in todo[c], RecordFinding(c, f)
  PROVE  RecordInv'
<1> DEFINE e == Entry(f[1], IF findingCount'[f[1]] > MaxFindings THEN Overflow ELSE f[2])
<1>1. /\ todo' = [todo EXCEPT ![c] = @ \ {f}] /\ f[1] \in FindingTypes
      /\ UNCHANGED <<policy, pc, req, addr, copies, connected, traffic, flushVars>>
  BY DEF RecordFinding, FindingTypes
<1>2. \/ /\ f \in findings \/ findingCount[f[1]] > MaxFindings
         /\ UNCHANGED <<findings, findingCount, violations>>
      \/ /\ f \notin findings /\ ~(findingCount[f[1]] > MaxFindings)
         /\ findings' = findings \cup {f}
         /\ findingCount' = [findingCount EXCEPT ![f[1]] = @ + 1]
         /\ violations' = Append(violations, e)
  BY DEF RecordFinding
<1>3. f[2] # Overflow
  BY <1>1 DEF RecordInv, CheckInv
<1>4. e.type # "proxy-connect"
  BY <1>1 DEF Entry, FindingTypes
<1>5. ~drained /\ (Whole' => Whole /\ phase # "reported")
  <2>1. Serving(c)
    BY DEF RecordFinding, RecordInv, CopiesInv, Serving
  <2> QED
    BY <1>1, <2>1 DEF NetInv, FlushOrder, Whole
<1>6. TallyInv'
  <2>1. CASE UNCHANGED <<findings, findingCount, violations>>
    <3>1. \A type \in FindingTypes : FoundOf(type)' = FoundOf(type) /\ At(type)' = At(type)
      BY <2>1 DEF FoundOf, At
    <3> QED
      BY <1>1, <2>1, <3>1 DEF RecordInv, TallyInv, Told
  <2>2. CASE phase = "reported" /\ findings' = findings \cup {f}
    BY <1>1, <2>2, FS_AddElement DEF RecordInv, TallyInv
  <2>3. CASE /\ phase # "reported" /\ f \notin findings /\ ~(findingCount[f[1]] > MaxFindings)
             /\ findings' = findings \cup {f}
             /\ findingCount' = [findingCount EXCEPT ![f[1]] = @ + 1]
             /\ violations' = Append(violations, e)
    <3>1. findingCount[f[1]] <= MaxFindings
      BY <1>1, <2>3, ProxyAssumption DEF TypeInv, TypeOK
    <3> QED
      BY <1>1, <1>3, <2>3, <3>1, FindingTallied DEF RecordInv
  <2> QED
    BY <1>2, <2>1, <2>2, <2>3
<1>7. /\ findings \subseteq findings'
      /\ f \in findings' \/ findingCount'[f[1]] > MaxFindings
      /\ \A k \in FindingTypes : findingCount[k] > MaxFindings => findingCount'[k] > MaxFindings
  BY <1>1, <1>2, ProxyAssumption DEF TypeInv, TypeOK
<1> HIDE DEF e
<1>8. /\ Told \subseteq Told' /\ \A x \in Told' : x \in Told \/ x = e
      /\ \A i \in DOMAIN violations' : \/ violations'[i] = e
                                      \/ (i \in DOMAIN violations /\ violations'[i] = violations[i])
  <2>1. CASE UNCHANGED violations
    BY <2>1 DEF Told
  <2>2. CASE violations' = Append(violations, e)
    BY <2>2, OneMore
  <2> QED
    BY <1>2, <2>1, <2>2
<1>9. CopiesInv'
  BY <1>1 DEF RecordInv, CopiesInv
<1>10. ConnectInv'
  BY <1>1, <1>4, <1>8 DEF RecordInv, ConnectInv
<1>11. CompleteInv'
  <2> SUFFICES ASSUME Whole' PROVE CompleteInv'
    BY DEF CompleteInv
  <2>1. Whole /\ phase' # "reported" /\ Known = Told /\ Known' = Told'
    BY <1>1, <1>5 DEF Known
  <2>2. \A d \in Conns : Allowed(req[d])' <=> Allowed(req[d])
    BY <1>1 DEF Allowed
  <2> QED
    BY <1>1, <1>8, <2>1, <2>2 DEF RecordInv, CompleteInv
<1>12. CheckInv'
  <2>1. \A d \in Conns : Suspects(req[d])' = Suspects(req[d])
    BY <1>1 DEF Suspects
  <2>2. \A d \in Conns : todo'[d] \subseteq todo[d] /\ todo[d] \subseteq todo'[d] \cup {f}
    BY <1>1 DEF TypeInv, TypeOK
  <2>3. \A d \in Conns : \A g \in Suspects(req[d]) : g[1] \in FindingTypes
    BY DEF Suspects, FindingType, FindingTypes
  <2>4. ASSUME NEW d \in Conns, pc'[d] \in Checking, NEW g \in Suspects(req[d])
        PROVE  g \in todo'[d] \/ g \in findings' \/ findingCount'[g[1]] > MaxFindings
    <3>1. g \in todo[d] \/ g \in findings \/ findingCount[g[1]] > MaxFindings
      BY <1>1, <2>4 DEF RecordInv, CheckInv
    <3> QED
      BY <1>7, <2>2, <2>3, <3>1
  <2>5. \A d \in Conns : \A g \in todo'[d] : g[1] \in FindingTypes => g[2] # Overflow
    BY <2>2 DEF RecordInv, CheckInv
  <2> QED
    BY <2>1, <2>4, <2>5 DEF CheckInv
<1> QED
  BY <1>6, <1>9, <1>10, <1>11, <1>12 DEF RecordInv

\* What the proxy has recorded stays in step with what its handlers did.
THEOREM RecordInvariant == Spec => []RecordInv
<1>1. ASSUME TypeInv, NetInv, DestInv, RecordInv, [Next]_vars
      PROVE  RecordInv'
  <2>1. NotRecording \/ (\E c \in Conns : Recording(c)) \/ ViolationsSnapshot
    BY <1>1, StepKinds DEF RecordInv
  <2>2. ASSUME NEW c \in Conns, Recording(c) PROVE RecordInv'
    BY <1>1, <2>2, DeniedKeeps, ConnectKeeps, FindingKeeps DEF Recording
  <2> QED
    BY <1>1, <2>1, <2>2, NotRecordingKeeps, SnapshotKeeps
<1> QED
  BY <1>1, RecordsInit, TypeInvariant, NetInvariant, DestInvariant, PTL DEF Spec
------------------------------------------------------------------------------
(***************************************************************************)
(* The theorems.                                                           *)
(***************************************************************************)
\* Each target reached is recorded once, by late handlers too, and never more
\* of them than the cap (recordConnect).
THEOREM ConnectedOnce == Spec => []ConnectRecordedOnce
<1>1. RecordInv => ConnectRecordedOnce
  BY DEF RecordInv, ConnectInv, ConnectRecordedOnce, Told
<1> QED
  BY <1>1, RecordInvariant, PTL

\* A report made after the handlers ended names every denied request and every
\* target reached, unless the cap on targets was met (ViolationsSnapshot).
THEOREM ReportIsComplete == Spec => []DrainedReportIsComplete
<1>1. ASSUME TypeInv, NetInv, RecordInv PROVE DrainedReportIsComplete
  <2> SUFFICES ASSUME phase = "reported", drained
               PROVE  /\ violations = <<>> /\ DOMAIN traffic = {}
                      /\ \A c \in Conns : req[c] # NoRequest =>
                           /\ ~Allowed(req[c]) =>
                                Entry("proxy-violation", Target(req[c])) \in report
                           /\ addr[c] # {} =>
                                \/ Entry("proxy-connect", Target(req[c])) \in report
                                \/ Cardinality(connected) = MaxConnect
    BY DEF DrainedReportIsComplete
  <2>1. Whole /\ Known = report
    BY DEF Whole, Known
  <2>2. \A c \in Conns : pc[c] # "decide" /\ pc[c] \notin Unreached
    BY <1>1 DEF NetInv, FlushOrder, Serving, Unreached
  <2> QED
    BY <1>1, <2>1, <2>2 DEF RecordInv, CompleteInv, Violation, Connection
<1> QED
  BY <1>1, TypeInvariant, NetInvariant, RecordInvariant, PTL

\* The cap on findings is exact, and passing it is said once and last
\* (recordFinding): checked URLs past the cap never go unmentioned.
THEOREM CapIsExact == Spec => []FindingsAreCapped
<1>1. ASSUME TypeInv, RecordInv PROVE FindingsAreCapped
  <2> SUFFICES ASSUME phase # "reported" PROVE FindingsAreCapped
    BY DEF FindingsAreCapped
  <2>1. ASSUME NEW type \in FindingTypes
        PROVE  /\ Cardinality(At(type)) = Cardinality(FoundOf(type))
               /\ Cardinality(At(type)) <= MaxFindings + 1
               /\ \A i \in At(type) : violations[i].target = Overflow <=>
                    Cardinality(At(type)) = MaxFindings + 1 /\ \A j \in At(type) : j <= i
    BY <1>1 DEF RecordInv, TallyInv
  <2>2. ASSUME Cardinality(CheckedURLs) > MaxFindings
        PROVE  Entry("proxy-embedded-url", Overflow) \in Told
    <3> DEFINE url == "proxy-embedded-url"
    <3>1. url \in FindingTypes /\ findingCount[url] \in Nat /\ MaxFindings \in Nat
      BY <1>1, ProxyAssumption DEF TypeInv, TypeOK, FindingTypes
    <3>2. CASE findingCount[url] > MaxFindings
      BY <1>1, <3>1, <3>2 DEF RecordInv, TallyInv
    <3>3. CASE ~(findingCount[url] > MaxFindings)
      <4>1. ASSUME NEW f \in CheckedURLs PROVE f \in FoundOf(url)
        <5>1. PICK c \in Conns : /\ f \in Suspects(req[c]) /\ pc[c] \in Checking
                                 /\ req[c].form = "absolute" /\ TunnelStarted(c)
          BY <4>1 DEF CheckedURLs, Checking
        <5>2. f[1] = url
          BY <5>1 DEF Suspects, FindingType
        <5>3. f \notin todo[c]
          BY <5>1, <5>2 DEF TunnelStarted
        <5> QED
          BY <1>1, <3>3, <5>1, <5>2, <5>3 DEF RecordInv, CheckInv, FoundOf
      <4>2. IsFiniteSet(FoundOf(url)) /\ Cardinality(FoundOf(url)) = findingCount[url]
        BY <1>1, <3>1, FoundFinite DEF RecordInv, TallyInv
      <4>3. /\ Cardinality(CheckedURLs) <= findingCount[url]
            /\ Cardinality(CheckedURLs) \in Nat
        BY <4>1, <4>2, FS_Subset, FS_CardinalityType
      <4> QED
        BY <2>2, <3>1, <3>3, <4>3
    <3> QED
      BY <3>2, <3>3
  <2> QED
    BY <2>1, <2>2 DEF FindingsAreCapped, At, FoundOf, Told
<1> QED
  BY <1>1, TypeInvariant, RecordInvariant, PTL
------------------------------------------------------------------------------
(***************************************************************************)
(* The bytes of the tunnels.  A connection is booked once its handler has  *)
(* added its bytes to its target's.                                        *)
(***************************************************************************)
Booked == {c \in Conns : addr[c] # {} /\ pc[c] \in {"untrack", "upstream", "cleanup", "finish", "done"}}
TargetsOf(cs)   == {Target(req[c]) : c \in cs}
ToTarget(cs, t) == {c \in cs : Target(req[c]) = t}
WithinCap == policy.detect /\ Cardinality(TargetsOf(Reached)) <= MaxConnect

\* The bytes v of the connections cs together.
BytesIn(v, cs) ==
  [up   |-> SumOver([c \in cs |-> v[c].up], cs),
   down |-> SumOver([c \in cs |-> v[c].down], cs)]

HeavyOf(cs) ==
  LET lopsided == {t \in TargetsOf(cs) : Lopsided(BytesIn(bytes, ToTarget(cs, t)))} IN
  IF lopsided # {} THEN lopsided
  ELSE IF Cardinality(TargetsOf(cs)) > 1 /\ Lopsided(BytesIn(bytes, cs))
       THEN {Overflow} ELSE {}

HeavyNamed == {e.target : e \in {x \in report : x.type = "proxy-upload-heavy"}}

BookedInv ==
  WithinCap /\ phase # "reported" =>
    /\ DOMAIN traffic = TargetsOf(Booked)
    /\ \A t \in TargetsOf(Booked) : traffic[t] = BytesIn(bytes, ToTarget(Booked, t))

HeavyInv ==
  /\ \A e \in Told : e.type # "proxy-upload-heavy"
  /\ phase = "reported" /\ drained /\ WithinCap => HeavyNamed = HeavyOf(Reached)

TrafficInv == BookedInv /\ HeavyInv

\* A sum over a field of records.
LEMMA UpSum ==
  ASSUME NEW v, NEW S, IsFiniteSet(S)
  PROVE  MapThenSumSet(LAMBDA x : v[x].up, S) = SumOver([x \in S |-> v[x].up], S)
<1> DEFINE f == [x \in S |-> v[x].up]
           Body(it) == [s \in SUBSET S |-> IF s = {} THEN 0
                          ELSE v[AnyOf(s)].up + it[s \ {AnyOf(s)}]]
           It == CHOOSE it : it = Body(it)
<1>1. ASSUME NEW it PROVE Body(it) = SumBody(f, it, S)
  <2>1. \A s \in SUBSET S : s # {} => f[AnyOf(s)] = v[AnyOf(s)].up
    BY DEF AnyOf
  <2> HIDE DEF f
  <2> QED
    BY <2>1 DEF SumBody
<1>2. SumFun(f, S) = Body(SumFun(f, S))
  BY <1>1, SumFunExists
<1>3. It = Body(It)
  <2> HIDE DEF Body
  <2> QED
    BY <1>2
<1>4. It[S] = SumFun(f, S)[S]
  <2> HIDE DEF Body, It, f
  <2> QED
    BY <1>1, <1>3, SumFunExists, SumFunUnique
<1>5. SumOver(f, S) = SumFun(f, S)[S]
  <2> HIDE DEF f
  <2> QED
    BY SumIs
<1>6. MapThenSumSet(LAMBDA x : v[x].up, S) = It[S]
  BY DEF MapThenSumSet, MapThenFoldSet, AnyOf
<1> QED
  BY <1>4, <1>5, <1>6

LEMMA DownSum ==
  ASSUME NEW v, NEW S, IsFiniteSet(S)
  PROVE  MapThenSumSet(LAMBDA x : v[x].down, S) = SumOver([x \in S |-> v[x].down], S)
<1> DEFINE f == [x \in S |-> v[x].down]
           Body(it) == [s \in SUBSET S |-> IF s = {} THEN 0
                          ELSE v[AnyOf(s)].down + it[s \ {AnyOf(s)}]]
           It == CHOOSE it : it = Body(it)
<1>1. ASSUME NEW it PROVE Body(it) = SumBody(f, it, S)
  <2>1. \A s \in SUBSET S : s # {} => f[AnyOf(s)] = v[AnyOf(s)].down
    BY DEF AnyOf
  <2> HIDE DEF f
  <2> QED
    BY <2>1 DEF SumBody
<1>2. SumFun(f, S) = Body(SumFun(f, S))
  BY <1>1, SumFunExists
<1>3. It = Body(It)
  <2> HIDE DEF Body
  <2> QED
    BY <1>2
<1>4. It[S] = SumFun(f, S)[S]
  <2> HIDE DEF Body, It, f
  <2> QED
    BY <1>1, <1>3, SumFunExists, SumFunUnique
<1>5. SumOver(f, S) = SumFun(f, S)[S]
  <2> HIDE DEF f
  <2> QED
    BY SumIs
<1>6. MapThenSumSet(LAMBDA x : v[x].down, S) = It[S]
  BY DEF MapThenSumSet, MapThenFoldSet, AnyOf
<1> QED
  BY <1>4, <1>5, <1>6

\* The bytes of tunnels are numbers, add up, and depend on the tunnels only.
LEMMA BytesInOf ==
  ASSUME NEW v \in [Conns -> ByteCounts], NEW cs \in SUBSET Conns
  PROVE  /\ BytesIn(v, cs) = [up |-> SumOver([c \in Conns |-> v[c].up], cs),
                              down |-> SumOver([c \in Conns |-> v[c].down], cs)]
         /\ BytesIn(v, cs) \in ByteCounts
<1> DEFINE U == [c \in Conns |-> v[c].up]
           D == [c \in Conns |-> v[c].down]
<1>1. IsFiniteSet(Conns) /\ IsFiniteSet(cs)
  BY ProxyAssumption, FS_Subset
<1>2. SumOver([c \in cs |-> v[c].up], cs) = SumOver(U, cs)
  <2> DEFINE f == [c \in cs |-> v[c].up]
  <2>1. \A c \in cs : f[c] = U[c]
    OBVIOUS
  <2> HIDE DEF f, U
  <2> QED
    BY <1>1, <2>1, SumSame DEF f
<1>3. SumOver([c \in cs |-> v[c].down], cs) = SumOver(D, cs)
  <2> DEFINE f == [c \in cs |-> v[c].down]
  <2>1. \A c \in cs : f[c] = D[c]
    OBVIOUS
  <2> HIDE DEF f, D
  <2> QED
    BY <1>1, <2>1, SumSame DEF f
<1>4. (\A c \in Conns : U[c] \in Nat) /\ (\A c \in Conns : D[c] \in Nat)
  BY DEF ByteCounts
<1> HIDE DEF U, D
<1>5. SumOver(U, cs) \in Nat
  BY <1>1, <1>4, SumNat
<1>6. SumOver(D, cs) \in Nat
  BY <1>1, <1>4, SumNat
<1>7. BytesIn(v, cs) = [up |-> SumOver(U, cs), down |-> SumOver(D, cs)]
  BY <1>2, <1>3 DEF BytesIn
<1> QED
  BY <1>5, <1>6, <1>7 DEF ByteCounts, U, D

LEMMA BytesInMore ==
  ASSUME NEW v \in [Conns -> ByteCounts], NEW cs \in SUBSET Conns, NEW c \in Conns \ cs
  PROVE  BytesIn(v, cs \cup {c}) = [up   |-> BytesIn(v, cs).up + v[c].up,
                                    down |-> BytesIn(v, cs).down + v[c].down]
<1> DEFINE U == [x \in Conns |-> v[x].up]
           D == [x \in Conns |-> v[x].down]
           more == cs \cup {c}
<1>1. IsFiniteSet(Conns) /\ IsFiniteSet(more) /\ more \in SUBSET Conns
  BY ProxyAssumption, FS_Subset
<1>2. (\A x \in more : U[x] \in Nat) /\ (\A x \in more : D[x] \in Nat)
  BY DEF ByteCounts
<1>3. c \in more /\ more \ {c} = cs /\ U[c] = v[c].up /\ D[c] = v[c].down
      /\ v[c].up \in Nat /\ v[c].down \in Nat
  BY DEF ByteCounts
<1>4. BytesIn(v, cs) = [up |-> SumOver(U, cs), down |-> SumOver(D, cs)]
      /\ BytesIn(v, cs) \in ByteCounts
  BY BytesInOf
<1>5. BytesIn(v, more) = [up |-> SumOver(U, more), down |-> SumOver(D, more)]
  BY <1>1, BytesInOf
<1> HIDE DEF U, D, more
<1>6. SumOver(U, more) = U[c] + SumOver(U, more \ {c})
  BY <1>1, <1>2, <1>3, SumStep
<1>7. SumOver(D, more) = D[c] + SumOver(D, more \ {c})
  BY <1>1, <1>2, <1>3, SumStep
<1>8. SumOver(U, cs) \in Nat /\ SumOver(D, cs) \in Nat
  BY <1>4 DEF ByteCounts
<1>9. BytesIn(v, cs).up = SumOver(U, cs) /\ BytesIn(v, cs).down = SumOver(D, cs)
  BY <1>4
<1>10. SumOver(U, more) = BytesIn(v, cs).up + v[c].up
  <2>1. SumOver(U, more) = v[c].up + SumOver(U, cs)
    BY <1>3, <1>6
  <2> QED
    BY <1>3, <1>8, <1>9, <2>1
<1>11. SumOver(D, more) = BytesIn(v, cs).down + v[c].down
  <2>1. SumOver(D, more) = v[c].down + SumOver(D, cs)
    BY <1>3, <1>7
  <2> QED
    BY <1>3, <1>8, <1>9, <2>1
<1> QED
  BY <1>5, <1>10, <1>11 DEF more

LEMMA BytesInNone ==
  ASSUME NEW v
  PROVE  BytesIn(v, {}) = [up |-> 0, down |-> 0]
BY SumEmpty DEF BytesIn

LEMMA BytesInSame ==
  ASSUME NEW v, NEW w, NEW cs, \A c \in cs : v[c] = w[c]
  PROVE  BytesIn(v, cs) = BytesIn(w, cs)
<1>1. /\ [c \in cs |-> v[c].up] = [c \in cs |-> w[c].up]
      /\ [c \in cs |-> v[c].down] = [c \in cs |-> w[c].down]
  OBVIOUS
<1> QED
  BY <1>1 DEF BytesIn

LEMMA TunnelBytesAre ==
  ASSUME NEW cs \in SUBSET Conns
  PROVE  TunnelBytes(cs) = BytesIn(bytes, cs)
<1>1. IsFiniteSet(cs)
  BY ProxyAssumption, FS_Subset
<1>2. MapThenSumSet(LAMBDA c : bytes[c].up, cs) = SumOver([c \in cs |-> bytes[c].up], cs)
  BY <1>1, UpSum
<1>3. MapThenSumSet(LAMBDA c : bytes[c].down, cs) = SumOver([c \in cs |-> bytes[c].down], cs)
  BY <1>1, DownSum
<1> QED
  BY <1>2, <1>3 DEF TunnelBytes, BytesIn
------------------------------------------------------------------------------
(***************************************************************************)
(* The steps.  Most book nothing; the handlers that still run after a      *)
(* flush that did not drain can change nothing of what it reported.        *)
(***************************************************************************)
NotBooking ==
  /\ UNCHANGED policy
  /\ phase' = "reported" <=> phase = "reported"
  /\ phase # "reported" => UNCHANGED traffic
  /\ phase = "reported" => UNCHANGED <<drained, report>> /\ (drained => UNCHANGED <<req, addr, bytes>>)
  /\ \A c \in Reached : addr'[c] # {} /\ req'[c] = req[c]
  /\ \A c \in Booked : bytes'[c] = bytes[c]
  /\ Booked' = Booked
  /\ \A e \in Told' : e \in Told \/ e.type # "proxy-upload-heavy"

LEMMA BookingSteps ==
  ASSUME TypeInv, NetInv, DestInv, CopiesInv, [Next]_vars
  PROVE  NotBooking \/ (\E c \in Conns : RecordTraffic(c)) \/ ViolationsSnapshot
<1>1. ASSUME NEW c \in Conns, Connect(c) \/ Accept(c) \/ Admit(c) \/ TurnAway(c)
      PROVE  NotBooking
  BY <1>1 DEF TypeInv, TypeOK, DestInv, Unconnected, NotBooking, Connect, Accept, Admit, TurnAway,
     Goto, Told, Reached, Booked
<1>2. CASE AcceptFails \/ UNCHANGED vars
  BY <1>2 DEF NotBooking, AcceptFails, vars, Told, Reached, Booked
<1>3. ASSUME NEW c \in Conns, NEW r \in Requests, ReadRequest(c, r) PROVE NotBooking
  BY <1>3 DEF TypeInv, TypeOK, NetInv, FlushOrder, Serving, DestInv, Unconnected, NotBooking, ReadRequest, Goto, Told, Reached,
     Booked
<1>4. ASSUME NEW c \in Conns, ReadFails(c) \/ StartDial(c) \/ DialFails(c) \/ Track(c) \/ HalfClose(c)
      PROVE  NotBooking
  BY <1>4 DEF TypeInv, TypeOK, DestInv, Unconnected, NotBooking, ReadFails, StartDial,
     DialFails, Track, HalfClose, Goto, Told, Reached, Booked
<1>5. ASSUME NEW c \in Conns, NEW a \in Addrs, DialSucceeds(c, a) \/ DialRefused(c, a)
      PROVE  NotBooking
  BY <1>5 DEF TypeInv, TypeOK, NetInv, FlushOrder, Serving, DestInv, Unconnected, NotBooking, DialSucceeds, DialRefused, Goto,
     Told, Reached, Booked
<1>6. ASSUME NEW c \in Conns, NEW o \in todo[c], RecordTLS(c, o) PROVE NotBooking
  BY <1>6 DEF NotBooking, RecordTLS, Told, Reached, Booked
<1>7. ASSUME NEW c \in Conns, NEW d \in Directions, EndCopy(c, d) PROVE NotBooking
  BY <1>7 DEF NotBooking, EndCopy, Told, Reached, Booked
<1>8. ASSUME NEW c \in Conns, NEW v \in Volumes, TunnelEnds(c, v) PROVE NotBooking
  BY <1>8 DEF TypeInv, TypeOK, NetInv, FlushOrder, Serving, NotBooking, TunnelEnds, Goto, Told, Reached, Booked
<1>9. ASSUME NEW c \in Conns, Untrack(c) \/ CloseUpstream(c) \/ Cleanup(c) \/ Finish(c)
      PROVE  NotBooking
  BY <1>9 DEF TypeInv, TypeOK, NotBooking, Untrack, CloseUpstream, Cleanup, Finish, Goto, Told,
     Reached, Booked
<1>10. CASE BeginClose \/ CloseReturns \/ HandlersDrained \/ DrainTimesOut
  BY <1>10 DEF NotBooking, BeginClose, CloseReturns, HandlersDrained, DrainTimesOut, Told, Reached,
     Booked
<1>11. ASSUME NEW s \in Sockets, CloseSocket(s) PROVE NotBooking
  BY <1>11 DEF NotBooking, CloseSocket, Told, Reached, Booked
<1>12. CASE CloseListener
  BY <1>12 DEF TypeInv, TypeOK, DestInv, Unconnected, NotBooking, CloseListener, Told, Reached,
     Booked
<1>13. ASSUME NEW c \in Conns, Recording(c) PROVE NotBooking
  <2>1. UNCHANGED <<phase, drained, report, policy, req, addr, bytes, traffic>>
    BY <1>13 DEF Recording, Deny, DialRefusedReply, RecordConnect, RecordFinding
  <2>2. Booked' = Booked
    BY <1>13 DEF TypeInv, TypeOK, DestInv, Unconnected, Recording, Deny, DialRefusedReply, RecordConnect, RecordFinding, Goto,
       Booked
  <2>3. ASSUME NEW e, e.type # "proxy-upload-heavy", violations' = Append(violations, e)
        PROVE  \A x \in Told' : x \in Told \/ x.type # "proxy-upload-heavy"
    BY <2>3, OneMore
  <2>4. \A x \in Told' : x \in Told \/ x.type # "proxy-upload-heavy"
    <3>1. CASE UNCHANGED violations
      BY <3>1 DEF Told
    <3>2. CASE Deny(c) \/ DialRefusedReply(c)
      BY <3>2, <2>3 DEF Deny, DialRefusedReply, RecordViolation, Entry
    <3>3. CASE RecordConnect(c)
      BY <3>1, <3>3, <2>3 DEF RecordConnect, Entry
    <3>4. ASSUME NEW f \in todo[c], RecordFinding(c, f)
          PROVE  \A x \in Told' : x \in Told \/ x.type # "proxy-upload-heavy"
      BY <3>1, <3>4, <2>3 DEF RecordFinding, Entry
    <3> QED
      BY <1>13, <3>2, <3>3, <3>4 DEF Recording
  <2> QED
    BY <2>1, <2>2, <2>4 DEF NotBooking, Reached, Booked
<1> QED
  BY <1>1, <1>2, <1>3, <1>4, <1>5, <1>6, <1>7, <1>8, <1>9, <1>10, <1>11, <1>12, <1>13 DEF
     Recording, Next, AcceptLoop, FlushStep, Handler, HandlerStep, ReadReturns, DialReturns,
     TunnelReturns, RecordURL, CopyFindsClosed, PeerFinishes, CopyWriteFails

LEMMA TargetsFinite ==
  ASSUME NEW r, NEW cs \in SUBSET Conns
  PROVE  IsFiniteSet({Target(r[c]) : c \in cs})
<1> DEFINE g == [c \in cs |-> Target(r[c])]
<1>1. IsFiniteSet(cs)
  BY ProxyAssumption, FS_Subset
<1>2. g \in Surjection(cs, {Target(r[c]) : c \in cs})
  BY DEF Surjection
<1> QED
  BY <1>1, <1>2, FS_Surjection

LEMMA NotBookingKeeps ==
  ASSUME TrafficInv, NotBooking
  PROVE  TrafficInv'
<1>1. Booked \subseteq Reached /\ Reached \subseteq Conns /\ Reached \subseteq Reached'
  BY DEF Booked, Reached, NotBooking
<1>2. ASSUME WithinCap', phase' # "reported"
      PROVE  /\ DOMAIN traffic' = TargetsOf(Booked)'
             /\ \A t \in TargetsOf(Booked)' : traffic'[t] = BytesIn(bytes', ToTarget(Booked, t)')
  <2>1. TargetsOf(Reached) \subseteq TargetsOf(Reached)'
    BY <1>1 DEF TargetsOf, NotBooking, Target
  <2>2. IsFiniteSet(TargetsOf(Reached)')
    <3>1. Reached' \subseteq Conns
      BY DEF Reached
    <3> QED
      BY <3>1, TargetsFinite DEF TargetsOf
  <2>3. WithinCap
    <3>1. Cardinality(TargetsOf(Reached)) <= Cardinality(TargetsOf(Reached)')
      BY <2>1, <2>2, FS_Subset
    <3>2. Cardinality(TargetsOf(Reached)) \in Nat /\ Cardinality(TargetsOf(Reached)') \in Nat
      BY <2>1, <2>2, FS_Subset, FS_CardinalityType
    <3> QED
      BY <1>2, <3>1, <3>2, ProxyAssumption DEF WithinCap, NotBooking
  <2>4. TargetsOf(Booked)' = TargetsOf(Booked)
    BY <1>1 DEF TargetsOf, NotBooking, Target
  <2>5. \A t : ToTarget(Booked, t)' = ToTarget(Booked, t)
    BY <1>1 DEF ToTarget, NotBooking, Target
  <2>6. \A t : BytesIn(bytes', ToTarget(Booked, t)) = BytesIn(bytes, ToTarget(Booked, t))
    BY BytesInSame DEF ToTarget, NotBooking
  <2>7. phase # "reported" /\ UNCHANGED traffic
    BY <1>2 DEF NotBooking
  <2> QED
    BY <2>3, <2>4, <2>5, <2>6, <2>7 DEF TrafficInv, BookedInv
<1>3. ASSUME phase' = "reported", drained', WithinCap'
      PROVE  HeavyNamed' = HeavyOf(Reached)'
  <2>1. phase = "reported" /\ drained /\ UNCHANGED <<policy, req, addr, bytes, report>>
    BY <1>3 DEF NotBooking
  <2>2. WithinCap /\ HeavyNamed' = HeavyNamed /\ HeavyOf(Reached)' = HeavyOf(Reached)
    BY <1>3, <2>1 DEF WithinCap, HeavyNamed, HeavyOf, TargetsOf, ToTarget, Reached, Target
  <2> QED
    BY <2>1, <2>2 DEF TrafficInv, HeavyInv
<1>4. \A e \in Told' : e.type # "proxy-upload-heavy"
  BY DEF TrafficInv, HeavyInv, NotBooking
<1> QED
  BY <1>2, <1>3, <1>4 DEF TrafficInv, BookedInv, HeavyInv

LEMMA RecordTrafficKeeps ==
  ASSUME TypeInv, NetInv, DestInv, TrafficInv, NEW c \in Conns, RecordTraffic(c)
  PROVE  TrafficInv'
<1> DEFINE t == Target(req[c])
           v == bytes[c]
<1>1. /\ c \in Reached /\ c \notin Booked /\ Booked' = Booked \cup {c}
      /\ UNCHANGED <<policy, req, addr, bytes, violations, phase, drained, report>>
  BY DEF RecordTraffic, Goto, TypeInv, TypeOK, DestInv, Holding, Registered, Reached, Booked
<1>2. Serving(c) /\ ~drained
  BY DEF RecordTraffic, Goto, NetInv, FlushOrder, Serving
<1>3. Booked \subseteq Reached /\ Reached \subseteq Conns /\ Reached' = Reached
  BY <1>1 DEF Booked, Reached
<1>4. /\ TargetsOf(Booked)' = TargetsOf(Booked) \cup {t}
      /\ \A x : ToTarget(Booked, x)' = IF x = t THEN ToTarget(Booked, t) \cup {c}
                                              ELSE ToTarget(Booked, x)
  BY <1>1 DEF TargetsOf, ToTarget, Target
<1>5. ASSUME WithinCap', phase' # "reported"
      PROVE  /\ DOMAIN traffic' = TargetsOf(Booked)'
             /\ \A x \in TargetsOf(Booked)' : traffic'[x] = BytesIn(bytes', ToTarget(Booked, x)')
  <2>1. WithinCap /\ phase # "reported"
    BY <1>1, <1>3, <1>5 DEF WithinCap, TargetsOf, Target
  <2>2. /\ DOMAIN traffic = TargetsOf(Booked)
        /\ \A x \in TargetsOf(Booked) : traffic[x] = BytesIn(bytes, ToTarget(Booked, x))
    BY <2>1 DEF TrafficInv, BookedInv
  <2>3. ASSUME t \notin DOMAIN traffic PROVE ~(Cardinality(DOMAIN traffic) >= MaxConnect)
    <3>1. TargetsOf(Booked) \cup {t} \subseteq TargetsOf(Reached)
      BY <1>1, <1>3 DEF TargetsOf
    <3>2. IsFiniteSet(TargetsOf(Reached))
      BY <1>3, TargetsFinite DEF TargetsOf
    <3>3. IsFiniteSet(TargetsOf(Booked)) /\ IsFiniteSet(TargetsOf(Booked) \cup {t})
      BY <3>1, <3>2, FS_Subset
    <3>4. Cardinality(TargetsOf(Booked) \cup {t}) = Cardinality(TargetsOf(Booked)) + 1
      BY <2>2, <2>3, <3>3, FS_AddElement
    <3>5. Cardinality(TargetsOf(Booked) \cup {t}) <= Cardinality(TargetsOf(Reached))
      BY <3>1, <3>2, FS_Subset
    <3>6. Cardinality(TargetsOf(Booked)) \in Nat /\ Cardinality(TargetsOf(Reached)) \in Nat
      BY <3>2, <3>3, FS_CardinalityType
    <3> QED
      BY <2>1, <2>2, <3>4, <3>5, <3>6, ProxyAssumption DEF WithinCap
  <2>4. traffic' = [x \in DOMAIN traffic \cup {t} |->
                      IF x = t THEN [up   |-> TrafficTo(t).up + v.up,
                                     down |-> TrafficTo(t).down + v.down]
                               ELSE traffic[x]]
    BY <2>1, <2>3 DEF RecordTraffic, WithinCap
  <2>5. TrafficTo(t) = BytesIn(bytes, ToTarget(Booked, t))
    <3>1. CASE t \in DOMAIN traffic
      BY <2>2, <3>1 DEF TrafficTo
    <3>2. CASE t \notin DOMAIN traffic
      <4>1. ToTarget(Booked, t) = {}
        BY <2>2, <3>2 DEF TargetsOf, ToTarget
      <4> QED
        BY <3>2, <4>1, BytesInNone DEF TrafficTo
    <3> QED
      BY <3>1, <3>2
  <2>6. BytesIn(bytes, ToTarget(Booked, t) \cup {c}) =
          [up |-> TrafficTo(t).up + v.up, down |-> TrafficTo(t).down + v.down]
    <3>1. ToTarget(Booked, t) \in SUBSET Conns /\ c \in Conns \ ToTarget(Booked, t)
      BY <1>1, <1>3 DEF ToTarget
    <3>2. bytes \in [Conns -> ByteCounts]
      BY DEF TypeInv, TypeOK
    <3> QED
      BY <2>5, <3>1, <3>2, BytesInMore
  <2> HIDE DEF t, v
  <2>7. DOMAIN traffic' = TargetsOf(Booked)'
    BY <1>4, <2>2, <2>4
  <2>8. ASSUME NEW x \in TargetsOf(Booked)'
        PROVE  traffic'[x] = BytesIn(bytes', ToTarget(Booked, x)')
    <3>1. CASE x = t
      BY <1>1, <1>4, <2>4, <2>6, <3>1
    <3>2. CASE x # t
      <4>1. x \in TargetsOf(Booked)
        BY <1>4, <2>8, <3>2
      <4> QED
        BY <1>1, <1>4, <2>2, <2>4, <3>2, <4>1
    <3> QED
      BY <3>1, <3>2
  <2> QED
    BY <2>7, <2>8
<1>6. HeavyInv'
  BY <1>1, <1>2 DEF TrafficInv, HeavyInv, Told
<1> QED
  BY <1>5, <1>6 DEF TrafficInv, BookedInv

LEMMA SnapshotTellsHeavy ==
  ASSUME TypeInv, NetInv, DestInv, TrafficInv, ViolationsSnapshot
  PROVE  TrafficInv'
<1>1. /\ phase = "snapshot" /\ phase' = "reported" /\ violations' = <<>>
      /\ report' = Told \cup UploadHeavyEntries(traffic)
      /\ UNCHANGED <<policy, req, addr, bytes, drained>>
  BY DEF ViolationsSnapshot, Told
<1>2. \A e \in Told' : e.type # "proxy-upload-heavy"
  BY <1>1 DEF Told
<1>3. ASSUME drained', WithinCap' PROVE HeavyNamed' = HeavyOf(Reached)'
  <2>1. drained /\ WithinCap /\ Reached' = Reached /\ HeavyOf(Reached)' = HeavyOf(Reached)
    BY <1>1, <1>3 DEF WithinCap, TargetsOf, HeavyOf, ToTarget, Reached, Target
  <2>2. Reached = Booked
    BY <2>1 DEF TypeInv, TypeOK, PCs, NetInv, FlushOrder, Serving, DestInv, Unconnected, Reached,
       Booked
  <2>3. /\ DOMAIN traffic = TargetsOf(Reached)
        /\ \A t \in DOMAIN traffic : traffic[t] = BytesIn(bytes, ToTarget(Reached, t))
    BY <1>1, <2>1, <2>2 DEF TrafficInv, BookedInv
  <2>4. Total(traffic) = BytesIn(bytes, Reached)
    <3> DEFINE T == DOMAIN traffic
               k == [c \in Reached |-> Target(req[c])]
               U == [c \in Conns |-> bytes[c].up]
               D == [c \in Conns |-> bytes[c].down]
               gu == [t \in T |-> traffic[t].up]
               gd == [t \in T |-> traffic[t].down]
    <3>1. IsFiniteSet(T) /\ IsFiniteSet(Reached) /\ Reached \in SUBSET Conns
      <4>1. Reached \in SUBSET Conns
        BY DEF Reached
      <4>2. IsFiniteSet(TargetsOf(Reached))
        BY <4>1, TargetsFinite DEF TargetsOf
      <4> QED
        BY <2>3, <4>1, <4>2, ProxyAssumption, FS_Subset
    <3>2. /\ \A c \in Reached : k[c] \in T
          /\ \A t \in T : ToTarget(Reached, t) = {c \in Reached : k[c] = t}
      BY <2>3 DEF TargetsOf, ToTarget
    <3>3. /\ \A c \in Reached : U[c] \in Nat
          /\ \A c \in Reached : D[c] \in Nat
      BY DEF TypeInv, TypeOK, ByteCounts, Reached
    <3>4. \A cs \in SUBSET Conns :
            BytesIn(bytes, cs) = [up |-> SumOver(U, cs), down |-> SumOver(D, cs)]
      BY BytesInOf DEF TypeInv, TypeOK
    <3>5. \A t \in T : ToTarget(Reached, t) \in SUBSET Conns
      BY <3>1 DEF ToTarget
    <3>6. ASSUME NEW t \in T
          PROVE  /\ gu[t] = SumOver(U, {c \in Reached : k[c] = t})
                 /\ gd[t] = SumOver(D, {c \in Reached : k[c] = t})
      <4>1. traffic[t] = BytesIn(bytes, ToTarget(Reached, t))
        BY <2>3
      <4>2. /\ gu[t] = BytesIn(bytes, ToTarget(Reached, t)).up
            /\ gd[t] = BytesIn(bytes, ToTarget(Reached, t)).down
        BY <4>1
      <4> HIDE DEF U, D, k, gu, gd
      <4>3. BytesIn(bytes, ToTarget(Reached, t)) =
              [up |-> SumOver(U, ToTarget(Reached, t)), down |-> SumOver(D, ToTarget(Reached, t))]
        BY <3>4, <3>5
      <4> QED
        BY <3>2, <4>2, <4>3
    <3> HIDE DEF T, k, U, D, gu, gd
    <3>7. ASSUME NEW f, \A c \in Reached : f[c] \in Nat,
                 NEW g, \A t \in T : g[t] = SumOver(f, {c \in Reached : k[c] = t})
          PROVE  SumOver(g, T) = SumOver(f, Reached)
      <4>1. SumsByKey(g, T, f, Reached, k)
        BY <3>2, <3>7 DEF SumsByKey
      <4> QED
        BY <3>1, <4>1, SumOfSums
    <3>8. SumOver(gu, T) = SumOver(U, Reached) /\ SumOver(gd, T) = SumOver(D, Reached)
      <4>1. SumOver(gu, T) = SumOver(U, Reached)
        BY <3>3, <3>6, <3>7
      <4>2. SumOver(gd, T) = SumOver(D, Reached)
        BY <3>3, <3>6, <3>7
      <4> QED
        BY <4>1, <4>2
    <3>9. MapThenSumSet(LAMBDA t : traffic[t].up, T) = SumOver(gu, T)
      BY <3>1, UpSum DEF gu
    <3>10. MapThenSumSet(LAMBDA t : traffic[t].down, T) = SumOver(gd, T)
      BY <3>1, DownSum DEF gd
    <3>11. Total(traffic) = [up |-> SumOver(gu, T), down |-> SumOver(gd, T)]
      BY <3>9, <3>10 DEF Total, T
    <3> QED
      BY <3>1, <3>4, <3>8, <3>11
  <2>5. HeavyTargets(traffic) =
          {t \in TargetsOf(Reached) : Lopsided(BytesIn(bytes, ToTarget(Reached, t)))}
    BY <2>3 DEF HeavyTargets
  <2>6. {e.target : e \in UploadHeavyEntries(traffic)} = HeavyOf(Reached)
    <3>1. HeavyOf(Reached) =
            IF HeavyTargets(traffic) # {} THEN HeavyTargets(traffic)
            ELSE IF Cardinality(DOMAIN traffic) > 1 /\ Lopsided(Total(traffic))
                 THEN {Overflow} ELSE {}
      BY <2>3, <2>4, <2>5 DEF HeavyOf
    <3>2. CASE HeavyTargets(traffic) # {}
      <4>1. UploadHeavyEntries(traffic) =
              {Entry("proxy-upload-heavy", t) : t \in HeavyTargets(traffic)}
        BY <3>2 DEF UploadHeavyEntries
      <4>2. \A t \in HeavyTargets(traffic) :
              /\ Entry("proxy-upload-heavy", t) \in UploadHeavyEntries(traffic)
              /\ Entry("proxy-upload-heavy", t).target = t
        BY <4>1 DEF Entry
      <4>3. \A e \in UploadHeavyEntries(traffic) : e.target \in HeavyTargets(traffic)
        BY <4>1 DEF Entry
      <4>4. {e.target : e \in UploadHeavyEntries(traffic)} = HeavyTargets(traffic)
        BY <4>2, <4>3
      <4> QED
        BY <3>1, <3>2, <4>4
    <3>3. CASE HeavyTargets(traffic) = {} /\ Cardinality(DOMAIN traffic) > 1 /\ Lopsided(Total(traffic))
      <4>1. UploadHeavyEntries(traffic) = {Entry("proxy-upload-heavy", Overflow)}
        BY <3>3 DEF UploadHeavyEntries
      <4> QED
        BY <3>1, <3>3, <4>1 DEF Entry
    <3>4. CASE HeavyTargets(traffic) = {} /\ ~(Cardinality(DOMAIN traffic) > 1 /\ Lopsided(Total(traffic)))
      BY <3>1, <3>4 DEF UploadHeavyEntries
    <3> QED
      BY <3>2, <3>3, <3>4
  <2>7. \A e \in UploadHeavyEntries(traffic) : e.type = "proxy-upload-heavy"
    BY DEF UploadHeavyEntries, Entry
  <2>8. {x \in report' : x.type = "proxy-upload-heavy"} = UploadHeavyEntries(traffic)
    BY <1>1, <2>7 DEF TrafficInv, HeavyInv
  <2> QED
    BY <2>1, <2>6, <2>8 DEF HeavyNamed
<1> QED
  BY <1>1, <1>2, <1>3 DEF TrafficInv, BookedInv, HeavyInv

\* Until the flush, the bytes booked of each target are those of its tunnels
\* whose handlers have booked them; from then on the entries stand for them.
THEOREM TrafficInvariant == Spec => []TrafficInv
<1>1. Init => TrafficInv
  <2> SUFFICES ASSUME Init PROVE TrafficInv
    OBVIOUS
  <2>1. Booked = {} /\ DOMAIN traffic = {} /\ Told = {} /\ phase = "running"
    BY DEF Init, Booked, Told
  <2> QED
    BY <2>1 DEF TrafficInv, BookedInv, HeavyInv, TargetsOf
<1>2. TypeInv /\ NetInv /\ DestInv /\ RecordInv /\ TrafficInv /\ [Next]_vars => TrafficInv'
  BY BookingSteps, NotBookingKeeps, RecordTrafficKeeps, SnapshotTellsHeavy DEF RecordInv
<1> QED
  BY <1>1, <1>2, TypeInvariant, NetInvariant, DestInvariant, RecordInvariant, PTL DEF Spec

\* UploadHeavyIsExact: a flush that saw its handlers end names exactly the
\* targets whose tunnels together, the ones Close cut included, uploaded far
\* more than they downloaded, or the run as a whole when only its sum did.
THEOREM UploadHeavyExact == Spec => []UploadHeavyIsExact
<1>1. TrafficInv => UploadHeavyIsExact
  <2> SUFFICES ASSUME TrafficInv PROVE UploadHeavyIsExact
    OBVIOUS
  <2>1. Reached \in SUBSET Conns /\ \A t : ToTarget(Reached, t) \in SUBSET Conns
    BY DEF Reached, ToTarget
  <2>2. /\ TunnelBytes(Reached) = BytesIn(bytes, Reached)
        /\ \A t : TunnelBytes(ToTarget(Reached, t)) = BytesIn(bytes, ToTarget(Reached, t))
    BY <2>1, TunnelBytesAre
  <2>3. phase = "reported" /\ drained /\ WithinCap => HeavyNamed = HeavyOf(Reached)
    BY DEF TrafficInv, HeavyInv
  <2>4. {t \in TargetsOf(Reached) : Lopsided(TunnelBytes(ToTarget(Reached, t)))} =
          {t \in TargetsOf(Reached) : Lopsided(BytesIn(bytes, ToTarget(Reached, t)))}
    BY <2>2
  <2>5. phase = "reported" /\ drained /\ WithinCap =>
          HeavyNamed =
            LET lopsided == {t \in TargetsOf(Reached) :
                               Lopsided(TunnelBytes(ToTarget(Reached, t)))}
            IN  IF lopsided # {} THEN lopsided
                ELSE IF Cardinality(TargetsOf(Reached)) > 1 /\ Lopsided(TunnelBytes(Reached))
                     THEN {Overflow} ELSE {}
    BY <2>2, <2>3, <2>4 DEF HeavyOf
  <2> QED
    BY <2>5 DEF UploadHeavyIsExact, HeavyNamed, WithinCap, TargetsOf, ToTarget
<1> QED
  BY <1>1, TrafficInvariant, PTL
==============================================================================
