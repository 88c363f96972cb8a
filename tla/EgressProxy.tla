----------------------------- MODULE EgressProxy -----------------------------
(***************************************************************************)
(* The egress proxy (go/cmd/safer-exec/proxy.go) as a concurrent program:  *)
(* the accept loop, one handler goroutine per client connection with its   *)
(* two tunnel copies, and the engine's flush, which closes the proxy while *)
(* handlers are anywhere in their work.                                    *)
(*                                                                         *)
(* A connection is identified with its client, c.  It has two sockets, the *)
(* accepted one <<"client", c>> and the dialed one <<"upstream", c>>.  A   *)
(* critical section under p.mu is one step; what happens between two of    *)
(* them (a read, a dial, a Close of a socket) is a step of its own.        *)
(***************************************************************************)
EXTENDS ProxyPolicy, Sequences, FiniteSets, FiniteSetsExt

CONSTANTS
  Conns,           \* client connections
  Configs,         \* the configurations a run may start the proxy with
  Requests,        \* the well-formed requests a client may send
  Volumes,         \* byte counts [up, down] of a finished tunnel
  MaxConnect,      \* maxProxyConnectEntries
  MaxFindings,     \* maxProxyFindings
  MaxCiphers,      \* maxProxyCipherEntries
  UploadHeavyMin,  \* uploadHeavyMinBytes
  UploadHeavyRatio,\* uploadHeavyRatio
  NoRequest

ASSUME ProxyAssumption ==
  /\ IsFiniteSet(Conns)
  /\ MaxConnect \in Nat /\ MaxFindings \in Nat /\ MaxCiphers \in Nat
  /\ UploadHeavyMin \in Nat /\ UploadHeavyRatio \in Nat
  /\ Volumes \subseteq [up : Nat, down : Nat]
  /\ NoRequest \notin Requests

VARIABLES
  policy,       \* the compiled allowlist and modes, fixed for the run
  lnOpen,       \* the listener is open
  acceptPC,     \* the accept loop: "accept", "admit" (holds a connection), "stopped"
  closed,       \* p.closed
  conns,        \* p.conns: the sockets Close will close
  open,         \* the sockets this process holds open
  pc,           \* pc[c]: where connection c and its handler are
  req,          \* req[c]: the request the handler read
  addr,         \* addr[c]: the address its dial reached, as a set of at most one
  copies,       \* copies[c]: the tunnel directions still being copied
  todo,         \* todo[c]: what the detectors will report of c and have not yet
  bytes,        \* bytes[c]: what the tunnel returned, [up, down]
  handlers,     \* p.handlers, the WaitGroup's count
  violations,   \* p.violations
  connected,    \* p.connected
  ciphers,      \* p.ciphers (p.cipherSeen holds their keys)
  traffic,      \* p.traffic: target -> [up, down], on the targets seen
  findings,     \* p.findings
  findingCount, \* p.findingCount
  phase,        \* the engine's flush: "running", "listener", "closing", "waiting", "snapshot", "reported"
  snapshot,     \* the sockets Close copied and has not closed yet
  drained,      \* the flush saw the handlers end, rather than time out
  report        \* the entries emitted

netVars    == <<lnOpen, acceptPC, closed, conns, open>>
locals == <<req, addr, copies, todo, bytes>>
handlerVars == <<pc, locals, handlers>>
recordVars == <<violations, connected, ciphers, traffic, findings, findingCount>>
flushVars  == <<phase, snapshot, drained, report>>
vars == <<policy, netVars, handlerVars, recordVars, flushVars>>

Client(c)   == <<"client", c>>
Upstream(c) == <<"upstream", c>>
Sockets == {"client", "upstream"} \X Conns
Directions == {"up", "down"}
Reads(d, c)  == IF d = "up" THEN Client(c) ELSE Upstream(c)
Writes(d, c) == IF d = "up" THEN Upstream(c) ELSE Client(c)

PCs == {"idle", "queued", "accepted", "reset", "reading", "decide", "dial",
        "refused", "track", "connect", "tunnel", "half", "count", "untrack",
        "upstream", "cleanup", "finish", "done"}
\* The handler goroutine of c is running.
Serving(c) == pc[c] \notin {"idle", "queued", "accepted", "reset", "done"}
------------------------------------------------------------------------------
(***************************************************************************)
(* Requests.  form is "connect" or "absolute" (a plain-HTTP request with   *)
(* an http:// or https:// target), or "unsplittable" (a CONNECT whose      *)
(* target has no host:port).  host is <<name or literal, spelling>>: the   *)
(* spelling stands for letter case, brackets, the root dot and the many    *)
(* spellings of an IP literal.  names are the hosts the detectors find in  *)
(* the request: the TLS server name of a tunnel, the hosts of URLs inside  *)
(* a plain request.  shakes are the TLS parameter sets of its handshake.   *)
(***************************************************************************)
NormalizeProxyHost(spelled) == spelled[1]

Target(r) == <<NormalizeProxyHost(r.host), r.port>>

(***************************************************************************)
(* What the detectors report of an accepted request: the server names and  *)
(* embedded hosts other than the request's own host when auditing, and the *)
(* handshake when tracing crypto.                                          *)
(***************************************************************************)
FindingType(r) ==
  IF r.form = "connect" THEN "proxy-sni-mismatch" ELSE "proxy-embedded-url"

Suspects(r) ==
  IF policy.detect
  THEN {<<FindingType(r), Target(r), n>> :
          n \in r.names \ {NormalizeProxyHost(r.host), NoHost}}
  ELSE {}

Handshakes(r) ==
  IF policy.observe /\ r.form = "connect"
  THEN {<<"tls", Target(r), h>> : h \in r.shakes}
  ELSE {}

FindingTypes == {"proxy-sni-mismatch", "proxy-embedded-url"}
Entry(type, target) == [type |-> type, target |-> target]
Overflow == <<NoHost, 0>>     \* the target "proxy" of the "more than N" entry

\* A target that has a host and a port is not "proxy".
ASSUME OverflowAssumption ==
  \A r \in Requests : r.form # "unsplittable" => Target(r) # Overflow

(***************************************************************************)
(* p.traffic and the upload-heavy entries computed from it.                *)
(***************************************************************************)
TrafficTo(t) == IF t \in DOMAIN traffic THEN traffic[t] ELSE [up |-> 0, down |-> 0]

Lopsided(v) == v.up >= UploadHeavyMin /\ v.up >= UploadHeavyRatio * v.down

Total(tr) == [up   |-> MapThenSumSet(LAMBDA t : tr[t].up, DOMAIN tr),
              down |-> MapThenSumSet(LAMBDA t : tr[t].down, DOMAIN tr)]

HeavyTargets(tr) == {t \in DOMAIN tr : Lopsided(tr[t])}

\* The upload-heavy entries: one per heavy target, or one for the run as a
\* whole when only the sum over several targets is lopsided.
UploadHeavyEntries(tr) ==
  IF HeavyTargets(tr) # {}
  THEN {Entry("proxy-upload-heavy", t) : t \in HeavyTargets(tr)}
  ELSE IF Cardinality(DOMAIN tr) > 1 /\ Lopsided(Total(tr))
       THEN {Entry("proxy-upload-heavy", Overflow)}
       ELSE {}
------------------------------------------------------------------------------
Init ==
  /\ policy \in {Compile(cfg) : cfg \in Configs}
  /\ lnOpen = TRUE /\ acceptPC = "accept" /\ closed = FALSE
  /\ conns = {} /\ open = {}
  /\ pc = [c \in Conns |-> "idle"]
  /\ req = [c \in Conns |-> NoRequest]
  /\ addr = [c \in Conns |-> {}]
  /\ copies = [c \in Conns |-> {}]
  /\ todo = [c \in Conns |-> {}]
  /\ bytes = [c \in Conns |-> [up |-> 0, down |-> 0]]
  /\ handlers = 0
  /\ violations = <<>> /\ connected = {} /\ ciphers = {}
  /\ traffic = <<>>
  /\ findings = {} /\ findingCount = [t \in FindingTypes |-> 0]
  /\ phase = "running" /\ snapshot = {} /\ drained = FALSE /\ report = {}

Goto(c, from, to) == pc[c] = from /\ pc' = [pc EXCEPT ![c] = to]
------------------------------------------------------------------------------
(***************************************************************************)
(* The accept loop.  Admission (registering the socket and counting the    *)
(* handler) happens under the same lock that Close takes to set closed.    *)
(***************************************************************************)
Connect(c) ==
  /\ lnOpen
  /\ Goto(c, "idle", "queued")
  /\ UNCHANGED <<policy, netVars, locals, handlers, recordVars, flushVars>>

Accept(c) ==
  /\ lnOpen /\ acceptPC = "accept"
  /\ acceptPC' = "admit"
  /\ open' = open \cup {Client(c)}
  /\ Goto(c, "queued", "accepted")
  /\ UNCHANGED <<policy, lnOpen, closed, conns, locals, handlers, recordVars,
                 flushVars>>

\* Slips: the closed flag is not looked at; the handler is not counted.
AdmitUnchecked(c) ==
  /\ acceptPC' = "accept"
  /\ conns' = conns \cup {Client(c)}
  /\ handlers' = handlers + 1
  /\ Goto(c, "accepted", "reading")
  /\ UNCHANGED <<policy, lnOpen, closed, open, locals, recordVars, flushVars>>

AdmitUncounted(c) ==
  /\ ~closed
  /\ acceptPC' = "accept"
  /\ conns' = conns \cup {Client(c)}
  /\ Goto(c, "accepted", "reading")
  /\ UNCHANGED <<policy, lnOpen, closed, open, locals, handlers, recordVars, flushVars>>

Admit(c) ==
  /\ ~closed
  /\ acceptPC' = "accept"
  /\ conns' = conns \cup {Client(c)}
  /\ handlers' = handlers + 1
  /\ Goto(c, "accepted", "reading")
  /\ UNCHANGED <<policy, lnOpen, closed, open, locals, recordVars, flushVars>>

TurnAway(c) ==
  /\ closed
  /\ acceptPC' = "stopped"
  /\ open' = open \ {Client(c)}
  /\ Goto(c, "accepted", "reset")
  /\ UNCHANGED <<policy, lnOpen, closed, conns, locals, handlers, recordVars,
                 flushVars>>

AcceptFails ==
  /\ ~lnOpen /\ acceptPC = "accept"
  /\ acceptPC' = "stopped"
  /\ UNCHANGED <<policy, lnOpen, closed, conns, open, handlerVars, recordVars,
                 flushVars>>
------------------------------------------------------------------------------
(***************************************************************************)
(* The handler.  A read fails when the peer is gone, the 30 s deadline has *)
(* passed, Close closed the socket, or the line is not a proxy request.    *)
(***************************************************************************)
ReadRequest(c, r) ==
  /\ Client(c) \in open
  /\ Goto(c, "reading", "decide")
  /\ req' = [req EXCEPT ![c] = r]
  /\ UNCHANGED <<policy, netVars, addr, copies, todo, bytes, handlers, recordVars,
                 flushVars>>

ReadFails(c) ==
  /\ Goto(c, "reading", "cleanup")
  /\ UNCHANGED <<policy, netVars, locals, handlers, recordVars, flushVars>>

RecordViolation(c) ==
  violations' = Append(violations, Entry("proxy-violation", Target(req[c])))

Allowed(r) ==
  r.form # "unsplittable" /\ TargetAllowed(policy, NormalizeProxyHost(r.host), r.port)

Deny(c) ==
  /\ Goto(c, "decide", "cleanup")
  /\ ~Allowed(req[c])
  /\ RecordViolation(c)
  /\ UNCHANGED <<policy, netVars, locals, handlers, connected, ciphers, traffic,
                 findings, findingCount, flushVars>>

\* For a CONNECT the rest of the header is read first; its end, an error and
\* the deadline all lead on to the dial.
StartDial(c) ==
  /\ Goto(c, "decide", "dial")
  /\ Allowed(req[c])
  /\ UNCHANGED <<policy, netVars, locals, handlers, recordVars, flushVars>>

(***************************************************************************)
(* The dial takes up to 15 s and nothing cancels it: Close may come and go *)
(* meanwhile.                                                              *)
(***************************************************************************)
\* A slip: the dialer has no Control function.
DialSucceedsUnchecked(c, a) ==
  /\ Goto(c, "dial", "track")
  /\ a \in AddressesOf(NormalizeProxyHost(req[c].host))
  /\ open' = open \cup {Upstream(c)}
  /\ addr' = [addr EXCEPT ![c] = {a}]
  /\ UNCHANGED <<policy, lnOpen, acceptPC, closed, conns, req, copies, todo, bytes,
                 handlers, recordVars, flushVars>>

DialSucceeds(c, a) ==
  LET h == NormalizeProxyHost(req[c].host) IN
  /\ Goto(c, "dial", "track")
  /\ a \in AddressesOf(h) /\ DialPermitted(policy, h, a)
  /\ open' = open \cup {Upstream(c)}
  /\ addr' = [addr EXCEPT ![c] = {a}]
  /\ UNCHANGED <<policy, lnOpen, acceptPC, closed, conns, req, copies, todo, bytes,
                 handlers, recordVars, flushVars>>

DialRefused(c, a) ==
  LET h == NormalizeProxyHost(req[c].host) IN
  /\ Goto(c, "dial", "refused")
  /\ a \in AddressesOf(h) /\ ~DialPermitted(policy, h, a)
  /\ UNCHANGED <<policy, netVars, locals, handlers, recordVars, flushVars>>

DialFails(c) ==
  /\ Goto(c, "dial", "cleanup")
  /\ UNCHANGED <<policy, netVars, locals, handlers, recordVars, flushVars>>

DialRefusedReply(c) ==
  /\ Goto(c, "refused", "cleanup")
  /\ RecordViolation(c)
  /\ UNCHANGED <<policy, netVars, locals, handlers, connected, ciphers, traffic,
                 findings, findingCount, flushVars>>

(***************************************************************************)
(* track registers the upstream for Close, or closes it at once when Close *)
(* has already run; the handler goes on in both cases.                     *)
(***************************************************************************)
\* A slip: an upstream that comes after Close is registered all the same.
TrackUnchecked(c) ==
  /\ Goto(c, "track", "connect")
  /\ conns' = conns \cup {Upstream(c)}
  /\ UNCHANGED <<policy, lnOpen, acceptPC, closed, open, locals, handlers,
                 recordVars, flushVars>>

Track(c) ==
  /\ Goto(c, "track", "connect")
  /\ IF closed THEN open' = open \ {Upstream(c)} /\ UNCHANGED conns
               ELSE conns' = conns \cup {Upstream(c)} /\ UNCHANGED open
  /\ UNCHANGED <<policy, lnOpen, acceptPC, closed, locals, handlers, recordVars,
                 flushVars>>

\* A slip: nothing is recorded once the proxy is closed.
RecordConnectWhileOpen(c) ==
  LET t == Target(req[c]) IN
  /\ Goto(c, "connect", "tunnel")
  /\ IF closed \/ t \in connected \/ Cardinality(connected) >= MaxConnect
     THEN UNCHANGED <<connected, violations>>
     ELSE /\ connected' = connected \cup {t}
          /\ violations' = Append(violations, Entry("proxy-connect", t))
  /\ todo' = [todo EXCEPT ![c] = Suspects(req[c]) \cup Handshakes(req[c])]
  /\ copies' = [copies EXCEPT ![c] = Directions]
  /\ UNCHANGED <<policy, netVars, req, addr, bytes, handlers, ciphers, traffic,
                 findings, findingCount, flushVars>>

RecordConnect(c) ==
  LET t == Target(req[c]) IN
  /\ Goto(c, "connect", "tunnel")
  /\ IF t \in connected \/ Cardinality(connected) >= MaxConnect
     THEN UNCHANGED <<connected, violations>>
     ELSE /\ connected' = connected \cup {t}
          /\ violations' = Append(violations, Entry("proxy-connect", t))
  /\ todo' = [todo EXCEPT ![c] = Suspects(req[c]) \cup Handshakes(req[c])]
  /\ copies' = [copies EXCEPT ![c] = Directions]
  /\ UNCHANGED <<policy, netVars, req, addr, bytes, handlers, ciphers, traffic,
                 findings, findingCount, flushVars>>
------------------------------------------------------------------------------
(***************************************************************************)
(* The detectors.  A finding is recorded once per key and, per type, up to *)
(* MaxFindings; the first one past the cap is recorded as the overflow     *)
(* entry.  Embedded URLs are all recorded before the tunnel starts; the    *)
(* server name while the upload is copied, if the client ever sends a      *)
(* ClientHello; the handshake until the deferred obs.Close, if both hellos *)
(* were seen.                                                              *)
(***************************************************************************)
\* A slip: the cap stops the overflow entry too.
RecordFindingBelowCap(c, f) ==
  LET type == f[1] IN
  /\ f \in todo[c]
  /\ \/ type = "proxy-embedded-url" /\ pc[c] = "tunnel"
     \/ type = "proxy-sni-mismatch" /\ "up" \in copies[c]
  /\ todo' = [todo EXCEPT ![c] = @ \ {f}]
  /\ IF f \in findings \/ findingCount[type] >= MaxFindings
     THEN UNCHANGED <<findings, findingCount, violations>>
     ELSE /\ findings' = findings \cup {f}
          /\ findingCount' = [findingCount EXCEPT ![type] = @ + 1]
          /\ violations' = Append(violations, Entry(type, f[2]))
  /\ UNCHANGED <<policy, netVars, pc, req, addr, copies, bytes, handlers, connected,
                 ciphers, traffic, flushVars>>

RecordFinding(c, f) ==
  LET type == f[1] IN
  /\ f \in todo[c]
  /\ \/ type = "proxy-embedded-url" /\ pc[c] = "tunnel"
     \/ type = "proxy-sni-mismatch" /\ "up" \in copies[c]
  /\ todo' = [todo EXCEPT ![c] = @ \ {f}]
  /\ IF f \in findings \/ findingCount[type] > MaxFindings
     THEN UNCHANGED <<findings, findingCount, violations>>
     ELSE /\ findings' = findings \cup {f}
          /\ findingCount' = [findingCount EXCEPT ![type] = @ + 1]
          /\ violations' = Append(violations,
               Entry(type, IF findingCount'[type] > MaxFindings THEN Overflow ELSE f[2]))
  /\ UNCHANGED <<policy, netVars, pc, req, addr, copies, bytes, handlers, connected,
                 ciphers, traffic, flushVars>>

RecordTLS(c, o) ==
  /\ o \in todo[c] /\ o[1] = "tls"
  /\ pc[c] \in {"tunnel", "half", "count", "untrack"}
  /\ todo' = [todo EXCEPT ![c] = @ \ {o}]
  /\ ciphers' = IF o \in ciphers \/ Cardinality(ciphers) >= MaxCiphers
                THEN ciphers ELSE ciphers \cup {o}
  /\ UNCHANGED <<policy, netVars, pc, req, addr, copies, bytes, handlers, violations,
                 connected, traffic, findings, findingCount, flushVars>>
------------------------------------------------------------------------------
(***************************************************************************)
(* The tunnel: two copies.  A copy ends when its source ends (the peer     *)
(* finishes sending, which it may never do, or the socket is closed here)  *)
(* or when a write to its destination fails (the socket closed or shut for *)
(* writing).  After the first one, both sockets are shut for writing.      *)
(***************************************************************************)
TunnelStarted(c) == ~\E f \in todo[c] : f[1] = "proxy-embedded-url"

EndCopy(c, d) ==
  /\ d \in copies[c] /\ TunnelStarted(c)
  /\ copies' = [copies EXCEPT ![c] = @ \ {d}]
  /\ UNCHANGED <<policy, netVars, pc, req, addr, todo, bytes, handlers, recordVars,
                 flushVars>>

CopyFindsClosed(c, d) == Reads(d, c) \notin open /\ EndCopy(c, d)

PeerFinishes(c, d) == Reads(d, c) \in open /\ EndCopy(c, d)

CopyWriteFails(c, d) ==
  /\ Writes(d, c) \notin open \/ pc[c] = "half"
  /\ EndCopy(c, d)

HalfClose(c) ==
  /\ copies[c] # Directions
  /\ Goto(c, "tunnel", "half")
  /\ UNCHANGED <<policy, netVars, locals, handlers, recordVars, flushVars>>

TunnelEnds(c, v) ==
  /\ copies[c] = {}
  /\ Goto(c, "half", "count")
  /\ bytes' = [bytes EXCEPT ![c] = v]
  /\ UNCHANGED <<policy, netVars, req, addr, copies, todo, handlers, recordVars,
                 flushVars>>

\* A slip: a tunnel's bytes replace those of the target's earlier tunnels.
RecordTrafficOfLast(c) ==
  LET t == Target(req[c]) IN
  /\ Goto(c, "count", "untrack")
  /\ traffic' =
       IF ~policy.detect \/ (t \notin DOMAIN traffic /\ Cardinality(DOMAIN traffic) >= MaxConnect)
       THEN traffic
       ELSE [x \in DOMAIN traffic \cup {t} |-> IF x = t THEN bytes[c] ELSE traffic[x]]
  /\ UNCHANGED <<policy, netVars, locals, handlers, violations, connected, ciphers,
                 findings, findingCount, flushVars>>

RecordTraffic(c) ==
  LET t == Target(req[c])
      v == bytes[c]
  IN
  /\ Goto(c, "count", "untrack")
  /\ traffic' =
       IF ~policy.detect \/ (t \notin DOMAIN traffic /\ Cardinality(DOMAIN traffic) >= MaxConnect)
       THEN traffic
       ELSE [x \in DOMAIN traffic \cup {t} |->
               IF x = t THEN [up   |-> TrafficTo(t).up + v.up,
                              down |-> TrafficTo(t).down + v.down]
                        ELSE traffic[x]]
  /\ UNCHANGED <<policy, netVars, locals, handlers, violations, connected, ciphers,
                 findings, findingCount, flushVars>>

(***************************************************************************)
(* The deferred calls: forget and close the upstream (what track returned, *)
(* a no-op when track found the proxy closed), then the client socket, and *)
(* last the WaitGroup.                                                     *)
(***************************************************************************)
Untrack(c) ==
  /\ Goto(c, "untrack", "upstream")
  /\ conns' = conns \ {Upstream(c)}
  /\ todo' = [todo EXCEPT ![c] = {}]
  /\ UNCHANGED <<policy, lnOpen, acceptPC, closed, open, req, addr, copies, bytes,
                 handlers, recordVars, flushVars>>

CloseUpstream(c) ==
  /\ Goto(c, "upstream", "cleanup")
  /\ open' = open \ {Upstream(c)}
  /\ UNCHANGED <<policy, lnOpen, acceptPC, closed, conns, locals, handlers,
                 recordVars, flushVars>>

Cleanup(c) ==
  /\ Goto(c, "cleanup", "finish")
  /\ conns' = conns \ {Client(c)}
  /\ UNCHANGED <<policy, lnOpen, acceptPC, closed, open, locals, handlers, recordVars,
                 flushVars>>

Finish(c) ==
  /\ Goto(c, "finish", "done")
  /\ open' = open \ {Client(c)}
  /\ handlers' = handlers - 1
  /\ UNCHANGED <<policy, lnOpen, acceptPC, closed, conns, locals, recordVars,
                 flushVars>>
------------------------------------------------------------------------------
(***************************************************************************)
(* The engine's flush, once the command has exited: Close (mark closed and *)
(* copy the sockets under the lock, then close the listener and each       *)
(* socket), wait for the handlers or 2 s, then emit the snapshot.          *)
(***************************************************************************)
\* A slip: Close knows the clients' connections only.
BeginCloseOfClients ==
  /\ phase = "running"
  /\ phase' = "listener"
  /\ closed' = TRUE
  /\ snapshot' = conns \cap {Client(c) : c \in Conns}
  /\ UNCHANGED <<policy, lnOpen, acceptPC, conns, open, handlerVars, recordVars,
                 drained, report>>

BeginClose ==
  /\ phase = "running"
  /\ phase' = "listener"
  /\ closed' = TRUE
  /\ snapshot' = conns
  /\ UNCHANGED <<policy, lnOpen, acceptPC, conns, open, handlerVars, recordVars,
                 drained, report>>

\* Closing the listener also resets the connections nobody accepted.
CloseListener ==
  /\ phase = "listener"
  /\ phase' = "closing"
  /\ lnOpen' = FALSE
  /\ pc' = [c \in Conns |-> IF pc[c] = "queued" THEN "reset" ELSE pc[c]]
  /\ UNCHANGED <<policy, acceptPC, closed, conns, open, locals, handlers, recordVars,
                 snapshot, drained, report>>

CloseSocket(s) ==
  /\ phase = "closing"
  /\ s \in snapshot
  /\ snapshot' = snapshot \ {s}
  /\ open' = open \ {s}
  /\ UNCHANGED <<policy, lnOpen, acceptPC, closed, conns, handlerVars, recordVars,
                 phase, drained, report>>

CloseReturns ==
  /\ phase = "closing" /\ snapshot = {}
  /\ phase' = "waiting"
  /\ UNCHANGED <<policy, netVars, handlerVars, recordVars, snapshot, drained, report>>

HandlersDrained ==
  /\ phase = "waiting" /\ handlers = 0
  /\ phase' = "snapshot"
  /\ drained' = TRUE
  /\ UNCHANGED <<policy, netVars, handlerVars, recordVars, snapshot, report>>

DrainTimesOut ==
  /\ phase = "waiting"
  /\ phase' = "snapshot"
  /\ UNCHANGED <<policy, netVars, handlerVars, recordVars, snapshot, drained, report>>

\* A slip: what was recorded is forgotten with the entries.
ViolationsSnapshotForgets ==
  /\ phase = "snapshot"
  /\ phase' = "reported"
  /\ report' = {violations[i] : i \in DOMAIN violations} \cup UploadHeavyEntries(traffic)
  /\ violations' = <<>> /\ connected' = {}
  /\ traffic' = <<>>
  /\ UNCHANGED <<policy, netVars, handlerVars, ciphers, findings, findingCount,
                 snapshot, drained>>

ViolationsSnapshot ==
  /\ phase = "snapshot"
  /\ phase' = "reported"
  /\ report' = {violations[i] : i \in DOMAIN violations} \cup UploadHeavyEntries(traffic)
  /\ violations' = <<>>
  /\ traffic' = <<>>
  /\ UNCHANGED <<policy, netVars, handlerVars, connected, ciphers, findings,
                 findingCount, snapshot, drained>>
------------------------------------------------------------------------------
AcceptLoop == AcceptFails \/ \E c \in Conns : Accept(c) \/ Admit(c) \/ TurnAway(c)

DialReturns(c) ==
  \/ DialFails(c)
  \/ \E a \in Addrs : DialSucceeds(c, a) \/ DialRefused(c, a)

ReadReturns(c) == ReadFails(c) \/ \E r \in Requests : ReadRequest(c, r)

TunnelReturns(c) == \E v \in Volumes : TunnelEnds(c, v)

\* The embedded URLs are recorded in the handler itself; the other findings
\* come with bytes the peers may never send.
RecordURL(c) == \E f \in todo[c] : f[1] = "proxy-embedded-url" /\ RecordFinding(c, f)

HandlerStep(c) ==
  \/ ReadReturns(c) \/ Deny(c) \/ StartDial(c) \/ DialReturns(c) \/ DialRefusedReply(c)
  \/ Track(c) \/ RecordConnect(c) \/ RecordURL(c)
  \/ HalfClose(c) \/ TunnelReturns(c) \/ RecordTraffic(c) \/ Untrack(c) \/ CloseUpstream(c)
  \/ Cleanup(c) \/ Finish(c)

Handler(c) ==
  \/ HandlerStep(c)
  \/ \E f \in todo[c] : RecordFinding(c, f) \/ RecordTLS(c, f)
  \/ \E d \in Directions :
       CopyFindsClosed(c, d) \/ PeerFinishes(c, d) \/ CopyWriteFails(c, d)

FlushStep ==
  \/ CloseListener \/ CloseReturns \/ (\E s \in Sockets : CloseSocket(s))
  \/ HandlersDrained \/ DrainTimesOut \/ ViolationsSnapshot

Next ==
  \/ AcceptLoop
  \/ BeginClose \/ FlushStep
  \/ \E c \in Conns : Connect(c) \/ Handler(c)

Spec == Init /\ [][Next]_vars

(***************************************************************************)
(* Fairness: every goroutine of the engine is scheduled; a read and a dial *)
(* return because they carry a deadline (30 s, 15 s), the flush because of *)
(* its 2 s timer.  Nothing is assumed of the peers: neither side ever has  *)
(* to finish sending.                                                      *)
(***************************************************************************)
Fairness ==
  /\ WF_vars(AcceptLoop)
  /\ WF_vars(FlushStep)
  /\ \A c \in Conns : WF_vars(HandlerStep(c))
  /\ \A c \in Conns : \A d \in Directions : WF_vars(CopyFindsClosed(c, d))

FairSpec == Spec /\ Fairness
------------------------------------------------------------------------------
(***************************************************************************)
(* Properties.                                                             *)
(***************************************************************************)
Targets == {Target(r) : r \in Requests} \cup {Overflow}
Observations ==
  {<<k, t, x>> : k \in FindingTypes \cup {"tls"}, t \in Targets,
                 x \in UNION {r.names \cup r.shakes : r \in Requests}}
EntryTypes == FindingTypes \cup {"proxy-violation", "proxy-connect", "proxy-upload-heavy"}
Entries == [type : EntryTypes, target : Targets]
ByteCounts == [up : Nat, down : Nat]

\* The type invariant.
TypeOK ==
  /\ policy \in {Compile(cfg) : cfg \in Configs}
  /\ lnOpen \in BOOLEAN /\ closed \in BOOLEAN /\ drained \in BOOLEAN
  /\ acceptPC \in {"accept", "admit", "stopped"}
  /\ conns \subseteq Sockets /\ open \subseteq Sockets
  /\ snapshot \subseteq Sockets
  /\ pc \in [Conns -> PCs]
  /\ req \in [Conns -> Requests \cup {NoRequest}]
  /\ addr \in [Conns -> SUBSET Addrs]
  /\ copies \in [Conns -> SUBSET Directions]
  /\ todo \in [Conns -> SUBSET Observations]
  /\ bytes \in [Conns -> ByteCounts]
  /\ handlers \in Nat
  /\ violations \in Seq(Entries)
  /\ connected \subseteq Targets
  /\ ciphers \subseteq Observations /\ findings \subseteq Observations
  /\ DOMAIN traffic \subseteq Targets
  /\ \A t \in DOMAIN traffic : traffic[t] \in ByteCounts
  /\ findingCount \in [FindingTypes -> Nat]
  /\ phase \in {"running", "listener", "closing", "waiting", "snapshot", "reported"}
  /\ report \subseteq Entries

(***************************************************************************)
(* No upstream connection is ever open to an address the configuration did *)
(* not open, whatever the name resolved to in the meantime: targetAllowed  *)
(* judges the name before the dial, the dialer's Control each address.     *)
(***************************************************************************)
OnlyGrantedReach ==
  \A c \in Conns : Upstream(c) \in open =>
    \E a \in addr[c] :
      Granted(policy, NormalizeProxyHost(req[c].host), a, req[c].port)

(***************************************************************************)
(* Close leaves nothing behind: once it has closed what it copied under    *)
(* the lock, the only sockets still open are ones whose owner will find    *)
(* the proxy closed (a dialed upstream not yet given to track, an accepted *)
(* connection not yet admitted) or has already taken them out of p.conns   *)
(* and closes them next.                                                   *)
(***************************************************************************)
CloseLeavesNothing ==
  phase \in {"waiting", "snapshot", "reported"} =>
    \A c \in Conns :
      /\ Upstream(c) \in open => pc[c] \in {"track", "upstream"}
      /\ Client(c) \in open => pc[c] \in {"accepted", "finish"}

(***************************************************************************)
(* The WaitGroup counts exactly the handlers that run, so a wait that      *)
(* returns means that none does; as none is started after Close, none ever *)
(* will.                                                                   *)
(***************************************************************************)
DrainedMeansQuiet ==
  /\ handlers = Cardinality({c \in Conns : Serving(c)})
  /\ drained => \A c \in Conns : ~Serving(c)

(***************************************************************************)
(* A flush that saw its handlers end reports everything: nothing is left   *)
(* to emit, each denied request has its violation in the report, and each  *)
(* target reached has its connect entry unless the entry cap was hit.      *)
(***************************************************************************)
DrainedReportIsComplete ==
  phase = "reported" /\ drained =>
    /\ violations = <<>> /\ DOMAIN traffic = {}
    /\ \A c \in Conns : req[c] # NoRequest =>
         /\ ~Allowed(req[c]) => Entry("proxy-violation", Target(req[c])) \in report
         /\ addr[c] # {} => \/ Entry("proxy-connect", Target(req[c])) \in report
                            \/ Cardinality(connected) = MaxConnect

(***************************************************************************)
(* The upload-heavy entries of such a flush are those of the tunnels that  *)
(* really ran, the ones Close cut included: a target is named exactly when *)
(* the bytes of all its tunnels together are lopsided, and the run as a    *)
(* whole exactly when it reached several targets, none of them lopsided,   *)
(* and their sum is.                                                       *)
(***************************************************************************)
Reached == {c \in Conns : addr[c] # {}}
TunnelBytes(cs) ==
  [up |-> MapThenSumSet(LAMBDA c : bytes[c].up, cs),
   down |-> MapThenSumSet(LAMBDA c : bytes[c].down, cs)]

UploadHeavyIsExact ==
  LET reached == {Target(req[c]) : c \in Reached}
      lopsided == {t \in reached :
                     Lopsided(TunnelBytes({c \in Reached : Target(req[c]) = t}))}
      named == {e.target : e \in {x \in report : x.type = "proxy-upload-heavy"}}
  IN
  phase = "reported" /\ drained /\ policy.detect /\ Cardinality(reached) <= MaxConnect =>
    named = IF lopsided # {} THEN lopsided
            ELSE IF Cardinality(reached) > 1 /\ Lopsided(TunnelBytes(Reached))
                 THEN {Overflow} ELSE {}

(***************************************************************************)
(* Each target reached is recorded once, however many tunnels and however  *)
(* it is spelled: p.connected outlives the snapshot that clears the        *)
(* entries, so a late handler does not record it again either.             *)
(***************************************************************************)
ConnectRecordedOnce ==
  LET at == {i \in DOMAIN violations : violations[i].type = "proxy-connect"} IN
  \A i \in at :
    /\ \A j \in at : violations[i] = violations[j] => i = j
    /\ violations[i] \notin report
    /\ Cardinality(connected) <= MaxConnect

(***************************************************************************)
(* Until the snapshot, the entries of each finding type are one per key    *)
(* found, in number at most MaxFindings + 1, and the "more than N" entry   *)
(* is there exactly when the cap was passed, as the last of its type; the  *)
(* requests whose URLs have all been checked pass it as soon as they carry *)
(* more than MaxFindings between them.                                     *)
(***************************************************************************)
CheckedURLs ==
  UNION {Suspects(req[c]) :
           c \in {d \in Conns : /\ pc[d] \in {"tunnel", "half", "count", "untrack"}
                                /\ req[d].form = "absolute" /\ TunnelStarted(d)}}

FindingsAreCapped ==
  phase # "reported" =>
    /\ \A type \in FindingTypes :
         LET at == {i \in DOMAIN violations : violations[i].type = type} IN
         /\ Cardinality(at) = Cardinality({f \in findings : f[1] = type})
         /\ Cardinality(at) <= MaxFindings + 1
         /\ \A i \in at : violations[i].target = Overflow <=>
              Cardinality(at) = MaxFindings + 1 /\ \A j \in at : j <= i
    /\ Cardinality(CheckedURLs) > MaxFindings =>
         Entry("proxy-embedded-url", Overflow) \in {violations[i] : i \in DOMAIN violations}

(***************************************************************************)
(* Every run ends: once the proxy is closed, every connection is released  *)
(* and stays so, although peers may keep their sides open for ever.        *)
(***************************************************************************)
Quiet == \A c \in Conns : pc[c] \in {"idle", "reset", "done"}
CloseEndsEveryHandler == closed ~> [](Quiet /\ open = {})

------------------------------------------------------------------------------
(***************************************************************************)
(* The proxy implements EgressGate, fairness included: a connection is     *)
(* through from the dial that reached its target until its handler is      *)
(* done, and the run is settled once the flush has reported.               *)
(***************************************************************************)
Destinations ==
  UNION {{<<NormalizeProxyHost(r.host), a, r.port>> :
            a \in AddressesOf(NormalizeProxyHost(r.host))} : r \in Requests}

GateGrants == {d \in Destinations : Granted(policy, d[1], d[2], d[3])}
GatePhase ==
  CASE phase = "running" -> "open"
    [] phase = "reported" -> "settled"
    [] OTHER -> "shut"
GateStage(c) ==
  CASE pc[c] \in {"idle", "queued", "accepted", "reset"} -> "out"
    [] pc[c] = "done" -> "over"
    [] OTHER -> IF addr[c] = {} THEN "in" ELSE "through"
GateDest(c) ==
  {<<NormalizeProxyHost(req[c].host), a, req[c].port>> : a \in addr[c]}

Gate == INSTANCE EgressGate WITH
  grants <- GateGrants,
  gate   <- GatePhase,
  stage  <- [c \in Conns |-> GateStage(c)],
  dest   <- [c \in Conns |-> GateDest(c)]

\* The proxy is a gate: its safety part, and all of it under FairSpec.
GateSafety == Gate!Safety
ImplementsGate == Gate!Spec
=============================================================================
