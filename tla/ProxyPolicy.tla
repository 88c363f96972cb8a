----------------------------- MODULE ProxyPolicy -----------------------------
(***************************************************************************)
(* The allowlist of the egress proxy (go/cmd/safer-exec/proxy.go): how the *)
(* configuration is compiled into it, which CONNECT targets it lets        *)
(* through, and which resolved addresses a dial may then reach.            *)
(*                                                                         *)
(* Hosts are names (model values) or IP literals (Addrs).  An address is   *)
(* kept down to what the code tells apart: its class, and whether it is    *)
(* the address itself ("plain") or an IPv6 form that carries it in its low *)
(* 32 bits ("embedded": IPv4-compatible or NAT64).                         *)
(***************************************************************************)
EXTENDS Integers

CONSTANTS
  Names,      \* host names, normalized
  NoHost,     \* the empty host name
  Suffixes,   \* the "*.example.com" patterns
  Under,      \* Under[s]: the names below suffix pattern s
  Ranges,     \* the CIDR entries
  Within,     \* Within[r]: the addresses range r contains
  Resolves    \* Resolves[n]: the addresses name n may resolve to, dial by dial

AddrClasses ==
  {"public", "loopback", "linklocal", "multicast", "unspecified", "metadata"}
Addrs == [class : AddrClasses, form : {"plain", "embedded"}]
Hosts == Names \cup {NoHost} \cup Addrs

ASSUME PolicyAssumption ==
  /\ (Names \cup {NoHost}) \cap Addrs = {}
  /\ NoHost \notin Names
  /\ Under \in [Suffixes -> SUBSET Names]
  /\ Within \in [Ranges -> SUBSET Addrs]
  /\ Resolves \in [Names \cup {NoHost} -> SUBSET Addrs]

(***************************************************************************)
(* Compiling the configuration.  An entry is a pair <<kind, value>>: a     *)
(* "name", a "suffix" pattern, the bare "*" ("any"), a "~" regex, an empty *)
(* host, an IP "literal" or a CIDR "range".  Regex and empty entries of    *)
(* AllowHosts and of the URL rules are dropped; an AllowIPs entry that is  *)
(* neither a literal nor a range is ignored; ports keep the positive ones. *)
(***************************************************************************)
EntryKinds == {"name", "suffix", "any", "regex", "empty", "literal", "range"}

Of(entries, kind) == {e[2] : e \in {x \in entries : x[1] = kind}}

Compile(cfg) ==
  LET hosts == cfg.allowHosts \cup cfg.allowURLRules
  IN  [exact    |-> Of(hosts, "name"),
       suffixes |-> Of(hosts, "suffix"),
       anyHost  |-> Of(hosts, "any") # {},
       ips      |-> Of(hosts \cup cfg.allowIPs, "literal"),
       nets     |-> Of(hosts \cup cfg.allowIPs, "range"),
       ports    |-> {p \in cfg.allowPorts : p > 0},
       learn    |-> cfg.learn,
       detect   |-> cfg.enableAudit,
       observe  |-> cfg.traceCrypto]

(***************************************************************************)
(* Address classes.  hostLocalIP knows plain addresses only; rangeExcluded *)
(* looks through the embedded forms and adds loopback for them.            *)
(***************************************************************************)
HostLocalIP(a) ==
  /\ a.form = "plain"
  /\ a.class \in {"loopback", "linklocal", "multicast", "unspecified"}

\* A slip: the ranges are checked on the address as it is spelled.
RangeExcludedAsSpelled(a) ==
  a.form = "plain" /\ a.class \in {"linklocal", "multicast", "unspecified", "metadata"}

RangeExcluded(a) ==
  \/ a.class \in {"linklocal", "multicast", "unspecified", "metadata"}
  \/ a.form = "embedded" /\ a.class = "loopback"

InAllowedNet(pol, a) == ~RangeExcluded(a) /\ \E r \in pol.nets : a \in Within[r]

Ports == 1..65535

PortAllowed(pol, port) ==
  IF pol.ports = {} THEN port \in {80, 443} ELSE port \in pol.ports

(***************************************************************************)
(* A name some exact or suffix entry names.                                *)
(***************************************************************************)
NamedHost(pol, h) == h \in pol.exact \/ \E s \in pol.suffixes : h \in Under[s]

HasHosts(pol) == pol.exact # {} \/ pol.suffixes # {} \/ pol.anyHost

(***************************************************************************)
(* The check on a request's target, before anything is dialed.             *)
(***************************************************************************)
HostAllowed(pol, h) ==
  \/ h \in Addrs /\ (h \in pol.ips \/ InAllowedNet(pol, h))
  \/ h \notin Addrs /\ HasHosts(pol) /\ (pol.anyHost \/ NamedHost(pol, h))

TargetAllowed(pol, h, port) ==
  IF pol.learn THEN h # NoHost /\ port \in Ports
               ELSE HostAllowed(pol, h) /\ PortAllowed(pol, port)

(***************************************************************************)
(* The check on each resolved address, at dial time.                       *)
(***************************************************************************)
WildcardOnly(pol, h) == pol.anyHost /\ h \notin Addrs /\ ~NamedHost(pol, h)

DialPermitted(pol, h, a) ==
  /\ pol.learn => ~HostLocalIP(a)
  /\ ~pol.learn /\ WildcardOnly(pol, h) =>
       a \in pol.ips \/ ~(HostLocalIP(a) \/ RangeExcluded(a))

(***************************************************************************)
(* The addresses a dial of h may try: an IP literal is itself, and a name  *)
(* is resolved again for every dial.                                       *)
(***************************************************************************)
AddressesOf(h) == IF h \in Addrs THEN {h} ELSE Resolves[h]

------------------------------------------------------------------------------
(***************************************************************************)
(* What the two checks together are for, stated on the address reached     *)
(* rather than on the code's path: an address is opened by an entry that   *)
(* lists it, by a range when it is an ordinary address (or this host's own *)
(* loopback, spelled plainly), by an entry naming the host, and by a bare  *)
(* "*" only when it is public.  Learning opens all but the engine's host.  *)
(***************************************************************************)
Granted(pol, h, a, port) ==
  IF pol.learn
  THEN port \in Ports /\ ~HostLocalIP(a)
  ELSE /\ PortAllowed(pol, port)
       /\ \/ h \in Addrs /\ h = a /\ a \in pol.ips
          \/ /\ h \in Addrs /\ h = a
             /\ \E r \in pol.nets : a \in Within[r]
             /\ a.class = "public" \/ a = [class |-> "loopback", form |-> "plain"]
          \/ h \notin Addrs /\ NamedHost(pol, h)
          \/ h \notin Addrs /\ pol.anyHost /\ (a.class = "public" \/ a \in pol.ips)
=============================================================================
