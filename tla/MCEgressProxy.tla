---------------------------- MODULE MCEgressProxy ----------------------------
(***************************************************************************)
(* Small instances of EgressProxy.  Names: a registry (exact), a site below*)
(* a wildcard pattern, and a name outside the list that may resolve to a   *)
(* host-local address.  One request of each kind the handler tells apart.  *)
(***************************************************************************)
EXTENDS EgressProxy, TLC

CONSTANTS registry, site, stranger, pattern, block, tls12, tls13

Public   == [class |-> "public", form |-> "plain"]
Loopback == [class |-> "loopback", form |-> "plain"]
Metadata == [class |-> "metadata", form |-> "plain"]
Mapped   == [class |-> "linklocal", form |-> "embedded"]

MCNames    == {registry, site, stranger}
MCUnder    == [s \in {pattern} |-> {site}]
MCWithin   == [r \in {block} |-> {Public, Loopback, Metadata}]
MCResolves == [n \in MCNames \cup {NoHost} |->
                 CASE n = stranger -> {Public, Loopback, Mapped}
                   [] n = NoHost   -> {Loopback}
                   [] OTHER        -> {Public}]

Config(hosts, rules, ips, ports, learn, crypto) ==
  [allowHosts |-> hosts, allowURLRules |-> rules, allowIPs |-> ips, allowPorts |-> ports,
   learn |-> learn, enableAudit |-> TRUE, traceCrypto |-> crypto]

Pinned   == Config({<<"name", registry>>, <<"suffix", pattern>>}, {}, {}, {}, FALSE, FALSE)
Wildcard == Config({<<"any", NoHost>>, <<"regex", stranger>>}, {<<"name", registry>>},
                   {<<"range", block>>, <<"name", site>>}, {0, 443}, FALSE, FALSE)
Learning == Config({}, {}, {}, {}, TRUE, TRUE)
Unaudited == [Pinned EXCEPT !.enableAudit = FALSE, !.traceCrypto = TRUE]

Req(form, host, spelling, port, names, shakes) ==
  [form |-> form, host |-> <<host, spelling>>, port |-> port, names |-> names,
   shakes |-> shakes]

\* Two spellings of one target, a tunnel with a foreign server name, a plain
\* request carrying URLs, a name only "*" allows, IP literals, a bad port.
RegistryConnect == Req("connect", registry, "lower", 443, {registry}, {tls13})
RegistryUpper   == Req("connect", registry, "upper", 443, {stranger}, {tls12})
SitePlain       == Req("absolute", site, "lower", 80, {stranger, Metadata}, {})
StrangerConnect == Req("connect", stranger, "lower", 443, {}, {})
MetadataPlain   == Req("absolute", Metadata, "lower", 80, {}, {})
PublicConnect   == Req("connect", Public, "bracketed", 443, {}, {})
WrongPort       == Req("connect", registry, "lower", 22, {}, {})
EmptyHost       == Req("connect", NoHost, "lower", 443, {}, {})
NoHostPort      == Req("unsplittable", stranger, "lower", 0, {}, {})

SiteTunnel      == Req("connect", site, "lower", 443, {stranger}, {})
RegistryPlain   == Req("absolute", registry, "lower", 80, {}, {})

\* Neither tunnel is lopsided by itself; two to one target are together when one
\* of them is silent, and so are two silent ones to different targets.
Silent == [up |-> 2, down |-> 0]
Echo   == [up |-> 2, down |-> 2]

MCRecordRequests == {RegistryConnect, RegistryUpper, SitePlain, NoHostPort}
MCPolicyRequests ==
  {RegistryUpper, SitePlain, StrangerConnect, MetadataPlain, PublicConnect, WrongPort,
   EmptyHost, NoHostPort}
MCLiveRequests == {SiteTunnel, RegistryPlain}
MCConfigsPinned == {Pinned}
MCConfigsUnaudited == {Unaudited}
MCConfigsAll    == {Pinned, Wildcard, Learning, Unaudited}
MCOneVolume     == {Echo}
MCVolumes       == {Silent, Echo}
ConnSymmetry    == Permutations(Conns)
=============================================================================
