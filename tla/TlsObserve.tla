------------------------------ MODULE TlsObserve ------------------------------
(***************************************************************************)
(* The TLS observer (tlsobserve.go): it reads the cleartext part of one    *)
(* connection's handshake from the bytes the proxy copies, whatever chunks *)
(* they come in, and reports it once.                                      *)
(*                                                                         *)
(* A byte is [of, i]: the i-th of a record's header (typ, size) or of a    *)
(* handshake message; the type is in the first and the size in the second. *)
(***************************************************************************)
EXTENDS Naturals, Sequences, SequencesExt, Functions

CONSTANTS
  Handshakes,     \* [name, version, retry, resumed, group, keyShare, certs, cut]
  StreamLimit,    \* [client, server]: byte budgets
  MaxChunk,       \* the most bytes a read returns
  MaxChainCerts, MaxChainBytes

VARIABLES
  conn,      \* the handshake of the connection
  taken,     \* bytes read from each side
  forwarded, \* bytes handed on to the other side
  strm,      \* the stream reassembled from each side
  found,     \* what was read of the handshake
  helloSeen, certSeen,
  feeding,   \* the side whose chunk is looked at, or "none"
  onHello,   \* names the client's watch reported
  reports,   \* handshakes reported
  closed

tlsVars == <<conn, taken, forwarded, strm, found, helloSeen, certSeen, feeding,
             onHello, reports, closed>>

Sides == {"client", "server"}
Header == 2
Nothing == [name |-> "", version |-> 0, group |-> "", key |-> 0, chain |-> 0, resumed |-> FALSE]
-----------------------------------------------------------------------------
\* What the peers send.
Bytes(item, n) == [i \in 1..n |-> [of |-> item, i |-> i]]
Message(typ, size) == Bytes([typ |-> typ, size |-> size], Header + size)
Record(typ, payload) == Bytes([typ |-> typ, size |-> Len(payload)], Header) \o payload
Sealed(typ) == Record(typ, Bytes([typ |-> "sealed", size |-> 9], 1))
ChangeCipherSpec == Record("ccs", Bytes([typ |-> "ccs byte", size |-> 9], 1))

\* Messages in one record, or with the cut-th byte starting a second one.
Records(h, payload) ==
  IF h.cut \in 1..(Len(payload) - 1)
  THEN Record("handshake", SubSeq(payload, 1, h.cut))
       \o Record("handshake", SubSeq(payload, h.cut + 1, Len(payload)))
  ELSE Record("handshake", payload)

Size(h) == FoldLeft(LAMBDA sum, c : sum + c.size, 0, h.certs)
Flights(h) ==
  LET hello(n) == [from |-> "client", bytes |-> Records(h, Message("client hello", n))]
      flight(bytes) == [from |-> "server", bytes |-> bytes]
      final == CASE h.version = 13 ->
                      Records(h, Message("server hello", 1)) \o ChangeCipherSpec \o Sealed("data")
                 [] h.version # 13 /\ h.resumed ->
                      Records(h, Message("server hello", 1)) \o ChangeCipherSpec \o Sealed("handshake")
                 [] OTHER ->
                      Records(h, Message("server hello", 1) \o Message("certificate", Size(h))
                        \o (IF h.keyShare # "" THEN Message("key exchange", 1) ELSE <<>>)
                        \o Message("done", 0))
  IN  IF h.retry
      THEN <<hello(1), flight(Records(h, Message("retry request", 1)) \o ChangeCipherSpec),
             hello(2), flight(final)>>
      ELSE <<hello(1), flight(final)>>

From(h, side) == SelectSeq(Flights(h), LAMBDA f : f.from = side)
Sent(h, side) == FlattenSeq([i \in 1..Len(From(h, side)) |-> From(h, side)[i].bytes])
Ends(h, side, n) ==
  FoldLeft(LAMBDA sum, f : sum + Len(f.bytes), 0, SubSeq(From(h, side), 1, n))

\* Each flight answers the one before it: the peers take turns.
Available(side) ==
  LET turns == {n \in 0..Len(From(conn, side)) :
        side = "client" /\ n > 1 => forwarded["server"] >= Ends(conn, "server", n - 1)}
      answered == {n \in turns : side = "server" => forwarded["client"] >= Ends(conn, "client", n)}
  IN  Ends(conn, side, CHOOSE n \in answered : \A other \in answered : other <= n)
-----------------------------------------------------------------------------
\* The chain: the server's own certificate first.  The walk ends at a bound or
\* at an entry that cannot be read; the first one's key is kept in any case.
Parsed(certs) ==
  LET step(walk, c) ==
        IF walk.over \/ walk.chain >= MaxChainCerts \/ c.size = 0 THEN [walk EXCEPT !.over = TRUE]
        ELSE LET leaf == walk.total = 0
                 total == walk.total + c.size
             IN  IF (total > MaxChainBytes /\ ~leaf) \/ ~c.readable
                 THEN [walk EXCEPT !.over = TRUE]
                 ELSE [total |-> total, key |-> IF leaf THEN c.key ELSE walk.key,
                       chain |-> walk.chain + IF total > MaxChainBytes THEN 0 ELSE 1,
                       over |-> total > MaxChainBytes]
  IN  FoldLeft(step, [total |-> 0, key |-> 0, chain |-> 0, over |-> FALSE], certs)

Stopped(s) == [s EXCEPT !.done = TRUE, !.records = <<>>, !.msgs = <<>>]

\* A slip: the one after a retry request counts too.
CipherAlwaysChanged(s) == [s EXCEPT !.ccs = TRUE]

\* After a retry request it is there for middleboxes and changes nothing.
CipherChanged(s) == [s EXCEPT !.ccs = @ \/ ~s.ccsIgnored]

\* A message that is not what one peer sent in one piece cannot be parsed.
Whole(msg) == \A i \in 1..Len(msg) : msg[i] = [of |-> msg[1].of, i |-> i]

\* The report, once, and only of a handshake the server has answered.
Finish(seen, what) ==
  IF reports # <<>> \/ ~seen THEN UNCHANGED reports ELSE reports' = Append(reports, what)
-----------------------------------------------------------------------------
TlsInit ==
  /\ conn \in Handshakes
  /\ taken = [s \in Sides |-> 0] /\ forwarded = [s \in Sides |-> 0]
  /\ strm = [s \in Sides |-> [seen |-> 0, records |-> <<>>, msgs |-> <<>>, done |-> FALSE,
                              ccs |-> FALSE, ccsIgnored |-> FALSE]]
  /\ found = Nothing /\ helloSeen = FALSE /\ certSeen = FALSE
  /\ feeding = "none" /\ onHello = <<>> /\ reports = <<>> /\ closed = FALSE

\* A chunk past the budget is not looked at; once the stream is done the rest
\* is copied past the observer.
Read(side, n) ==
  /\ ~closed /\ feeding = "none" /\ taken[side] + n <= Available(side)
  /\ taken' = [taken EXCEPT ![side] = @ + n]
  /\ IF strm[side].done
     THEN forwarded' = [forwarded EXCEPT ![side] = @ + n] /\ UNCHANGED <<feeding, strm>>
     ELSE LET s == [strm[side] EXCEPT !.seen = @ + n]
              chunk == SubSeq(Sent(conn, side), taken[side] + 1, taken[side] + n)
          IN  /\ feeding' = side
              /\ strm' = [strm EXCEPT ![side] =
                   IF s.seen > StreamLimit[side] THEN Stopped(s)
                   ELSE [s EXCEPT !.records = @ \o chunk]]
              /\ UNCHANGED forwarded
  /\ UNCHANGED <<conn, found, helloSeen, certSeen, onHello, reports, closed>>

MessageThere(s) == ~s.done /\ Len(s.msgs) >= Header /\ Len(s.msgs) >= Header + s.msgs[2].of.size
RecordThere(s) ==
  /\ ~s.done /\ ~MessageThere(s)
  /\ Len(s.records) >= Header /\ Len(s.records) >= Header + s.records[2].of.size

TakeRecord(side) ==
  LET s == strm[side]
      n == s.records[2].of.size
      typ == s.records[1].of.typ
      rest == [s EXCEPT !.records = SubSeq(@, Header + n + 1, Len(@))]
      payload == SubSeq(s.records, Header + 1, Header + n)
  IN  /\ feeding = side /\ RecordThere(s)
      /\ strm' = [strm EXCEPT ![side] =
           CASE typ = "handshake" /\ ~s.ccs -> [rest EXCEPT !.msgs = @ \o payload]
             [] typ = "ccs" -> CipherChanged(rest)
             [] OTHER -> Stopped(rest)]
      /\ UNCHANGED <<conn, taken, forwarded, found, helloSeen, certSeen, feeding, onHello,
                     reports, closed>>

\* The first message of the client ends its stream; of the server's, what ends
\* the cleartext does.
ClientMessage(msg) ==
  /\ IF msg[1].of.typ = "client hello" /\ Whole(msg)
     THEN found' = [found EXCEPT !.name = conn.name] /\ onHello' = Append(onHello, conn.name)
     ELSE UNCHANGED <<found, onHello>>
  /\ strm' = [strm EXCEPT !["client"] = Stopped(@)]
  /\ UNCHANGED <<helloSeen, certSeen>>

ServerMessage(msg, rest) ==
  LET typ == IF Whole(msg) THEN msg[1].of.typ ELSE "unknown"
      goOn(s) == strm' = [strm EXCEPT !["server"] = s]
  IN  /\ UNCHANGED onHello
      /\ CASE typ = "retry request" ->
                /\ goOn([rest EXCEPT !.ccsIgnored = TRUE])
                /\ found' = [found EXCEPT !.version = conn.version, !.group = "asked for"]
                /\ UNCHANGED <<helloSeen, certSeen>>
           [] typ = "server hello" ->
                /\ goOn(IF conn.version = 13 THEN Stopped(rest) ELSE rest)
                /\ found' = [found EXCEPT !.version = conn.version,
                               !.group = IF conn.group # "" THEN conn.group ELSE @]
                /\ helloSeen' = TRUE /\ UNCHANGED certSeen
           [] typ = "certificate" /\ helloSeen ->
                /\ goOn(rest) /\ certSeen' = TRUE
                /\ found' = [found EXCEPT !.key = Parsed(conn.certs).key,
                                          !.chain = Parsed(conn.certs).chain]
                /\ UNCHANGED helloSeen
           [] typ = "key exchange" /\ helloSeen ->
                /\ goOn(rest) /\ found' = [found EXCEPT !.group = conn.keyShare]
                /\ UNCHANGED <<helloSeen, certSeen>>
           [] typ = "done" ->
                goOn(Stopped(rest)) /\ UNCHANGED <<found, helloSeen, certSeen>>
           [] OTHER -> goOn(rest) /\ UNCHANGED <<found, helloSeen, certSeen>>

TakeMessage(side) ==
  LET s == strm[side]
      n == Header + s.msgs[2].of.size
      msg == SubSeq(s.msgs, 1, n)
      rest == [s EXCEPT !.msgs = SubSeq(@, n + 1, Len(@))]
  IN  /\ feeding = side /\ MessageThere(s)
      /\ IF side = "client" THEN ClientMessage(msg) ELSE ServerMessage(msg, rest)
      /\ UNCHANGED <<conn, taken, forwarded, feeding, reports, closed>>

\* The end of a feed, and the chunk goes on to the other side.
EndFeed(side) ==
  LET s == strm[side]
      resumed == s.ccs /\ helloSeen /\ found.version < 13 /\ ~certSeen
      what == [found EXCEPT !.resumed = @ \/ (side = "server" /\ resumed)]
  IN  /\ feeding = side /\ ~RecordThere(s) /\ ~MessageThere(s)
      /\ found' = what
      /\ IF side = "server" /\ s.done THEN Finish(helloSeen, what) ELSE UNCHANGED reports
      /\ forwarded' = [forwarded EXCEPT ![side] = taken[side]]
      /\ feeding' = "none"
      /\ UNCHANGED <<conn, taken, strm, helloSeen, certSeen, onHello, closed>>

\* The relay is over, at any point of the handshake.
CloseObserver ==
  /\ ~closed /\ feeding = "none"
  /\ closed' = TRUE /\ Finish(helloSeen, found)
  /\ UNCHANGED <<conn, taken, forwarded, strm, found, helloSeen, certSeen, feeding, onHello>>

TlsNext ==
  \/ \E side \in Sides : \/ \E n \in 1..MaxChunk : Read(side, n)
                         \/ TakeRecord(side) \/ TakeMessage(side) \/ EndFeed(side)
  \/ CloseObserver

TlsSpec == TlsInit /\ [][TlsNext]_tlsVars

TlsTypeOK ==
  /\ conn \in Handshakes /\ feeding \in Sides \union {"none"}
  /\ \A s \in Sides : forwarded[s] <= taken[s] /\ taken[s] <= Len(Sent(conn, s))
  /\ DOMAIN found = DOMAIN Nothing
-----------------------------------------------------------------------------
\* The handshake as the peers know it; of the chain, the certificates in front
\* of the first one that is too many, too much or unreadable.
Chained(h) == {k \in 0..Len(h.certs) :
  /\ k <= MaxChainCerts
  /\ FoldLeft(LAMBDA sum, c : sum + c.size, 0, SubSeq(h.certs, 1, k)) <= MaxChainBytes
  /\ \A i \in 1..k : h.certs[i].readable /\ h.certs[i].size > 0}
Negotiated(h) ==
  LET certified == h.version < 13 /\ ~h.resumed
  IN  [name |-> h.name, version |-> h.version,
       group |-> IF h.keyShare # "" /\ certified THEN h.keyShare ELSE h.group,
       key |-> IF certified /\ h.certs[1].readable THEN h.certs[1].key ELSE 0,
       chain |-> IF certified THEN CHOOSE k \in Chained(h) : \A j \in Chained(h) : j <= k ELSE 0,
       resumed |-> h.resumed]
Fits(h) == \A s \in Sides : Len(Sent(h, s)) <= StreamLimit[s]

\* Whatever chunks and records the handshake comes in: it is reported at most
\* once; what is reported was negotiated, with the name of this connection's
\* client; and a handshake within the budgets that has passed is reported whole.
ReportIsTheHandshake ==
  LET all == Negotiated(conn)
      passed == forwarded["server"] > 0 /\ forwarded["server"] = Len(Sent(conn, "server"))
  IN  /\ Len(reports) <= 1 /\ Len(onHello) <= 1
      /\ \A r \in ToSet(reports) :
           /\ r.name = conn.name \/ ~Fits(conn)
           /\ r.version = conn.version
           /\ r.resumed => conn.resumed
           /\ r.key \in {0, all.key} /\ r.chain \in {0, all.chain}
      /\ passed /\ Fits(conn) => reports = <<all>> /\ onHello = <<conn.name>>
=============================================================================
