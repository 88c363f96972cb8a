------------------------------ MODULE MxcStderr ------------------------------
(***************************************************************************)
(* The filter of the standard error that MXC's launcher shares with the    *)
(* workload (mxc/stderr.go): it takes MXC's own lines out and forwards     *)
(* everything else, in whatever pieces it comes.                           *)
(*                                                                         *)
(* Text is a sequence of tokens.  <<"{", "error">> and <<"{", "type">> are *)
(* the two markers, so that "{" may become one; an envelope is a marker,   *)
(* its code and "}", a capture pointer a marker and "}".  The workload     *)
(* prints any of these too, and leaves lines open.                         *)
(***************************************************************************)
EXTENDS Naturals, Sequences, SequencesExt

CONSTANTS
  Printed,        \* what a workload prints before MXC's line
  Closing,        \* MXC's line, or nothing
  MaxMarkerLine,  \* what a suspected line may hold back
  MaxEmits        \* audit lines of the engine, at most

VARIABLES
  stream,     \* [workload, mxc]: what is written
  written,    \* how much of it has been
  writing,    \* whether Write runs: it holds the lock
  rest,       \* what Write has still to look at
  pending, inMarker,
  passed,
  envelopeSeen,
  emits, filterClosed

stderrVars == <<stream, written, writing, rest, pending, inMarker, passed, envelopeSeen,
                emits, filterClosed>>
filterState == <<pending, inMarker, passed, envelopeSeen>>

AllText == stream.workload \o stream.mxc
Markers == {<<"{", "error">>, <<"{", "type">>}
Codes == {"backend_error", "policy_validation"}

MarkerAt(b, i) == i < Len(b) /\ SubSeq(b, i, i + 1) \in Markers
HasMarker(b) == \E i \in 1..Len(b) : MarkerAt(b, i)
IndexMarker(b) == CHOOSE i \in 1..Len(b) : MarkerAt(b, i) /\ \A j \in 1..(i - 1) : ~MarkerAt(b, j)
Newlines(b) == {i \in 1..Len(b) : b[i] = "nl"}
NewlineAt(b) == CHOOSE i \in Newlines(b) : \A j \in Newlines(b) : i <= j

\* Other codes and anything glued to the object are not MXC's.
Envelopes == {<<"{", "error", code, "}">> : code \in Codes}
IsProtocol(b) == b \in Envelopes \union {<<"{", "type", "}">>}

ASSUME StderrAssumption ==
  /\ \A p \in Printed : p \in Seq(STRING)
  /\ \A m \in Closing : m = <<>> \/ \E e \in Envelopes : m \in {e, Append(e, "nl")}
  /\ MaxMarkerLine \in Nat \ {0} /\ MaxEmits \in Nat

TerminateLine(out) == IF out # <<>> /\ Last(out) # "nl" THEN Append(out, "nl") ELSE out

\* A slip: a protocol object is looked for at the first marker only.
ProtocolSuffixNone(b) == {}

\* The earliest object behind the start that runs to the end of the line.
ProtocolSuffix(b) ==
  {i \in 2..Len(b) : /\ IsProtocol(SubSeq(b, i, Len(b)))
                     /\ \A j \in 2..(i - 1) : ~IsProtocol(SubSeq(b, j, Len(b)))}

ConsumeProtocol(b, out) ==
  /\ envelopeSeen' = IF b \in Envelopes THEN b[3] ELSE envelopeSeen
  /\ passed' = TerminateLine(out)

\* A line that is no protocol object is forwarded as it came.
ConsumeLine(line, newline) ==
  IF IsProtocol(line) THEN ConsumeProtocol(line, passed)
  ELSE IF ProtocolSuffix(line) # {}
  THEN \E i \in ProtocolSuffix(line) :
         ConsumeProtocol(SubSeq(line, i, Len(line)), passed \o SubSeq(line, 1, i - 1))
  ELSE passed' = passed \o line \o newline /\ UNCHANGED envelopeSeen
-----------------------------------------------------------------------------
StderrInit ==
  /\ stream \in [workload : Printed, mxc : Closing]
  /\ written = 0 /\ writing = FALSE /\ rest = <<>> /\ pending = <<>> /\ inMarker = FALSE
  /\ passed = <<>> /\ envelopeSeen = "none" /\ emits = 0 /\ filterClosed = FALSE

\* Write is called with the next piece, whatever its length.
BeginWrite ==
  /\ ~writing /\ ~filterClosed /\ written < Len(AllText)
  /\ \E n \in (written + 1)..Len(AllText) :
       /\ rest' = pending \o SubSeq(AllText, written + 1, n) /\ written' = n
  /\ writing' = TRUE /\ pending' = <<>>
  /\ UNCHANGED <<stream, inMarker, passed, envelopeSeen, emits, filterClosed>>

EndWrite ==
  /\ writing /\ rest = <<>> /\ writing' = FALSE
  /\ UNCHANGED <<stream, written, rest, filterState, emits, filterClosed>>

WriteLine ==
  /\ writing /\ rest # <<>> /\ inMarker /\ Newlines(rest) # {}
  /\ ConsumeLine(SubSeq(rest, 1, NewlineAt(rest) - 1), <<"nl">>)
  /\ rest' = SubSeq(rest, NewlineAt(rest) + 1, Len(rest)) /\ inMarker' = FALSE
  /\ UNCHANGED <<stream, written, writing, pending, emits, filterClosed>>

\* A suspected line that is still open is held back, up to the bound.
HoldLine ==
  /\ writing /\ rest # <<>> /\ inMarker /\ Newlines(rest) = {}
  /\ rest' = <<>>
  /\ IF Len(rest) > MaxMarkerLine
     THEN passed' = passed \o rest /\ inMarker' = FALSE /\ UNCHANGED pending
     ELSE pending' = rest /\ UNCHANGED <<passed, inMarker>>
  /\ UNCHANGED <<stream, written, writing, envelopeSeen, emits, filterClosed>>

FindMarker ==
  /\ writing /\ ~inMarker /\ HasMarker(rest)
  /\ passed' = passed \o SubSeq(rest, 1, IndexMarker(rest) - 1)
  /\ rest' = SubSeq(rest, IndexMarker(rest), Len(rest)) /\ inMarker' = TRUE
  /\ UNCHANGED <<stream, written, writing, pending, envelopeSeen, emits, filterClosed>>

\* An end that may become a marker is held back.
ForwardRest ==
  /\ writing /\ rest # <<>> /\ ~inMarker /\ ~HasMarker(rest)
  /\ pending' = IF Last(rest) = "{" THEN <<"{">> ELSE <<>>
  /\ passed' = passed \o SubSeq(rest, 1, Len(rest) - Len(pending'))
  /\ rest' = <<>>
  /\ UNCHANGED <<stream, written, writing, inMarker, envelopeSeen, emits, filterClosed>>

\* An audit line of the engine, on a line of its own.
Emit ==
  /\ ~writing /\ ~filterClosed /\ emits < MaxEmits /\ emits' = emits + 1
  /\ passed' = TerminateLine(passed) \o <<"audit", "nl">>
  /\ UNCHANGED <<stream, written, writing, rest, pending, inMarker, envelopeSeen, filterClosed>>

\* At the end of the stream a line still open is read without its end.
CloseFilter ==
  /\ ~writing /\ ~filterClosed /\ written = Len(AllText) /\ filterClosed' = TRUE
  /\ IF inMarker /\ pending # <<>> THEN ConsumeLine(pending, <<>>)
     ELSE passed' = passed \o pending /\ UNCHANGED envelopeSeen
  /\ pending' = <<>> /\ inMarker' = FALSE
  /\ UNCHANGED <<stream, written, writing, rest, emits>>

StderrNext ==
  BeginWrite \/ EndWrite \/ WriteLine \/ HoldLine \/ FindMarker \/ ForwardRest \/ Emit \/ CloseFilter

StderrSpec == StderrInit /\ [][StderrNext]_stderrVars

StderrTypeOK ==
  /\ written \in 0..Len(AllText) /\ emits \in 0..MaxEmits
  /\ Len(pending) <= MaxMarkerLine /\ (pending # <<>> => inMarker \/ pending = <<"{">>)
  /\ envelopeSeen \in Codes \union {"none"}
-----------------------------------------------------------------------------
\* MXC's envelope is found, whatever the workload printed before it, left open
\* or forged, and in whatever pieces it comes, unless a line grew past the
\* bound; and no word of what the workload printed besides protocol objects is
\* lost, doubled or moved.
LongLine(b) ==
  \E i \in 1..Len(b), j \in 1..Len(b) :
    j - i >= MaxMarkerLine /\ \A k \in i..j : b[k] # "nl"

IsWord(t) == t \notin {"{", "error", "type", "}", "nl", "audit"} \union Codes
Words(b) ==
  LET words[i \in 0..Len(b)] == IF i = 0 THEN <<>>
                                ELSE IF IsWord(b[i]) THEN Append(words[i - 1], b[i])
                                ELSE words[i - 1]
  IN  words[Len(b)]

EnvelopeSurvives ==
  filterClosed =>
    /\ Words(passed) = Words(AllText)
    /\ stream.mxc # <<>> /\ ~LongLine(AllText) => envelopeSeen = stream.mxc[3]
=============================================================================
