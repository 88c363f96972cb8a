----------------------------- MODULE StreamProofs -----------------------------
(***************************************************************************)
(* Theorems about the filter of the launcher's standard error (MxcStderr), *)
(* for whatever the workload prints, in whatever pieces it comes, and any  *)
(* bound on a suspected line.                                              *)
(***************************************************************************)
EXTENDS MxcStderr, DataInduction, SequenceTheorems

(***************************************************************************)
(* The words of a text.                                                    *)
(***************************************************************************)
AddWord(words, t) == IF IsWord(t) THEN Append(words, t) ELSE words
Both(a, b) == a \o b
WordsSteps(f, b, n) == f[0] = <<>> /\ \A i \in 1..n : f[i] = AddWord(f[i - 1], b[i])

LEMMA WordsOf ==
  ASSUME NEW T, NEW b \in Seq(T)
  PROVE  \E f \in [0..Len(b) -> Seq(T)] : WordsSteps(f, b, Len(b)) /\ Words(b) = f[Len(b)]
<1> DEFINE W(f, n) == [i \in 0..n |-> IF i = 0 THEN <<>>
                                      ELSE IF IsWord(b[i]) THEN Append(f[i - 1], b[i])
                                      ELSE f[i - 1]]
<1>0. Words(b) = (CHOOSE f : f = W(f, Len(b)))[Len(b)]
  BY DEF Words
<1>1. PICK n \in Nat : n = Len(b) /\ \A i \in 1..n : b[i] \in T
  OBVIOUS
<1> DEFINE step == [p \in (1..n) \X Seq(T) |->
                      IF IsWord(b[p[1]]) THEN Append(p[2], b[p[1]]) ELSE p[2]]
           w == CHOOSE f : f = W(f, n)
<1>2. step \in [(1..n) \X Seq(T) -> Seq(T)]
  <2> SUFFICES ASSUME NEW i \in 1..n, NEW a \in Seq(T)
               PROVE  (IF IsWord(b[i]) THEN Append(a, b[i]) ELSE a) \in Seq(T)
    OBVIOUS
  <2>1. b[i] \in T
    BY <1>1
  <2> QED
    BY <2>1
<1>3. <<>> \in Seq(T)
  OBVIOUS
<1>4. \A i \in 1..n, a \in Seq(T) :
        step[<<i, a>>] = IF IsWord(b[i]) THEN Append(a, b[i]) ELSE a
  OBVIOUS
<1> HIDE DEF step
<1>5. PICK f \in [0..n -> Seq(T)] : Follows(f, <<>>, step, n)
  <2>1. ASSUME NEW A, NEW base \in A, step \in [(1..n) \X A -> A]
        PROVE  \E f \in [0..n -> A] : Follows(f, base, step, n)
    BY <2>1, RecursionExists
  <2> QED
    BY <1>2, <1>3, <2>1
<1>6. f = W(f, n)
  <2>1. ASSUME NEW i \in 1..n
        PROVE  f[i] = IF IsWord(b[i]) THEN Append(f[i - 1], b[i]) ELSE f[i - 1]
    <3>1. i - 1 \in 0..n /\ f[i - 1] \in Seq(T)
      OBVIOUS
    <3>2. f[i] = step[<<i, f[i - 1]>>]
      BY <1>5 DEF Follows
    <3> QED
      BY <1>4, <3>1, <3>2
  <2>2. f[0] = <<>>
    BY <1>5 DEF Follows
  <2>3. \A i \in 0..n : f[i] = W(f, n)[i]
    <3>1. W(f, n)[0] = <<>>
      OBVIOUS
    <3>2. \A i \in 1..n : W(f, n)[i] = f[i]
      BY <2>1
    <3> HIDE DEF W
    <3>3. \A i \in 0..n : i = 0 \/ i \in 1..n
      OBVIOUS
    <3> QED
      BY <2>2, <3>1, <3>2, <3>3
  <2>4. DOMAIN W(f, n) = 0..n /\ f = [i \in 0..n |-> f[i]]
    OBVIOUS
  <2> QED
    BY <2>3, <2>4
<1>7. w = W(w, n)
  <2> HIDE DEF W
  <2> QED
    BY <1>6
<1>8. Words(b) = w[n]
  BY <1>0, <1>1
<1> HIDE DEF w
<1>9. w[0] = <<>> /\ DOMAIN w = 0..n
  <2>1. 0 \in 0..n
    OBVIOUS
  <2> QED
    BY <1>7, <2>1
<1>10. ASSUME NEW i \in 1..n
       PROVE  w[i] = IF IsWord(b[i]) THEN Append(w[i - 1], b[i]) ELSE w[i - 1]
  <2>1. i \in 0..n /\ i # 0
    OBVIOUS
  <2>2. w[i] = W(w, n)[i]
    BY <1>7, Zenon
  <2>3. W(w, n)[i] = IF IsWord(b[i]) THEN Append(w[i - 1], b[i]) ELSE w[i - 1]
    BY <2>1
  <2> QED
    BY <2>2, <2>3
<1>11. \A i \in 0..n : w[i] \in Seq(T)
  <2> DEFINE Q == {i \in Nat : i <= n => w[i] \in Seq(T)}
  <2>1. 0 \in Q
    BY <1>3, <1>9
  <2>2. ASSUME NEW i \in Nat, i \in Q PROVE i + 1 \in Q
    <3> SUFFICES ASSUME i + 1 <= n PROVE w[i + 1] \in Seq(T)
      OBVIOUS
    <3>1. i + 1 \in 1..n /\ (i + 1) - 1 = i /\ w[i] \in Seq(T) /\ b[i + 1] \in T
      BY <1>1, <2>2
    <3>2. w[i + 1] = IF IsWord(b[i + 1]) THEN Append(w[i], b[i + 1]) ELSE w[i]
      BY <1>10, <3>1
    <3> QED
      BY <3>1, <3>2
  <2> HIDE DEF Q
  <2>3. Nat \subseteq Q
    BY <2>1, <2>2, NumberInduction
  <2> QED
    BY <2>3 DEF Q
<1>12. w \in [0..n -> Seq(T)]
  BY <1>7, <1>11
<1>13. WordsSteps(w, b, n)
  BY <1>9, <1>10 DEF WordsSteps, AddWord
<1> QED
  BY <1>1, <1>8, <1>12, <1>13

LEMMA AddToBoth ==
  ASSUME NEW T, NEW u \in Seq(T), NEW v \in Seq(T), NEW t \in T
  PROVE  AddWord(Both(u, v), t) = Both(u, AddWord(v, t))
<1>1. Append(u \o v, t) = u \o Append(v, t)
  OBVIOUS
<1> QED
  BY <1>1 DEF AddWord, Both

\* What two texts say together is what the one says and then the other.
LEMMA WordsJoin ==
  ASSUME NEW T, NEW a \in Seq(T), NEW b \in Seq(T)
  PROVE  Words(a \o b) = Words(a) \o Words(b)
<1>1. PICK c \in Seq(T), m \in Nat, n \in Nat :
        /\ c = a \o b /\ m = Len(a) /\ n = Len(b) /\ Len(c) = m + n
        /\ \A i \in 1..m : c[i] = a[i]
        /\ \A i \in 1..n : c[m + i] = b[i]
  <2>1. /\ a \o b \in Seq(T) /\ Len(a) \in Nat /\ Len(b) \in Nat
        /\ Len(a \o b) = Len(a) + Len(b)
        /\ \A i \in 1..Len(a) : (a \o b)[i] = a[i]
        /\ \A i \in 1..Len(b) : (a \o b)[Len(a) + i] = b[i]
    OBVIOUS
  <2> QED
    BY <2>1
<1>2. PICK f \in [0..m -> Seq(T)] : WordsSteps(f, a, m) /\ Words(a) = f[m]
  BY <1>1, WordsOf
<1>3. PICK g \in [0..n -> Seq(T)] : WordsSteps(g, b, n) /\ Words(b) = g[n]
  BY <1>1, WordsOf
<1>4. PICK h \in [0..(m + n) -> Seq(T)] : WordsSteps(h, c, m + n) /\ Words(c) = h[m + n]
  <2>1. \E h \in [0..Len(c) -> Seq(T)] : WordsSteps(h, c, Len(c)) /\ Words(c) = h[Len(c)]
    BY WordsOf
  <2> QED
    BY <1>1, <2>1
<1>5. h[m] = f[m]
  <2> DEFINE Q == {i \in Nat : i <= m => h[i] = f[i]}
  <2>1. 0 \in Q
    BY <1>2, <1>4 DEF WordsSteps
  <2>2. ASSUME NEW i \in Nat, i \in Q PROVE i + 1 \in Q
    <3> SUFFICES ASSUME i + 1 <= m PROVE h[i + 1] = f[i + 1]
      OBVIOUS
    <3>1. h[i] = f[i] /\ c[i + 1] = a[i + 1] /\ i + 1 \in 1..m /\ i + 1 \in 1..(m + n)
          /\ (i + 1) - 1 = i
      BY <1>1, <2>2
    <3> QED
      BY <1>2, <1>4, <3>1 DEF WordsSteps
  <2> HIDE DEF Q
  <2>3. m \in Q
    BY <2>1, <2>2, NumberInduction
  <2> QED
    BY <2>3 DEF Q
<1>6. h[m + n] = Both(f[m], g[n])
  <2>0. PICK u \in Seq(T) : u = f[m]
    OBVIOUS
  <2> DEFINE Q == {i \in Nat : i <= n => h[m + i] = Both(u, g[i])}
  <2>1. 0 \in Q
    <3>1. Both(u, <<>>) = u
      BY DEF Both
    <3>2. g[0] = <<>> /\ m + 0 = m
      BY <1>3 DEF WordsSteps
    <3>3. h[m + 0] = Both(u, g[0])
      BY <1>5, <2>0, <3>1, <3>2
    <3> QED
      BY <3>3
  <2>2. ASSUME NEW i \in Nat, i \in Q PROVE i + 1 \in Q
    <3> SUFFICES ASSUME i + 1 <= n PROVE h[m + (i + 1)] = Both(u, g[i + 1])
      OBVIOUS
    <3>1. /\ i + 1 \in 1..n /\ m + (i + 1) \in 1..(m + n)
          /\ (m + (i + 1)) - 1 = m + i /\ (i + 1) - 1 = i /\ i <= n /\ i \in 0..n
      OBVIOUS
    <3>2. h[m + i] = Both(u, g[i])
      BY <2>2, <3>1 DEF Q
    <3>3. c[m + (i + 1)] = b[i + 1] /\ b[i + 1] \in T
      BY <1>1, <3>1
    <3>4. g[i] \in Seq(T)
      BY <3>1
    <3>5. AddWord(Both(u, g[i]), b[i + 1]) = Both(u, AddWord(g[i], b[i + 1]))
      BY <3>3, <3>4, AddToBoth
    <3>6. h[m + (i + 1)] = AddWord(h[m + i], b[i + 1])
      BY <1>4, <3>1, <3>3 DEF WordsSteps
    <3>7. g[i + 1] = AddWord(g[i], b[i + 1])
      BY <1>3, <3>1 DEF WordsSteps
    <3> QED
      BY <3>2, <3>5, <3>6, <3>7
  <2> HIDE DEF Q
  <2>3. n \in Q
    BY <2>1, <2>2, NumberInduction
  <2> QED
    BY <2>0, <2>3 DEF Q
<1> QED
  BY <1>1, <1>2, <1>3, <1>4, <1>6 DEF Both

LEMMA NoWords ==
  ASSUME NEW T, NEW b \in Seq(T), \A i \in 1..Len(b) : ~IsWord(b[i])
  PROVE  Words(b) = <<>>
<1>1. PICK f \in [0..Len(b) -> Seq(T)] :
        WordsSteps(f, b, Len(b)) /\ Words(b) = f[Len(b)]
  BY WordsOf
<1> DEFINE Q == {i \in Nat : i <= Len(b) => f[i] = <<>>}
<1>2. 0 \in Q
  BY <1>1 DEF WordsSteps
<1>3. ASSUME NEW i \in Nat, i \in Q PROVE i + 1 \in Q
  <2> SUFFICES ASSUME i + 1 <= Len(b) PROVE f[i + 1] = <<>>
    OBVIOUS
  <2>1. i + 1 \in 1..Len(b) /\ (i + 1) - 1 = i /\ f[i] = <<>>
    BY <1>3
  <2> QED
    BY <1>1, <2>1 DEF WordsSteps, AddWord
<1> HIDE DEF Q
<1>4. Len(b) \in Q
  BY <1>2, <1>3, NumberInduction
<1> QED
  BY <1>1, <1>4 DEF Q
-----------------------------------------------------------------------------
(***************************************************************************)
(* Parts of a text.                                                        *)
(***************************************************************************)
Tok == STRING \union {"{", "error", "type", "}", "nl", "audit"} \union Codes
Shows(b, text, s) == \A i \in 1..Len(b) : b[i] = text[s + i]

LEMMA Cut ==
  ASSUME NEW T, NEW b \in Seq(T), NEW k \in 0..Len(b)
  PROVE  /\ SubSeq(b, 1, k) \in Seq(T) /\ Len(SubSeq(b, 1, k)) = k
         /\ Shows(SubSeq(b, 1, k), b, 0)
         /\ SubSeq(b, k + 1, Len(b)) \in Seq(T) /\ Len(SubSeq(b, k + 1, Len(b))) = Len(b) - k
         /\ Shows(SubSeq(b, k + 1, Len(b)), b, k)
BY DEF Shows

LEMMA Halves ==
  ASSUME NEW T, NEW b \in Seq(T), NEW i \in 2..Len(b)
  PROVE  /\ SubSeq(b, 1, i - 1) \in Seq(T) /\ SubSeq(b, i, Len(b)) \in Seq(T)
         /\ b = SubSeq(b, 1, i - 1) \o SubSeq(b, i, Len(b))
OBVIOUS

LEMMA Piece ==
  ASSUME NEW T, NEW b \in Seq(T), NEW m \in Nat, NEW n \in Nat, m <= n, n <= Len(b)
  PROVE  /\ SubSeq(b, m + 1, n) \in Seq(T) /\ Len(SubSeq(b, m + 1, n)) = n - m
         /\ Shows(SubSeq(b, m + 1, n), b, m)
BY DEF Shows

LEMMA Glue ==
  ASSUME NEW T, NEW a \in Seq(T), NEW b \in Seq(T)
  PROVE  /\ a \o b \in Seq(T) /\ Len(a \o b) = Len(a) + Len(b) /\ Len(a) \in Nat /\ Len(b) \in Nat
         /\ \A i \in 1..Len(a) : (a \o b)[i] = a[i]
         /\ \A i \in 1..Len(b) : (a \o b)[Len(a) + i] = b[i]
OBVIOUS

Told(text, n) == Words(SubSeq(text, 1, n))

\* A part of a text adds its words to those of what is before it.
LEMMA Advance ==
  ASSUME NEW text \in Seq(Tok), NEW s \in Nat, NEW e \in Nat, s <= e, e <= Len(text),
         NEW b \in Seq(Tok), Len(b) = e - s, Shows(b, text, s)
  PROVE  Told(text, e) = Both(Told(text, s), Words(b))
<1>1. /\ SubSeq(text, 1, s) \in Seq(Tok) /\ SubSeq(text, 1, e) \in Seq(Tok)
      /\ Len(SubSeq(text, 1, s)) = s /\ Len(SubSeq(text, 1, e)) = e
      /\ Shows(SubSeq(text, 1, s), text, 0) /\ Shows(SubSeq(text, 1, e), text, 0)
  BY Cut
<1>2. SubSeq(text, 1, e) = SubSeq(text, 1, s) \o b
  BY <1>1 DEF Shows
<1> QED
  BY <1>1, <1>2, WordsJoin DEF Told, Both

LEMMA WordsTyped ==
  ASSUME NEW b \in Seq(Tok)
  PROVE  Words(b) \in Seq(Tok)
<1>1. PICK f \in [0..Len(b) -> Seq(Tok)] : WordsSteps(f, b, Len(b)) /\ Words(b) = f[Len(b)]
  BY WordsOf
<1> QED
  BY <1>1

\* Protocol objects, ends of lines and nothing add no words.
LEMMA NoWordsAdded ==
  ASSUME NEW a \in Seq(Tok), NEW b \in Seq(Tok), \A i \in 1..Len(b) : ~IsWord(b[i])
  PROVE  Words(a \o b) = Words(a)
<1>1. Words(a \o b) = Words(a) \o Words(b) /\ Words(b) = <<>> /\ Words(a) \in Seq(Tok)
  BY WordsJoin, NoWords, WordsTyped
<1> QED
  BY <1>1

LEMMA OneToken ==
  ASSUME NEW T, NEW p \in T
  PROVE  <<p>> \in Seq(T) /\ Len(<<p>>) = 1 /\ <<p>>[1] = p
OBVIOUS

LEMMA ThreeTokens ==
  ASSUME NEW T, NEW p \in T, NEW q \in T, NEW r \in T, NEW b, b = <<p, q, r>>
  PROVE  b \in Seq(T) /\ Len(b) = 3 /\ b[1] = p /\ b[2] = q /\ b[3] = r
OBVIOUS

LEMMA FourTokens ==
  ASSUME NEW T, NEW p \in T, NEW q \in T, NEW r \in T, NEW s \in T, NEW b, b = <<p, q, r, s>>
  PROVE  b \in Seq(T) /\ Len(b) = 4 /\ b[1] = p /\ b[2] = q /\ b[3] = r /\ b[4] = s
OBVIOUS

LEMMA Tokens ==
  /\ "{" \in Tok /\ "error" \in Tok /\ "type" \in Tok /\ "}" \in Tok /\ "nl" \in Tok
  /\ "audit" \in Tok /\ \A code \in Codes : code \in Tok /\ ~IsWord(code)
  /\ ~IsWord("{") /\ ~IsWord("error") /\ ~IsWord("type") /\ ~IsWord("}") /\ ~IsWord("nl")
  /\ ~IsWord("audit")
BY DEF Tok, IsWord

LEMMA EnvelopeIs ==
  ASSUME NEW b \in Envelopes
  PROVE  /\ b \in Seq(Tok) /\ Len(b) = 4 /\ b[1] = "{" /\ b[2] = "error" /\ b[3] \in Codes
         /\ b[4] = "}"
<1>1. PICK code \in Codes : b = <<"{", "error", code, "}">>
  BY DEF Envelopes
<1>2. ASSUME NEW p \in Tok, NEW q \in Tok, NEW r \in Tok, NEW s \in Tok, b = <<p, q, r, s>>
      PROVE  b \in Seq(Tok) /\ Len(b) = 4 /\ b[1] = p /\ b[2] = q /\ b[3] = r /\ b[4] = s
  BY <1>2, FourTokens
<1> QED
  BY <1>1, <1>2, Tokens

LEMMA ProtocolIs ==
  ASSUME NEW b, IsProtocol(b)
  PROVE  /\ b \in Seq(Tok) /\ Len(b) \in {3, 4} /\ \A i \in 1..Len(b) : ~IsWord(b[i])
         /\ b \in Envelopes => Len(b) = 4 /\ b[3] \in Codes
<1>1. CASE b \in Envelopes
  <2>1. /\ b \in Seq(Tok) /\ Len(b) = 4 /\ b[3] \in Codes
        /\ ~IsWord(b[1]) /\ ~IsWord(b[2]) /\ ~IsWord(b[3]) /\ ~IsWord(b[4])
    BY <1>1, EnvelopeIs, Tokens
  <2>2. \A i \in 1..4 : i = 1 \/ i = 2 \/ i = 3 \/ i = 4
    OBVIOUS
  <2> QED
    BY <2>1, <2>2
<1>2. CASE b = <<"{", "type", "}">>
  <2>1. ASSUME NEW p \in Tok, NEW q \in Tok, NEW r \in Tok, b = <<p, q, r>>
        PROVE  b \in Seq(Tok) /\ Len(b) = 3 /\ b[1] = p /\ b[2] = q /\ b[3] = r
    BY <2>1, ThreeTokens
  <2>2. /\ b \in Seq(Tok) /\ Len(b) = 3
        /\ ~IsWord(b[1]) /\ ~IsWord(b[2]) /\ ~IsWord(b[3])
    BY <1>2, <2>1, Tokens
  <2>3. b \notin Envelopes
    <3> SUFFICES ASSUME b \in Envelopes PROVE FALSE
      OBVIOUS
    <3>1. Len(b) = 4
      BY EnvelopeIs
    <3>2. Len(b) = 3 /\ 3 # 4
      BY <2>2
    <3> QED
      BY <3>1, <3>2, Zenon
  <2>4. \A i \in 1..3 : i = 1 \/ i = 2 \/ i = 3
    OBVIOUS
  <2> QED
    BY <2>2, <2>3, <2>4
<1> QED
  BY <1>1, <1>2 DEF IsProtocol

LEMMA Terminated ==
  ASSUME NEW a \in Seq(Tok)
  PROVE  TerminateLine(a) \in Seq(Tok) /\ Words(TerminateLine(a)) = Words(a)
<1>1. PICK end \in Seq(Tok) : end = <<"nl">> /\ Len(end) = 1 /\ end[1] = "nl"
  BY Tokens, OneToken
<1>2. ASSUME NEW T, NEW t \in T, NEW x \in Seq(T)
      PROVE  Append(x, t) = x \o <<t>> /\ Append(x, t) \in Seq(T)
  OBVIOUS
<1>3. Append(a, "nl") = a \o end /\ Append(a, "nl") \in Seq(Tok)
  BY <1>1, <1>2, Tokens
<1>4. \A i \in 1..Len(end) : ~IsWord(end[i])
  <2>1. \A i \in 1..1 : i = 1
    OBVIOUS
  <2>2. ~IsWord(end[1])
    BY <1>1, Tokens
  <2> QED
    BY <1>1, <2>1, <2>2
<1>5. Words(a \o end) = Words(a)
  BY <1>4, NoWordsAdded
<1> QED
  BY <1>3, <1>5 DEF TerminateLine

\* Taking a protocol object out of the text.
LEMMA ConsumedProtocol ==
  ASSUME NEW b, IsProtocol(b), NEW out \in Seq(Tok), ConsumeProtocol(b, out)
  PROVE  /\ passed' \in Seq(Tok) /\ Words(passed') = Words(out)
         /\ envelopeSeen' = IF b \in Envelopes THEN b[3] ELSE envelopeSeen
BY Terminated DEF ConsumeProtocol

LEMMA ConsumedLine ==
  ASSUME passed \in Seq(Tok), NEW line \in Seq(Tok), NEW end \in {<<>>, <<"nl">>},
         ConsumeLine(line, end)
  PROVE  /\ passed' \in Seq(Tok) /\ Words(passed') = Both(Words(passed), Words(line))
         /\ envelopeSeen' \in Codes \union {envelopeSeen}
<1>1. CASE IsProtocol(line)
  <2>1. Words(line) = <<>> /\ Words(passed) \in Seq(Tok)
    BY <1>1, ProtocolIs, NoWords, WordsTyped
  <2>2. Both(Words(passed), <<>>) = Words(passed)
    BY <2>1 DEF Both
  <2> QED
    BY <1>1, <2>1, <2>2, ConsumedProtocol, ProtocolIs DEF ConsumeLine
<1>2. CASE ~IsProtocol(line) /\ ProtocolSuffix(line) # {}
  <2>1. PICK i \in ProtocolSuffix(line) :
          ConsumeProtocol(SubSeq(line, i, Len(line)), passed \o SubSeq(line, 1, i - 1))
    BY <1>2 DEF ConsumeLine
  <2>2. i \in 2..Len(line) /\ IsProtocol(SubSeq(line, i, Len(line))) /\ i - 1 \in 0..Len(line)
    BY DEF ProtocolSuffix
  <2> DEFINE front == SubSeq(line, 1, i - 1)
             back == SubSeq(line, i, Len(line))
  <2>3. front \in Seq(Tok) /\ back \in Seq(Tok) /\ line = front \o back
    BY <2>2, Halves
  <2> HIDE DEF front, back
  <2>4. passed \o front \in Seq(Tok) /\ Words(passed \o front) = Both(Words(passed), Words(front))
    BY <2>3, Glue, WordsJoin DEF Both
  <2>5. Words(line) = Words(front)
    BY <2>2, <2>3, ProtocolIs, NoWordsAdded DEF back
  <2>6. /\ passed' \in Seq(Tok) /\ Words(passed') = Words(passed \o front)
        /\ envelopeSeen' = IF back \in Envelopes THEN back[3] ELSE envelopeSeen
    BY <2>1, <2>2, <2>4, ConsumedProtocol DEF front, back
  <2>7. back \in Envelopes => back[3] \in Codes
    BY <2>2, ProtocolIs DEF back
  <2> QED
    BY <2>4, <2>5, <2>6, <2>7
<1>3. CASE ~IsProtocol(line) /\ ProtocolSuffix(line) = {}
  <2>1. passed' = passed \o line \o end /\ envelopeSeen' = envelopeSeen
    BY <1>3 DEF ConsumeLine
  <2>2. passed \o line \in Seq(Tok) /\ Words(passed \o line) = Both(Words(passed), Words(line))
    BY Glue, WordsJoin DEF Both
  <2>3. end \in Seq(Tok) /\ \A i \in 1..Len(end) : ~IsWord(end[i])
    <3>1. CASE end = <<>>
      BY <3>1
    <3>2. CASE end = <<"nl">>
      <4>1. end \in Seq(Tok) /\ Len(end) = 1 /\ end[1] = "nl"
        BY <3>2, Tokens, OneToken
      <4>2. \A i \in 1..1 : i = 1
        OBVIOUS
      <4>3. ~IsWord(end[1])
        BY <4>1, Tokens
      <4> QED
        BY <4>1, <4>2, <4>3
    <3> QED
      BY <3>1, <3>2
  <2> QED
    BY <2>1, <2>2, <2>3, Glue, NoWordsAdded
<1> QED
  BY <1>1, <1>2, <1>3

\* An envelope at the end of a line is found, whatever is before it.
LEMMA ConsumedEnvelope ==
  ASSUME NEW line \in Seq(Tok), NEW end, ConsumeLine(line, end),
         NEW e \in Envelopes, Len(line) >= 4, SubSeq(line, Len(line) - 3, Len(line)) = e
  PROVE  envelopeSeen' = e[3]
<1>1. IsProtocol(e)
  BY DEF IsProtocol
<1>2. CASE IsProtocol(line)
  <2>1. Len(line) = 4
    BY <1>2, ProtocolIs
  <2>2. line = e
    BY <2>1
  <2> QED
    BY <1>2, <2>2 DEF ConsumeLine, ConsumeProtocol
<1>3. CASE ~IsProtocol(line)
  <2>1. Len(line) # 4
    <3> SUFFICES ASSUME Len(line) = 4 PROVE line = e
      BY <1>1, <1>3
    <3> QED
      OBVIOUS
  <2>2. Len(line) - 3 \in 2..Len(line) /\ Len(line) \in Nat
    BY <2>1
  <2>3. ASSUME NEW i \in ProtocolSuffix(line) PROVE i = Len(line) - 3
    <3>1. i \in 2..Len(line) /\ IsProtocol(SubSeq(line, i, Len(line)))
          /\ \A j \in 2..(i - 1) : ~IsProtocol(SubSeq(line, j, Len(line)))
      BY <2>3 DEF ProtocolSuffix
    <3>2. Len(SubSeq(line, i, Len(line))) = Len(line) - i + 1
      BY <3>1
    <3>3. Len(line) - i + 1 \in {3, 4}
      BY <3>1, <3>2, ProtocolIs
    <3>4. ~(Len(line) - 3 \in 2..(i - 1))
      BY <1>1, <3>1
    <3> QED
      BY <2>2, <3>1, <3>3, <3>4
  <2>4. ProtocolSuffix(line) # {}
    <3>1. ASSUME NEW j \in 2..(Len(line) - 4) PROVE ~IsProtocol(SubSeq(line, j, Len(line)))
      <4>1. Len(SubSeq(line, j, Len(line))) = Len(line) - j + 1
            /\ Len(line) - j + 1 # 3 /\ Len(line) - j + 1 # 4
        BY <2>2
      <4> QED
        BY <4>1, ProtocolIs
    <3>2. (Len(line) - 3) - 1 = Len(line) - 4
      BY <2>2
    <3>3. Len(line) - 3 \in ProtocolSuffix(line)
      BY <1>1, <2>2, <3>1, <3>2 DEF ProtocolSuffix
    <3> QED
      BY <3>3
  <2>5. PICK i \in ProtocolSuffix(line) :
          ConsumeProtocol(SubSeq(line, i, Len(line)), passed \o SubSeq(line, 1, i - 1))
    BY <1>3, <2>4 DEF ConsumeLine
  <2>6. SubSeq(line, i, Len(line)) = e
    BY <2>3
  <2> QED
    BY <2>5, <2>6 DEF ConsumeProtocol
<1> QED
  BY <1>2, <1>3
-----------------------------------------------------------------------------
(***************************************************************************)
(* The inductive invariant.  What the filter holds back, the rest of the   *)
(* current write or what is pending, is the last part of what was written, *)
(* and Start is where it begins.                                           *)
(***************************************************************************)
Held == IF rest # <<>> THEN rest ELSE pending
Start == written - Len(Held)

FilterTypes ==
  /\ stream \in [workload : Printed, mxc : Closing]
  /\ rest \in Seq(Tok) /\ pending \in Seq(Tok) /\ passed \in Seq(Tok)
  /\ written \in 0..Len(AllText) /\ emits \in 0..MaxEmits
  /\ envelopeSeen \in Codes \union {"none"}

HeldBack ==
  /\ Len(Held) <= written /\ Shows(Held, AllText, Start)
  /\ rest # <<>> => writing /\ pending = <<>>
  /\ pending = <<>> \/ inMarker \/ pending = <<"{">>
  /\ Len(pending) <= MaxMarkerLine
  /\ filterClosed => ~writing /\ written = Len(AllText) /\ Held = <<>>

\* A suspected line begins with a marker, and held back it is still open.
SuspectedLine ==
  inMarker => MarkerAt(Held, 1) /\ (rest = <<>> => Newlines(pending) = {})

\* What was forwarded has told the words of the text up to what is held back.
WordsPassed == Words(passed) = Told(AllText, Start)

\* The envelope is still to be looked at, whole, or it was found.
EnvelopeAhead ==
  stream.mxc # <<>> /\ ~LongLine(AllText) =>
    \/ Start <= Len(stream.workload)
    \/ Start >= Len(stream.workload) + 4 /\ envelopeSeen = stream.mxc[3]

FilterInv == FilterTypes /\ HeldBack /\ SuspectedLine /\ WordsPassed /\ EnvelopeAhead
-----------------------------------------------------------------------------
(***************************************************************************)
(* Texts and markers.                                                      *)
(***************************************************************************)
LEMMA SeqGrows ==
  ASSUME NEW S, NEW T, S \subseteq T, NEW b \in Seq(S)
  PROVE  b \in Seq(T)
OBVIOUS

LEMMA TwoTokens ==
  ASSUME NEW T, NEW p \in T, NEW q \in T, NEW b, b = <<p, q>>
  PROVE  b \in Seq(T) /\ Len(b) = 2 /\ b[1] = p /\ b[2] = q
OBVIOUS

LEMMA TwoAre ==
  ASSUME NEW T, NEW b \in Seq(T), Len(b) = 2, NEW p \in T, NEW q \in T
  PROVE  b = <<p, q>> <=> b[1] = p /\ b[2] = q
OBVIOUS

LEMMA AfterFour ==
  ASSUME NEW T, NEW b \in Seq(T), Len(b) = 4, NEW t \in T
  PROVE  /\ Append(b, t) \in Seq(T) /\ Len(Append(b, t)) = 5 /\ Append(b, t)[5] = t
         /\ \A i \in 1..4 : Append(b, t)[i] = b[i]
<1>1. ASSUME NEW x \in Seq(T)
      PROVE  /\ Append(x, t) \in Seq(T) /\ Len(Append(x, t)) = Len(x) + 1
             /\ Append(x, t)[Len(x) + 1] = t
             /\ \A i \in 1..Len(x) : Append(x, t)[i] = x[i]
  OBVIOUS
<1> DEFINE c == Append(b, t)
<1>2. /\ c \in Seq(T) /\ Len(c) = Len(b) + 1 /\ c[Len(b) + 1] = t
      /\ \A i \in 1..Len(b) : c[i] = b[i]
  BY <1>1, Zenon
<1> HIDE DEF c
<1>3. c \in Seq(T) /\ Len(c) = 5 /\ c[5] = t /\ \A i \in 1..4 : c[i] = b[i]
  BY <1>2
<1> QED
  BY <1>3 DEF c

LEMMA MarkerIs ==
  ASSUME NEW b \in Seq(Tok), NEW i \in Nat \ {0}
  PROVE  MarkerAt(b, i) <=> i < Len(b) /\ b[i] = "{" /\ b[i + 1] \in {"error", "type"}
<1> SUFFICES ASSUME i < Len(b)
             PROVE  SubSeq(b, i, i + 1) \in Markers
                      <=> b[i] = "{" /\ b[i + 1] \in {"error", "type"}
  BY DEF MarkerAt
<1>1. PICK two \in Seq(Tok) : /\ two = SubSeq(b, i, i + 1) /\ Len(two) = 2
                              /\ two[1] = b[i] /\ two[2] = b[i + 1]
  <2>1. /\ SubSeq(b, i, i + 1) \in Seq(Tok) /\ Len(SubSeq(b, i, i + 1)) = 2
        /\ SubSeq(b, i, i + 1)[1] = b[i] /\ SubSeq(b, i, i + 1)[2] = b[i + 1]
    OBVIOUS
  <2> QED
    BY <2>1
<1>2. ASSUME NEW p \in Tok, NEW q \in Tok
      PROVE  two = <<p, q>> <=> two[1] = p /\ two[2] = q
  <2>1. two \in Seq(Tok) /\ Len(two) = 2
    BY <1>1
  <2> QED
    BY <2>1, TwoAre
<1>3. two = <<"{", "error">> <=> two[1] = "{" /\ two[2] = "error"
  BY <1>2, Tokens, Zenon
<1>4. two = <<"{", "type">> <=> two[1] = "{" /\ two[2] = "type"
  BY <1>2, Tokens, Zenon
<1>5. two \in Markers <=> two = <<"{", "error">> \/ two = <<"{", "type">>
  BY DEF Markers
<1> QED
  BY <1>1, <1>3, <1>4, <1>5

LEMMA OpensMarker ==
  ASSUME NEW b \in Seq(Tok)
  PROVE  MarkerAt(b, 1) <=> 1 < Len(b) /\ b[1] = "{" /\ b[2] \in {"error", "type"}
<1>1. ASSUME NEW i \in Nat \ {0}
      PROVE  MarkerAt(b, i) <=> i < Len(b) /\ b[i] = "{" /\ b[i + 1] \in {"error", "type"}
  BY MarkerIs
<1>2. 1 \in Nat \ {0} /\ 1 + 1 = 2
  OBVIOUS
<1>3. MarkerAt(b, 1) <=> 1 < Len(b) /\ b[1] = "{" /\ b[1 + 1] \in {"error", "type"}
  BY <1>1, <1>2, Zenon
<1> QED
  BY <1>2, <1>3, Zenon

\* Where MXC's envelope stands in a text.
EnvelopeAfter(text, w, code) ==
  \E e \in Envelopes :
    /\ e[3] = code /\ Len(text) \in {w + 4, w + 5} /\ Shows(e, text, w)
    /\ Len(text) = w + 5 => text[w + 5] = "nl"

LEMMA StreamIs ==
  ASSUME stream \in [workload : Printed, mxc : Closing]
  PROVE  /\ AllText \in Seq(Tok) /\ stream.workload \in Seq(Tok)
         /\ stream.mxc # <<>> =>
              EnvelopeAfter(AllText, Len(stream.workload), stream.mxc[3])
<1>1. PICK w \in Seq(Tok) : w = stream.workload
  <2>1. stream.workload \in Seq(STRING) /\ STRING \subseteq Tok
    BY StderrAssumption DEF Tok
  <2> QED
    BY <2>1, SeqGrows
<1>2. PICK m : m = stream.mxc /\ m \in Closing
  OBVIOUS
<1>3. CASE m = <<>>
  <2>1. w \o m \in Seq(Tok)
    BY <1>3
  <2> QED
    BY <1>1, <1>2, <1>3, <2>1 DEF AllText
<1>4. ASSUME NEW e \in Envelopes, m \in {e, Append(e, "nl")}
      PROVE  m \in Seq(Tok) /\ EnvelopeAfter(w \o m, Len(w), m[3])
  <2>1. e \in Seq(Tok) /\ Len(e) = 4
    BY EnvelopeIs
  <2>2. ASSUME NEW t \in Tok
        PROVE  /\ Append(e, t) \in Seq(Tok) /\ Len(Append(e, t)) = 5 /\ Append(e, t)[5] = t
               /\ \A i \in 1..4 : Append(e, t)[i] = e[i]
    BY <2>1, AfterFour
  <2>3. /\ m \in Seq(Tok) /\ Len(m) \in {4, 5} /\ \A i \in 1..4 : m[i] = e[i]
        /\ Len(m) = 5 => m[5] = "nl"
    <3>1. CASE m = e
      BY <2>1, <3>1
    <3>2. CASE m = Append(e, "nl")
      <4>1. /\ m \in Seq(Tok) /\ Len(m) = 5 /\ m[5] = "nl" /\ \A i \in 1..4 : m[i] = e[i]
        BY <2>2, <3>2, Tokens, Zenon
      <4> QED
        BY <4>1
    <3> QED
      BY <1>4, <3>1, <3>2
  <2>4. PICK c \in Seq(Tok) : /\ c = w \o m /\ Len(c) = Len(w) + Len(m) /\ Len(w) \in Nat
                              /\ \A i \in 1..Len(m) : c[Len(w) + i] = m[i]
    <3>1. /\ w \o m \in Seq(Tok) /\ Len(w \o m) = Len(w) + Len(m) /\ Len(w) \in Nat
          /\ \A i \in 1..Len(m) : (w \o m)[Len(w) + i] = m[i]
      <4>1. m \in Seq(Tok)
        BY <2>3
      <4> QED
        BY <4>1, Glue
    <3> QED
      BY <3>1, Zenon
  <2>5. Len(c) \in {Len(w) + 4, Len(w) + 5} /\ (Len(c) = Len(w) + 5 => c[Len(w) + 5] = "nl")
    <3>1. CASE Len(m) = 4
      BY <2>4, <3>1
    <3>2. CASE Len(m) = 5
      <4>1. m[5] = "nl" /\ 5 \in 1..Len(m)
        BY <2>3, <3>2
      <4>2. c[Len(w) + 5] = "nl"
        BY <2>4, <4>1
      <4>3. Len(c) = Len(w) + 5
        BY <2>4, <3>2
      <4> QED
        BY <4>2, <4>3
    <3> QED
      BY <2>3, <3>1, <3>2
  <2>6. Shows(e, c, Len(w)) /\ e[3] = m[3]
    BY <2>1, <2>3, <2>4 DEF Shows
  <2> QED
    BY <2>3, <2>4, <2>5, <2>6 DEF EnvelopeAfter
<1>5. m = <<>> \/ \E e \in Envelopes : m \in {e, Append(e, "nl")}
  BY <1>2, StderrAssumption
<1>6. m \in Seq(Tok) => w \o m \in Seq(Tok)
  BY Glue
<1> QED
  BY <1>1, <1>2, <1>3, <1>4, <1>5, <1>6 DEF AllText
-----------------------------------------------------------------------------
(***************************************************************************)
(* The steps.                                                              *)
(***************************************************************************)
LEMMA FilterFacts ==
  ASSUME FilterTypes, HeldBack
  PROVE  /\ AllText \in Seq(Tok) /\ Held \in Seq(Tok) /\ Len(AllText) \in Nat /\ Len(Held) \in Nat
         /\ written \in 0..Len(AllText) /\ Start \in 0..Len(AllText) /\ written = Start + Len(Held)
         /\ rest # <<>> => Held = rest /\ pending = <<>> /\ writing
         /\ rest = <<>> => Held = pending
<1>1. AllText \in Seq(Tok) /\ Held \in Seq(Tok)
  BY StreamIs DEF FilterTypes, Held
<1>2. written \in 0..Len(AllText) /\ Len(Held) <= written /\ Start = written - Len(Held)
  BY DEF FilterTypes, HeldBack, Start
<1>3. Len(AllText) \in Nat /\ Len(Held) \in Nat
  BY <1>1
<1>4. Start \in 0..Len(AllText) /\ written = Start + Len(Held)
  BY <1>2, <1>3
<1>5. /\ rest # <<>> => Held = rest /\ pending = <<>> /\ writing
      /\ rest = <<>> => Held = pending
  BY DEF HeldBack, Held
<1> QED
  BY <1>1, <1>2, <1>3, <1>4, <1>5

\* Text that is forwarded, or taken out, tells the words it had.
LEMMA WordsMove ==
  ASSUME FilterTypes, HeldBack, WordsPassed, AllText' = AllText,
         NEW b \in Seq(Tok), Shows(b, AllText, Start),
         Start' = Start + Len(b), Start' <= Len(AllText),
         Words(passed') = Both(Words(passed), Words(b))
  PROVE  WordsPassed'
<1>1. /\ AllText \in Seq(Tok) /\ Start \in Nat /\ Len(b) \in Nat /\ Start' \in Nat
      /\ Start <= Start' /\ Len(b) = Start' - Start
  <2>1. AllText \in Seq(Tok) /\ Start \in Nat
    BY FilterFacts
  <2>2. Len(b) \in Nat
    OBVIOUS
  <2> QED
    BY <2>1, <2>2
<1>2. Told(AllText, Start') = Both(Told(AllText, Start), Words(b))
  BY <1>1, Advance
<1> QED
  BY <1>2 DEF WordsPassed

\* Nothing moves, and nothing is found.
LEMMA NothingMoves ==
  ASSUME WordsPassed, EnvelopeAhead, stream' = stream, Start' = Start,
         Words(passed') = Words(passed), envelopeSeen' = envelopeSeen
  PROVE  WordsPassed' /\ EnvelopeAhead'
BY DEF WordsPassed, EnvelopeAhead, AllText

\* Close to the end of the text nothing suspected is held back.
LEMMA NotSuspected ==
  ASSUME FilterInv, Len(Held) < 2
  PROVE  ~inMarker
<1>1. Held \in Seq(Tok) /\ Len(Held) \in Nat
  BY FilterFacts DEF FilterInv
<1>2. inMarker => 1 < Len(Held)
  <2>1. inMarker => MarkerAt(Held, 1)
    BY DEF FilterInv, SuspectedLine
  <2> QED
    BY <1>1, <2>1, OpensMarker
<1> QED
  BY <1>1, <1>2

LEMMA BeginWriteStep ==
  ASSUME FilterInv, BeginWrite
  PROVE  FilterInv'
<1> DEFINE T == AllText
<1>1. /\ T \in Seq(Tok) /\ Len(T) \in Nat /\ pending \in Seq(Tok) /\ Len(pending) \in Nat
      /\ Held = pending /\ rest = <<>> /\ written \in 0..Len(T) /\ Start \in 0..Len(T)
      /\ written = Start + Len(pending)
  <2>1. rest = <<>>
    BY FilterFacts DEF FilterInv, BeginWrite
  <2> QED
    BY <2>1, FilterFacts DEF FilterInv, FilterTypes
<1>2. T' = T
  BY DEF BeginWrite, AllText
<1>3. PICK n \in (written + 1)..Len(T) :
        rest' = pending \o SubSeq(T, written + 1, n) /\ written' = n
  BY DEF BeginWrite
<1> HIDE DEF T
<1>4. PICK q \in Seq(Tok) : /\ q = SubSeq(T, written + 1, n) /\ Len(q) = n - written
                            /\ \A i \in 1..Len(q) : q[i] = T[written + i]
  <2>1. n \in Nat /\ written <= n /\ n <= Len(T) /\ written \in Nat /\ T \in Seq(Tok)
    BY <1>1
  <2>2. /\ SubSeq(T, written + 1, n) \in Seq(Tok) /\ Len(SubSeq(T, written + 1, n)) = n - written
        /\ Shows(SubSeq(T, written + 1, n), T, written)
    BY <2>1, Piece
  <2> QED
    BY <2>2 DEF Shows
<1>5. PICK r \in Seq(Tok) : /\ r = rest' /\ Len(r) = Len(pending) + (n - written)
                            /\ \A i \in 1..Len(pending) : r[i] = pending[i]
                            /\ \A i \in 1..Len(q) : r[Len(pending) + i] = q[i]
  <2>1. /\ pending \o q \in Seq(Tok) /\ Len(pending \o q) = Len(pending) + Len(q)
        /\ \A i \in 1..Len(pending) : (pending \o q)[i] = pending[i]
        /\ \A i \in 1..Len(q) : (pending \o q)[Len(pending) + i] = q[i]
    BY <1>1, Glue
  <2>2. rest' = pending \o q
    BY <1>3, <1>4
  <2> QED
    BY <1>4, <2>1, <2>2
<1>6. /\ Len(r) > 0 /\ r # <<>> /\ n \in Nat /\ n <= Len(T) /\ Len(r) <= n /\ n - Len(r) = Start
      /\ Len(r) \in Nat /\ Len(pending) <= Len(r)
  BY <1>1, <1>5
<1>7. Held' = r /\ Start' = Start /\ pending' = <<>>
  BY <1>3, <1>5, <1>6 DEF Held, Start, BeginWrite
<1>8. Shows(r, T, Start)
  <2>1. ASSUME NEW i \in 1..Len(r) PROVE r[i] = T[Start + i]
    <3>1. CASE i <= Len(pending)
      <4>1. i \in 1..Len(pending)
        BY <1>1, <3>1
      <4>2. Shows(pending, T, Start)
        BY <1>1 DEF FilterInv, HeldBack, T
      <4> QED
        BY <1>5, <4>1, <4>2 DEF Shows
    <3>2. CASE ~(i <= Len(pending))
      <4>1. i - Len(pending) \in 1..Len(q) /\ Len(pending) + (i - Len(pending)) = i
            /\ written + (i - Len(pending)) = Start + i
        BY <1>1, <1>3, <1>4, <1>5, <3>2
      <4> QED
        BY <1>4, <1>5, <4>1
    <3> QED
      BY <3>1, <3>2
  <2> QED
    BY <2>1 DEF Shows
<1>9. FilterTypes'
  <2>1. n \in 0..Len(T)
    BY <1>1
  <2> QED
    BY <1>2, <1>3, <1>5, <1>7, <2>1 DEF FilterInv, FilterTypes, BeginWrite, T
<1>10. HeldBack'
  <2>1. Len(Held') <= written' /\ Shows(Held', AllText', Start')
    BY <1>2, <1>3, <1>6, <1>7, <1>8 DEF T
  <2>2. Len(<<>>) <= MaxMarkerLine
    BY StderrAssumption
  <2>3. pending' = <<>> /\ writing' /\ ~filterClosed'
    BY <1>7 DEF BeginWrite
  <2> QED
    BY <2>1, <2>2, <2>3 DEF HeldBack
<1>11. SuspectedLine'
  <2>1. SUFFICES ASSUME inMarker PROVE MarkerAt(r, 1)
    BY <1>5, <1>6, <1>7 DEF SuspectedLine, BeginWrite
  <2>2. MarkerAt(pending, 1)
    BY <1>1, <2>1 DEF FilterInv, SuspectedLine
  <2>3. 1 < Len(pending) /\ pending[1] = "{" /\ pending[2] \in {"error", "type"}
    BY <1>1, <2>2, OpensMarker
  <2>4. r[1] = pending[1] /\ r[2] = pending[2] /\ 1 < Len(r)
    <3> DEFINE k == Len(pending)
    <3>0. k \in Nat /\ 1 < k
      BY <1>1, <2>3
    <3>1. 1 \in 1..Len(pending) /\ 2 \in 1..Len(pending)
      BY <3>0
    <3>2. 1 < Len(r)
      BY <1>6, <3>0
    <3> QED
      BY <1>5, <3>1, <3>2
  <2> QED
    BY <2>3, <2>4, OpensMarker
<1>12. WordsPassed' /\ EnvelopeAhead'
  BY <1>7, NothingMoves DEF FilterInv, BeginWrite
<1> QED
  BY <1>9, <1>10, <1>11, <1>12 DEF FilterInv

LEMMA EndWriteStep ==
  ASSUME FilterInv, EndWrite
  PROVE  FilterInv'
<1>1. Held' = Held /\ Start' = Start /\ AllText' = AllText
  BY DEF EndWrite, filterState, Held, Start, AllText
<1>2. FilterTypes'
  BY <1>1 DEF FilterInv, FilterTypes, EndWrite, filterState
<1>3. HeldBack'
  BY <1>1 DEF FilterInv, HeldBack, EndWrite, filterState
<1>4. SuspectedLine'
  BY <1>1 DEF FilterInv, SuspectedLine, EndWrite, filterState
<1>5. WordsPassed' /\ EnvelopeAhead'
  BY <1>1, NothingMoves DEF FilterInv, EndWrite, filterState
<1> QED
  BY <1>2, <1>3, <1>4, <1>5 DEF FilterInv

LEMMA EmitStep ==
  ASSUME FilterInv, Emit
  PROVE  FilterInv'
<1>1. Held' = Held /\ Start' = Start /\ AllText' = AllText
  BY DEF Emit, Held, Start, AllText
<1>2. PICK line \in Seq(Tok) : /\ line = <<"audit", "nl">>
                               /\ \A i \in 1..Len(line) : ~IsWord(line[i])
  <2>1. ASSUME NEW p \in Tok, NEW q \in Tok, NEW b, b = <<p, q>>
        PROVE  b \in Seq(Tok) /\ Len(b) = 2 /\ b[1] = p /\ b[2] = q
    BY <2>1, TwoTokens
  <2> DEFINE b == <<"audit", "nl">>
  <2>2. b \in Seq(Tok) /\ Len(b) = 2 /\ b[1] = "audit" /\ b[2] = "nl"
    BY <2>1, Tokens
  <2> HIDE DEF b
  <2>3. b \in Seq(Tok) /\ Len(b) = 2 /\ ~IsWord(b[1]) /\ ~IsWord(b[2])
    BY <2>2, Tokens
  <2>4. \A i \in 1..2 : i = 1 \/ i = 2
    OBVIOUS
  <2>5. \A i \in 1..Len(b) : ~IsWord(b[i])
    BY <2>3, <2>4
  <2> QED
    BY <2>3, <2>5 DEF b
<1>3. passed' = TerminateLine(passed) \o line
  BY <1>2 DEF Emit
<1>4. TerminateLine(passed) \in Seq(Tok) /\ Words(TerminateLine(passed)) = Words(passed)
  BY Terminated DEF FilterInv, FilterTypes
<1>5. passed' \in Seq(Tok) /\ Words(passed') = Words(passed)
  BY <1>2, <1>3, <1>4, Glue, NoWordsAdded
<1>6. emits' \in 0..MaxEmits
  BY StderrAssumption DEF FilterInv, FilterTypes, Emit
<1>7. FilterTypes'
  BY <1>1, <1>5, <1>6 DEF FilterInv, FilterTypes, Emit
<1>8. HeldBack'
  BY <1>1 DEF FilterInv, HeldBack, Emit
<1>9. SuspectedLine'
  BY <1>1 DEF FilterInv, SuspectedLine, Emit
<1>10. WordsPassed' /\ EnvelopeAhead'
  BY <1>1, <1>5, NothingMoves DEF FilterInv, Emit
<1> QED
  BY <1>7, <1>8, <1>9, <1>10 DEF FilterInv

LEMMA IndexMarkerIs ==
  ASSUME NEW b \in Seq(Tok), HasMarker(b)
  PROVE  /\ IndexMarker(b) \in 1..Len(b) /\ MarkerAt(b, IndexMarker(b))
         /\ \A j \in 1..(IndexMarker(b) - 1) : ~MarkerAt(b, j)
<1>1. Len(b) \in Nat
  OBVIOUS
<1> DEFINE S == {i \in 1..Len(b) : MarkerAt(b, i)}
<1>2. S \subseteq Nat /\ S # {}
  BY <1>1 DEF HasMarker
<1>3. PICK m \in S : \A j \in S : m <= j
  <2> HIDE DEF S
  <2> QED
    BY <1>2, LeastNumber
<1>4. m \in 1..Len(b) /\ MarkerAt(b, m) /\ \A j \in 1..(m - 1) : ~MarkerAt(b, j)
  <2>1. ASSUME NEW j \in 1..(m - 1), MarkerAt(b, j) PROVE FALSE
    <3>1. j \in 1..Len(b) /\ ~(m <= j)
      BY <1>1, <1>2
    <3>2. j \in S
      BY <2>1, <3>1
    <3> QED
      BY <1>3, <3>1, <3>2
  <2>2. m \in 1..Len(b) /\ MarkerAt(b, m)
    BY <1>3
  <2> QED
    BY <2>1, <2>2
<1> QED
  BY <1>4 DEF IndexMarker

LEMMA NewlineIs ==
  ASSUME NEW b \in Seq(Tok), Newlines(b) # {}
  PROVE  /\ NewlineAt(b) \in 1..Len(b) /\ b[NewlineAt(b)] = "nl"
         /\ \A j \in 1..(NewlineAt(b) - 1) : b[j] # "nl"
<1>1. Len(b) \in Nat /\ Newlines(b) \subseteq Nat
  BY DEF Newlines
<1>2. PICK m \in Newlines(b) : \A j \in Newlines(b) : m <= j
  BY <1>1, LeastNumber
<1>3. NewlineAt(b) \in Newlines(b) /\ \A j \in Newlines(b) : NewlineAt(b) <= j
  BY <1>2 DEF NewlineAt
<1> DEFINE n == NewlineAt(b)
<1>4. n \in 1..Len(b) /\ b[n] = "nl"
  BY <1>3 DEF Newlines
<1>5. ASSUME NEW j \in 1..(n - 1) PROVE b[j] # "nl"
  <2> HIDE DEF n
  <2>1. j \in 1..Len(b) /\ ~(n <= j)
    BY <1>1, <1>4
  <2>2. j \notin Newlines(b)
    BY <1>3, <2>1 DEF n
  <2> QED
    BY <2>1, <2>2 DEF Newlines
<1> QED
  BY <1>4, <1>5

LEMMA Divided ==
  ASSUME NEW text \in Seq(Tok), NEW s \in Nat, NEW b \in Seq(Tok), Shows(b, text, s),
         NEW k \in 0..Len(b)
  PROVE  \E front \in Seq(Tok), back \in Seq(Tok) :
           /\ front = SubSeq(b, 1, k) /\ Len(front) = k /\ Shows(front, text, s)
           /\ back = SubSeq(b, k + 1, Len(b)) /\ Len(back) = Len(b) - k
           /\ Shows(back, text, s + k) /\ \A i \in 1..(Len(b) - k) : back[i] = b[k + i]
<1>1. PICK front \in Seq(Tok), back \in Seq(Tok) :
        /\ front = SubSeq(b, 1, k) /\ back = SubSeq(b, k + 1, Len(b))
        /\ Len(front) = k /\ Shows(front, b, 0) /\ Len(back) = Len(b) - k /\ Shows(back, b, k)
  BY Cut
<1>2. Len(b) \in Nat /\ k \in Nat /\ k <= Len(b)
  OBVIOUS
<1>3. \A i \in 1..k : front[i] = b[i]
  BY <1>1, <1>2 DEF Shows
<1>4. \A i \in 1..(Len(b) - k) : back[i] = b[k + i]
  BY <1>1 DEF Shows
<1>5. \A i \in 1..k : i \in 1..Len(b)
  BY <1>2
<1>6. Shows(front, text, s)
  BY <1>1, <1>3, <1>5 DEF Shows
<1>7. ASSUME NEW i \in 1..(Len(b) - k) PROVE back[i] = text[(s + k) + i]
  <2>1. k + i \in 1..Len(b) /\ s + (k + i) = (s + k) + i
    BY <1>2
  <2> QED
    BY <1>4, <2>1 DEF Shows
<1>8. Shows(back, text, s + k)
  BY <1>1, <1>7 DEF Shows
<1> QED
  BY <1>1, <1>4, <1>6, <1>8

LEMMA EnvelopeShown ==
  ASSUME NEW e \in Envelopes, NEW text \in Seq(Tok), NEW w \in Nat, Shows(e, text, w)
  PROVE  /\ text[w + 1] = "{" /\ text[w + 2] = "error" /\ text[w + 3] = e[3] /\ text[w + 4] = "}"
         /\ e[1] = text[w + 1] /\ e[2] = text[w + 2] /\ e[3] \in Codes
<1>1. Len(e) = 4 /\ e[1] = "{" /\ e[2] = "error" /\ e[3] \in Codes /\ e[4] = "}"
  BY EnvelopeIs
<1>2. 1 \in 1..4 /\ 2 \in 1..4 /\ 3 \in 1..4 /\ 4 \in 1..4
  OBVIOUS
<1>3. \A i \in 1..4 : e[i] = text[w + i]
  BY <1>1 DEF Shows
<1> QED
  BY <1>1, <1>2, <1>3

LEMMA FindMarkerStep ==
  ASSUME FilterInv, FindMarker
  PROVE  FilterInv'
<1> DEFINE m == IndexMarker(rest)
           T == AllText
           Lw == Len(stream.workload)
<1>1. T' = T /\ stream' = stream
  BY DEF FindMarker, AllText
<1>2. m \in 1..Len(rest) /\ MarkerAt(rest, m) /\ \A j \in 1..(m - 1) : ~MarkerAt(rest, j)
  BY IndexMarkerIs DEF FilterInv, FilterTypes, FindMarker
<1>3. rest \in Seq(Tok) /\ rest # <<>> /\ Len(rest) \in Nat
  <2>1. rest \in Seq(Tok)
    BY DEF FilterInv, FilterTypes
  <2> QED
    BY <1>2, <2>1
<1>4. /\ passed' = passed \o SubSeq(rest, 1, m - 1) /\ rest' = SubSeq(rest, m, Len(rest))
      /\ inMarker' = TRUE
      /\ UNCHANGED <<written, writing, pending, envelopeSeen, emits, filterClosed>>
      /\ writing /\ ~inMarker
  BY DEF FindMarker
<1>5. m < Len(rest) /\ rest[m] = "{" /\ rest[m + 1] \in {"error", "type"}
  <2>1. m \in Nat \ {0}
    BY <1>2, <1>3
  <2> HIDE DEF m
  <2> QED
    BY <1>2, <1>3, <2>1, MarkerIs
<1>6. /\ T \in Seq(Tok) /\ Held = rest /\ pending = <<>> /\ written \in 0..Len(T)
      /\ Start \in 0..Len(T) /\ written = Start + Len(rest) /\ Len(T) \in Nat
  BY <1>3, FilterFacts DEF FilterInv
<1>7. Shows(rest, T, Start)
  BY <1>6 DEF FilterInv, HeldBack
<1> HIDE DEF m, T
<1>8. PICK k \in Nat : m = k + 1 /\ k \in 0..Len(rest) /\ m - 1 = k
  <2>1. m - 1 \in Nat /\ m = (m - 1) + 1 /\ m - 1 \in 0..Len(rest)
    BY <1>2, <1>3
  <2> QED
    BY <2>1
<1>9. PICK front \in Seq(Tok), back \in Seq(Tok) :
        /\ front = SubSeq(rest, 1, m - 1) /\ back = SubSeq(rest, m, Len(rest))
        /\ Len(front) = k /\ Len(back) = Len(rest) - k /\ Shows(front, T, Start)
        /\ Shows(back, T, Start + k) /\ \A i \in 1..(Len(rest) - k) : back[i] = rest[k + i]
  <2>1. Start \in Nat /\ T \in Seq(Tok)
    BY <1>6
  <2>2. \E front \in Seq(Tok), back \in Seq(Tok) :
          /\ front = SubSeq(rest, 1, k) /\ Len(front) = k /\ Shows(front, T, Start)
          /\ back = SubSeq(rest, k + 1, Len(rest)) /\ Len(back) = Len(rest) - k
          /\ Shows(back, T, Start + k) /\ \A i \in 1..(Len(rest) - k) : back[i] = rest[k + i]
    BY <1>3, <1>7, <1>8, <2>1, Divided
  <2> QED
    BY <1>8, <2>2
<1>10. /\ Len(back) \in Nat /\ Len(back) > 1 /\ back # <<>> /\ Len(back) <= written
       /\ written - Len(back) = Start + k /\ k + 1 < Len(rest)
  <2>1. k + 1 < Len(rest) /\ k \in Nat
    BY <1>5, <1>8
  <2>2. Len(back) \in Nat /\ Len(back) > 1 /\ Len(back) <= written
        /\ written - Len(back) = Start + k
    <3>1. /\ Len(back) = Len(rest) - k /\ written = Start + Len(rest)
          /\ Start \in Nat /\ Len(rest) \in Nat
      BY <1>3, <1>6, <1>9
    <3> QED
      BY <2>1, <3>1
  <2> QED
    BY <2>1, <2>2
<1>11. Held' = back /\ Start' = Start + k /\ rest' = back
  BY <1>4, <1>9, <1>10 DEF Held, Start
<1>12. passed' = passed \o front /\ passed \in Seq(Tok)
  BY <1>4, <1>9 DEF FilterInv, FilterTypes
<1>13. passed' \in Seq(Tok) /\ Words(passed') = Both(Words(passed), Words(front))
  BY <1>12, Glue, WordsJoin DEF Both
<1>14. FilterTypes'
  BY <1>1, <1>4, <1>11, <1>13 DEF FilterInv, FilterTypes, T
<1>15. HeldBack'
  BY <1>1, <1>4, <1>6, <1>9, <1>10, <1>11 DEF FilterInv, HeldBack, T
<1>16. SuspectedLine'
  <2>1. 1 \in 1..(Len(rest) - k) /\ 2 \in 1..(Len(rest) - k) /\ k + 2 = (k + 1) + 1
    BY <1>3, <1>10
  <2>2. back[1] = rest[m] /\ back[2] = rest[m + 1]
    BY <1>8, <1>9, <2>1
  <2>3. MarkerAt(back, 1)
    BY <1>5, <1>10, <2>2, OpensMarker
  <2> QED
    BY <1>10, <1>11, <2>3 DEF SuspectedLine
<1>17. WordsPassed'
  <2>1. Start' = Start + Len(front) /\ Start' <= Len(AllText)
    <3>1. Start' = Start + k /\ Len(front) = k
      BY <1>9, <1>11
    <3>2. Start + k <= Len(T)
      BY <1>3, <1>6, <1>8
    <3> QED
      BY <3>1, <3>2 DEF T
  <2> QED
    BY <1>1, <1>9, <1>13, <2>1, WordsMove DEF FilterInv, T
<1>18. EnvelopeAhead'
  <2> SUFFICES ASSUME stream.mxc # <<>>, ~LongLine(T)
               PROVE  Start' <= Lw \/ (Start' >= Lw + 4 /\ envelopeSeen' = stream.mxc[3])
    BY <1>1 DEF EnvelopeAhead, T
  <2>1. Lw \in Nat
    BY StreamIs DEF FilterInv, FilterTypes
  <2>2. PICK e \in Envelopes : Len(T) \in {Lw + 4, Lw + 5} /\ Shows(e, T, Lw)
    BY StreamIs DEF FilterInv, FilterTypes, EnvelopeAfter, T
  <2>3. Start <= Lw
    <3>1. Start >= Lw + 4 => Len(rest) < 2
      BY <1>3, <1>6, <2>1, <2>2
    <3>2. Start <= Lw \/ Start >= Lw + 4
      BY DEF FilterInv, EnvelopeAhead, T
    <3>3. ~(Len(rest) < 2)
      BY <1>3, <1>8, <1>10
    <3> QED
      BY <3>1, <3>2, <3>3
  <2>4. ASSUME Start + k > Lw PROVE FALSE
    <3> DEFINE j == Lw + 1 - Start
    <3>1. /\ j \in 1..(m - 1) /\ j \in Nat \ {0} /\ j < Len(rest)
          /\ j \in 1..Len(rest) /\ j + 1 \in 1..Len(rest)
          /\ Start + j = Lw + 1 /\ Start + (j + 1) = Lw + 2
      BY <1>3, <1>6, <1>8, <1>10, <2>1, <2>3, <2>4
    <3> HIDE DEF j
    <3>2. rest[j] = T[Lw + 1] /\ rest[j + 1] = T[Lw + 2]
      BY <1>7, <3>1 DEF Shows
    <3>3. /\ T[Lw + 1] = "{" /\ T[Lw + 2] = "error" /\ T[Lw + 3] = e[3] /\ T[Lw + 4] = "}"
          /\ e[1] = T[Lw + 1] /\ e[2] = T[Lw + 2] /\ e[3] \in Codes
      BY <1>6, <2>1, <2>2, EnvelopeShown
    <3>4. rest[j] = "{" /\ rest[j + 1] \in {"error", "type"}
      BY <3>2, <3>3
    <3>5. MarkerAt(rest, j)
      BY <1>3, <3>1, <3>4, MarkerIs
    <3> QED
      BY <1>2, <3>1, <3>5
  <2>5. Start + k <= Lw
    BY <1>6, <1>8, <2>1, <2>4
  <2>6. Start' = Start + k
    BY <1>11
  <2>7. Start' <= Lw
    BY <2>5, <2>6
  <2> QED
    BY <2>7
<1> QED
  BY <1>14, <1>15, <1>16, <1>17, <1>18 DEF FilterInv

LEMMA HoldLineStep ==
  ASSUME FilterInv, HoldLine
  PROVE  FilterInv'
<1> DEFINE T == AllText
<1>1. T' = T /\ stream' = stream
  BY DEF HoldLine, AllText
<1>2. /\ T \in Seq(Tok) /\ rest \in Seq(Tok) /\ rest # <<>> /\ Len(rest) \in Nat
      /\ Held = rest /\ pending = <<>> /\ written \in 0..Len(T)
      /\ Start \in 0..Len(T) /\ written = Start + Len(rest) /\ Len(T) \in Nat
  <2>1. rest # <<>>
    BY DEF HoldLine
  <2> QED
    BY <2>1, FilterFacts DEF FilterInv, FilterTypes
<1>3. Shows(rest, T, Start)
  BY <1>2 DEF FilterInv, HeldBack
<1>4. /\ rest' = <<>> /\ Newlines(rest) = {} /\ inMarker
      /\ UNCHANGED <<stream, written, writing, envelopeSeen, emits, filterClosed>>
      /\ ~filterClosed
  <2>1. ~filterClosed
    BY <1>2 DEF FilterInv, HeldBack
  <2> QED
    BY <2>1 DEF HoldLine
<1> HIDE DEF T
<1>5. CASE Len(rest) > MaxMarkerLine
  <2>1. passed' = passed \o rest /\ inMarker' = FALSE /\ pending' = <<>>
    BY <1>2, <1>5 DEF HoldLine
  <2>2. Held' = <<>> /\ Start' = written
    <3>1. Held' = <<>>
      BY <1>4, <2>1 DEF Held
    <3>2. written - 0 = written /\ Len(<<>>) = 0
      BY <1>2
    <3> QED
      BY <1>4, <3>1, <3>2 DEF Start
  <2>3. passed' \in Seq(Tok) /\ Words(passed') = Both(Words(passed), Words(rest))
    <3>1. passed \in Seq(Tok)
      BY DEF FilterInv, FilterTypes
    <3> QED
      BY <1>2, <2>1, <3>1, Glue, WordsJoin DEF Both
  <2>4. FilterTypes'
    BY <1>1, <1>4, <2>1, <2>3 DEF FilterInv, FilterTypes, T
  <2>5. HeldBack'
    <3>1. Len(<<>>) = 0 /\ 0 <= written /\ 0 <= MaxMarkerLine
      BY <1>2, StderrAssumption
    <3>2. Shows(<<>>, T, written)
      BY DEF Shows
    <3> QED
      BY <1>1, <1>4, <2>1, <2>2, <3>1, <3>2 DEF HeldBack, T
  <2>6. SuspectedLine'
    BY <2>1 DEF SuspectedLine
  <2>7. WordsPassed'
    <3>1. Start' = Start + Len(rest) /\ Start' <= Len(AllText)
      BY <1>2, <2>2 DEF T
    <3> QED
      BY <1>1, <1>2, <1>3, <2>3, <3>1, WordsMove DEF FilterInv, T
  <2>8. LongLine(T)
    <3> DEFINE i == Start + 1
    <3>1. i \in 1..Len(T) /\ written \in 1..Len(T) /\ written - i >= MaxMarkerLine
      BY <1>2, <1>5, StderrAssumption
    <3>2. ASSUME NEW k \in i..written PROVE T[k] # "nl"
      <4>1. k - Start \in 1..Len(rest) /\ Start + (k - Start) = k
        BY <1>2
      <4>2. rest[k - Start] = T[k] /\ rest[k - Start] # "nl"
        BY <1>3, <1>4, <4>1 DEF Shows, Newlines
      <4> QED
        BY <4>2
    <3> HIDE DEF i
    <3> QED
      BY <3>1, <3>2 DEF LongLine
  <2>9. EnvelopeAhead'
    BY <1>1, <2>8 DEF EnvelopeAhead, T
  <2> QED
    BY <2>4, <2>5, <2>6, <2>7, <2>9 DEF FilterInv
<1>6. CASE ~(Len(rest) > MaxMarkerLine)
  <2>1. pending' = rest /\ passed' = passed /\ inMarker' = inMarker
    BY <1>6 DEF HoldLine
  <2>2. Held' = Held /\ Start' = Start
    BY <1>2, <1>4, <2>1 DEF Held, Start
  <2>3. FilterTypes'
    BY <1>1, <1>4, <2>1 DEF FilterInv, FilterTypes, T
  <2>4. HeldBack'
    <3>1. Len(rest) <= MaxMarkerLine
      BY <1>2, <1>6, StderrAssumption
    <3> QED
      BY <1>1, <1>2, <1>4, <2>1, <2>2, <3>1 DEF FilterInv, HeldBack, T
  <2>5. SuspectedLine'
    BY <1>4, <2>1, <2>2 DEF FilterInv, SuspectedLine
  <2>6. WordsPassed' /\ EnvelopeAhead'
    BY <1>4, <2>1, <2>2, NothingMoves DEF FilterInv
  <2> QED
    BY <2>3, <2>4, <2>5, <2>6 DEF FilterInv
<1> QED
  BY <1>5, <1>6

LEMMA ForwardRestStep ==
  ASSUME FilterInv, ForwardRest
  PROVE  FilterInv'
<1> DEFINE T == AllText
           Lw == Len(stream.workload)
<1>1. T' = T /\ stream' = stream
  BY DEF ForwardRest, AllText
<1>2. /\ T \in Seq(Tok) /\ rest \in Seq(Tok) /\ rest # <<>> /\ Len(rest) \in Nat
      /\ Held = rest /\ pending = <<>> /\ written \in 0..Len(T)
      /\ Start \in 0..Len(T) /\ written = Start + Len(rest) /\ Len(T) \in Nat
  <2>1. rest # <<>>
    BY DEF ForwardRest
  <2> QED
    BY <2>1, FilterFacts DEF FilterInv, FilterTypes
<1>3. Shows(rest, T, Start) /\ Len(rest) > 0
  <2>1. Len(rest) > 0
    BY <1>2
  <2> QED
    BY <1>2, <2>1 DEF FilterInv, HeldBack
<1>4. /\ rest' = <<>> /\ ~inMarker /\ ~HasMarker(rest)
      /\ UNCHANGED <<stream, written, writing, inMarker, envelopeSeen, emits, filterClosed>>
      /\ passed' = passed \o SubSeq(rest, 1, Len(rest) - Len(pending'))
      /\ pending' = IF rest[Len(rest)] = "{" THEN <<"{">> ELSE <<>>
      /\ ~filterClosed
  <2>1. ~filterClosed
    BY <1>2 DEF FilterInv, HeldBack
  <2> QED
    BY <2>1 DEF ForwardRest, Last
<1> HIDE DEF T
<1>5. PICK l \in {0, 1} :
        /\ pending' \in Seq(Tok) /\ Len(pending') = l
        /\ l = 1 => rest[Len(rest)] = "{" /\ pending' = <<"{">> /\ pending'[1] = "{"
        /\ l = 0 => rest[Len(rest)] # "{" /\ pending' = <<>>
  <2>1. CASE rest[Len(rest)] = "{"
    <3>1. <<"{">> \in Seq(Tok) /\ Len(<<"{">>) = 1 /\ <<"{">>[1] = "{"
      BY Tokens, OneToken
    <3>2. pending' = <<"{">>
      BY <1>4, <2>1, Zenon
    <3>3. pending' \in Seq(Tok) /\ Len(pending') = 1 /\ pending'[1] = "{"
      BY <3>1, <3>2, Zenon
    <3>4. 1 # 0 /\ 1 \in {0, 1}
      OBVIOUS
    <3> QED
      BY <2>1, <3>2, <3>3, <3>4, Zenon
  <2>2. CASE rest[Len(rest)] # "{"
    <3>1. pending' = <<>>
      BY <1>4, <2>2, Zenon
    <3>2. pending' \in Seq(Tok) /\ Len(pending') = 0
      BY <3>1
    <3>3. 1 # 0 /\ 0 \in {0, 1}
      OBVIOUS
    <3> QED
      BY <2>2, <3>1, <3>2, <3>3, Zenon
  <2> QED
    BY <2>1, <2>2
<1>6. PICK k \in Nat : k = Len(rest) - l /\ k \in 0..Len(rest) /\ Len(rest) - k = l
                       /\ Start + k <= Len(T) /\ Start + k = written - l
  <2>1. Len(rest) - l \in Nat /\ Len(rest) - l \in 0..Len(rest)
        /\ Len(rest) - (Len(rest) - l) = l
        /\ Start + (Len(rest) - l) <= Len(T) /\ Start + (Len(rest) - l) = written - l
    BY <1>2, <1>3
  <2> QED
    BY <2>1
<1>7. PICK front \in Seq(Tok) : /\ front = SubSeq(rest, 1, k) /\ Len(front) = k
                                /\ Shows(front, T, Start)
  <2>1. Start \in Nat
    BY <1>2
  <2>2. T \in Seq(Tok) /\ rest \in Seq(Tok) /\ Shows(rest, T, Start) /\ k \in 0..Len(rest)
    BY <1>2, <1>3, <1>6
  <2>3. \E front \in Seq(Tok), back \in Seq(Tok) :
          /\ front = SubSeq(rest, 1, k) /\ Len(front) = k /\ Shows(front, T, Start)
          /\ back = SubSeq(rest, k + 1, Len(rest)) /\ Len(back) = Len(rest) - k
          /\ Shows(back, T, Start + k) /\ \A i \in 1..(Len(rest) - k) : back[i] = rest[k + i]
    BY <2>1, <2>2, Divided
  <2> QED
    BY <2>3
<1>8. passed' = passed \o front
  BY <1>4, <1>5, <1>6, <1>7
<1>9. Held' = pending' /\ Start' = Start + k
  <2>1. Held' = pending'
    BY <1>4 DEF Held
  <2>2. Start' = written - l
    BY <1>4, <1>5, <2>1 DEF Start
  <2> QED
    BY <1>6, <2>1, <2>2
<1>10. passed' \in Seq(Tok) /\ Words(passed') = Both(Words(passed), Words(front))
  <2>1. passed \in Seq(Tok)
    BY DEF FilterInv, FilterTypes
  <2> QED
    BY <1>8, <2>1, Glue, WordsJoin DEF Both
<1>11. FilterTypes'
  <2>1. pending' \in Seq(Tok) /\ <<>> \in Seq(Tok)
    <3>1. <<>> \in Seq(Tok)
      OBVIOUS
    <3> QED
      BY <1>5, <3>1, Zenon
  <2> QED
    BY <1>1, <1>4, <1>10, <2>1 DEF FilterInv, FilterTypes, T
<1>12. HeldBack'
  <2>1. Shows(pending', T, Start + k)
    <3> SUFFICES ASSUME NEW i \in 1..Len(pending') PROVE pending'[i] = T[(Start + k) + i]
      BY DEF Shows
    <3>0. Len(pending') = l
      BY <1>5
    <3>1. i = 1 /\ l = 1
      BY <3>0
    <3>2. Len(rest) \in 1..Len(rest) /\ (Start + k) + 1 = Start + Len(rest)
      BY <1>2, <1>3, <1>6, <3>1
    <3>3. rest[Len(rest)] = T[Start + Len(rest)]
      BY <1>3, <3>2 DEF Shows
    <3> QED
      BY <1>5, <3>1, <3>2, <3>3
  <2>2. Len(pending') <= written /\ Len(pending') <= MaxMarkerLine
    <3>1. Len(pending') = l
      BY <1>5
    <3>2. written \in Nat /\ written > 0
      BY <1>2, <1>3
    <3>3. MaxMarkerLine \in Nat \ {0}
      BY StderrAssumption
    <3> QED
      BY <3>1, <3>2, <3>3
  <2>3. pending' = <<>> \/ pending' = <<"{">>
    BY <1>5
  <2> QED
    BY <1>1, <1>4, <1>9, <2>1, <2>2, <2>3 DEF HeldBack, T
<1>13. SuspectedLine'
  BY <1>4 DEF SuspectedLine
<1>14. WordsPassed'
  <2>1. Start' = Start + Len(front) /\ Start' <= Len(AllText)
    <3>1. Start' = Start + k /\ Len(front) = k
      BY <1>7, <1>9
    <3> QED
      BY <1>6, <3>1 DEF T
  <2> QED
    BY <1>1, <1>7, <1>10, <2>1, WordsMove DEF FilterInv, T
<1>15. EnvelopeAhead'
  <2> SUFFICES ASSUME stream.mxc # <<>>, ~LongLine(T)
               PROVE  Start' <= Lw \/ (Start' >= Lw + 4 /\ envelopeSeen' = stream.mxc[3])
    BY <1>1 DEF EnvelopeAhead, T
  <2>1. Lw \in Nat
    BY StreamIs DEF FilterInv, FilterTypes
  <2>2. PICK e \in Envelopes : Len(T) \in {Lw + 4, Lw + 5} /\ Shows(e, T, Lw)
    BY StreamIs DEF FilterInv, FilterTypes, EnvelopeAfter, T
  <2>3. /\ T[Lw + 1] = "{" /\ T[Lw + 2] = "error" /\ T[Lw + 3] = e[3] /\ T[Lw + 4] = "}"
        /\ e[1] = T[Lw + 1] /\ e[2] = T[Lw + 2] /\ e[3] \in Codes
    BY <1>2, <2>1, <2>2, EnvelopeShown
  <2>4. Start <= Lw \/ (Start >= Lw + 4 /\ envelopeSeen = stream.mxc[3])
    BY DEF FilterInv, EnvelopeAhead, T
  <2>5. Start' = Start + k
    BY <1>9
  <2>6. CASE Start >= Lw + 4 /\ envelopeSeen = stream.mxc[3]
    <3>1. Start + k >= Lw + 4
      BY <1>2, <1>6, <2>1, <2>6
    <3> QED
      BY <1>4, <2>5, <2>6, <3>1
  <2>7. ASSUME Start <= Lw, Start + k > Lw PROVE FALSE
    <3> DEFINE j == Lw + 1 - Start
    <3>1. j \in Nat \ {0} /\ j \in 1..Len(rest) /\ Start + j = Lw + 1
      BY <1>2, <1>6, <2>1, <2>7
    <3>2. rest[j] = T[Lw + 1] /\ T[Lw + 1] = "{"
      BY <1>3, <2>3, <3>1 DEF Shows
    <3>3. CASE j = Len(rest)
      <4>1. l = 1
        BY <1>5, <3>2, <3>3
      <4>2. Start + k = Lw
        BY <1>2, <1>6, <2>1, <3>1, <3>3, <4>1
      <4> QED
        BY <1>2, <1>6, <2>1, <2>7, <4>2
    <3>4. CASE j < Len(rest)
      <4>1. j + 1 \in 1..Len(rest) /\ Start + (j + 1) = Lw + 2
        BY <1>2, <2>1, <3>1, <3>4
      <4>2. rest[j + 1] = T[Lw + 2]
        BY <1>3, <4>1 DEF Shows
      <4>3. rest[j] = "{" /\ rest[j + 1] \in {"error", "type"}
        BY <2>3, <3>2, <4>2
      <4> HIDE DEF j
      <4>4. MarkerAt(rest, j)
        BY <1>2, <3>1, <3>4, <4>3, MarkerIs
      <4> QED
        BY <1>4, <3>1, <4>4 DEF HasMarker
    <3> QED
      BY <1>2, <3>1, <3>3, <3>4
  <2>8. Start <= Lw => Start + k <= Lw
    BY <1>2, <1>6, <2>1, <2>7
  <2> QED
    BY <2>4, <2>5, <2>6, <2>8
<1> QED
  BY <1>11, <1>12, <1>13, <1>14, <1>15 DEF FilterInv

LEMMA LineEnd ==
  ASSUME NEW b \in Seq(Tok), NEW k \in 1..Len(b), b[k] = "nl"
  PROVE  Words(SubSeq(b, 1, k)) = Words(SubSeq(b, 1, k - 1))
<1>1. Len(b) \in Nat /\ k \in 0..Len(b) /\ k - 1 \in 0..Len(b) /\ k \in Nat /\ 1 <= k
  OBVIOUS
<1>2. PICK line \in Seq(Tok) : /\ line = SubSeq(b, 1, k - 1) /\ Len(line) = k - 1
                               /\ \A i \in 1..(k - 1) : line[i] = b[i]
  <2>1. /\ SubSeq(b, 1, k - 1) \in Seq(Tok) /\ Len(SubSeq(b, 1, k - 1)) = k - 1
        /\ Shows(SubSeq(b, 1, k - 1), b, 0)
    BY <1>1, Cut
  <2>2. \A i \in 1..(k - 1) : 0 + i = i
    OBVIOUS
  <2> QED
    BY <2>1, <2>2 DEF Shows
<1>3. PICK whole \in Seq(Tok) : /\ whole = SubSeq(b, 1, k) /\ Len(whole) = k
                                /\ \A i \in 1..k : whole[i] = b[i]
  <2>1. /\ SubSeq(b, 1, k) \in Seq(Tok) /\ Len(SubSeq(b, 1, k)) = k
        /\ Shows(SubSeq(b, 1, k), b, 0)
    BY <1>1, Cut
  <2>2. \A i \in 1..k : 0 + i = i
    BY <1>1
  <2> QED
    BY <2>1, <2>2 DEF Shows
<1>4. PICK end \in Seq(Tok) : /\ end = <<"nl">> /\ Len(end) = 1 /\ end[1] = "nl"
                              /\ \A i \in 1..Len(end) : ~IsWord(end[i])
  <2>1. <<"nl">> \in Seq(Tok) /\ Len(<<"nl">>) = 1 /\ <<"nl">>[1] = "nl"
    BY Tokens, OneToken
  <2>2. \A i \in 1..1 : i = 1
    OBVIOUS
  <2>3. ~IsWord("nl")
    BY Tokens
  <2>4. \A i \in 1..Len(<<"nl">>) : ~IsWord(<<"nl">>[i])
    BY <2>1, <2>2, <2>3, Zenon
  <2> QED
    BY <2>1, <2>4, Zenon
<1>5. PICK c \in Seq(Tok) : /\ c = line \o end /\ Len(c) = k /\ c[k] = "nl"
                            /\ \A i \in 1..(k - 1) : c[i] = line[i]
  <2>1. /\ line \o end \in Seq(Tok) /\ Len(line \o end) = Len(line) + Len(end)
        /\ \A i \in 1..Len(line) : (line \o end)[i] = line[i]
        /\ \A i \in 1..Len(end) : (line \o end)[Len(line) + i] = end[i]
    BY Glue
  <2>2. (k - 1) + 1 = k /\ 1 \in 1..1
    BY <1>1
  <2>3. Len(line \o end) = k /\ (line \o end)[k] = "nl"
    BY <1>2, <1>4, <2>1, <2>2
  <2> QED
    BY <1>2, <2>1, <2>3
<1>6. \A i \in 1..k : c[i] = whole[i]
  <2>1. ASSUME NEW i \in 1..k PROVE i = k \/ i \in 1..(k - 1)
    BY <1>1
  <2> QED
    BY <1>2, <1>3, <1>5, <2>1
<1>7. c = whole
  <2>1. ASSUME NEW n \in Nat, NEW x \in Seq(Tok), NEW y \in Seq(Tok), Len(x) = n, Len(y) = n,
               \A i \in 1..n : x[i] = y[i]
        PROVE  x = y
    BY <2>1
  <2> QED
    BY <1>1, <1>3, <1>5, <1>6, <2>1
<1>8. Words(line \o end) = Words(line)
  BY <1>4, NoWordsAdded
<1> QED
  BY <1>2, <1>3, <1>5, <1>7, <1>8

\* A line that ends where the envelope does ends with it.
LEMMA LineEndsWith ==
  ASSUME NEW e \in Envelopes, NEW text \in Seq(Tok), NEW w \in Nat, Shows(e, text, w),
         NEW s \in 0..w, NEW line \in Seq(Tok), Shows(line, text, s), s + Len(line) = w + 4
  PROVE  Len(line) >= 4 /\ SubSeq(line, Len(line) - 3, Len(line)) = e
<1>1. PICK k \in Nat : k = Len(line) - 4 /\ k \in 0..Len(line) /\ Len(line) - k = 4
                       /\ s + k = w /\ k + 1 = Len(line) - 3
  <2>1. Len(line) - 4 \in Nat /\ Len(line) - 4 \in 0..Len(line) /\ Len(line) - (Len(line) - 4) = 4
        /\ s + (Len(line) - 4) = w /\ (Len(line) - 4) + 1 = Len(line) - 3
    OBVIOUS
  <2> QED
    BY <2>1
<1>2. PICK back \in Seq(Tok) : /\ back = SubSeq(line, Len(line) - 3, Len(line)) /\ Len(back) = 4
                               /\ Shows(back, text, w)
  <2>1. s \in Nat /\ k \in 0..Len(line) /\ Shows(line, text, s) /\ Len(line) \in Nat
    BY <1>1
  <2>2. \E front \in Seq(Tok), back \in Seq(Tok) :
          /\ front = SubSeq(line, 1, k) /\ Len(front) = k /\ Shows(front, text, s)
          /\ back = SubSeq(line, k + 1, Len(line)) /\ Len(back) = Len(line) - k
          /\ Shows(back, text, s + k) /\ \A i \in 1..(Len(line) - k) : back[i] = line[k + i]
    BY <2>1, Divided
  <2> QED
    BY <1>1, <2>2
<1>3. e \in Seq(Tok) /\ Len(e) = 4
  BY EnvelopeIs
<1>4. \A i \in 1..4 : back[i] = e[i]
  BY <1>2, <1>3 DEF Shows
<1>5. ASSUME NEW x \in Seq(Tok), NEW y \in Seq(Tok), Len(x) = 4, Len(y) = 4,
             \A i \in 1..4 : x[i] = y[i]
      PROVE  x = y
  BY <1>5
<1>6. back = e
  BY <1>2, <1>3, <1>4, <1>5
<1>7. Len(line) >= 4
  BY <1>1
<1> QED
  BY <1>2, <1>6, <1>7

LEMMA WriteLineStep ==
  ASSUME FilterInv, WriteLine
  PROVE  FilterInv'
<1> DEFINE T == AllText
           Lw == Len(stream.workload)
           k == NewlineAt(rest)
           line == SubSeq(rest, 1, k - 1)
<1>1. T' = T /\ stream' = stream
  BY DEF WriteLine, AllText
<1>2. /\ T \in Seq(Tok) /\ rest \in Seq(Tok) /\ rest # <<>> /\ Len(rest) \in Nat
      /\ Held = rest /\ pending = <<>> /\ written \in 0..Len(T)
      /\ Start \in 0..Len(T) /\ written = Start + Len(rest) /\ Len(T) \in Nat
  <2>1. rest # <<>>
    BY DEF WriteLine
  <2> QED
    BY <2>1, FilterFacts DEF FilterInv, FilterTypes
<1>3. Shows(rest, T, Start)
  BY <1>2 DEF FilterInv, HeldBack
<1>4. k \in 1..Len(rest) /\ rest[k] = "nl"
  BY <1>2, NewlineIs DEF WriteLine
<1>5. /\ ConsumeLine(line, <<"nl">>) /\ rest' = SubSeq(rest, k + 1, Len(rest))
      /\ writing /\ inMarker /\ inMarker' = FALSE /\ ~filterClosed
      /\ UNCHANGED <<stream, written, writing, pending, emits, filterClosed>>
  <2>1. ~filterClosed
    BY <1>2 DEF FilterInv, HeldBack
  <2> QED
    BY <2>1 DEF WriteLine
<1> HIDE DEF T, k
<1>6. /\ k \in Nat /\ 1 <= k /\ k <= Len(rest) /\ k \in 0..Len(rest) /\ k - 1 \in 0..Len(rest)
      /\ Start \in Nat /\ k - 1 \in Nat
  BY <1>2, <1>4
<1>7. line \in Seq(Tok) /\ Len(line) = k - 1 /\ Shows(line, T, Start)
  <2>1. /\ rest \in Seq(Tok) /\ Shows(rest, T, Start) /\ Start \in Nat
        /\ k - 1 \in 0..Len(rest) /\ Len(rest) \in Nat
    BY <1>2, <1>3, <1>6
  <2>2. PICK j \in 0..Len(rest) : j = k - 1
    BY <2>1
  <2>3. \E front \in Seq(Tok), back \in Seq(Tok) :
          /\ front = SubSeq(rest, 1, j) /\ Len(front) = j /\ Shows(front, T, Start)
          /\ back = SubSeq(rest, j + 1, Len(rest)) /\ Len(back) = Len(rest) - j
          /\ Shows(back, T, Start + j) /\ \A i \in 1..(Len(rest) - j) : back[i] = rest[j + i]
    BY <1>2, <2>1, Divided
  <2>4. PICK front \in Seq(Tok) :
          front = SubSeq(rest, 1, j) /\ Len(front) = j /\ Shows(front, T, Start)
    BY <2>3
  <2>5. front = line
    BY <2>2, <2>4
  <2> QED
    BY <2>2, <2>4, <2>5
<1>8. /\ SubSeq(rest, 1, k) \in Seq(Tok) /\ Len(SubSeq(rest, 1, k)) = k
      /\ Shows(SubSeq(rest, 1, k), T, Start)
      /\ rest' \in Seq(Tok) /\ Len(rest') = Len(rest) - k /\ Shows(rest', T, Start + k)
  <2>1. PICK front \in Seq(Tok), back \in Seq(Tok) :
          /\ front = SubSeq(rest, 1, k) /\ Len(front) = k /\ Shows(front, T, Start)
          /\ back = SubSeq(rest, k + 1, Len(rest)) /\ Len(back) = Len(rest) - k
          /\ Shows(back, T, Start + k) /\ \A i \in 1..(Len(rest) - k) : back[i] = rest[k + i]
    BY <1>2, <1>3, <1>6, Divided
  <2> QED
    BY <1>5, <2>1
<1>9. PICK whole \in Seq(Tok) : /\ Len(whole) = k /\ Shows(whole, T, Start)
                                /\ Words(whole) = Words(line)
  BY <1>2, <1>4, <1>8, LineEnd
<1> HIDE DEF line
<1>10. Held' = rest' /\ Start' = Start + k /\ pending' = <<>>
  <2>1. Held' = rest' /\ pending' = <<>>
    BY <1>2, <1>5 DEF Held
  <2>2. Start' = written - Len(rest')
    BY <1>5, <2>1 DEF Start
  <2>3. Len(rest') = Len(rest) - k
    BY <1>8
  <2>4. written - (Len(rest) - k) = Start + k
    BY <1>2, <1>6
  <2> QED
    BY <2>1, <2>2, <2>3, <2>4
<1>11. /\ passed' \in Seq(Tok) /\ Words(passed') = Both(Words(passed), Words(line))
       /\ envelopeSeen' \in Codes \union {envelopeSeen}
  <2>1. passed \in Seq(Tok) /\ <<"nl">> \in {<<>>, <<"nl">>}
    BY DEF FilterInv, FilterTypes
  <2> QED
    BY <1>5, <1>7, <2>1, ConsumedLine
<1>12. FilterTypes'
  BY <1>1, <1>5, <1>8, <1>11 DEF FilterInv, FilterTypes, T
<1>13. HeldBack'
  <2>1. Len(rest') <= written
    <3>1. Len(rest') = Len(rest) - k
      BY <1>8
    <3> QED
      BY <1>2, <1>6, <3>1
  <2>2. Shows(rest', T, Start + k)
    BY <1>8
  <2>3. Len(<<>>) <= MaxMarkerLine
    BY StderrAssumption
  <2> QED
    BY <1>1, <1>5, <1>10, <2>1, <2>2, <2>3 DEF HeldBack, T
<1>14. SuspectedLine'
  BY <1>5 DEF SuspectedLine
<1>15. WordsPassed'
  <2>1. Start' = Start + Len(whole) /\ Start' <= Len(AllText)
    <3>1. Start' = Start + k /\ Len(whole) = k
      BY <1>9, <1>10
    <3>2. Start + k <= Len(T)
      BY <1>2, <1>6
    <3> QED
      BY <3>1, <3>2 DEF T
  <2>2. Words(passed') = Both(Words(passed), Words(whole))
    BY <1>9, <1>11
  <2> QED
    BY <1>1, <1>9, <2>1, <2>2, WordsMove DEF FilterInv, T
<1>16. EnvelopeAhead'
  <2> SUFFICES ASSUME stream.mxc # <<>>, ~LongLine(T)
               PROVE  Start' <= Lw \/ (Start' >= Lw + 4 /\ envelopeSeen' = stream.mxc[3])
    BY <1>1 DEF EnvelopeAhead, T
  <2>1. Lw \in Nat
    BY StreamIs DEF FilterInv, FilterTypes
  <2>2. PICK e \in Envelopes : Len(T) \in {Lw + 4, Lw + 5} /\ Shows(e, T, Lw)
                               /\ e[3] = stream.mxc[3]
    BY StreamIs DEF FilterInv, FilterTypes, EnvelopeAfter, T
  <2>3. Start <= Lw
    <3>1. ~(Len(rest) < 2)
      BY <1>2, <1>5, NotSuspected
    <3>2. Start >= Lw + 4 => Len(rest) < 2
      BY <1>2, <2>1, <2>2
    <3>3. Start <= Lw \/ Start >= Lw + 4
      BY DEF FilterInv, EnvelopeAhead, T
    <3> QED
      BY <3>1, <3>2, <3>3
  <2>4. Start' = Start + k
    BY <1>10
  <2>5. CASE Start + k <= Lw
    BY <2>4, <2>5
  <2>6. CASE Start + k > Lw
    <3>1. T[Start + k] = "nl"
      BY <1>3, <1>4 DEF Shows
    <3>2. /\ T[Lw + 1] # "nl" /\ T[Lw + 2] # "nl" /\ T[Lw + 3] # "nl" /\ T[Lw + 4] # "nl"
      <4>1. /\ T[Lw + 1] = "{" /\ T[Lw + 2] = "error" /\ T[Lw + 3] = e[3] /\ T[Lw + 4] = "}"
            /\ e[1] = T[Lw + 1] /\ e[2] = T[Lw + 2] /\ e[3] \in Codes
        BY <1>2, <2>1, <2>2, EnvelopeShown
      <4>2. e[3] # "nl"
        BY <4>1 DEF Codes
      <4> QED
        BY <4>1, <4>2
    <3>3. Start + k # Lw + 1 /\ Start + k # Lw + 2 /\ Start + k # Lw + 3 /\ Start + k # Lw + 4
      BY <3>1, <3>2
    <3>4. Start + k = Lw + 5
      <4>1. Start + k <= Len(T) /\ Start + k \in Nat
        BY <1>2, <1>6
      <4>2. Len(T) = Lw + 4 \/ Len(T) = Lw + 5
        BY <2>2
      <4> QED
        BY <2>1, <2>6, <3>3, <4>1, <4>2
    <3>5. Start \in 0..Lw /\ Start + Len(line) = Lw + 4 /\ Start + k >= Lw + 4
      BY <1>2, <1>6, <1>7, <2>1, <2>3, <3>4
    <3>6. Len(line) >= 4 /\ SubSeq(line, Len(line) - 3, Len(line)) = e
      <4>1. T \in Seq(Tok) /\ line \in Seq(Tok) /\ Shows(line, T, Start) /\ Shows(e, T, Lw)
        BY <1>2, <1>7, <2>2
      <4>2. Start \in 0..Lw /\ Start + Len(line) = Lw + 4
        BY <3>5
      <4> QED
        BY <2>1, <4>1, <4>2, LineEndsWith
    <3>7. envelopeSeen' = e[3]
      BY <1>5, <1>7, <3>6, ConsumedEnvelope
    <3> QED
      BY <2>2, <2>4, <3>5, <3>7
  <2> QED
    BY <1>2, <1>6, <2>1, <2>5, <2>6
<1> QED
  BY <1>12, <1>13, <1>14, <1>15, <1>16 DEF FilterInv

LEMMA CloseFilterStep ==
  ASSUME FilterInv, CloseFilter
  PROVE  FilterInv'
<1> DEFINE T == AllText
           Lw == Len(stream.workload)
<1>1. T' = T /\ stream' = stream
  BY DEF CloseFilter, AllText
<1>2. /\ T \in Seq(Tok) /\ pending \in Seq(Tok) /\ Len(pending) \in Nat /\ rest = <<>>
      /\ Held = pending /\ written = Len(T) /\ Start \in 0..Len(T) /\ Len(T) \in Nat
      /\ written = Start + Len(pending) /\ Start \in Nat
  <2>1. rest = <<>> /\ written = Len(T)
    BY DEF FilterInv, HeldBack, CloseFilter
  <2>2. Held = pending
    BY <2>1, FilterFacts DEF FilterInv
  <2> QED
    BY <2>1, <2>2, FilterFacts DEF FilterInv, FilterTypes
<1>3. Shows(pending, T, Start)
  BY <1>2 DEF FilterInv, HeldBack
<1>4. /\ pending' = <<>> /\ inMarker' = FALSE /\ ~writing /\ filterClosed' = TRUE
      /\ UNCHANGED <<stream, written, writing, rest, emits>>
  BY DEF CloseFilter
<1> HIDE DEF T
<1>5. Held' = <<>> /\ Start' = Len(T)
  <2>1. Held' = <<>>
    BY <1>2, <1>4 DEF Held
  <2>2. Len(T) - 0 = Len(T) /\ Len(<<>>) = 0
    BY <1>2
  <2> QED
    BY <1>2, <1>4, <2>1, <2>2 DEF Start
<1>6. /\ passed' \in Seq(Tok) /\ Words(passed') = Both(Words(passed), Words(pending))
      /\ envelopeSeen' \in Codes \union {envelopeSeen}
  <2>1. passed \in Seq(Tok) /\ <<>> \in {<<>>, <<"nl">>}
    BY DEF FilterInv, FilterTypes
  <2>2. CASE inMarker /\ pending # <<>>
    <3>1. ConsumeLine(pending, <<>>)
      BY <2>2 DEF CloseFilter
    <3> QED
      BY <1>2, <2>1, <3>1, ConsumedLine
  <2>3. CASE ~(inMarker /\ pending # <<>>)
    <3>1. passed' = passed \o pending /\ envelopeSeen' = envelopeSeen
      BY <2>3 DEF CloseFilter
    <3> QED
      BY <1>2, <2>1, <3>1, Glue, WordsJoin DEF Both
  <2> QED
    BY <2>2, <2>3
<1>7. FilterTypes'
  BY <1>1, <1>2, <1>4, <1>6 DEF FilterInv, FilterTypes, T
<1>8. HeldBack'
  <2>1. Len(<<>>) = 0 /\ 0 <= Len(T) /\ 0 <= MaxMarkerLine
    BY <1>2, StderrAssumption
  <2>2. Shows(<<>>, T, Len(T))
    BY DEF Shows
  <2> QED
    BY <1>1, <1>2, <1>4, <1>5, <2>1, <2>2 DEF HeldBack, T
<1>9. SuspectedLine'
  BY <1>4 DEF SuspectedLine
<1>10. WordsPassed'
  <2>1. Start' = Start + Len(pending) /\ Start' <= Len(AllText)
    <3>1. Start' = Len(T) /\ Len(T) = Start + Len(pending) /\ Len(T) \in Nat
      BY <1>2, <1>5
    <3>2. Len(T) <= Len(T)
      BY <3>1
    <3> QED
      BY <3>1, <3>2 DEF T
  <2> QED
    BY <1>1, <1>2, <1>3, <1>6, <2>1, WordsMove DEF FilterInv, T
<1>11. EnvelopeAhead'
  <2> SUFFICES ASSUME stream.mxc # <<>>, ~LongLine(T)
               PROVE  Start' >= Lw + 4 /\ envelopeSeen' = stream.mxc[3]
    BY <1>1 DEF EnvelopeAhead, T
  <2>1. Lw \in Nat
    BY StreamIs DEF FilterInv, FilterTypes
  <2>2. PICK e \in Envelopes : /\ Len(T) \in {Lw + 4, Lw + 5} /\ Shows(e, T, Lw)
                               /\ e[3] = stream.mxc[3] /\ (Len(T) = Lw + 5 => T[Lw + 5] = "nl")
    BY StreamIs DEF FilterInv, FilterTypes, EnvelopeAfter, T
  <2>3. Start' >= Lw + 4
    <3>1. Len(T) >= Lw + 4
      BY <1>2, <2>1, <2>2
    <3> QED
      BY <1>5, <3>1
  <2>4. CASE Start >= Lw + 4 /\ envelopeSeen = stream.mxc[3]
    <3>1. Len(pending) < 2
      BY <1>2, <2>1, <2>2, <2>4
    <3>2. ~inMarker
      BY <1>2, <3>1, NotSuspected
    <3> QED
      BY <2>3, <2>4, <3>2 DEF CloseFilter
  <2>5. CASE Start <= Lw
    <3>1. Len(pending) >= 4 /\ pending # <<>>
      <4>1. Len(pending) >= 4
        BY <1>2, <2>1, <2>2, <2>5
      <4>2. pending = <<>> => Len(pending) = 0
        OBVIOUS
      <4> QED
        BY <4>1, <4>2
    <3>2. inMarker
      <4>1. pending = <<>> \/ inMarker \/ pending = <<"{">>
        BY DEF FilterInv, HeldBack
      <4>2. Len(<<"{">>) = 1
        BY Tokens, OneToken
      <4>3. pending # <<"{">>
        <5>1. pending = <<"{">> => Len(pending) = 1
          BY <4>2
        <5>2. ~(1 >= 4)
          OBVIOUS
        <5> QED
          BY <3>1, <5>1, <5>2
      <4> QED
        BY <3>1, <4>1, <4>3
    <3>3. ConsumeLine(pending, <<>>) /\ Newlines(pending) = {}
      BY <1>2, <3>1, <3>2 DEF CloseFilter, FilterInv, SuspectedLine
    <3>4. Len(T) = Lw + 4
      <4> SUFFICES ASSUME Len(T) = Lw + 5 PROVE FALSE
        BY <2>2
      <4>1. Len(pending) \in 1..Len(pending) /\ Start + Len(pending) = Lw + 5
        BY <1>2, <3>1
      <4>2. pending[Len(pending)] = "nl"
        BY <1>3, <2>2, <4>1 DEF Shows
      <4> QED
        BY <3>3, <4>1, <4>2 DEF Newlines
    <3>5. Start \in 0..Lw /\ Start + Len(pending) = Lw + 4
      <4>1. Len(T) = Start + Len(pending) /\ Start \in Nat
        BY <1>2
      <4> QED
        BY <2>1, <2>5, <3>4, <4>1
    <3>6. Len(pending) >= 4 /\ SubSeq(pending, Len(pending) - 3, Len(pending)) = e
      BY <1>2, <1>3, <2>1, <2>2, <3>5, LineEndsWith
    <3>7. envelopeSeen' = e[3]
      BY <1>2, <3>3, <3>6, ConsumedEnvelope
    <3> QED
      BY <2>2, <2>3, <3>7
  <2> QED
    BY <2>4, <2>5 DEF FilterInv, EnvelopeAhead, T
<1> QED
  BY <1>7, <1>8, <1>9, <1>10, <1>11 DEF FilterInv

LEMMA FilterInit ==
  StderrInit => FilterInv
<1> SUFFICES ASSUME StderrInit PROVE FilterInv
  OBVIOUS
<1> DEFINE T == AllText
<1>1. T \in Seq(Tok) /\ Len(T) \in Nat
  <2>1. T \in Seq(Tok)
    BY StreamIs DEF StderrInit
  <2> QED
    BY <2>1
<1>2. Held = <<>> /\ Start = 0
  <2>1. Held = <<>>
    BY DEF StderrInit, Held
  <2>2. Len(<<>>) = 0 /\ 0 - 0 = 0 /\ written = 0
    BY DEF StderrInit
  <2> QED
    BY <2>1, <2>2 DEF Start
<1>3. SubSeq(T, 1, 0) = <<>> /\ Len(<<>>) = 0 /\ <<>> \in Seq(Tok)
  BY <1>1
<1> HIDE DEF T
<1>4. FilterTypes
  <2>1. 0 \in 0..Len(T) /\ 0 \in 0..MaxEmits
    BY <1>1, StderrAssumption
  <2> QED
    BY <1>3, <2>1 DEF StderrInit, FilterTypes, T
<1>5. HeldBack
  <2>1. 0 <= MaxMarkerLine
    BY StderrAssumption
  <2>2. Shows(<<>>, T, 0)
    BY DEF Shows
  <2> QED
    BY <1>2, <1>3, <2>1, <2>2 DEF StderrInit, HeldBack, T
<1>6. SuspectedLine
  BY DEF StderrInit, SuspectedLine
<1>7. WordsPassed
  BY <1>2, <1>3 DEF StderrInit, WordsPassed, Told, T
<1>8. EnvelopeAhead
  <2>1. Len(stream.workload) \in Nat
    BY StreamIs DEF StderrInit
  <2> QED
    BY <1>2, <2>1 DEF EnvelopeAhead
<1> QED
  BY <1>4, <1>5, <1>6, <1>7, <1>8 DEF FilterInv

LEMMA FilterUnmoved ==
  FilterInv /\ UNCHANGED stderrVars => FilterInv'
<1> SUFFICES ASSUME FilterInv, UNCHANGED stderrVars PROVE FilterInv'
  OBVIOUS
<1>1. Held' = Held /\ Start' = Start /\ AllText' = AllText
  BY DEF stderrVars, Held, Start, AllText
<1>2. FilterTypes'
  BY <1>1 DEF FilterInv, FilterTypes, stderrVars
<1>3. HeldBack'
  BY <1>1 DEF FilterInv, HeldBack, stderrVars
<1>4. SuspectedLine'
  BY <1>1 DEF FilterInv, SuspectedLine, stderrVars
<1>5. WordsPassed' /\ EnvelopeAhead'
  BY <1>1, NothingMoves DEF FilterInv, stderrVars
<1> QED
  BY <1>2, <1>3, <1>4, <1>5 DEF FilterInv

LEMMA FilterStep ==
  FilterInv /\ [StderrNext]_stderrVars => FilterInv'
<1> SUFFICES ASSUME FilterInv, [StderrNext]_stderrVars PROVE FilterInv'
  OBVIOUS
<1>1. CASE BeginWrite
  BY <1>1, BeginWriteStep
<1>2. CASE EndWrite
  BY <1>2, EndWriteStep
<1>3. CASE WriteLine
  BY <1>3, WriteLineStep
<1>4. CASE HoldLine
  BY <1>4, HoldLineStep
<1>5. CASE FindMarker
  BY <1>5, FindMarkerStep
<1>6. CASE ForwardRest
  BY <1>6, ForwardRestStep
<1>7. CASE Emit
  BY <1>7, EmitStep
<1>8. CASE CloseFilter
  BY <1>8, CloseFilterStep
<1>9. CASE UNCHANGED stderrVars
  BY <1>9, FilterUnmoved
<1> QED
  BY <1>1, <1>2, <1>3, <1>4, <1>5, <1>6, <1>7, <1>8, <1>9 DEF StderrNext

-----------------------------------------------------------------------------
\* What the filter holds back is the last part of what was written, beginning
\* with a marker when it is suspected, what it forwarded has told the words of
\* everything before that, and the envelope is either still to be looked at as a
\* whole or was found, for every text and every way it comes in.
THEOREM StderrInvariant == StderrSpec => []FilterInv
<1>1. StderrInit => FilterInv
  BY FilterInit
<1>2. FilterInv /\ [StderrNext]_stderrVars => FilterInv'
  BY FilterStep
<1> QED
  BY <1>1, <1>2, PTL DEF StderrSpec

\* The filter's fields have their types, and no more than the bound of a
\* suspected line is ever held back between two writes.
THEOREM StderrTypes == StderrSpec => []StderrTypeOK
<1>1. FilterInv => StderrTypeOK
  <2> SUFFICES ASSUME FilterInv PROVE StderrTypeOK
    OBVIOUS
  <2>1. pending # <<>> => inMarker \/ pending = <<"{">>
    BY DEF FilterInv, HeldBack
  <2>2. Len(pending) <= MaxMarkerLine
    BY DEF FilterInv, HeldBack
  <2> QED
    BY <2>1, <2>2 DEF FilterInv, FilterTypes, StderrTypeOK
<1> QED
  BY <1>1, StderrInvariant, PTL

\* When the filter is closed, the envelope that MXC wrote was found, whatever
\* the workload printed before it and however the writes cut the text, unless a
\* line grew past the bound; and what was forwarded has all the words of the
\* text, each once and in order.
THEOREM EnvelopeFound == StderrSpec => []EnvelopeSurvives
<1>1. FilterInv => EnvelopeSurvives
  <2> SUFFICES ASSUME FilterInv, filterClosed PROVE EnvelopeSurvives
    BY DEF EnvelopeSurvives
  <2>1. AllText \in Seq(Tok) /\ Len(AllText) \in Nat /\ Start = Len(AllText)
    <3>1. Held = <<>> /\ written = Len(AllText) /\ AllText \in Seq(Tok) /\ Len(AllText) \in Nat
      BY FilterFacts DEF FilterInv, HeldBack
    <3>2. Len(AllText) - 0 = Len(AllText) /\ Len(<<>>) = 0
      BY <3>1
    <3> QED
      BY <3>1, <3>2 DEF Start
  <2>2. Words(passed) = Words(AllText)
    <3>1. ASSUME NEW T, NEW b \in Seq(T) PROVE SubSeq(b, 1, Len(b)) = b
      OBVIOUS
    <3>2. SubSeq(AllText, 1, Len(AllText)) = AllText
      BY <2>1, <3>1, Zenon
    <3> QED
      BY <2>1, <3>2 DEF FilterInv, WordsPassed, Told
  <2>3. ASSUME stream.mxc # <<>>, ~LongLine(AllText) PROVE envelopeSeen = stream.mxc[3]
    <3> DEFINE Lw == Len(stream.workload)
    <3>1. Lw \in Nat
      BY StreamIs DEF FilterInv, FilterTypes
    <3>2. Len(AllText) = Lw + 4 \/ Len(AllText) = Lw + 5
      BY <2>3, StreamIs DEF FilterInv, FilterTypes, EnvelopeAfter
    <3>3. ~(Start <= Lw)
      BY <2>1, <3>1, <3>2
    <3> QED
      BY <2>3, <3>3 DEF FilterInv, EnvelopeAhead
  <2> QED
    BY <2>2, <2>3 DEF EnvelopeSurvives
<1> QED
  BY <1>1, StderrInvariant, PTL
=============================================================================
