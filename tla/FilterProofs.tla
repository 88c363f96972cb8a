---------------------------- MODULE FilterProofs ----------------------------
(***************************************************************************)
(* Theorems about SeccompFilter, for every set of configurations, calls    *)
(* and names on the blocklist: what the two programs rule together.  A     *)
(* program is taken apart into its blocks; where a block stands does not   *)
(* change what it rules, and each hands on the number of the call.         *)
(***************************************************************************)
EXTENDS SeccompFilter, DataInduction, SequenceTheorems

(***************************************************************************)
(* Instructions and programs.                                              *)
(***************************************************************************)
Fields == {"arch", "nr", "arg0", "arg1", "arg2", "lo4", "hi4"}
Calls == {"clone3", "clone", "socket", "mprotect", "pkey_mprotect", "mmap", "connect", "sendto",
          "fork", "vfork", "memfd_create", "execve", "execveat"}
Flags == {"x32", "newuser", "newns", "thread", "unix", "netlink", "inet", "inet6",
          "raw", "dgram", "stream", "exec", "write"}
Verdicts == {"kill_process", "kill", "trap", "ENOSYS", "EPERM", "EACCES", "notify", "allow"}
Labels == Fields \union Calls \union Flags \union Verdicts \union BlockList
            \union {cfg.arch : cfg \in FilterConfigs}
Instructions ==
  [op : {"ld", "and", "jeq", "jset", "ret"}, jt : Nat, jf : Nat, k : SUBSET Labels]
Program == Seq(Instructions)

USE DEF Fields, Calls, Flags, Verdicts

LEMMA InstructionsAre ==
  /\ \A f \in Labels : Ld(f) \in Instructions /\ Ret(f) \in Instructions
  /\ \A w \in SUBSET Labels : And(w) \in Instructions
  /\ \A w \in SUBSET Labels, m, n \in Nat :
       Jeq(m, n, w) \in Instructions /\ Jset(m, n, w) \in Instructions
BY DEF Instructions, Ld, Ret, And, Jeq, Jset

LEMMA LabelsAre ==
  /\ Fields \union Calls \union Flags \union Verdicts \union BlockList \subseteq Labels
  /\ \A cfg \in FilterConfigs : cfg.arch \in Labels
BY DEF Labels

\* Block b stands at place m of a program.
Stands(p, m, b) ==
  m + Len(b) <= Len(p) /\ \A j \in 1..Len(b) : p[m + j] = b[j]

LEMMA JumpsAre ==
  /\ \A m, n \in Nat, x \in Labels :
       Jeq(m, n, {x}) \in Instructions /\ Jset(m, n, {x}) \in Instructions
  /\ \A m, n \in Nat, x, y \in Labels : Jset(m, n, {x, y}) \in Instructions
  /\ \A m, n \in Nat : Jeq(m, n, {}) \in Instructions
  /\ \A x, y, z \in Labels : And({x, y, z}) \in Instructions
BY InstructionsAre

-----------------------------------------------------------------------------
(***************************************************************************)
(* What a program makes of a call c from each of its places on.  A jump    *)
(* goes forward, so there is an answer for every place and accumulator.    *)
(***************************************************************************)
Loaded(c, ins) == c[CHOOSE f \in ins.k : TRUE]
Accumulators(c, p) == SUBSET UNION {Loaded(c, p[i]) : i \in 1..Len(p)}
Taken(ins, a) ==
  IF ins.op = "jeq" THEN a = ins.k ELSE a \intersect ins.k # {}

\* Where the i-th instruction leads to, and with what in the accumulator.
Onward(c, p, i, a) ==
  CASE p[i].op = "ld" -> <<i + 1, Loaded(c, p[i])>>
    [] p[i].op = "and" -> <<i + 1, a \intersect p[i].k>>
    [] OTHER -> <<i + 1 + (IF Taken(p[i], a) THEN p[i].jt ELSE p[i].jf), a>>

Rules(g, c, p, from) ==
  \A i \in from..Len(p), a \in Accumulators(c, p) :
    g[<<i, a>>] = IF p[i].op = "ret" THEN p[i].k ELSE g[Onward(c, p, i, a)]

LEMMA OnwardIs ==
  ASSUME NEW c, NEW p \in Program, NEW i \in 1..Len(p), NEW a \in Accumulators(c, p)
  PROVE  \E j \in Nat, b \in Accumulators(c, p) : j > i /\ Onward(c, p, i, a) = <<j, b>>
<1>1. p[i] \in Instructions
  BY DEF Program
<1>2. p[i].jt \in Nat /\ p[i].jf \in Nat
  BY <1>1 DEF Instructions
<1>3. Loaded(c, p[i]) \in Accumulators(c, p)
  BY DEF Accumulators
<1>4. a \intersect p[i].k \in Accumulators(c, p)
  BY DEF Accumulators
<1>5. i + 1 \in Nat /\ i + 1 > i
  OBVIOUS
<1>6. CASE p[i].op = "ld"
  BY <1>3, <1>5, <1>6 DEF Onward
<1>7. CASE p[i].op = "and"
  BY <1>4, <1>5, <1>7 DEF Onward
<1>8. CASE p[i].op # "ld" /\ p[i].op # "and"
  <2> DEFINE j == i + 1 + (IF Taken(p[i], a) THEN p[i].jt ELSE p[i].jf)
  <2>1. j \in Nat /\ j > i
    BY <1>2
  <2>2. Onward(c, p, i, a) = <<j, a>>
    BY <1>8 DEF Onward
  <2> HIDE DEF j
  <2> QED
    BY <2>1, <2>2
<1> QED
  BY <1>6, <1>7, <1>8

LEMMA RulesExist ==
  ASSUME NEW c, NEW p \in Program
  PROVE  \E g : Rules(g, c, p, 1)
<1> DEFINE A == Accumulators(c, p)
           n == Len(p)
           Q == {m \in Nat : m <= n => \E g : Rules(g, c, p, n + 1 - m)}
<1>0. n \in Nat
  BY DEF Program
<1>1. 0 \in Q
  BY <1>0 DEF Rules
<1>2. ASSUME NEW m \in Nat, m \in Q PROVE m + 1 \in Q
  <2> SUFFICES ASSUME m + 1 <= n PROVE \E g : Rules(g, c, p, n + 1 - (m + 1))
    OBVIOUS
  <2>1. PICK g : Rules(g, c, p, n + 1 - m)
    BY <1>0, <1>2
  <2> DEFINE k == n - m
             h == [x \in Nat \X A |->
                     IF x[1] # k THEN g[x]
                     ELSE IF p[k].op = "ret" THEN p[k].k ELSE g[Onward(c, p, k, x[2])]]
  <2>2. k \in 1..n /\ n + 1 - (m + 1) = k /\ n + 1 - m = k + 1
    BY <1>0
  <2>3. ASSUME NEW j \in Nat, NEW a \in A
        PROVE  h[<<j, a>>] = IF j # k THEN g[<<j, a>>]
                             ELSE IF p[k].op = "ret" THEN p[k].k ELSE g[Onward(c, p, k, a)]
    OBVIOUS
  <2>4. ASSUME NEW i \in k..n, NEW a \in A
        PROVE  h[Onward(c, p, i, a)] = g[Onward(c, p, i, a)]
    <3>1. PICK j \in Nat, b \in A : j > i /\ Onward(c, p, i, a) = <<j, b>>
      BY <2>2, OnwardIs
    <3>2. j # k
      BY <2>2, <3>1
    <3> HIDE DEF h, A
    <3> QED
      BY <2>3, <3>1, <3>2
  <2>5. ASSUME NEW i \in k..n, NEW a \in A
        PROVE  h[<<i, a>>] = IF p[i].op = "ret" THEN p[i].k ELSE h[Onward(c, p, i, a)]
    <3>1. i \in Nat /\ i \in 1..n
      BY <2>2
    <3>2. CASE i = k
      <4> HIDE DEF h, A
      <4> QED
        BY <2>3, <2>4, <3>1, <3>2
    <3>3. CASE i # k
      <4>1. i \in (k + 1)..n
        BY <2>2, <3>3
      <4>2. g[<<i, a>>] = IF p[i].op = "ret" THEN p[i].k ELSE g[Onward(c, p, i, a)]
        BY <2>1, <2>2, <4>1 DEF Rules
      <4> HIDE DEF h, A
      <4> QED
        BY <2>3, <2>4, <3>1, <3>3, <4>2
    <3> QED
      BY <3>2, <3>3
  <2> HIDE DEF h
  <2>6. Rules(h, c, p, k)
    BY <2>5 DEF Rules
  <2> QED
    BY <2>2, <2>6
<1> HIDE DEF Q
<1>3. n \in Q
  BY <1>0, <1>1, <1>2, NumberInduction
<1>4. n + 1 - n = 1
  BY <1>0
<1> QED
  BY <1>0, <1>3, <1>4 DEF Q

Fate(c, p) == CHOOSE g : Rules(g, c, p, 1)
Says(c, p, i, a) == Fate(c, p)[<<i, a>>]

LEMMA SaysIs ==
  ASSUME NEW c, NEW p \in Program, NEW i \in 1..Len(p), NEW a \in Accumulators(c, p)
  PROVE  Says(c, p, i, a) = IF p[i].op = "ret" THEN p[i].k ELSE Fate(c, p)[Onward(c, p, i, a)]
<1>1. Rules(Fate(c, p), c, p, 1)
  BY RulesExist DEF Fate
<1> QED
  BY <1>1 DEF Rules, Says

-----------------------------------------------------------------------------
(***************************************************************************)
(* The instructions of a block, where the block stands behind m others.    *)
(***************************************************************************)
Answer(c, p, m, j, a) == Says(c, p, m + j, a)
Ruled(v) == {v}

Loading(b, j, f, to) == j \in 1..Len(b) /\ to = j + 1 /\ b[j] = Ld(f)
Masking(b, j, w, to) == j \in 1..Len(b) /\ to = j + 1 /\ b[j] = And(w)
Comparing(b, j, w, yes, no) ==
  /\ j \in 1..Len(b) /\ yes \in Nat /\ no \in Nat /\ yes > j /\ no > j
  /\ b[j] = Jeq(yes - (j + 1), no - (j + 1), w)
Testing(b, j, w, yes, no) ==
  /\ j \in 1..Len(b) /\ yes \in Nat /\ no \in Nat /\ yes > j /\ no > j
  /\ b[j] = Jset(yes - (j + 1), no - (j + 1), w)
Returning(b, j, v) == j \in 1..Len(b) /\ b[j] = Ret(v)

LEMMA StandsAt ==
  ASSUME NEW p \in Program, NEW m \in Nat, NEW b \in Program, Stands(p, m, b),
         NEW j \in 1..Len(b)
  PROVE  m + j \in 1..Len(p) /\ p[m + j] = b[j] /\ j \in Nat
BY DEF Stands, Program

LEMMA LoadingIs ==
  ASSUME NEW c, NEW p \in Program, NEW m \in Nat, NEW b \in Program, Stands(p, m, b),
         NEW a \in Accumulators(c, p)
  PROVE  \A j, f, to : Loading(b, j, f, to) =>
           c[f] \in Accumulators(c, p) /\ Answer(c, p, m, j, a) = Answer(c, p, m, to, c[f])
<1> SUFFICES ASSUME NEW j, NEW f, NEW to, Loading(b, j, f, to)
             PROVE  c[f] \in Accumulators(c, p) /\ Answer(c, p, m, j, a) = Answer(c, p, m, to, c[f])
  OBVIOUS
<1> DEFINE i == m + j
<1>0. i \in 1..Len(p) /\ p[i] = Ld(f) /\ i + 1 = m + to
  BY StandsAt DEF Loading
<1> HIDE DEF i
<1>1. p[i].op = "ld" /\ p[i].k = {f}
  BY <1>0 DEF Ld
<1>2. Loaded(c, p[i]) = c[f]
  BY <1>1 DEF Loaded
<1>3. Onward(c, p, i, a) = <<i + 1, c[f]>>
  BY <1>1, <1>2 DEF Onward
<1>4. Says(c, p, i, a) = Says(c, p, i + 1, c[f])
  BY <1>0, <1>1, <1>3, SaysIs DEF Says
<1>5. c[f] \in Accumulators(c, p)
  BY <1>0, <1>2 DEF Accumulators
<1> QED
  BY <1>0, <1>4, <1>5 DEF Answer, i

LEMMA MaskingIs ==
  ASSUME NEW c, NEW p \in Program, NEW m \in Nat, NEW b \in Program, Stands(p, m, b),
         NEW a \in Accumulators(c, p)
  PROVE  \A j, w, to : Masking(b, j, w, to) =>
           /\ a \intersect w \in Accumulators(c, p)
           /\ Answer(c, p, m, j, a) = Answer(c, p, m, to, a \intersect w)
<1> SUFFICES ASSUME NEW j, NEW w, NEW to, Masking(b, j, w, to)
             PROVE  /\ a \intersect w \in Accumulators(c, p)
                    /\ Answer(c, p, m, j, a) = Answer(c, p, m, to, a \intersect w)
  OBVIOUS
<1> DEFINE i == m + j
           both == a \intersect w
<1>0. i \in 1..Len(p) /\ p[i] = And(w) /\ i + 1 = m + to
  BY StandsAt DEF Masking
<1> HIDE DEF i
<1>1. p[i].op = "and" /\ p[i].k = w
  BY <1>0 DEF And
<1>2. Onward(c, p, i, a) = <<i + 1, both>>
  BY <1>1 DEF Onward
<1>3. both \in Accumulators(c, p)
  BY DEF Accumulators
<1> HIDE DEF both
<1>4. Says(c, p, i, a) = Says(c, p, i + 1, both)
  BY <1>0, <1>1, <1>2, SaysIs DEF Says
<1>5. Answer(c, p, m, j, a) = Answer(c, p, m, to, both)
  BY <1>0, <1>4 DEF Answer, i
<1> QED
  BY <1>3, <1>5 DEF both

LEMMA ComparingIs ==
  ASSUME NEW c, NEW p \in Program, NEW m \in Nat, NEW b \in Program, Stands(p, m, b),
         NEW a \in Accumulators(c, p)
  PROVE  \A j, w, yes, no : Comparing(b, j, w, yes, no) =>
           /\ a = w => Answer(c, p, m, j, a) = Answer(c, p, m, yes, a)
           /\ a # w => Answer(c, p, m, j, a) = Answer(c, p, m, no, a)
<1> SUFFICES ASSUME NEW j, NEW w, NEW yes, NEW no, Comparing(b, j, w, yes, no)
             PROVE  /\ a = w => Answer(c, p, m, j, a) = Answer(c, p, m, yes, a)
                    /\ a # w => Answer(c, p, m, j, a) = Answer(c, p, m, no, a)
  OBVIOUS
<1> DEFINE i == m + j
           k == yes - (j + 1)
           n == no - (j + 1)
<1>0. /\ i \in 1..Len(p) /\ p[i] = Jeq(k, n, w)
      /\ i + 1 + k = m + yes /\ i + 1 + n = m + no
  BY StandsAt DEF Comparing
<1> HIDE DEF i, k, n
<1>1. p[i].op = "jeq" /\ p[i].k = w /\ p[i].jt = k /\ p[i].jf = n
  BY <1>0 DEF Jeq
<1>2. Onward(c, p, i, a) = <<i + 1 + (IF a = w THEN k ELSE n), a>>
  BY <1>1 DEF Onward, Taken
<1>3. Says(c, p, i, a) = Says(c, p, i + 1 + (IF a = w THEN k ELSE n), a)
  BY <1>0, <1>1, <1>2, SaysIs DEF Says
<1> QED
  BY <1>0, <1>3 DEF Answer, i

LEMMA TestingIs ==
  ASSUME NEW c, NEW p \in Program, NEW m \in Nat, NEW b \in Program, Stands(p, m, b),
         NEW a \in Accumulators(c, p)
  PROVE  \A j, w, yes, no : Testing(b, j, w, yes, no) =>
           /\ a \intersect w # {} => Answer(c, p, m, j, a) = Answer(c, p, m, yes, a)
           /\ a \intersect w = {} => Answer(c, p, m, j, a) = Answer(c, p, m, no, a)
<1> SUFFICES ASSUME NEW j, NEW w, NEW yes, NEW no, Testing(b, j, w, yes, no)
             PROVE  /\ a \intersect w # {} => Answer(c, p, m, j, a) = Answer(c, p, m, yes, a)
                    /\ a \intersect w = {} => Answer(c, p, m, j, a) = Answer(c, p, m, no, a)
  OBVIOUS
<1> DEFINE i == m + j
           k == yes - (j + 1)
           n == no - (j + 1)
           both == a \intersect w
<1>0. /\ i \in 1..Len(p) /\ p[i] = Jset(k, n, w)
      /\ i + 1 + k = m + yes /\ i + 1 + n = m + no
  BY StandsAt DEF Testing
<1> HIDE DEF i, k, n
<1>1. p[i].op = "jset" /\ p[i].k = w /\ p[i].jt = k /\ p[i].jf = n
  BY <1>0 DEF Jset
<1>2. Onward(c, p, i, a) = <<i + 1 + (IF both # {} THEN k ELSE n), a>>
  BY <1>1 DEF Onward, Taken
<1> HIDE DEF both
<1>3. Says(c, p, i, a) = Says(c, p, i + 1 + (IF both # {} THEN k ELSE n), a)
  BY <1>0, <1>1, <1>2, SaysIs DEF Says
<1>4. /\ both # {} => Answer(c, p, m, j, a) = Answer(c, p, m, yes, a)
      /\ both = {} => Answer(c, p, m, j, a) = Answer(c, p, m, no, a)
  BY <1>0, <1>3 DEF Answer, i
<1> QED
  BY <1>4 DEF both

LEMMA ReturningIs ==
  ASSUME NEW c, NEW p \in Program, NEW m \in Nat, NEW b \in Program, Stands(p, m, b),
         NEW a \in Accumulators(c, p)
  PROVE  \A j, v : Returning(b, j, v) => Answer(c, p, m, j, a) = Ruled(v)
<1> SUFFICES ASSUME NEW j, NEW v, Returning(b, j, v) PROVE Answer(c, p, m, j, a) = Ruled(v)
  OBVIOUS
<1> DEFINE i == m + j
<1>0. i \in 1..Len(p) /\ p[i] = Ret(v)
  BY StandsAt DEF Returning
<1> HIDE DEF i
<1>1. p[i].op = "ret" /\ p[i].k = {v}
  BY <1>0 DEF Ret
<1>2. Says(c, p, i, a) = {v}
  BY <1>0, <1>1, SaysIs
<1> QED
  BY <1>2 DEF Answer, Ruled, i

\* The same for every accumulator, one instruction at a time.
LoadsOn(c, p, m, b) ==
  \A a \in Accumulators(c, p) : \A j, f, to : Loading(b, j, f, to) =>
    c[f] \in Accumulators(c, p) /\ Answer(c, p, m, j, a) = Answer(c, p, m, to, c[f])
MasksOn(c, p, m, b) ==
  \A a \in Accumulators(c, p) : \A j, w, to : Masking(b, j, w, to) =>
    /\ a \intersect w \in Accumulators(c, p)
    /\ Answer(c, p, m, j, a) = Answer(c, p, m, to, a \intersect w)
Compares(c, p, m, b) ==
  \A a \in Accumulators(c, p) : \A j, w, yes, no : Comparing(b, j, w, yes, no) =>
    /\ a = w => Answer(c, p, m, j, a) = Answer(c, p, m, yes, a)
    /\ a # w => Answer(c, p, m, j, a) = Answer(c, p, m, no, a)
Tests(c, p, m, b) ==
  \A a \in Accumulators(c, p) : \A j, w, yes, no : Testing(b, j, w, yes, no) =>
    /\ a \intersect w # {} => Answer(c, p, m, j, a) = Answer(c, p, m, yes, a)
    /\ a \intersect w = {} => Answer(c, p, m, j, a) = Answer(c, p, m, no, a)
Returns(c, p, m, b) ==
  \A a \in Accumulators(c, p) : \A j, v : Returning(b, j, v) => Answer(c, p, m, j, a) = Ruled(v)

LEMMA BlockObeys ==
  ASSUME NEW c, NEW p \in Program, NEW m \in Nat, NEW b \in Program, Stands(p, m, b)
  PROVE  /\ LoadsOn(c, p, m, b) /\ MasksOn(c, p, m, b) /\ Compares(c, p, m, b)
         /\ Tests(c, p, m, b) /\ Returns(c, p, m, b)
<1>1. LoadsOn(c, p, m, b)
  BY LoadingIs DEF LoadsOn
<1>2. MasksOn(c, p, m, b)
  BY MaskingIs DEF MasksOn
<1>3. Compares(c, p, m, b)
  BY ComparingIs DEF Compares
<1>4. Tests(c, p, m, b)
  BY TestingIs DEF Tests
<1>5. Returns(c, p, m, b)
  BY ReturningIs DEF Returns
<1> QED
  BY <1>1, <1>2, <1>3, <1>4, <1>5
-----------------------------------------------------------------------------
(***************************************************************************)
(* The parts of a program.                                                 *)
(***************************************************************************)
LEMMA SocketTyped == CheckSocket \in Program /\ Len(CheckSocket) = 9
<1> DEFINE I == Instructions
<1>1. /\ Jeq(0, 7, {"socket"}) \in I /\ Ld("arg0") \in I
      /\ Jeq(4, 0, {"unix"}) \in I /\ Jeq(3, 0, {"netlink"}) \in I
      /\ Ld("arg1") \in I /\ And({"raw", "dgram", "stream"}) \in I
      /\ Jeq(0, 1, {"raw"}) \in I /\ Ret("EACCES") \in I /\ Ld("nr") \in I
  BY JumpsAre, InstructionsAre, LabelsAre
<1> HIDE DEF I
<1>2. CheckSocket \in Seq(I)
  BY <1>1 DEF CheckSocket
<1> QED
  BY <1>2 DEF I, CheckSocket, Program

\* Ahead of a part the accumulator holds the number of the call, and so it
\* does behind it, unless the part has ruled.
LEMMA SocketRules ==
  ASSUME NEW c \in Syscalls, NEW p \in Program, NEW m \in Nat, Stands(p, m, CheckSocket),
         c.nr \in Accumulators(c, p)
  PROVE  Answer(c, p, m, 1, c.nr) =
           IF c.nr = {"socket"} /\ (c.arg0 \in {{"unix"}, {"netlink"}} \/ "raw" \in c.arg1)
           THEN Ruled("EACCES") ELSE Answer(c, p, m, 10, c.nr)
<1> DEFINE A == Accumulators(c, p)
           S(i, a) == Answer(c, p, m, i, a)
           type == c.arg1 \intersect {"raw", "dgram", "stream"}
           b == CheckSocket
           socket == {"socket"}
           unix == {"unix"}
           netlink == {"netlink"}
           raw == {"raw"}
           types == {"raw", "dgram", "stream"}
<1>1. /\ LoadsOn(c, p, m, b) /\ MasksOn(c, p, m, b) /\ Compares(c, p, m, b)
      /\ Returns(c, p, m, b)
  BY SocketTyped, BlockObeys
<1>2. Loading(b, 2, "arg0", 3) /\ Loading(b, 5, "arg1", 6) /\ Loading(b, 9, "nr", 10)
  BY DEF CheckSocket, Loading
<1>3. Comparing(b, 1, socket, 2, 9) /\ Comparing(b, 3, unix, 8, 4)
  BY DEF CheckSocket, Comparing
<1>4. Comparing(b, 4, netlink, 8, 5) /\ Comparing(b, 7, raw, 8, 9)
  BY DEF CheckSocket, Comparing
<1>5. Masking(b, 6, types, 7)
  BY DEF CheckSocket, Masking
<1>6. Returning(b, 8, "EACCES")
  BY DEF CheckSocket, Returning
<1>7. type = raw <=> "raw" \in c.arg1
  BY FilterAssumption
<1>8. type = c.arg1 \intersect types
  OBVIOUS
<1> HIDE DEF b, socket, unix, netlink, raw, type, types
<1>9. /\ c.nr = socket => S(1, c.nr) = S(2, c.nr)
      /\ c.nr # socket => S(1, c.nr) = S(9, c.nr)
  BY <1>1, <1>3 DEF Compares
<1>10. c.arg0 \in A /\ S(2, c.nr) = S(3, c.arg0)
  BY <1>1, <1>2 DEF LoadsOn
<1>11. /\ c.arg0 = unix => S(3, c.arg0) = S(8, c.arg0)
       /\ c.arg0 # unix => S(3, c.arg0) = S(4, c.arg0)
       /\ c.arg0 = netlink => S(4, c.arg0) = S(8, c.arg0)
       /\ c.arg0 # netlink => S(4, c.arg0) = S(5, c.arg0)
  BY <1>1, <1>3, <1>4, <1>10 DEF Compares
<1>12. c.arg1 \in A /\ S(5, c.arg0) = S(6, c.arg1)
  BY <1>1, <1>2, <1>10 DEF LoadsOn
<1>13. type \in A /\ S(6, c.arg1) = S(7, type)
  BY <1>1, <1>5, <1>8, <1>12 DEF MasksOn
<1>14. /\ type = raw => S(7, type) = S(8, type)
       /\ type # raw => S(7, type) = S(9, type)
  BY <1>1, <1>4, <1>13 DEF Compares
<1>15. S(8, type) = Ruled("EACCES") /\ S(8, c.arg0) = Ruled("EACCES")
  BY <1>1, <1>6, <1>10, <1>13 DEF Returns
<1>16. \A a \in A : S(9, a) = S(10, c.nr)
  BY <1>1, <1>2 DEF LoadsOn
<1> HIDE DEF A, S
<1>17. S(1, c.nr) = IF c.nr = socket /\ (c.arg0 \in {unix, netlink} \/ "raw" \in c.arg1)
                    THEN Ruled("EACCES") ELSE S(10, c.nr)
  <2>1. c.nr \in A
    BY DEF A
  <2> QED
    BY <2>1, <1>7, <1>9, <1>10, <1>11, <1>12, <1>13, <1>14, <1>15, <1>16
<1> QED
  BY <1>17 DEF S, socket, unix, netlink

\* Tuples one behind the other.
LEMMA Join42 ==
  ASSUME NEW T, NEW a \in T, NEW b \in T, NEW c \in T, NEW d \in T, NEW e \in T, NEW f \in T
  PROVE  <<a, b, c, d>> \o <<e, f>> = <<a, b, c, d, e, f>>
<1>1. <<a, b, c, d>> \o <<e, f>> \in Seq(T) /\ <<a, b, c, d, e, f>> \in Seq(T)
  OBVIOUS
<1>2. Len(<<a, b, c, d>> \o <<e, f>>) = 6 /\ Len(<<a, b, c, d, e, f>>) = 6
  OBVIOUS
<1>3. \A k \in 1..6 : (<<a, b, c, d>> \o <<e, f>>)[k] = <<a, b, c, d, e, f>>[k]
  OBVIOUS
<1> QED
  BY <1>1, <1>2, <1>3, SeqEqual

LEMMA Join12 ==
  ASSUME NEW T, NEW a \in T, NEW b \in T, NEW c \in T
  PROVE  <<a>> \o <<b, c>> = <<a, b, c>>
<1>1. <<a>> \o <<b, c>> \in Seq(T) /\ <<a, b, c>> \in Seq(T)
  OBVIOUS
<1>2. Len(<<a>> \o <<b, c>>) = 3 /\ Len(<<a, b, c>>) = 3
  OBVIOUS
<1>3. \A k \in 1..3 : (<<a>> \o <<b, c>>)[k] = <<a, b, c>>[k]
  OBVIOUS
<1> QED
  BY <1>1, <1>2, <1>3, SeqEqual

LEMMA Join32 ==
  ASSUME NEW T, NEW a \in T, NEW b \in T, NEW c \in T, NEW d \in T, NEW e \in T
  PROVE  <<a, b, c>> \o <<d, e>> = <<a, b, c, d, e>>
<1>1. <<a, b, c>> \o <<d, e>> \in Seq(T) /\ <<a, b, c, d, e>> \in Seq(T)
  OBVIOUS
<1>2. Len(<<a, b, c>> \o <<d, e>>) = 5 /\ Len(<<a, b, c, d, e>>) = 5
  OBVIOUS
<1>3. \A k \in 1..5 : (<<a, b, c>> \o <<d, e>>)[k] = <<a, b, c, d, e>>[k]
  OBVIOUS
<1> QED
  BY <1>1, <1>2, <1>3, SeqEqual

LEMMA Join33 ==
  ASSUME NEW T, NEW a \in T, NEW b \in T, NEW c \in T, NEW d \in T, NEW e \in T, NEW f \in T
  PROVE  <<a, b, c>> \o <<d, e, f>> = <<a, b, c, d, e, f>>
<1>1. <<a, b, c>> \o <<d, e, f>> \in Seq(T) /\ <<a, b, c, d, e, f>> \in Seq(T)
  OBVIOUS
<1>2. Len(<<a, b, c>> \o <<d, e, f>>) = 6 /\ Len(<<a, b, c, d, e, f>>) = 6
  OBVIOUS
<1>3. \A k \in 1..6 : (<<a, b, c>> \o <<d, e, f>>)[k] = <<a, b, c, d, e, f>>[k]
  OBVIOUS
<1> QED
  BY <1>1, <1>2, <1>3, SeqEqual

LEMMA Join35 ==
  ASSUME NEW T, NEW a \in T, NEW b \in T, NEW c \in T, NEW d \in T, NEW e \in T, NEW f \in T, NEW g
         \in T, NEW h \in T
  PROVE  <<a, b, c>> \o <<d, e, f, g, h>> = <<a, b, c, d, e, f, g, h>>
<1>1. <<a, b, c>> \o <<d, e, f, g, h>> \in Seq(T) /\ <<a, b, c, d, e, f, g, h>> \in Seq(T)
  OBVIOUS
<1>2. Len(<<a, b, c>> \o <<d, e, f, g, h>>) = 8 /\ Len(<<a, b, c, d, e, f, g, h>>) = 8
  OBVIOUS
<1>3. \A k \in 1..8 : (<<a, b, c>> \o <<d, e, f, g, h>>)[k] = <<a, b, c, d, e, f, g, h>>[k]
  OBVIOUS
<1> QED
  BY <1>1, <1>2, <1>3, SeqEqual

LEMMA JoinOne ==
  ASSUME NEW T, NEW s \in Seq(T), NEW g \in T, NEW n \in Nat, Len(s) = n,
         NEW x \in Seq(T), Len(x) = n + 1, \A i \in 1..n : x[i] = s[i], x[n + 1] = g
  PROVE  s \o <<g>> = x
<1>1. s \o <<g>> \in Seq(T) /\ Len(s \o <<g>>) = n + 1
  OBVIOUS
<1>2. \A i \in 1..(n + 1) : (s \o <<g>>)[i] = x[i]
  OBVIOUS
<1> QED
  BY <1>1, <1>2, SeqEqual

LEMMA ArchIs ==
  ASSUME NEW cfg \in FilterConfigs
  PROVE  /\ cfg.arch = "amd64" => CheckArch(cfg) =
              <<Ld("arch"), Jeq(1, 0, {cfg.arch}), Ret("kill_process"), Ld("nr"),
                Jset(0, 1, {"x32"}), Ret("kill_process")>>
         /\ cfg.arch # "amd64" => CheckArch(cfg) =
              <<Ld("arch"), Jeq(1, 0, {cfg.arch}), Ret("kill_process"), Ld("nr")>>
<1> DEFINE I == Instructions
           i1 == Ld("arch")
           i2 == Jeq(1, 0, {cfg.arch})
           i3 == Ret("kill_process")
           i4 == Ld("nr")
           i5 == Jset(0, 1, {"x32"})
<1>1. i1 \in I /\ i2 \in I /\ i3 \in I /\ i4 \in I /\ i5 \in I
  BY JumpsAre, InstructionsAre, LabelsAre
<1>2. CheckArch(cfg) = <<i1, i2, i3, i4>> \o IF cfg.arch = "amd64" THEN <<i5, i3>> ELSE <<>>
  BY DEF CheckArch
<1> HIDE DEF I, i1, i2, i3, i4, i5
<1>3. <<i1, i2, i3, i4>> \o <<i5, i3>> = <<i1, i2, i3, i4, i5, i3>>
  BY <1>1, Join42
<1>4. <<i1, i2, i3, i4>> \o <<>> = <<i1, i2, i3, i4>>
  OBVIOUS
<1>5. CheckArch(cfg) = IF cfg.arch = "amd64" THEN <<i1, i2, i3, i4, i5, i3>> ELSE <<i1, i2, i3, i4>>
  BY <1>2, <1>3, <1>4
<1> QED
  BY <1>5 DEF i1, i2, i3, i4, i5

LEMMA ArchTyped ==
  ASSUME NEW cfg \in FilterConfigs
  PROVE  /\ CheckArch(cfg) \in Program
         /\ cfg.arch = "amd64" => Len(CheckArch(cfg)) = 6
         /\ cfg.arch # "amd64" => Len(CheckArch(cfg)) = 4
<1> DEFINE I == Instructions
           i1 == Ld("arch")
           i2 == Jeq(1, 0, {cfg.arch})
           i3 == Ret("kill_process")
           i4 == Ld("nr")
           i5 == Jset(0, 1, {"x32"})
<1>1. i1 \in I /\ i2 \in I /\ i3 \in I /\ i4 \in I /\ i5 \in I
  BY JumpsAre, InstructionsAre, LabelsAre
<1>2. /\ cfg.arch = "amd64" => CheckArch(cfg) = <<i1, i2, i3, i4, i5, i3>>
      /\ cfg.arch # "amd64" => CheckArch(cfg) = <<i1, i2, i3, i4>>
  BY ArchIs, Zenon
<1> HIDE DEF I, i1, i2, i3, i4, i5
<1>3. /\ <<i1, i2, i3, i4, i5, i3>> \in Seq(I) /\ Len(<<i1, i2, i3, i4, i5, i3>>) = 6
      /\ <<i1, i2, i3, i4>> \in Seq(I) /\ Len(<<i1, i2, i3, i4>>) = 4
  BY <1>1
<1>4. /\ CheckArch(cfg) \in Seq(I)
      /\ cfg.arch = "amd64" => Len(CheckArch(cfg)) = 6
      /\ cfg.arch # "amd64" => Len(CheckArch(cfg)) = 4
  BY <1>2, <1>3
<1> QED
  BY <1>4 DEF I, Program

LEMMA ArchRules ==
  ASSUME NEW c \in Syscalls, NEW cfg \in FilterConfigs, NEW p \in Program,
         NEW m \in Nat, NEW none \in Accumulators(c, p), Stands(p, m, CheckArch(cfg))
  PROVE  /\ c.nr \in Accumulators(c, p)
         /\ Answer(c, p, m, 1, none) =
              IF c.arch # {cfg.arch} \/ (cfg.arch = "amd64" /\ "x32" \in c.nr)
              THEN Ruled("kill_process") ELSE Answer(c, p, m, Len(CheckArch(cfg)) + 1, c.nr)
<1> DEFINE A == Accumulators(c, p)
           S(i, a) == Answer(c, p, m, i, a)
           b == CheckArch(cfg)
           arch == {cfg.arch}
           x32 == {"x32"}
<1>1. /\ LoadsOn(c, p, m, b) /\ Compares(c, p, m, b) /\ Tests(c, p, m, b)
      /\ Returns(c, p, m, b)
  BY ArchTyped, BlockObeys
<1>2. none \in A
  OBVIOUS
<1>3. /\ Loading(b, 1, "arch", 2) /\ Loading(b, 4, "nr", 5)
      /\ Comparing(b, 2, arch, 4, 3)
      /\ Returning(b, 3, "kill_process")
  <2>1. CASE cfg.arch = "amd64"
    <3>1. b = <<Ld("arch"), Jeq(1, 0, {cfg.arch}), Ret("kill_process"), Ld("nr"),
                Jset(0, 1, {"x32"}), Ret("kill_process")>>
      BY <2>1, ArchIs, Zenon
    <3> QED
      BY <3>1 DEF Comparing, Loading, Returning
  <2>2. CASE cfg.arch # "amd64"
    <3>1. b = <<Ld("arch"), Jeq(1, 0, {cfg.arch}), Ret("kill_process"), Ld("nr")>>
      BY <2>2, ArchIs, Zenon
    <3> QED
      BY <3>1 DEF Comparing, Loading, Returning
  <2> QED
    BY <2>1, <2>2
<1>4. ASSUME cfg.arch = "amd64" PROVE Testing(b, 5, x32, 6, 7) /\ Returning(b, 6, "kill_process")
  <2>1. b = <<Ld("arch"), Jeq(1, 0, {cfg.arch}), Ret("kill_process"), Ld("nr"),
              Jset(0, 1, {"x32"}), Ret("kill_process")>>
    BY <1>4, ArchIs, Zenon
  <2> QED
    BY <2>1 DEF Testing, Returning
<1>5. c.nr \intersect x32 = {} <=> "x32" \notin c.nr
  OBVIOUS
<1>6. /\ cfg.arch = "amd64" => Len(CheckArch(cfg)) + 1 = 7
      /\ cfg.arch # "amd64" => Len(CheckArch(cfg)) + 1 = 5
  <2>1. ASSUME cfg.arch = "amd64" PROVE Len(CheckArch(cfg)) + 1 = 7
    <3>1. Len(CheckArch(cfg)) = 6
      BY <2>1, ArchTyped, Zenon
    <3> QED
      BY <3>1
  <2>2. ASSUME cfg.arch # "amd64" PROVE Len(CheckArch(cfg)) + 1 = 5
    <3>1. Len(CheckArch(cfg)) = 4
      BY <2>2, ArchTyped, Zenon
    <3> QED
      BY <3>1
  <2> QED
    BY <2>1, <2>2, Zenon
<1> HIDE DEF b, arch, x32
<1>7. c.arch \in A /\ S(1, none) = S(2, c.arch)
  BY <1>1, <1>2, <1>3 DEF LoadsOn
<1>8. /\ c.arch = arch => S(2, c.arch) = S(4, c.arch)
      /\ c.arch # arch => S(2, c.arch) = S(3, c.arch)
  BY <1>1, <1>3, <1>7 DEF Compares
<1>9. S(3, c.arch) = Ruled("kill_process")
  BY <1>1, <1>3, <1>7 DEF Returns
<1>10. c.nr \in A /\ S(4, c.arch) = S(5, c.nr)
  BY <1>1, <1>3, <1>7 DEF LoadsOn
<1>11. ASSUME cfg.arch = "amd64"
       PROVE  /\ "x32" \in c.nr => S(5, c.nr) = S(6, c.nr)
              /\ "x32" \notin c.nr => S(5, c.nr) = S(7, c.nr)
              /\ S(6, c.nr) = Ruled("kill_process")
  <2>1. /\ c.nr \intersect x32 # {} => S(5, c.nr) = S(6, c.nr)
        /\ c.nr \intersect x32 = {} => S(5, c.nr) = S(7, c.nr)
    BY <1>1, <1>4, <1>10, <1>11 DEF Tests
  <2>2. S(6, c.nr) = Ruled("kill_process")
    BY <1>1, <1>4, <1>10, <1>11 DEF Returns
  <2> QED
    BY <2>1, <2>2, <1>5
<1> HIDE DEF A, S
<1>12. S(1, none) = IF c.arch # arch \/ (cfg.arch = "amd64" /\ "x32" \in c.nr)
                    THEN Ruled("kill_process") ELSE S(Len(CheckArch(cfg)) + 1, c.nr)
  BY <1>6, <1>7, <1>8, <1>9, <1>10, <1>11
<1> QED
  BY <1>10, <1>12 DEF A, S, arch

LEMMA CloneIs ==
  ASSUME NEW cfg \in FilterConfigs
  PROVE  /\ cfg.userns /\ ~cfg.fork => CheckClone(cfg) = <<>>
         /\ ~cfg.userns /\ ~cfg.fork => CheckClone(cfg) =
              <<Jeq(0, 1, {"clone3"}), Ret("ENOSYS"), Jeq(0, 3, {"clone"}), Ld("arg0"),
                Jset(0, 1, {"newuser", "newns"}), Ret("EPERM"), Ld("nr")>>
         /\ cfg.userns /\ cfg.fork => CheckClone(cfg) =
              <<Jeq(0, 1, {"clone3"}), Ret("ENOSYS"), Jeq(0, 3, {"clone"}), Ld("arg0"),
                Jset(1, 0, {"thread"}), Ret(ForkRuling(cfg)), Ld("nr")>>
         /\ ~cfg.userns /\ cfg.fork => CheckClone(cfg) =
              <<Jeq(0, 1, {"clone3"}), Ret("ENOSYS"), Jeq(0, 5, {"clone"}), Ld("arg0"),
                Jset(0, 1, {"newuser", "newns"}), Ret("EPERM"),
                Jset(1, 0, {"thread"}), Ret(ForkRuling(cfg)), Ld("nr")>>
         /\ CheckClone(cfg) \in Program
         /\ Len(CheckClone(cfg)) = IF cfg.userns /\ ~cfg.fork THEN 0
                                   ELSE IF ~cfg.userns /\ cfg.fork THEN 9 ELSE 7
<1> DEFINE I == Instructions
           u == cfg.userns
           f == cfg.fork
           i1 == Jeq(0, 1, {"clone3"})
           i2 == Ret("ENOSYS")
           i3(n) == Jeq(0, n, {"clone"})
           i4 == Ld("arg0")
           i5 == Jset(0, 1, {"newuser", "newns"})
           i6 == Ret("EPERM")
           i7 == Jset(1, 0, {"thread"})
           i8 == Ret(ForkRuling(cfg))
           i9 == Ld("nr")
           users == IF u THEN <<>> ELSE <<i5, i6>>
           forks == IF f THEN <<i7, i8>> ELSE <<>>
           inner == <<i4>> \o users \o forks
<1>1. /\ i1 \in I /\ i2 \in I /\ i3(3) \in I /\ i3(5) \in I /\ i4 \in I
      /\ i5 \in I /\ i6 \in I /\ i7 \in I /\ i8 \in I /\ i9 \in I
  <2>1. ForkRuling(cfg) \in Labels
    BY LabelsAre DEF ForkRuling
  <2> QED
    BY <2>1, JumpsAre, InstructionsAre, LabelsAre
<1>2. CheckClone(cfg) = IF u /\ ~f THEN <<>> ELSE <<i1, i2, i3(Len(inner))>> \o inner \o <<i9>>
  BY DEF CheckClone
<1> HIDE DEF I, u, f, i1, i2, i3, i4, i5, i6, i7, i8, i9
<1>3. CASE u /\ ~f
  <2>1. CheckClone(cfg) = <<>>
    BY <1>2, <1>3
  <2> QED
    BY <1>3, <2>1 DEF u, f, Program
<1>4. CASE ~u /\ ~f
  <2>1. users = <<i5, i6>> /\ forks = <<>>
    BY <1>4
  <2>2. inner = <<i4, i5, i6>>
    <3>1. <<i4>> \o <<i5, i6>> = <<i4, i5, i6>> /\ <<i4, i5, i6>> \o <<>> = <<i4, i5, i6>>
      BY <1>1, Join12
    <3> QED
      BY <2>1, <3>1
  <2>3. Len(<<i4, i5, i6>>) = 3
    OBVIOUS
  <2>4. CheckClone(cfg) = <<i1, i2, i3(3)>> \o <<i4, i5, i6>> \o <<i9>>
    BY <1>2, <1>4, <2>2, <2>3
  <2>5. <<i1, i2, i3(3)>> \o <<i4, i5, i6>> = <<i1, i2, i3(3), i4, i5, i6>>
    BY <1>1, Join33
  <2>6. <<i1, i2, i3(3), i4, i5, i6>> \o <<i9>>
          = <<i1, i2, i3(3), i4, i5, i6, i9>>
    <3> DEFINE s == <<i1, i2, i3(3), i4, i5, i6>>
               x == <<i1, i2, i3(3), i4, i5, i6, i9>>
    <3>1. s \in Seq(I) /\ Len(s) = 6 /\ x \in Seq(I) /\ Len(x) = 6 + 1
      BY <1>1
    <3>2. (\A i \in 1..6 : x[i] = s[i]) /\ x[6 + 1] = i9
      OBVIOUS
    <3> HIDE DEF s, x
    <3>3. s \o <<i9>> = x
      BY <1>1, <3>1, <3>2, JoinOne
    <3> QED
      BY <3>3 DEF s, x
  <2>7. CheckClone(cfg) = <<i1, i2, i3(3), i4, i5, i6, i9>>
    BY <2>4, <2>5, <2>6
  <2>8. CheckClone(cfg) \in Seq(I) /\ Len(CheckClone(cfg)) = 7
    BY <1>1, <2>7
  <2> QED
    BY <1>4, <2>7, <2>8 DEF u, f, I, Program, i1, i2, i3, i4, i5, i6, i9
<1>5. CASE u /\ f
  <2>1. users = <<>> /\ forks = <<i7, i8>>
    BY <1>5
  <2>2. inner = <<i4, i7, i8>>
    <3>1. <<i4>> \o <<i7, i8>> = <<i4, i7, i8>> /\ <<i4>> \o <<>> = <<i4>>
      BY <1>1, Join12
    <3> QED
      BY <2>1, <3>1
  <2>3. Len(<<i4, i7, i8>>) = 3
    OBVIOUS
  <2>4. CheckClone(cfg) = <<i1, i2, i3(3)>> \o <<i4, i7, i8>> \o <<i9>>
    BY <1>2, <1>5, <2>2, <2>3
  <2>5. <<i1, i2, i3(3)>> \o <<i4, i7, i8>> = <<i1, i2, i3(3), i4, i7, i8>>
    BY <1>1, Join33
  <2>6. <<i1, i2, i3(3), i4, i7, i8>> \o <<i9>>
          = <<i1, i2, i3(3), i4, i7, i8, i9>>
    <3> DEFINE s == <<i1, i2, i3(3), i4, i7, i8>>
               x == <<i1, i2, i3(3), i4, i7, i8, i9>>
    <3>1. s \in Seq(I) /\ Len(s) = 6 /\ x \in Seq(I) /\ Len(x) = 6 + 1
      BY <1>1
    <3>2. (\A i \in 1..6 : x[i] = s[i]) /\ x[6 + 1] = i9
      OBVIOUS
    <3> HIDE DEF s, x
    <3>3. s \o <<i9>> = x
      BY <1>1, <3>1, <3>2, JoinOne
    <3> QED
      BY <3>3 DEF s, x
  <2>7. CheckClone(cfg) = <<i1, i2, i3(3), i4, i7, i8, i9>>
    BY <2>4, <2>5, <2>6
  <2>8. CheckClone(cfg) \in Seq(I) /\ Len(CheckClone(cfg)) = 7
    BY <1>1, <2>7
  <2> QED
    BY <1>5, <2>7, <2>8 DEF u, f, I, Program, i1, i2, i3, i4, i7, i8, i9
<1>6. CASE ~u /\ f
  <2>1. users = <<i5, i6>> /\ forks = <<i7, i8>>
    BY <1>6
  <2>2. inner = <<i4, i5, i6, i7, i8>>
    <3>1. /\ <<i4>> \o <<i5, i6>> = <<i4, i5, i6>>
          /\ <<i4, i5, i6>> \o <<i7, i8>> = <<i4, i5, i6, i7, i8>>
      BY <1>1, Join12, Join32
    <3> QED
      BY <2>1, <3>1
  <2>3. Len(<<i4, i5, i6, i7, i8>>) = 5
    OBVIOUS
  <2>4. CheckClone(cfg) = <<i1, i2, i3(5)>> \o <<i4, i5, i6, i7, i8>> \o <<i9>>
    BY <1>2, <1>6, <2>2, <2>3
  <2>5. <<i1, i2, i3(5)>> \o <<i4, i5, i6, i7, i8>> = <<i1, i2, i3(5), i4, i5, i6, i7, i8>>
    BY <1>1, Join35
  <2>6. <<i1, i2, i3(5), i4, i5, i6, i7, i8>> \o <<i9>>
          = <<i1, i2, i3(5), i4, i5, i6, i7, i8, i9>>
    <3> DEFINE s == <<i1, i2, i3(5), i4, i5, i6, i7, i8>>
               x == <<i1, i2, i3(5), i4, i5, i6, i7, i8, i9>>
    <3>1. s \in Seq(I) /\ Len(s) = 8 /\ x \in Seq(I) /\ Len(x) = 8 + 1
      BY <1>1
    <3>2. (\A i \in 1..8 : x[i] = s[i]) /\ x[8 + 1] = i9
      OBVIOUS
    <3> HIDE DEF s, x
    <3>3. s \o <<i9>> = x
      BY <1>1, <3>1, <3>2, JoinOne
    <3> QED
      BY <3>3 DEF s, x
  <2>7. CheckClone(cfg) = <<i1, i2, i3(5), i4, i5, i6, i7, i8, i9>>
    BY <2>4, <2>5, <2>6
  <2>8. CheckClone(cfg) \in Seq(I) /\ Len(CheckClone(cfg)) = 9
    BY <1>1, <2>7
  <2> QED
    BY <1>6, <2>7, <2>8 DEF u, f, I, Program, i1, i2, i3, i4, i5, i6, i7, i8, i9
<1> QED
  BY <1>3, <1>4, <1>5, <1>6

LEMMA CloneRules ==
  ASSUME NEW c \in Syscalls, NEW cfg \in FilterConfigs, NEW p \in Program, NEW m \in Nat,
         Stands(p, m, CheckClone(cfg)), c.nr \in Accumulators(c, p)
  PROVE  Answer(c, p, m, 1, c.nr) =
           IF c.nr = {"clone3"} /\ (~cfg.userns \/ cfg.fork) THEN Ruled("ENOSYS")
           ELSE IF c.nr = {"clone"} /\ ~cfg.userns /\ c.arg0 \intersect {"newuser", "newns"} # {}
           THEN Ruled("EPERM")
           ELSE IF c.nr = {"clone"} /\ cfg.fork /\ "thread" \notin c.arg0
           THEN Ruled(ForkRuling(cfg))
           ELSE Answer(c, p, m, Len(CheckClone(cfg)) + 1, c.nr)
<1> DEFINE A == Accumulators(c, p)
           S(i, a) == Answer(c, p, m, i, a)
           b == CheckClone(cfg)
           u == cfg.userns
           f == cfg.fork
           clone == {"clone"}
           clone3 == {"clone3"}
           new == {"newuser", "newns"}
           thread == {"thread"}
           spaced == c.arg0 \intersect new # {}
           threads == c.arg0 \intersect thread # {}
           fork == ForkRuling(cfg)
           Full == IF c.nr = clone3 /\ (~u \/ f) THEN Ruled("ENOSYS")
                   ELSE IF c.nr = clone /\ ~u /\ spaced THEN Ruled("EPERM")
                   ELSE IF c.nr = clone /\ f /\ ~threads THEN Ruled(fork)
                   ELSE S(Len(b) + 1, c.nr)
<1>1. /\ LoadsOn(c, p, m, b) /\ Compares(c, p, m, b) /\ Tests(c, p, m, b)
      /\ Returns(c, p, m, b)
  BY CloneIs, BlockObeys
<1>2. c.nr \in A
  OBVIOUS
<1>3. threads <=> "thread" \in c.arg0
  OBVIOUS
<1>4. clone # clone3
  OBVIOUS
<1>5. CASE u /\ ~f
  <2>1. Len(b) + 1 = 1
    BY <1>5, CloneIs
  <2>2. S(1, c.nr) = Full
    BY <1>5, <2>1
  <2> QED
    BY <2>2, <1>3
<1>6. CASE ~u /\ ~f
  <2>1. b = <<Jeq(0, 1, clone3), Ret("ENOSYS"), Jeq(0, 3, clone), Ld("arg0"),
              Jset(0, 1, new), Ret("EPERM"), Ld("nr")>>
    BY <1>6, CloneIs, Zenon
  <2> HIDE DEF clone, clone3, new, thread
  <2>2. /\ Comparing(b, 1, clone3, 2, 3) /\ Returning(b, 2, "ENOSYS")
        /\ Comparing(b, 3, clone, 4, 7)
        /\ Loading(b, 4, "arg0", 5) /\ Testing(b, 5, new, 6, 7) /\ Returning(b, 6, "EPERM")
        /\ Loading(b, 7, "nr", 8) /\ Len(b) + 1 = 8
    BY <2>1 DEF Comparing, Returning, Loading, Testing
  <2> HIDE DEF b
  <2>3. /\ c.nr = clone3 => S(1, c.nr) = S(2, c.nr)
        /\ c.nr # clone3 => S(1, c.nr) = S(3, c.nr)
        /\ c.nr = clone => S(3, c.nr) = S(4, c.nr)
        /\ c.nr # clone => S(3, c.nr) = S(7, c.nr)
    BY <1>1, <1>2, <2>2 DEF Compares
  <2>4. c.arg0 \in A /\ S(4, c.nr) = S(5, c.arg0)
    BY <1>1, <1>2, <2>2 DEF LoadsOn
  <2>5. /\ spaced => S(5, c.arg0) = S(6, c.arg0)
        /\ ~spaced => S(5, c.arg0) = S(7, c.arg0)
    BY <1>1, <2>2, <2>4 DEF Tests
  <2>6. S(2, c.nr) = Ruled("ENOSYS") /\ S(6, c.arg0) = Ruled("EPERM")
    BY <1>1, <1>2, <2>2, <2>4 DEF Returns
  <2>7. S(7, c.nr) = S(8, c.nr) /\ S(7, c.arg0) = S(8, c.nr)
    BY <1>1, <1>2, <2>2, <2>4 DEF LoadsOn
  <2> HIDE DEF A, S, spaced, threads
  <2>8. S(1, c.nr) = Full
    BY <1>4, <1>6, <2>2, <2>3, <2>4, <2>5, <2>6, <2>7
  <2> QED
    BY <2>8, <1>3 DEF A, S, spaced, threads, clone, clone3, new, thread, b
<1>7. CASE u /\ f
  <2>1. b = <<Jeq(0, 1, clone3), Ret("ENOSYS"), Jeq(0, 3, clone), Ld("arg0"),
              Jset(1, 0, thread), Ret(fork), Ld("nr")>>
    BY <1>7, CloneIs, Zenon
  <2> HIDE DEF clone, clone3, new, thread, fork
  <2>2. /\ Comparing(b, 1, clone3, 2, 3) /\ Returning(b, 2, "ENOSYS")
        /\ Comparing(b, 3, clone, 4, 7)
        /\ Loading(b, 4, "arg0", 5) /\ Testing(b, 5, thread, 7, 6) /\ Returning(b, 6, fork)
        /\ Loading(b, 7, "nr", 8) /\ Len(b) + 1 = 8
    BY <2>1 DEF Comparing, Returning, Loading, Testing
  <2> HIDE DEF b
  <2>3. /\ c.nr = clone3 => S(1, c.nr) = S(2, c.nr)
        /\ c.nr # clone3 => S(1, c.nr) = S(3, c.nr)
        /\ c.nr = clone => S(3, c.nr) = S(4, c.nr)
        /\ c.nr # clone => S(3, c.nr) = S(7, c.nr)
    BY <1>1, <1>2, <2>2 DEF Compares
  <2>4. c.arg0 \in A /\ S(4, c.nr) = S(5, c.arg0)
    BY <1>1, <1>2, <2>2 DEF LoadsOn
  <2>5. /\ threads => S(5, c.arg0) = S(7, c.arg0)
        /\ ~threads => S(5, c.arg0) = S(6, c.arg0)
    BY <1>1, <2>2, <2>4 DEF Tests
  <2>6. S(2, c.nr) = Ruled("ENOSYS") /\ S(6, c.arg0) = Ruled(fork)
    BY <1>1, <1>2, <2>2, <2>4 DEF Returns
  <2>7. S(7, c.nr) = S(8, c.nr) /\ S(7, c.arg0) = S(8, c.nr)
    BY <1>1, <1>2, <2>2, <2>4 DEF LoadsOn
  <2> HIDE DEF A, S, spaced, threads
  <2>8. S(1, c.nr) = Full
    BY <1>4, <1>7, <2>2, <2>3, <2>4, <2>5, <2>6, <2>7
  <2> QED
    BY <2>8, <1>3 DEF A, S, spaced, threads, clone, clone3, new, thread, b, fork
<1>8. CASE ~u /\ f
  <2>1. b = <<Jeq(0, 1, clone3), Ret("ENOSYS"), Jeq(0, 5, clone), Ld("arg0"),
              Jset(0, 1, new), Ret("EPERM"), Jset(1, 0, thread), Ret(fork), Ld("nr")>>
    BY <1>8, CloneIs, Zenon
  <2> HIDE DEF clone, clone3, new, thread, fork
  <2>2. /\ Comparing(b, 1, clone3, 2, 3) /\ Returning(b, 2, "ENOSYS")
        /\ Comparing(b, 3, clone, 4, 9)
        /\ Loading(b, 4, "arg0", 5) /\ Testing(b, 5, new, 6, 7) /\ Returning(b, 6, "EPERM")
        /\ Testing(b, 7, thread, 9, 8) /\ Returning(b, 8, fork)
        /\ Loading(b, 9, "nr", 10) /\ Len(b) + 1 = 10
    BY <2>1 DEF Comparing, Returning, Loading, Testing
  <2> HIDE DEF b
  <2>3. /\ c.nr = clone3 => S(1, c.nr) = S(2, c.nr)
        /\ c.nr # clone3 => S(1, c.nr) = S(3, c.nr)
        /\ c.nr = clone => S(3, c.nr) = S(4, c.nr)
        /\ c.nr # clone => S(3, c.nr) = S(9, c.nr)
    BY <1>1, <1>2, <2>2 DEF Compares
  <2>4. c.arg0 \in A /\ S(4, c.nr) = S(5, c.arg0)
    BY <1>1, <1>2, <2>2 DEF LoadsOn
  <2>5. /\ spaced => S(5, c.arg0) = S(6, c.arg0)
        /\ ~spaced => S(5, c.arg0) = S(7, c.arg0)
        /\ threads => S(7, c.arg0) = S(9, c.arg0)
        /\ ~threads => S(7, c.arg0) = S(8, c.arg0)
    BY <1>1, <2>2, <2>4 DEF Tests
  <2>6. /\ S(2, c.nr) = Ruled("ENOSYS") /\ S(6, c.arg0) = Ruled("EPERM")
        /\ S(8, c.arg0) = Ruled(fork)
    BY <1>1, <1>2, <2>2, <2>4 DEF Returns
  <2>7. S(9, c.nr) = S(10, c.nr) /\ S(9, c.arg0) = S(10, c.nr)
    BY <1>1, <1>2, <2>2, <2>4 DEF LoadsOn
  <2> HIDE DEF A, S, spaced, threads
  <2>8. S(1, c.nr) = Full
    BY <1>4, <1>8, <2>2, <2>3, <2>4, <2>5, <2>6, <2>7
  <2> QED
    BY <2>8, <1>3 DEF A, S, spaced, threads, clone, clone3, new, thread, b, fork
<1> QED
  BY <1>5, <1>6, <1>7, <1>8

LEMMA StandsParts ==
  ASSUME NEW p \in Program, NEW m \in Nat, NEW x \in Program, NEW y \in Program,
         Stands(p, m, x \o y)
  PROVE  Stands(p, m, x) /\ Stands(p, m + Len(x), y)
<1>1. Len(x) \in Nat /\ Len(y) \in Nat /\ Len(x \o y) = Len(x) + Len(y)
  BY DEF Program
<1>2. m + (Len(x) + Len(y)) <= Len(p)
  BY <1>1 DEF Stands
<1>3. ASSUME NEW j \in 1..Len(x) PROVE p[m + j] = x[j]
  <2>1. j \in 1..Len(x \o y) /\ (x \o y)[j] = x[j]
    BY <1>1 DEF Program
  <2> QED
    BY <2>1 DEF Stands
<1>4. ASSUME NEW j \in 1..Len(y) PROVE p[(m + Len(x)) + j] = y[j]
  <2>1. Len(x) + j \in 1..Len(x \o y) /\ (x \o y)[Len(x) + j] = y[j]
    BY <1>1 DEF Program
  <2>2. p[m + (Len(x) + j)] = y[j]
    BY <2>1 DEF Stands
  <2>3. m + (Len(x) + j) = (m + Len(x)) + j
    BY <1>1
  <2> QED
    BY <2>2, <2>3
<1>5. Len(p) \in Nat
  BY DEF Program
<1>6. m + Len(x) <= Len(p) /\ (m + Len(x)) + Len(y) <= Len(p)
  BY <1>1, <1>2, <1>5
<1> QED
  BY <1>3, <1>4, <1>6 DEF Stands

\* Where a part ends, the next one begins.
LEMMA NextPart ==
  ASSUME NEW c, NEW p, NEW a, NEW m \in Nat, NEW n \in Nat
  PROVE  Answer(c, p, m, n + 1, a) = Answer(c, p, m + n, 1, a)
<1>1. m + (n + 1) = (m + n) + 1
  OBVIOUS
<1> QED
  BY <1>1 DEF Answer

Protect(name) ==
  <<Jeq(0, 3, {name}), Ld("arg2"), Jset(0, 1, {"exec"}), Ret("EPERM"), Ld("nr")>>
ProtectMap ==
  <<Jeq(0, 4, {"mmap"}), Ld("arg2"), Jset(0, 2, {"exec"}), Jset(0, 1, {"write"}), Ret("EPERM"),
    Ld("nr")>>

LEMMA ProtIs ==
  ASSUME NEW cfg
  PROVE  CheckProt(cfg) =
           IF cfg.jit THEN Protect("mprotect") \o Protect("pkey_mprotect") \o ProtectMap ELSE <<>>
BY DEF CheckProt, Protect, ProtectMap

LEMMA ProtectTyped ==
  ASSUME NEW name \in Labels
  PROVE  Protect(name) \in Program /\ Len(Protect(name)) = 5
<1> DEFINE I == Instructions
<1>1. /\ Jeq(0, 3, {name}) \in I /\ Ld("arg2") \in I /\ Jset(0, 1, {"exec"}) \in I
      /\ Ret("EPERM") \in I /\ Ld("nr") \in I
  BY JumpsAre, InstructionsAre, LabelsAre
<1> HIDE DEF I
<1>2. Protect(name) \in Seq(I)
  BY <1>1 DEF Protect
<1> QED
  BY <1>2 DEF I, Protect, Program

LEMMA ProtectMapTyped == ProtectMap \in Program /\ Len(ProtectMap) = 6
<1> DEFINE I == Instructions
<1>1. /\ Jeq(0, 4, {"mmap"}) \in I /\ Ld("arg2") \in I /\ Jset(0, 2, {"exec"}) \in I
      /\ Jset(0, 1, {"write"}) \in I /\ Ret("EPERM") \in I /\ Ld("nr") \in I
  BY JumpsAre, InstructionsAre, LabelsAre
<1> HIDE DEF I
<1>2. ProtectMap \in Seq(I)
  BY <1>1 DEF ProtectMap
<1> QED
  BY <1>2 DEF I, ProtectMap, Program

LEMMA JoinTyped ==
  ASSUME NEW x \in Program, NEW y \in Program
  PROVE  x \o y \in Program /\ Len(x \o y) = Len(x) + Len(y)
BY DEF Program

LEMMA ProtTyped ==
  ASSUME NEW cfg
  PROVE  /\ CheckProt(cfg) \in Program
         /\ cfg.jit => Len(CheckProt(cfg)) = 16
         /\ ~cfg.jit => Len(CheckProt(cfg)) = 0
<1> DEFINE x == Protect("mprotect")
           y == Protect("pkey_mprotect")
           z == ProtectMap
<1>1. x \in Program /\ y \in Program /\ z \in Program /\ Len(x) = 5 /\ Len(y) = 5 /\ Len(z) = 6
  BY ProtectTyped, ProtectMapTyped, LabelsAre
<1>2. CheckProt(cfg) = IF cfg.jit THEN x \o y \o z ELSE <<>>
  BY ProtIs
<1> HIDE DEF x, y, z
<1> DEFINE xy == x \o y
           xyz == xy \o z
<1>3. xy \in Program /\ xyz \in Program /\ Len(xy) = Len(x) + Len(y) /\ Len(xyz) = Len(xy) + Len(z)
  BY <1>1, JoinTyped
<1> HIDE DEF xyz
<1>4. xyz \in Program /\ Len(xyz) = 16
  <2> HIDE DEF xy
  <2> QED
    BY <1>1, <1>3
<1>5. <<>> \in Program /\ Len(<<>>) = 0
  BY DEF Program
<1> QED
  BY <1>2, <1>4, <1>5 DEF xyz

LEMMA ProtectRules ==
  ASSUME NEW c \in Syscalls, NEW p \in Program, NEW m \in Nat, NEW name \in Labels,
         Stands(p, m, Protect(name)), c.nr \in Accumulators(c, p)
  PROVE  Answer(c, p, m, 1, c.nr) = IF c.nr = {name} /\ "exec" \in c.arg2
                                    THEN Ruled("EPERM") ELSE Answer(c, p, m, 6, c.nr)
<1> DEFINE A == Accumulators(c, p)
           S(i, a) == Answer(c, p, m, i, a)
           b == Protect(name)
           call == {name}
           exec == {"exec"}
           executable == c.arg2 \intersect exec # {}
<1>1. /\ LoadsOn(c, p, m, b) /\ Compares(c, p, m, b) /\ Tests(c, p, m, b) /\ Returns(c, p, m, b)
  BY ProtectTyped, BlockObeys
<1>2. c.nr \in A /\ (executable <=> "exec" \in c.arg2)
  OBVIOUS
<1>3. /\ Comparing(b, 1, call, 2, 5) /\ Loading(b, 2, "arg2", 3) /\ Testing(b, 3, exec, 4, 5)
      /\ Returning(b, 4, "EPERM") /\ Loading(b, 5, "nr", 6)
  BY DEF Protect, Comparing, Loading, Testing, Returning
<1> HIDE DEF b, call, exec
<1>4. /\ c.nr = call => S(1, c.nr) = S(2, c.nr)
      /\ c.nr # call => S(1, c.nr) = S(5, c.nr)
  BY <1>1, <1>2, <1>3 DEF Compares
<1>5. c.arg2 \in A /\ S(2, c.nr) = S(3, c.arg2)
  BY <1>1, <1>2, <1>3 DEF LoadsOn
<1>6. /\ executable => S(3, c.arg2) = S(4, c.arg2)
      /\ ~executable => S(3, c.arg2) = S(5, c.arg2)
  BY <1>1, <1>3, <1>5 DEF Tests
<1>7. S(4, c.arg2) = Ruled("EPERM")
  BY <1>1, <1>3, <1>5 DEF Returns
<1>8. S(5, c.nr) = S(6, c.nr) /\ S(5, c.arg2) = S(6, c.nr)
  BY <1>1, <1>2, <1>3, <1>5 DEF LoadsOn
<1> HIDE DEF A, S, executable
<1>9. S(1, c.nr) = IF c.nr = call /\ "exec" \in c.arg2 THEN Ruled("EPERM") ELSE S(6, c.nr)
  BY <1>2, <1>4, <1>5, <1>6, <1>7, <1>8
<1> QED
  BY <1>9 DEF S, call

LEMMA MapRules ==
  ASSUME NEW c \in Syscalls, NEW p \in Program, NEW m \in Nat,
         Stands(p, m, ProtectMap), c.nr \in Accumulators(c, p)
  PROVE  Answer(c, p, m, 1, c.nr) =
           IF c.nr = {"mmap"} /\ "exec" \in c.arg2 /\ "write" \in c.arg2
           THEN Ruled("EPERM") ELSE Answer(c, p, m, 7, c.nr)
<1> DEFINE A == Accumulators(c, p)
           S(i, a) == Answer(c, p, m, i, a)
           b == ProtectMap
           call == {"mmap"}
           exec == {"exec"}
           write == {"write"}
           executable == c.arg2 \intersect exec # {}
           writable == c.arg2 \intersect write # {}
<1>1. /\ LoadsOn(c, p, m, b) /\ Compares(c, p, m, b) /\ Tests(c, p, m, b) /\ Returns(c, p, m, b)
  BY ProtectMapTyped, BlockObeys
<1>2. c.nr \in A /\ (executable <=> "exec" \in c.arg2) /\ (writable <=> "write" \in c.arg2)
  OBVIOUS
<1>3. /\ Comparing(b, 1, call, 2, 6) /\ Loading(b, 2, "arg2", 3) /\ Testing(b, 3, exec, 4, 6)
      /\ Testing(b, 4, write, 5, 6) /\ Returning(b, 5, "EPERM") /\ Loading(b, 6, "nr", 7)
  BY DEF ProtectMap, Comparing, Loading, Testing, Returning
<1> HIDE DEF b, call, exec, write
<1>4. /\ c.nr = call => S(1, c.nr) = S(2, c.nr)
      /\ c.nr # call => S(1, c.nr) = S(6, c.nr)
  BY <1>1, <1>2, <1>3 DEF Compares
<1>5. c.arg2 \in A /\ S(2, c.nr) = S(3, c.arg2)
  BY <1>1, <1>2, <1>3 DEF LoadsOn
<1>6. /\ executable => S(3, c.arg2) = S(4, c.arg2)
      /\ ~executable => S(3, c.arg2) = S(6, c.arg2)
      /\ writable => S(4, c.arg2) = S(5, c.arg2)
      /\ ~writable => S(4, c.arg2) = S(6, c.arg2)
  BY <1>1, <1>3, <1>5 DEF Tests
<1>7. S(5, c.arg2) = Ruled("EPERM")
  BY <1>1, <1>3, <1>5 DEF Returns
<1>8. S(6, c.nr) = S(7, c.nr) /\ S(6, c.arg2) = S(7, c.nr)
  BY <1>1, <1>2, <1>3, <1>5 DEF LoadsOn
<1> HIDE DEF A, S, executable, writable
<1>9. S(1, c.nr) = IF c.nr = call /\ "exec" \in c.arg2 /\ "write" \in c.arg2
                   THEN Ruled("EPERM") ELSE S(7, c.nr)
  BY <1>2, <1>4, <1>5, <1>6, <1>7, <1>8
<1> QED
  BY <1>9 DEF S, call

LEMMA ProtRules ==
  ASSUME NEW c \in Syscalls, NEW cfg, NEW p \in Program, NEW m \in Nat,
         Stands(p, m, CheckProt(cfg)), c.nr \in Accumulators(c, p)
  PROVE  Answer(c, p, m, 1, c.nr) =
           IF /\ cfg.jit /\ "exec" \in c.arg2
              /\ \/ c.nr \in {{"mprotect"}, {"pkey_mprotect"}}
                 \/ (c.nr = {"mmap"} /\ "write" \in c.arg2)
           THEN Ruled("EPERM") ELSE Answer(c, p, m, Len(CheckProt(cfg)) + 1, c.nr)
<1> DEFINE x == Protect("mprotect")
           y == Protect("pkey_mprotect")
           z == ProtectMap
           S(n, i) == Answer(c, p, m + n, i, c.nr)
           one == {"mprotect"}
           two == {"pkey_mprotect"}
           three == {"mmap"}
           exec == "exec" \in c.arg2
           write == "write" \in c.arg2
<1>1. CASE ~cfg.jit
  <2>1. Len(CheckProt(cfg)) + 1 = 1
    BY <1>1, ProtTyped
  <2> QED
    BY <1>1, <2>1
<1>2. CASE cfg.jit
  <2>1. CheckProt(cfg) = (x \o y) \o z
    BY <1>2, ProtIs
  <2>2. x \in Program /\ y \in Program /\ z \in Program /\ Len(x) = 5 /\ Len(y) = 5
    BY ProtectTyped, ProtectMapTyped, LabelsAre
  <2> DEFINE xy == x \o y
  <2>3. xy \in Program /\ Len(xy) = Len(x) + Len(y)
    BY <2>2, JoinTyped
  <2>4. Len(xy) = 10
    <3> HIDE DEF xy, x, y
    <3> QED
      BY <2>2, <2>3
  <2>5. Stands(p, m, x \o y) /\ Stands(p, m + 10, z)
    <3>1. Stands(p, m, xy \o z)
      BY <2>1
    <3> HIDE DEF xy, z
    <3>2. Stands(p, m, xy) /\ Stands(p, m + Len(xy), z)
      BY <2>2, <2>3, <3>1, StandsParts
    <3> QED
      BY <3>2, <2>4 DEF xy
  <2>6. Stands(p, m, x) /\ Stands(p, m + 5, y)
    <3> HIDE DEF x, y
    <3>1. Stands(p, m, x) /\ Stands(p, m + Len(x), y)
      BY <2>2, <2>5, StandsParts
    <3> QED
      BY <3>1, <2>2
  <2>7. Answer(c, p, m, 1, c.nr) = IF c.nr = one /\ exec THEN Ruled("EPERM")
                                   ELSE Answer(c, p, m, 6, c.nr)
    BY <2>6, ProtectRules, LabelsAre
  <2>8. S(5, 1) = IF c.nr = two /\ exec THEN Ruled("EPERM") ELSE S(5, 6)
    BY <2>6, ProtectRules, LabelsAre
  <2>9. S(10, 1) = IF c.nr = three /\ exec /\ write THEN Ruled("EPERM") ELSE S(10, 7)
    BY <2>5, MapRules
  <2>10. /\ Answer(c, p, m, 6, c.nr) = S(5, 1) /\ S(5, 6) = S(10, 1)
         /\ S(10, 7) = Answer(c, p, m, 17, c.nr)
    <3>1. /\ m + 6 = (m + 5) + 1 /\ (m + 5) + 6 = (m + 10) + 1 /\ (m + 10) + 7 = m + 17
      OBVIOUS
    <3> QED
      BY <3>1 DEF Answer
  <2>11. Len(CheckProt(cfg)) + 1 = 17
    <3>1. Len(CheckProt(cfg)) = 16
      BY <1>2, ProtTyped, Zenon
    <3> QED
      BY <3>1
  <2> HIDE DEF S, one, two, three, exec, write
  <2>12. Answer(c, p, m, 1, c.nr) =
           IF exec /\ ((c.nr = one \/ c.nr = two) \/ (c.nr = three /\ write))
           THEN Ruled("EPERM") ELSE Answer(c, p, m, 17, c.nr)
    BY <2>7, <2>8, <2>9, <2>10
  <2> QED
    BY <1>2, <2>11, <2>12 DEF one, two, three, exec, write
<1> QED
  BY <1>1, <1>2
-----------------------------------------------------------------------------
(***************************************************************************)
(* The comparisons with the numbers denied.                                *)
(***************************************************************************)
Flat(f, s, n) ==
  f[1] = s[1] /\ \A i \in 2..n : f[i] = f[i - 1] \o s[i]

LEMMA FlattenIs ==
  ASSUME NEW T, NEW s \in Seq(Seq(T)), Len(s) # 0
  PROVE  \E f \in [1..Len(s) -> Seq(T)] : Flat(f, s, Len(s)) /\ FlattenSeq(s) = f[Len(s)]
<1> DEFINE W(f, n) == [i \in 1..n |-> IF i = 1 THEN s[i] ELSE f[i - 1] \o s[i]]
<1>0. FlattenSeq(s) = (CHOOSE f : f = W(f, Len(s)))[Len(s)]
  BY DEF FlattenSeq
<1>1. PICK n \in Nat : n = Len(s) /\ n >= 1 /\ \A i \in 1..n : s[i] \in Seq(T)
  OBVIOUS
<1> DEFINE step == [p \in (1..n) \X Seq(T) |-> p[2] \o s[p[1]]]
           w == CHOOSE f : f = W(f, n)
<1>2. step \in [(1..n) \X Seq(T) -> Seq(T)]
  <2> SUFFICES ASSUME NEW i \in 1..n, NEW a \in Seq(T) PROVE a \o s[i] \in Seq(T)
    OBVIOUS
  <2>1. s[i] \in Seq(T)
    BY <1>1
  <2> QED
    BY <2>1
<1>3. <<>> \in Seq(T)
  OBVIOUS
<1>4. \A i \in 1..n, a \in Seq(T) : step[<<i, a>>] = a \o s[i]
  OBVIOUS
<1> HIDE DEF step
<1>5. PICK f \in [0..n -> Seq(T)] : Follows(f, <<>>, step, n)
  <2>1. ASSUME NEW A, NEW base \in A, step \in [(1..n) \X A -> A]
        PROVE  \E f \in [0..n -> A] : Follows(f, base, step, n)
    BY <2>1, RecursionExists
  <2> QED
    BY <1>2, <1>3, <2>1
<1> DEFINE g == [i \in 1..n |-> f[i]]
<1>6. g = W(g, n)
  <2>1. ASSUME NEW i \in 1..n PROVE f[i] = IF i = 1 THEN s[i] ELSE g[i - 1] \o s[i]
    <3>1. i - 1 \in 0..n /\ f[i - 1] \in Seq(T) /\ s[i] \in Seq(T)
      <4>1. i - 1 \in 0..n
        BY <1>1
      <4>2. s[i] \in Seq(T)
        BY <1>1
      <4>3. f[i - 1] \in Seq(T)
        BY <1>5, <4>1
      <4> QED
        BY <4>1, <4>2, <4>3
    <3>2. f[i] = f[i - 1] \o s[i]
      <4>1. f[i] = step[<<i, f[i - 1]>>]
        BY <1>5 DEF Follows
      <4> QED
        BY <1>4, <3>1, <4>1
    <3>3. CASE i = 1
      <4>1. f[0] = <<>> /\ i - 1 = 0
        BY <1>5, <3>3 DEF Follows
      <4>2. f[i] = <<>> \o s[i]
        BY <3>2, <3>3, <4>1
      <4>3. <<>> \o s[i] = s[i]
        BY <3>1
      <4> QED
        BY <3>3, <4>2, <4>3
    <3>4. CASE i # 1
      <4>1. i - 1 \in 1..n
        BY <3>4
      <4> QED
        BY <3>2, <3>4, <4>1
    <3> QED
      BY <3>3, <3>4
  <2> QED
    BY <2>1
<1>7. w = W(w, n)
  <2> HIDE DEF W, g
  <2> QED
    BY <1>6
<1>8. FlattenSeq(s) = w[n]
  BY <1>0, <1>1
<1> HIDE DEF w
<1>9. \A i \in 1..n : w[i] = IF i = 1 THEN s[i] ELSE w[i - 1] \o s[i]
  <2>1. \A i \in 1..n : W(w, n)[i] = IF i = 1 THEN s[i] ELSE w[i - 1] \o s[i]
    OBVIOUS
  <2> HIDE DEF W
  <2> QED
    BY <1>7, <2>1
<1>10. DOMAIN w = 1..n /\ w = [i \in 1..n |-> w[i]]
  <2>1. \E h : w = [i \in 1..n |-> h[i]]
    <3> DEFINE h == W(w, n)
    <3>1. h = [i \in 1..n |-> h[i]]
      OBVIOUS
    <3> HIDE DEF W
    <3> QED
      BY <1>7, <3>1
  <2> QED
    BY <2>1
<1>11. Flat(w, s, n)
  <2>1. 1 \in 1..n /\ \A i \in 2..n : i \in 1..n /\ i # 1
    BY <1>1
  <2>2. w[1] = s[1]
    BY <1>9, <2>1
  <2>3. \A i \in 2..n : w[i] = w[i - 1] \o s[i]
    BY <1>9, <2>1
  <2> QED
    BY <2>2, <2>3 DEF Flat
<1>12. \A i \in 1..n : w[i] \in Seq(T)
  <2> DEFINE Q == {i \in Nat : i + 1 <= n => w[i + 1] \in Seq(T)}
  <2>1. 0 \in Q
    BY <1>1, <1>9
  <2>2. ASSUME NEW i \in Nat, i \in Q PROVE i + 1 \in Q
    <3> SUFFICES ASSUME (i + 1) + 1 <= n PROVE w[(i + 1) + 1] \in Seq(T)
      OBVIOUS
    <3>1. (i + 1) + 1 \in 1..n /\ (i + 1) + 1 # 1 /\ ((i + 1) + 1) - 1 = i + 1 /\ i + 1 <= n
      OBVIOUS
    <3>2. w[i + 1] \in Seq(T) /\ s[(i + 1) + 1] \in Seq(T)
      BY <1>1, <2>2, <3>1
    <3>3. w[(i + 1) + 1] = w[i + 1] \o s[(i + 1) + 1]
      BY <1>9, <3>1
    <3> QED
      BY <3>2, <3>3
  <2> HIDE DEF Q
  <2>3. Nat \subseteq Q
    BY <2>1, <2>2, NumberInduction
  <2>4. ASSUME NEW i \in 1..n PROVE w[i] \in Seq(T)
    <3>1. i - 1 \in Nat /\ (i - 1) + 1 = i /\ i <= n
      OBVIOUS
    <3> QED
      BY <2>3, <3>1 DEF Q
  <2> QED
    BY <2>4
<1> QED
  BY <1>1, <1>8, <1>10, <1>11, <1>12

Paired(s, x, y, n) == Len(s) = n /\ \A i \in 1..n : s[i] = <<x[i], y>>
Spread(b, x, y, n) ==
  Len(b) = 2 * n /\ \A i \in 1..n : b[2 * i - 1] = x[i] /\ b[2 * i] = y

LEMMA PairsFlatten ==
  ASSUME NEW T, NEW n \in Nat, NEW x \in [1..n -> T], NEW y \in T,
         NEW s \in Seq(Seq(T)), Paired(s, x, y, n)
  PROVE  FlattenSeq(s) \in Seq(T) /\ Spread(FlattenSeq(s), x, y, n)
<1>0. Len(s) = n /\ \A i \in 1..n : s[i] = <<x[i], y>>
  BY DEF Paired
<1>1. s \in Seq(Seq(T)) /\ Len(s) = n
  BY <1>0
<1>2. CASE n = 0
  <2>1. FlattenSeq(s) = s
    BY <1>1, <1>2 DEF FlattenSeq
  <2>2. s \in Seq(T)
    BY <1>1, <1>2
  <2>3. Len(FlattenSeq(s)) = 2 * n
    BY <1>1, <1>2, <2>1
  <2>4. 1..n = {}
    BY <1>2
  <2> QED
    BY <2>1, <2>2, <2>3, <2>4 DEF Spread
<1>3. CASE n # 0
  <2>1. PICK f \in [1..n -> Seq(T)] : Flat(f, s, n) /\ FlattenSeq(s) = f[n]
    <3>1. \E f \in [1..Len(s) -> Seq(T)] : Flat(f, s, Len(s)) /\ FlattenSeq(s) = f[Len(s)]
      BY <1>1, <1>3, FlattenIs
    <3> QED
      BY <1>1, <3>1
  <2> DEFINE Holds(k, v) == Spread(v, x, y, k)
             Q == {k \in Nat : k + 1 <= n => Holds(k + 1, f[k + 1])}
  <2>2. \A i \in 1..n : s[i] = <<x[i], y>>
    BY <1>0
  <2>3. 0 \in Q
    <3>1. f[1] = <<x[1], y>>
      BY <1>3, <2>1, <2>2 DEF Flat
    <3>2. Holds(1, <<x[1], y>>)
      BY DEF Spread
    <3>3. 0 + 1 = 1
      OBVIOUS
    <3> HIDE DEF Holds
    <3> QED
      BY <3>1, <3>2, <3>3
  <2>4. ASSUME NEW k \in Nat, k \in Q PROVE k + 1 \in Q
    <3> SUFFICES ASSUME (k + 1) + 1 <= n PROVE Holds((k + 1) + 1, f[(k + 1) + 1])
      OBVIOUS
    <3>1. PICK j \in Nat : j = k + 1
      OBVIOUS
    <3>2. j \in 1..n /\ j + 1 \in 2..n /\ (j + 1) - 1 = j /\ j + 1 \in 1..n
      BY <3>1
    <3>3. Holds(j, f[j])
      BY <2>4, <3>1, <3>2
    <3>4. PICK u \in Seq(T) : u = f[j]
      BY <2>1, <3>2
    <3>5. f[j + 1] = u \o <<x[j + 1], y>>
      BY <2>1, <2>2, <3>2, <3>4 DEF Flat
    <3>6. x[j + 1] \in T
      BY <3>2
    <3>7. Len(u) = 2 * j /\ \A i \in 1..j : u[2 * i - 1] = x[i] /\ u[2 * i] = y
      BY <3>3, <3>4 DEF Spread
    <3>8. Holds(j + 1, u \o <<x[j + 1], y>>)
      <4> DEFINE v == u \o <<x[j + 1], y>>
      <4>1. Len(v) = 2 * (j + 1)
        <5>1. Len(v) = Len(u) + 2
          BY <3>6
        <5> HIDE DEF v
        <5> QED
          BY <3>7, <5>1
      <4>2. ASSUME NEW i \in 1..j PROVE v[2 * i - 1] = x[i] /\ v[2 * i] = y
        <5>1. 2 * i - 1 \in 1..Len(u) /\ 2 * i \in 1..Len(u)
          BY <3>7
        <5>2. v[2 * i - 1] = u[2 * i - 1] /\ v[2 * i] = u[2 * i]
          BY <3>6, <5>1
        <5> QED
          BY <3>7, <5>2
      <4>3. v[2 * (j + 1) - 1] = x[j + 1] /\ v[2 * (j + 1)] = y
        <5>1. v[Len(u) + 1] = x[j + 1] /\ v[Len(u) + 2] = y
          BY <3>6
        <5>2. 2 * (j + 1) - 1 = Len(u) + 1 /\ 2 * (j + 1) = Len(u) + 2
          BY <3>7
        <5> QED
          BY <5>1, <5>2
      <4>4. \A i \in 1..(j + 1) : i \in 1..j \/ i = j + 1
        OBVIOUS
      <4> HIDE DEF v
      <4>5. \A i \in 1..(j + 1) : v[2 * i - 1] = x[i] /\ v[2 * i] = y
        BY <4>2, <4>3, <4>4
      <4>6. Holds(j + 1, v)
        BY <4>1, <4>5 DEF Spread
      <4> QED
        BY <4>6 DEF v
    <3> QED
      BY <3>1, <3>5, <3>8
  <2> HIDE DEF Q, Holds
  <2>5. Nat \subseteq Q
    BY <2>3, <2>4, NumberInduction
  <2>6. n - 1 \in Nat /\ (n - 1) + 1 = n
    BY <1>3
  <2>7. n - 1 \in Q
    BY <2>5, <2>6
  <2>8. Holds((n - 1) + 1, f[(n - 1) + 1])
    BY <2>6, <2>7 DEF Q
  <2>9. Holds(n, f[n]) /\ f[n] \in Seq(T)
    BY <1>3, <2>6, <2>8
  <2> QED
    BY <2>1, <2>9 DEF Holds, Spread
<1> QED
  BY <1>2, <1>3

Names(cfg) == SetToSeq(Denied(cfg))
Denials(cfg) ==
  FlattenSeq([i \in 1..Len(Names(cfg)) |-> <<Jeq(0, 1, {Names(cfg)[i]}), Ret("EPERM")>>])

LEMMA SetListed ==
  ASSUME NEW S, IsFiniteSet(S)
  PROVE  /\ SetToSeq(S) \in Seq(S)
         /\ \A x \in S : \E i \in 1..Len(SetToSeq(S)) : SetToSeq(S)[i] = x
<1> DEFINE n == Cardinality(S)
           s == SetToSeq(S)
<1>1. n \in Nat /\ ExistsBijection(1..n, S)
  BY FS_CardinalityType
<1>2. PICK f : f \in Bijection(1..n, S)
  BY <1>1 DEF ExistsBijection
<1>3. f \in [1..n -> S] /\ IsInjective(f)
  BY <1>2 DEF Bijection, Injection
<1>4. s \in [1..n -> S] /\ IsInjective(s)
  BY <1>3 DEF SetToSeq
<1> HIDE DEF s
<1>5. s \in Injection(1..n, S)
  BY <1>4 DEF Injection
<1>6. IsFiniteSet(1..n) /\ Cardinality(1..n) = n
  BY <1>1, FS_Interval
<1>7. s \in Surjection(1..n, S)
  BY <1>5, <1>6, FS_Injection
<1>8. \A x \in S : \E i \in 1..n : s[i] = x
  BY <1>7 DEF Surjection
<1>9. s \in Seq(S) /\ Len(s) = n
  BY <1>1, <1>4
<1> QED
  BY <1>8, <1>9 DEF s

LEMMA DeniedFinite ==
  ASSUME NEW cfg \in FilterConfigs
  PROVE  IsFiniteSet(Denied(cfg)) /\ Denied(cfg) \subseteq Labels
<1> DEFINE most == BlockList \union {"fork", "vfork", "memfd_create", "execveat", "execve"}
<1>1. IsFiniteSet({"fork", "vfork", "memfd_create", "execveat", "execve"})
  <2>1. IsFiniteSet({}) /\ \A S, x : IsFiniteSet(S) => IsFiniteSet(S \union {x})
    BY FS_EmptySet, FS_AddElement
  <2>2. IsFiniteSet({} \union {"fork"} \union {"vfork"} \union {"memfd_create"}
                      \union {"execveat"} \union {"execve"})
    BY <2>1
  <2>3. {"fork", "vfork", "memfd_create", "execveat", "execve"}
          = {} \union {"fork"} \union {"vfork"} \union {"memfd_create"} \union {"execveat"}
               \union {"execve"}
    OBVIOUS
  <2> QED
    BY <2>2, <2>3
<1>2. IsFiniteSet(most)
  BY <1>1, FilterAssumption, FS_Union
<1>3. Denied(cfg) \subseteq most
  BY DEF Denied, Numbers
<1>4. most \subseteq Labels
  BY LabelsAre
<1> HIDE DEF most
<1> QED
  BY <1>2, <1>3, <1>4, FS_Subset

LEMMA DenialsAre ==
  ASSUME NEW cfg \in FilterConfigs
  PROVE  /\ Names(cfg) \in Seq(Labels)
         /\ \A name : name \in Denied(cfg) <=> \E i \in 1..Len(Names(cfg)) : Names(cfg)[i] = name
         /\ Denials(cfg) \in Program /\ Len(Denials(cfg)) = 2 * Len(Names(cfg))
         /\ \A i \in 1..Len(Names(cfg)) :
              /\ Denials(cfg)[2 * i - 1] = Jeq(0, 1, {Names(cfg)[i]})
              /\ Denials(cfg)[2 * i] = Ret("EPERM")
<1> DEFINE l == Names(cfg)
           n == Len(l)
           x == [i \in 1..n |-> Jeq(0, 1, {l[i]})]
           y == Ret("EPERM")
           s == [i \in 1..n |-> <<Jeq(0, 1, {l[i]}), y>>]
<1>1. /\ l \in Seq(Denied(cfg))
      /\ \A name \in Denied(cfg) : \E i \in 1..n : l[i] = name
  BY DeniedFinite, SetListed DEF Names
<1>2. n \in Nat /\ \A i \in 1..n : l[i] \in Denied(cfg)
  BY <1>1
<1>3. \A i \in 1..n : l[i] \in Labels
  BY <1>2, DeniedFinite
<1>4. \A i \in 1..n : Jeq(0, 1, {l[i]}) \in Instructions
  BY <1>3, JumpsAre
<1>5. y \in Instructions
  BY InstructionsAre, LabelsAre
<1>6. l \in Seq(Labels)
  BY <1>1, DeniedFinite
<1>7. Denials(cfg) = FlattenSeq(s)
  BY DEF Denials
<1> HIDE DEF l, n, y
<1>8. /\ x \in [1..n -> Instructions] /\ s \in Seq(Seq(Instructions)) /\ Len(s) = n
      /\ Paired(s, x, y, n)
  <2>1. x \in [1..n -> Instructions]
    BY <1>4
  <2>2. \A i \in 1..n : <<Jeq(0, 1, {l[i]}), y>> \in Seq(Instructions)
    BY <1>4, <1>5
  <2>3. s \in [1..n -> Seq(Instructions)]
    BY <2>2
  <2>4. s \in Seq(Seq(Instructions)) /\ Len(s) = n
    BY <1>2, <2>3
  <2>5. \A i \in 1..n : s[i] = <<x[i], y>>
    OBVIOUS
  <2> QED
    BY <2>1, <2>4, <2>5 DEF Paired
<1>9. \A i \in 1..n : x[i] = Jeq(0, 1, {l[i]})
  OBVIOUS
<1> HIDE DEF x, s
<1>10. FlattenSeq(s) \in Seq(Instructions) /\ Spread(FlattenSeq(s), x, y, n)
  BY <1>2, <1>5, <1>8, PairsFlatten
<1> QED
  BY <1>1, <1>2, <1>6, <1>7, <1>9, <1>10 DEF l, n, y, Program, Spread

LEMMA DenialRules ==
  ASSUME NEW c \in Syscalls, NEW cfg \in FilterConfigs, NEW p \in Program, NEW m \in Nat,
         Stands(p, m, Denials(cfg)), c.nr \in Accumulators(c, p)
  PROVE  Answer(c, p, m, 1, c.nr) =
           IF \E name \in Denied(cfg) : c.nr = {name}
           THEN Ruled("EPERM") ELSE Answer(c, p, m, Len(Denials(cfg)) + 1, c.nr)
<1> DEFINE A == Accumulators(c, p)
           S(i, a) == Answer(c, p, m, i, a)
           b == Denials(cfg)
           l == Names(cfg)
           n == Len(l)
           Q == {k \in Nat : k <= n =>
                   S(1, c.nr) = IF \E i \in 1..k : c.nr = {l[i]}
                                THEN Ruled("EPERM") ELSE S(2 * k + 1, c.nr)}
<1>1. Compares(c, p, m, b) /\ Returns(c, p, m, b)
  BY DenialsAre, BlockObeys
<1>2. n \in Nat /\ Len(b) = 2 * n
  BY DenialsAre
<1>3. 0 \in Q
  <2>1. 1..0 = {} /\ 2 * 0 + 1 = 1
    OBVIOUS
  <2> QED
    BY <2>1
<1>4. ASSUME NEW k \in Nat, k \in Q PROVE k + 1 \in Q
  <2> SUFFICES ASSUME k + 1 <= n
               PROVE  S(1, c.nr) = IF \E i \in 1..(k + 1) : c.nr = {l[i]}
                                   THEN Ruled("EPERM") ELSE S(2 * (k + 1) + 1, c.nr)
    OBVIOUS
  <2>1. k <= n /\ k + 1 \in 1..n /\ \A i \in 1..(k + 1) : i \in 1..k \/ i = k + 1
    BY <1>2
  <2>2. S(1, c.nr) = IF \E i \in 1..k : c.nr = {l[i]}
                     THEN Ruled("EPERM") ELSE S(2 * k + 1, c.nr)
    BY <1>4, <2>1
  <2> DEFINE word == {l[k + 1]}
  <2>3. /\ Comparing(b, 2 * k + 1, word, 2 * k + 2, 2 * k + 3)
        /\ Returning(b, 2 * k + 2, "EPERM")
    <3>1. b[2 * (k + 1) - 1] = Jeq(0, 1, word) /\ b[2 * (k + 1)] = Ret("EPERM")
      BY <2>1, DenialsAre
    <3>2. 2 * (k + 1) - 1 = 2 * k + 1 /\ 2 * (k + 1) = 2 * k + 2
      OBVIOUS
    <3>3. b[2 * k + 1] = Jeq(0, 1, word) /\ b[2 * k + 2] = Ret("EPERM")
      BY <3>1, <3>2
    <3> HIDE DEF b, l, n, word
    <3>4. 2 * k + 1 \in 1..Len(b) /\ 2 * k + 2 \in 1..Len(b)
      BY <1>2, <2>1
    <3>5. (2 * k + 2) - ((2 * k + 1) + 1) = 0 /\ (2 * k + 3) - ((2 * k + 1) + 1) = 1
      OBVIOUS
    <3> QED
      BY <3>3, <3>4, <3>5 DEF Comparing, Returning
  <2> HIDE DEF b, word
  <2>4. /\ c.nr = word => S(2 * k + 1, c.nr) = S(2 * k + 2, c.nr)
        /\ c.nr # word => S(2 * k + 1, c.nr) = S(2 * k + 3, c.nr)
    BY <1>1, <2>3 DEF Compares
  <2>5. S(2 * k + 2, c.nr) = Ruled("EPERM")
    BY <1>1, <2>3 DEF Returns
  <2>6. 2 * (k + 1) + 1 = 2 * k + 3 /\ 1..k \subseteq 1..(k + 1) /\ k + 1 \in 1..(k + 1)
    OBVIOUS
  <2>7. (\E i \in 1..(k + 1) : c.nr = {l[i]}) <=> ((\E i \in 1..k : c.nr = {l[i]}) \/ c.nr = word)
    BY <2>1, <2>6 DEF word
  <2> HIDE DEF A, S, l, n
  <2> QED
    BY <2>2, <2>4, <2>5, <2>6, <2>7
<1> HIDE DEF Q
<1>5. n \in Q
  BY <1>2, <1>3, <1>4, NumberInduction
<1>6. S(1, c.nr) = IF \E i \in 1..n : c.nr = {l[i]}
                   THEN Ruled("EPERM") ELSE S(2 * n + 1, c.nr)
  BY <1>2, <1>5 DEF Q
<1>7. (\E i \in 1..n : c.nr = {l[i]}) <=> (\E name \in Denied(cfg) : c.nr = {name})
  <2>1. \A name : name \in Denied(cfg) <=> \E i \in 1..n : l[i] = name
    BY DenialsAre
  <2> HIDE DEF l, n
  <2>2. (\E i \in 1..n : c.nr = {l[i]}) => (\E name \in Denied(cfg) : c.nr = {name})
    BY <2>1
  <2>3. (\E name \in Denied(cfg) : c.nr = {name}) => (\E i \in 1..n : c.nr = {l[i]})
    BY <2>1
  <2> QED
    BY <2>2, <2>3
<1> QED
  BY <1>2, <1>6, <1>7
-----------------------------------------------------------------------------
(***************************************************************************)
(* The sandbox's own program.                                              *)
(***************************************************************************)
LEMMA Peel ==
  ASSUME NEW p \in Program, NEW x \in Program, NEW y \in Program, Stands(p, 0, x \o y)
  PROVE  /\ Len(x) \in Nat /\ x \o y \in Program /\ Len(x \o y) = Len(x) + Len(y)
         /\ Stands(p, 0, x) /\ Stands(p, Len(x), y)
<1>1. x \o y \in Program /\ Len(x \o y) = Len(x) + Len(y)
  BY JoinTyped
<1>2. Len(x) \in Nat /\ 0 + Len(x) = Len(x) /\ 0 \in Nat
  BY DEF Program
<1>3. Stands(p, 0, x) /\ Stands(p, 0 + Len(x), y)
  BY <1>2, StandsParts
<1> QED
  BY <1>1, <1>2, <1>3

LEMMA NothingLoaded == \A c, p : {} \in Accumulators(c, p)
BY DEF Accumulators

\* What the program rules on call c, its parts in their order.
Foreign(cfg, c) == c.arch # {cfg.arch} \/ (cfg.arch = "amd64" /\ "x32" \in c.nr)
NoClone3(cfg, c) == c.nr = {"clone3"} /\ (~cfg.userns \/ cfg.fork)
NewSpace(cfg, c) ==
  c.nr = {"clone"} /\ ~cfg.userns /\ c.arg0 \intersect {"newuser", "newns"} # {}
Forks(cfg, c) == c.nr = {"clone"} /\ cfg.fork /\ "thread" \notin c.arg0
Bare(c) == c.nr = {"socket"} /\ (c.arg0 \in {{"unix"}, {"netlink"}} \/ "raw" \in c.arg1)
Writes(cfg, c) ==
  /\ cfg.jit /\ "exec" \in c.arg2
  /\ \/ c.nr \in {{"mprotect"}, {"pkey_mprotect"}}
     \/ (c.nr = {"mmap"} /\ "write" \in c.arg2)
Listed(cfg, c) == \E name \in Denied(cfg) : c.nr = {name}

SandboxRuling(cfg, c) ==
  IF Foreign(cfg, c) THEN "kill_process"
  ELSE IF NoClone3(cfg, c) THEN "ENOSYS"
  ELSE IF NewSpace(cfg, c) THEN "EPERM"
  ELSE IF Forks(cfg, c) THEN ForkRuling(cfg)
  ELSE IF Bare(c) THEN "EACCES"
  ELSE IF Writes(cfg, c) THEN "EPERM"
  ELSE IF Listed(cfg, c) THEN "EPERM"
  ELSE "allow"

LEMMA BuildStands ==
  ASSUME NEW cfg \in FilterConfigs, NEW p, p = BuildSeccompProgram(cfg)
  PROVE  /\ p \in Program
         /\ \E k, s, t, d, r \in Nat :
              /\ Stands(p, 0, CheckArch(cfg))
              /\ k = Len(CheckArch(cfg)) /\ Stands(p, k, CheckClone(cfg))
              /\ s = k + Len(CheckClone(cfg)) /\ Stands(p, s, CheckSocket)
              /\ t = s + Len(CheckSocket) /\ Stands(p, t, CheckProt(cfg))
              /\ d = t + Len(CheckProt(cfg)) /\ Stands(p, d, Denials(cfg))
              /\ r = d + Len(Denials(cfg)) /\ Stands(p, r, <<Ret("allow")>>)
<1> DEFINE b1 == CheckArch(cfg)
           b2 == CheckClone(cfg)
           b3 == CheckSocket
           b4 == CheckProt(cfg)
           b5 == Denials(cfg)
           b6 == <<Ret("allow")>>
           q2 == b1 \o b2
           q3 == q2 \o b3
           q4 == q3 \o b4
           q5 == q4 \o b5
<1>1. p = q5 \o b6
  BY DEF BuildSeccompProgram, Denials, Names
<1>2. /\ b1 \in Program /\ b2 \in Program /\ b3 \in Program /\ b4 \in Program /\ b5 \in Program
      /\ b6 \in Program
  <2>1. b6 \in Program
    BY InstructionsAre, LabelsAre DEF Program
  <2> QED
    BY <2>1, ArchTyped, CloneIs, SocketTyped, ProtTyped, DenialsAre
<1> HIDE DEF b1, b2, b3, b4, b5, b6
<1>3. q2 \in Program
  BY <1>2, JoinTyped
<1> HIDE DEF q2
<1>4. q3 \in Program
  BY <1>2, <1>3, JoinTyped
<1> HIDE DEF q3
<1>5. q4 \in Program
  BY <1>2, <1>4, JoinTyped
<1> HIDE DEF q4
<1>6. q5 \in Program
  BY <1>2, <1>5, JoinTyped
<1> HIDE DEF q5
<1>7. p \in Program
  BY <1>1, <1>2, <1>6, JoinTyped
<1>8. Stands(p, 0, q5 \o b6)
  BY <1>1, <1>7 DEF Stands, Program
<1>9. Len(q5) \in Nat /\ Stands(p, 0, q5) /\ Stands(p, Len(q5), b6)
  BY <1>2, <1>6, <1>7, <1>8, Peel
<1>10. Len(q4) \in Nat /\ Len(q5) = Len(q4) + Len(b5) /\ Stands(p, 0, q4) /\ Stands(p, Len(q4), b5)
  BY <1>2, <1>5, <1>7, <1>9, Peel DEF q5
<1>11. Len(q3) \in Nat /\ Len(q4) = Len(q3) + Len(b4) /\ Stands(p, 0, q3) /\ Stands(p, Len(q3), b4)
  BY <1>2, <1>4, <1>7, <1>10, Peel DEF q4
<1>12. Len(q2) \in Nat /\ Len(q3) = Len(q2) + Len(b3) /\ Stands(p, 0, q2) /\ Stands(p, Len(q2), b3)
  BY <1>2, <1>3, <1>7, <1>11, Peel DEF q3
<1>13. Len(b1) \in Nat /\ Len(q2) = Len(b1) + Len(b2) /\ Stands(p, 0, b1) /\ Stands(p, Len(b1), b2)
  BY <1>2, <1>7, <1>12, Peel DEF q2
<1>14. \E k, s, t, d, r \in Nat :
         /\ Stands(p, 0, b1)
         /\ k = Len(b1) /\ Stands(p, k, b2)
         /\ s = k + Len(b2) /\ Stands(p, s, b3)
         /\ t = s + Len(b3) /\ Stands(p, t, b4)
         /\ d = t + Len(b4) /\ Stands(p, d, b5)
         /\ r = d + Len(b5) /\ Stands(p, r, b6)
  <2> WITNESS Len(b1) \in Nat, Len(q2) \in Nat, Len(q3) \in Nat, Len(q4) \in Nat, Len(q5) \in Nat
  <2> QED
    BY <1>9, <1>10, <1>11, <1>12, <1>13
<1> QED
  BY <1>7, <1>14 DEF b1, b2, b3, b4, b5, b6

LEMMA AllowRules ==
  ASSUME NEW c, NEW p \in Program, NEW m \in Nat, Stands(p, m, <<Ret("allow")>>),
         NEW a \in Accumulators(c, p)
  PROVE  Answer(c, p, m, 1, a) = Ruled("allow")
<1> DEFINE b == <<Ret("allow")>>
<1>1. b \in Program
  BY InstructionsAre, LabelsAre DEF Program
<1>2. Returns(c, p, m, b)
  BY <1>1, BlockObeys
<1>3. Returning(b, 1, "allow")
  BY DEF Returning
<1> QED
  BY <1>2, <1>3 DEF Returns

LEMMA BuildRules ==
  ASSUME NEW c \in Syscalls, NEW cfg \in FilterConfigs
  PROVE  Says(c, BuildSeccompProgram(cfg), 1, {}) = Ruled(SandboxRuling(cfg, c))
<1> DEFINE p == BuildSeccompProgram(cfg)
           b1 == CheckArch(cfg)
           b2 == CheckClone(cfg)
           b4 == CheckProt(cfg)
           b5 == Denials(cfg)
           S(m) == Answer(c, p, m, 1, c.nr)
           n3 == Len(CheckSocket)
           foreign == Foreign(cfg, c)
           no3 == NoClone3(cfg, c)
           new == NewSpace(cfg, c)
           forks == Forks(cfg, c)
           bare == Bare(c)
           writes == Writes(cfg, c)
           listed == Listed(cfg, c)
<1>1. p \in Program
  BY BuildStands
<1>2. PICK k, s, t, d, r \in Nat :
         /\ Stands(p, 0, b1)
         /\ k = Len(b1) /\ Stands(p, k, b2)
         /\ s = k + Len(b2) /\ Stands(p, s, CheckSocket)
         /\ t = s + n3 /\ Stands(p, t, b4)
         /\ d = t + Len(b4) /\ Stands(p, d, b5)
         /\ r = d + Len(b5) /\ Stands(p, r, <<Ret("allow")>>)
  BY BuildStands
<1>3. /\ Len(b1) \in Nat /\ Len(b2) \in Nat /\ n3 \in Nat /\ Len(b4) \in Nat /\ Len(b5) \in Nat
  <2>1. /\ b1 \in Program /\ b2 \in Program /\ CheckSocket \in Program
        /\ b4 \in Program /\ b5 \in Program
    BY ArchTyped, CloneIs, SocketTyped, ProtTyped, DenialsAre
  <2> QED
    BY <2>1 DEF Program
<1>4. {} \in Accumulators(c, p) /\ 0 \in Nat
  BY NothingLoaded
<1> HIDE DEF p
<1>5. /\ c.nr \in Accumulators(c, p)
      /\ Answer(c, p, 0, 1, {}) = IF foreign THEN Ruled("kill_process")
                                  ELSE Answer(c, p, 0, Len(b1) + 1, c.nr)
  BY <1>1, <1>2, <1>4, ArchRules DEF Foreign
<1>6. Answer(c, p, 0, Len(b1) + 1, c.nr) = S(k)
  BY <1>2, <1>3 DEF Answer
<1>7. S(k) = IF no3 THEN Ruled("ENOSYS") ELSE IF new THEN Ruled("EPERM")
             ELSE IF forks THEN Ruled(ForkRuling(cfg))
             ELSE Answer(c, p, k, Len(b2) + 1, c.nr)
  BY <1>1, <1>2, <1>5, CloneRules DEF NoClone3, NewSpace, Forks
<1>8. Answer(c, p, k, Len(b2) + 1, c.nr) = S(s)
  BY <1>2, <1>3, NextPart
<1>9. S(s) = IF bare THEN Ruled("EACCES") ELSE Answer(c, p, s, 10, c.nr)
  BY <1>1, <1>2, <1>5, SocketRules DEF Bare
<1>10. Answer(c, p, s, 10, c.nr) = S(t)
  <2>1. n3 + 1 = 10
    BY SocketTyped
  <2>2. Answer(c, p, s, n3 + 1, c.nr) = S(t)
    BY <1>2, <1>3, NextPart
  <2> QED
    BY <2>1, <2>2
<1>11. S(t) = IF writes THEN Ruled("EPERM") ELSE Answer(c, p, t, Len(b4) + 1, c.nr)
  BY <1>1, <1>2, <1>5, ProtRules DEF Writes
<1>12. Answer(c, p, t, Len(b4) + 1, c.nr) = S(d)
  BY <1>2, <1>3, NextPart
<1>13. S(d) = IF listed THEN Ruled("EPERM") ELSE Answer(c, p, d, Len(b5) + 1, c.nr)
  BY <1>1, <1>2, <1>5, DenialRules DEF Listed
<1>14. Answer(c, p, d, Len(b5) + 1, c.nr) = S(r)
  BY <1>2, <1>3, NextPart
<1>15. S(r) = Ruled("allow")
  BY <1>1, <1>2, <1>5, AllowRules
<1>16. Says(c, p, 1, {}) = Answer(c, p, 0, 1, {})
  BY DEF Answer
<1>17. SandboxRuling(cfg, c) =
         IF foreign THEN "kill_process" ELSE IF no3 THEN "ENOSYS" ELSE IF new THEN "EPERM"
         ELSE IF forks THEN ForkRuling(cfg) ELSE IF bare THEN "EACCES" ELSE IF writes THEN "EPERM"
         ELSE IF listed THEN "EPERM" ELSE "allow"
  BY DEF SandboxRuling
<1> HIDE DEF S, b1, b2, b4, b5, n3, foreign, no3, new, forks, bare, writes, listed
<1>18. Says(c, p, 1, {}) = Ruled(SandboxRuling(cfg, c))
  BY <1>5, <1>6, <1>7, <1>8, <1>9, <1>10, <1>11, <1>12, <1>13, <1>14, <1>15, <1>16, <1>17
<1> QED
  BY <1>18 DEF p
-----------------------------------------------------------------------------
(***************************************************************************)
(* The program of the watch.                                               *)
(***************************************************************************)
Reported(c) ==
  \/ c.nr = {"connect"} \/ (c.nr = {"sendto"} /\ (c.lo4 # {} \/ c.hi4 # {}))
  \/ (/\ c.nr = {"socket"} /\ c.arg0 \in {{"inet"}, {"inet6"}}
      /\ "dgram" \in c.arg1 /\ "raw" \notin c.arg1)

LEMMA NotifyTyped ==
  ASSUME NEW arch \in Labels
  PROVE  EgressNotifyProgram(arch) \in Program /\ Len(EgressNotifyProgram(arch)) = 20
<1> DEFINE I == Instructions
<1>1. /\ Ld("arch") \in I /\ Jeq(1, 0, {arch}) \in I /\ Ret("allow") \in I /\ Ld("nr") \in I
      /\ Jeq(0, 7, {"socket"}) \in I /\ Ld("arg0") \in I /\ Jeq(1, 0, {"inet"}) \in I
      /\ Jeq(0, 3, {"inet6"}) \in I
  BY JumpsAre, InstructionsAre, LabelsAre
<1>2. /\ Ld("arg1") \in I /\ And({"raw", "dgram", "stream"}) \in I /\ Jeq(8, 0, {"dgram"}) \in I
      /\ Jeq(6, 0, {"connect"}) \in I /\ Jeq(0, 4, {"sendto"}) \in I /\ Ld("lo4") \in I
  BY JumpsAre, InstructionsAre, LabelsAre
<1>3. /\ Jeq(0, 3, {}) \in I /\ Ld("hi4") \in I /\ Jeq(0, 1, {}) \in I /\ Ret("notify") \in I
  BY JumpsAre, InstructionsAre, LabelsAre
<1> HIDE DEF I
<1>4. EgressNotifyProgram(arch) \in Seq(I)
  BY <1>1, <1>2, <1>3 DEF EgressNotifyProgram
<1> QED
  BY <1>4 DEF I, EgressNotifyProgram, Program

LEMMA NotifyRules ==
  ASSUME NEW c \in Syscalls, NEW arch \in Labels, NEW p, p = EgressNotifyProgram(arch)
  PROVE  Says(c, p, 1, {}) = IF c.arch = {arch} /\ Reported(c) THEN Ruled("notify")
                             ELSE Ruled("allow")
<1> DEFINE A == Accumulators(c, p)
           S(i, a) == Answer(c, p, 0, i, a)
           type == c.arg1 \intersect {"raw", "dgram", "stream"}
           native == {arch}
           socket == {"socket"}
           inet == {"inet"}
           inet6 == {"inet6"}
           dgram == {"dgram"}
           connect == {"connect"}
           sendto == {"sendto"}
           types == {"raw", "dgram", "stream"}
<1>1. p \in Program /\ 0 \in Nat
  BY NotifyTyped
<1>2. Stands(p, 0, p)
  BY <1>1 DEF Stands, Program
<1>3. /\ LoadsOn(c, p, 0, p) /\ MasksOn(c, p, 0, p) /\ Compares(c, p, 0, p)
      /\ Returns(c, p, 0, p)
  BY <1>1, <1>2, BlockObeys
<1>4. /\ Loading(p, 1, "arch", 2) /\ Loading(p, 4, "nr", 5) /\ Loading(p, 6, "arg0", 7)
      /\ Loading(p, 9, "arg1", 10) /\ Loading(p, 15, "lo4", 16) /\ Loading(p, 17, "hi4", 18)
  BY DEF EgressNotifyProgram, Loading
<1>5. Masking(p, 10, types, 11)
  BY DEF EgressNotifyProgram, Masking
<1>6. /\ Returning(p, 3, "allow") /\ Returning(p, 12, "allow") /\ Returning(p, 19, "allow")
      /\ Returning(p, 20, "notify")
  BY DEF EgressNotifyProgram, Returning
<1>7. /\ Comparing(p, 2, native, 4, 3) /\ Comparing(p, 5, socket, 6, 13)
      /\ Comparing(p, 7, inet, 9, 8) /\ Comparing(p, 8, inet6, 9, 12)
      /\ Comparing(p, 11, dgram, 20, 12)
  BY DEF EgressNotifyProgram, Comparing
<1>8. /\ Comparing(p, 13, connect, 20, 14) /\ Comparing(p, 14, sendto, 15, 19)
      /\ Comparing(p, 16, {}, 17, 20) /\ Comparing(p, 18, {}, 19, 20)
  BY DEF EgressNotifyProgram, Comparing
<1>9. type = dgram <=> "dgram" \in c.arg1 /\ "raw" \notin c.arg1
  BY FilterAssumption
<1>10. type = c.arg1 \intersect types
  OBVIOUS
<1>11. socket # connect /\ socket # sendto
  OBVIOUS
<1>12. {} \in A
  BY NothingLoaded
<1>13. Says(c, p, 1, {}) = S(1, {})
  BY DEF Answer
<1>14. Reported(c) <=> \/ c.nr = connect \/ (c.nr = sendto /\ (c.lo4 # {} \/ c.hi4 # {}))
                       \/ (c.nr = socket /\ (c.arg0 = inet \/ c.arg0 = inet6) /\ type = dgram)
  BY <1>9 DEF Reported
<1> HIDE DEF type, native, socket, inet, inet6, dgram, connect, sendto, types
<1>15. c.arch \in A /\ S(1, {}) = S(2, c.arch)
  BY <1>3, <1>4, <1>12 DEF LoadsOn
<1>16. /\ c.arch = native => S(2, c.arch) = S(4, c.arch)
       /\ c.arch # native => S(2, c.arch) = S(3, c.arch)
  BY <1>3, <1>7, <1>15 DEF Compares
<1>17. S(3, c.arch) = Ruled("allow")
  BY <1>3, <1>6, <1>15 DEF Returns
<1>18. c.nr \in A /\ S(4, c.arch) = S(5, c.nr)
  BY <1>3, <1>4, <1>15 DEF LoadsOn
<1>19. /\ c.nr = socket => S(5, c.nr) = S(6, c.nr)
       /\ c.nr # socket => S(5, c.nr) = S(13, c.nr)
       /\ c.nr = connect => S(13, c.nr) = S(20, c.nr)
       /\ c.nr # connect => S(13, c.nr) = S(14, c.nr)
       /\ c.nr = sendto => S(14, c.nr) = S(15, c.nr)
       /\ c.nr # sendto => S(14, c.nr) = S(19, c.nr)
  BY <1>3, <1>7, <1>8, <1>18 DEF Compares
<1>20. c.arg0 \in A /\ S(6, c.nr) = S(7, c.arg0)
  BY <1>3, <1>4, <1>18 DEF LoadsOn
<1>21. /\ c.arg0 = inet => S(7, c.arg0) = S(9, c.arg0)
       /\ c.arg0 # inet => S(7, c.arg0) = S(8, c.arg0)
       /\ c.arg0 = inet6 => S(8, c.arg0) = S(9, c.arg0)
       /\ c.arg0 # inet6 => S(8, c.arg0) = S(12, c.arg0)
  BY <1>3, <1>7, <1>20 DEF Compares
<1>22. c.arg1 \in A /\ S(9, c.arg0) = S(10, c.arg1)
  BY <1>3, <1>4, <1>20 DEF LoadsOn
<1>23. type \in A /\ S(10, c.arg1) = S(11, type)
  <2>1. /\ c.arg1 \intersect types \in A
        /\ S(10, c.arg1) = S(11, c.arg1 \intersect types)
    <3>1. MasksOn(c, p, 0, p)
      BY <1>3
    <3>2. \A a \in A : a \intersect types \in A /\ S(10, a) = S(11, a \intersect types)
      BY <3>1, <1>5 DEF MasksOn
    <3> QED
      BY <3>2, <1>22
  <2> QED
    BY <2>1, <1>10
<1>24. /\ type = dgram => S(11, type) = S(20, type)
       /\ type # dgram => S(11, type) = S(12, type)
  BY <1>3, <1>7, <1>23 DEF Compares
<1>25. c.lo4 \in A /\ S(15, c.nr) = S(16, c.lo4)
  BY <1>3, <1>4, <1>18 DEF LoadsOn
<1>26. /\ c.lo4 = {} => S(16, c.lo4) = S(17, c.lo4)
       /\ c.lo4 # {} => S(16, c.lo4) = S(20, c.lo4)
  BY <1>3, <1>8, <1>25 DEF Compares
<1>27. c.hi4 \in A /\ S(17, c.lo4) = S(18, c.hi4)
  BY <1>3, <1>4, <1>25 DEF LoadsOn
<1>28. /\ c.hi4 = {} => S(18, c.hi4) = S(19, c.hi4)
       /\ c.hi4 # {} => S(18, c.hi4) = S(20, c.hi4)
  BY <1>3, <1>8, <1>27 DEF Compares
<1>29. \A a \in A : /\ S(12, a) = Ruled("allow") /\ S(19, a) = Ruled("allow")
                    /\ S(20, a) = Ruled("notify")
  BY <1>3, <1>6 DEF Returns
<1> HIDE DEF A, S
<1>30. ASSUME c.arch = native PROVE S(1, {}) = S(5, c.nr)
  BY <1>15, <1>16, <1>18, <1>30
<1>31. CASE c.arch # native
  BY <1>13, <1>15, <1>16, <1>17, <1>31 DEF native
<1>32. CASE c.arch = native /\ c.nr = socket
  <2>1. S(1, {}) = S(7, c.arg0)
    BY <1>19, <1>20, <1>30, <1>32
  <2>2. CASE (c.arg0 = inet \/ c.arg0 = inet6) /\ type = dgram
    <3>1. S(1, {}) = S(20, type)
      BY <1>21, <1>22, <1>23, <1>24, <2>1, <2>2
    <3> QED
      BY <1>13, <1>14, <1>23, <1>29, <1>32, <2>2, <3>1 DEF native
  <2>3. CASE ~((c.arg0 = inet \/ c.arg0 = inet6) /\ type = dgram)
    <3>1. S(1, {}) = S(12, c.arg0) \/ S(1, {}) = S(12, type)
      BY <1>21, <1>22, <1>23, <1>24, <2>1, <2>3
    <3>2. ~Reported(c)
      BY <1>11, <1>14, <1>32, <2>3
    <3> QED
      BY <1>13, <1>20, <1>23, <1>29, <3>1, <3>2
  <2> QED
    BY <2>2, <2>3
<1>33. CASE c.arch = native /\ c.nr # socket
  <2>1. S(1, {}) = S(13, c.nr)
    BY <1>19, <1>30, <1>33
  <2>2. CASE c.nr = connect
    BY <1>13, <1>14, <1>18, <1>19, <1>29, <1>33, <2>1, <2>2 DEF native
  <2>3. CASE c.nr = sendto /\ c.nr # connect
    <3>1. S(1, {}) = S(16, c.lo4)
      BY <1>19, <1>25, <2>1, <2>3
    <3>2. CASE c.lo4 # {}
      BY <1>13, <1>14, <1>25, <1>26, <1>29, <1>33, <2>3, <3>1, <3>2 DEF native
    <3>3. CASE c.lo4 = {} /\ c.hi4 # {}
      BY <1>13, <1>14, <1>26, <1>27, <1>28, <1>29, <1>33, <2>3, <3>1, <3>3 DEF native
    <3>4. CASE c.lo4 = {} /\ c.hi4 = {}
      <4>1. ~Reported(c)
        BY <1>14, <1>33, <2>3, <3>4
      <4> QED
        BY <1>13, <1>26, <1>27, <1>28, <1>29, <3>1, <3>4, <4>1
    <3> QED
      BY <3>2, <3>3, <3>4
  <2>4. CASE c.nr # sendto /\ c.nr # connect
    <3>1. ~Reported(c)
      BY <1>14, <1>33, <2>4
    <3> QED
      BY <1>13, <1>18, <1>19, <1>29, <2>1, <2>4, <3>1
  <2> QED
    BY <2>2, <2>3, <2>4
<1> QED
  BY <1>31, <1>32, <1>33
-----------------------------------------------------------------------------
(***************************************************************************)
(* No jump of a block goes further than right behind the block.            *)
(***************************************************************************)
Fits(b) ==
  \A i \in 1..Len(b) : b[i].op \in {"jeq", "jset"} =>
    i + b[i].jt <= Len(b) /\ i + b[i].jf <= Len(b)

LEMMA FitsJoin ==
  ASSUME NEW x \in Program, NEW y \in Program, Fits(x), Fits(y)
  PROVE  Fits(x \o y)
<1> DEFINE z == x \o y
           m == Len(x)
           n == Len(y)
<1>1. z \in Program /\ m \in Nat /\ n \in Nat /\ Len(z) = m + n
  BY DEF Program
<1>2. ASSUME NEW i \in 1..Len(z), z[i].op \in {"jeq", "jset"}
      PROVE  i + z[i].jt <= Len(z) /\ i + z[i].jf <= Len(z)
  <2>1. CASE i \in 1..m
    <3>1. z[i] = x[i] /\ x[i] \in Instructions
      BY <1>1, <2>1 DEF Program
    <3>2. PICK g \in Instructions : g = x[i]
      BY <3>1
    <3>3. i + g.jt <= m /\ i + g.jf <= m
      BY <1>2, <2>1, <3>1, <3>2 DEF Fits
    <3>4. g.jt \in Nat /\ g.jf \in Nat
      BY DEF Instructions
    <3>5. i + g.jt <= m + n /\ i + g.jf <= m + n
      BY <1>1, <3>3, <3>4
    <3> QED
      BY <1>1, <3>1, <3>2, <3>5
  <2>2. CASE i \notin 1..m
    <3>1. PICK j \in 1..n : i = m + j
      <4>1. i - m \in 1..n /\ i = m + (i - m)
        BY <1>1, <2>2
      <4> QED
        BY <4>1
    <3>2. z[i] = y[j] /\ y[j] \in Instructions
      BY <1>1, <3>1 DEF Program
    <3>3. PICK g \in Instructions : g = y[j]
      BY <3>2
    <3>4. j + g.jt <= n /\ j + g.jf <= n
      BY <1>2, <3>2, <3>3 DEF Fits
    <3>5. g.jt \in Nat /\ g.jf \in Nat
      BY DEF Instructions
    <3>6. i + g.jt <= m + n /\ i + g.jf <= m + n
      BY <1>1, <3>1, <3>4, <3>5
    <3> QED
      BY <1>1, <3>2, <3>3, <3>6
  <2> QED
    BY <2>1, <2>2
<1> QED
  BY <1>2 DEF Fits

LEMMA FitsLoads ==
  ASSUME NEW x \in Program, NEW v \in Labels, Fits(x)
  PROVE  Loads(x \o <<Ret(v)>>)
<1> DEFINE z == x \o <<Ret(v)>>
           m == Len(x)
<1>1. Ret(v) \in Instructions /\ Ret(v).op = "ret"
  BY InstructionsAre DEF Ret
<1>2. z \in Program /\ m \in Nat /\ Len(z) = m + 1 /\ z[m + 1] = Ret(v)
  BY <1>1 DEF Program
<1>3. z # <<>> /\ Last(z).op = "ret"
  BY <1>1, <1>2 DEF Last
<1>4. ASSUME NEW i \in 1..Len(z), z[i].op \in {"jeq", "jset"}
      PROVE  i + 1 + z[i].jt <= Len(z) /\ i + 1 + z[i].jf <= Len(z)
  <2>1. i # m + 1
    BY <1>1, <1>2, <1>4
  <2>2. i \in 1..m /\ z[i] = x[i]
    BY <1>1, <1>2, <2>1 DEF Program
  <2>3. PICK g \in Instructions : g = x[i]
    BY <2>2 DEF Program
  <2>4. i + g.jt <= m /\ i + g.jf <= m
    BY <1>4, <2>2, <2>3 DEF Fits
  <2>5. g.jt \in Nat /\ g.jf \in Nat
    BY DEF Instructions
  <2>6. i + 1 + g.jt <= m + 1 /\ i + 1 + g.jf <= m + 1
    BY <1>2, <2>2, <2>4, <2>5
  <2> QED
    BY <1>2, <2>2, <2>3, <2>6
<1> QED
  BY <1>3, <1>4 DEF Loads

LEMMA ArchFits == ASSUME NEW cfg \in FilterConfigs PROVE Fits(CheckArch(cfg))
<1>1. CASE cfg.arch = "amd64"
  <2>1. CheckArch(cfg) =
          <<Ld("arch"), Jeq(1, 0, {cfg.arch}), Ret("kill_process"), Ld("nr"),
            Jset(0, 1, {"x32"}), Ret("kill_process")>>
    BY <1>1, ArchIs, Zenon
  <2> QED
    BY <2>1 DEF Fits, Ld, Jeq, Jset, Ret
<1>2. CASE cfg.arch # "amd64"
  <2>1. CheckArch(cfg) = <<Ld("arch"), Jeq(1, 0, {cfg.arch}), Ret("kill_process"), Ld("nr")>>
    BY <1>2, ArchIs, Zenon
  <2> QED
    BY <2>1 DEF Fits, Ld, Jeq, Jset, Ret
<1> QED
  BY <1>1, <1>2

LEMMA CloneFits == ASSUME NEW cfg \in FilterConfigs PROVE Fits(CheckClone(cfg))
<1>1. CASE cfg.userns /\ ~cfg.fork
  <2>1. CheckClone(cfg) = <<>>
    BY <1>1, CloneIs, Zenon
  <2> QED
    BY <2>1 DEF Fits
<1>2. CASE ~cfg.userns /\ ~cfg.fork
  <2>1. CheckClone(cfg) =
          <<Jeq(0, 1, {"clone3"}), Ret("ENOSYS"), Jeq(0, 3, {"clone"}), Ld("arg0"),
            Jset(0, 1, {"newuser", "newns"}), Ret("EPERM"), Ld("nr")>>
    BY <1>2, CloneIs, Zenon
  <2> QED
    BY <2>1 DEF Fits, Ld, Jeq, Jset, Ret
<1>3. CASE cfg.userns /\ cfg.fork
  <2>1. CheckClone(cfg) =
          <<Jeq(0, 1, {"clone3"}), Ret("ENOSYS"), Jeq(0, 3, {"clone"}), Ld("arg0"),
            Jset(1, 0, {"thread"}), Ret(ForkRuling(cfg)), Ld("nr")>>
    BY <1>3, CloneIs, Zenon
  <2> QED
    BY <2>1 DEF Fits, Ld, Jeq, Jset, Ret
<1>4. CASE ~cfg.userns /\ cfg.fork
  <2>1. CheckClone(cfg) =
          <<Jeq(0, 1, {"clone3"}), Ret("ENOSYS"), Jeq(0, 5, {"clone"}), Ld("arg0"),
            Jset(0, 1, {"newuser", "newns"}), Ret("EPERM"),
            Jset(1, 0, {"thread"}), Ret(ForkRuling(cfg)), Ld("nr")>>
    BY <1>4, CloneIs, Zenon
  <2> QED
    BY <2>1 DEF Fits, Ld, Jeq, Jset, Ret
<1> QED
  BY <1>1, <1>2, <1>3, <1>4

LEMMA SocketFits == Fits(CheckSocket)
BY DEF Fits, CheckSocket, Ld, And, Jeq, Ret

LEMMA ProtFits == ASSUME NEW cfg PROVE Fits(CheckProt(cfg))
<1> DEFINE x == Protect("mprotect")
           y == Protect("pkey_mprotect")
           z == ProtectMap
<1>1. x \in Program /\ y \in Program /\ z \in Program
  BY ProtectTyped, ProtectMapTyped, LabelsAre
<1>2. Fits(x) /\ Fits(y) /\ Fits(z)
  <2>1. \A name : Fits(Protect(name))
    BY DEF Fits, Protect, Ld, Jeq, Jset, Ret
  <2>2. Fits(ProtectMap)
    BY DEF Fits, ProtectMap, Ld, Jeq, Jset, Ret
  <2> QED
    BY <2>1, <2>2
<1>3. CheckProt(cfg) = IF cfg.jit THEN x \o y \o z ELSE <<>>
  BY ProtIs
<1> HIDE DEF x, y, z
<1> DEFINE xy == x \o y
<1>4. xy \in Program /\ Fits(xy)
  BY <1>1, <1>2, JoinTyped, FitsJoin
<1>5. CheckProt(cfg) = IF cfg.jit THEN xy \o z ELSE <<>>
  BY <1>3
<1> HIDE DEF xy
<1>6. Fits(xy \o z)
  BY <1>1, <1>2, <1>4, FitsJoin
<1>7. Fits(<<>>)
  BY DEF Fits
<1> QED
  BY <1>5, <1>6, <1>7

LEMMA DenialsFit == ASSUME NEW cfg \in FilterConfigs PROVE Fits(Denials(cfg))
<1> DEFINE b == Denials(cfg)
           l == Names(cfg)
           n == Len(l)
<1>1. n \in Nat /\ Len(b) = 2 * n
  BY DenialsAre
<1>2. ASSUME NEW i \in 1..n
      PROVE  /\ b[2 * i - 1].jt = 0 /\ b[2 * i - 1].jf = 1
             /\ b[2 * i].op = "ret"
  <2>1. b[2 * i - 1] = Jeq(0, 1, {l[i]}) /\ b[2 * i] = Ret("EPERM")
    BY DenialsAre
  <2> HIDE DEF b
  <2> QED
    BY <2>1 DEF Jeq, Ret
<1> HIDE DEF b, n
<1>3. ASSUME NEW j \in 1..Len(b), b[j].op \in {"jeq", "jset"}
      PROVE  j + b[j].jt <= Len(b) /\ j + b[j].jf <= Len(b)
  <2>1. PICK i \in 1..n : j = 2 * i - 1 \/ j = 2 * i
    <3>1. CASE j % 2 = 0
      <4>1. j \div 2 \in 1..n /\ j = 2 * (j \div 2)
        BY <1>1, <3>1
      <4> QED
        BY <4>1
    <3>2. CASE j % 2 # 0
      <4>1. (j + 1) \div 2 \in 1..n /\ j = 2 * ((j + 1) \div 2) - 1
        BY <1>1, <3>2
      <4> QED
        BY <4>1
    <3> QED
      BY <3>1, <3>2
  <2>2. j = 2 * i - 1
    BY <1>2, <1>3, <2>1
  <2>3. b[j].jt = 0 /\ b[j].jf = 1
    BY <1>2, <2>2
  <2>4. j + 0 <= Len(b) /\ j + 1 <= Len(b)
    BY <1>1, <2>2
  <2> QED
    BY <2>3, <2>4
<1> QED
  BY <1>3 DEF Fits, b

LEMMA BuildLoads ==
  ASSUME NEW cfg \in FilterConfigs
  PROVE  Loads(BuildSeccompProgram(cfg))
<1> DEFINE b1 == CheckArch(cfg)
           b2 == CheckClone(cfg)
           b3 == CheckSocket
           b4 == CheckProt(cfg)
           b5 == Denials(cfg)
           q2 == b1 \o b2
           q3 == q2 \o b3
           q4 == q3 \o b4
           q5 == q4 \o b5
<1>1. BuildSeccompProgram(cfg) = q5 \o <<Ret("allow")>>
  BY DEF BuildSeccompProgram, Denials, Names
<1>2. /\ b1 \in Program /\ b2 \in Program /\ b3 \in Program /\ b4 \in Program /\ b5 \in Program
  BY ArchTyped, CloneIs, SocketTyped, ProtTyped, DenialsAre
<1>3. Fits(b1) /\ Fits(b2) /\ Fits(b3) /\ Fits(b4) /\ Fits(b5)
  BY ArchFits, CloneFits, SocketFits, ProtFits, DenialsFit
<1> HIDE DEF b1, b2, b3, b4, b5
<1>4. q2 \in Program /\ Fits(q2)
  BY <1>2, <1>3, JoinTyped, FitsJoin
<1> HIDE DEF q2
<1>5. q3 \in Program /\ Fits(q3)
  BY <1>2, <1>3, <1>4, JoinTyped, FitsJoin
<1> HIDE DEF q3
<1>6. q4 \in Program /\ Fits(q4)
  BY <1>2, <1>3, <1>5, JoinTyped, FitsJoin
<1> HIDE DEF q4
<1>7. q5 \in Program /\ Fits(q5)
  BY <1>2, <1>3, <1>6, JoinTyped, FitsJoin
<1> HIDE DEF q5
<1>8. Loads(q5 \o <<Ret("allow")>>)
  BY <1>7, LabelsAre, FitsLoads
<1> QED
  BY <1>1, <1>8

LEMMA NotifyLoads == \A arch : Loads(EgressNotifyProgram(arch))
<1> SUFFICES ASSUME NEW arch PROVE Loads(EgressNotifyProgram(arch))
  OBVIOUS
<1> DEFINE p == EgressNotifyProgram(arch)
<1>1. p # <<>> /\ Len(p) = 20 /\ Last(p).op = "ret"
  BY DEF EgressNotifyProgram, Last, Ret
<1>2. \A i \in 1..20 : p[i].op \in {"jeq", "jset"} =>
        i + 1 + p[i].jt <= 20 /\ i + 1 + p[i].jf <= 20
  BY DEF EgressNotifyProgram, Ld, And, Jeq, Ret
<1> QED
  BY <1>1, <1>2 DEF Loads
-----------------------------------------------------------------------------
(***************************************************************************)
(* The stack, where no policy is asked for: the watch, then the sandbox's  *)
(* own program, each in the middle of saying what it says from the start.  *)
(***************************************************************************)
LEMMA NoneAccepted ==
  ASSUME NEW s, s = <<>>
  PROVE  Accepted([i \in 1..Len(s) |-> CompileKafelPolicy(Reverse(s)[i])]) = <<>>
<1> DEFINE programs == [i \in 1..Len(s) |-> CompileKafelPolicy(Reverse(s)[i])]
           W(f) == [i \in 0..0 |-> IF i = 0 THEN <<>>
                                   ELSE IF Loads(programs[i]) THEN Append(f[i - 1], programs[i])
                                   ELSE f[i - 1]]
           w == CHOOSE f : f = W(f)
<1>1. Len(s) = 0
  OBVIOUS
<1>2. Len(programs) = 0
  <2>1. programs = [i \in {} |-> CompileKafelPolicy(Reverse(s)[i])]
    BY <1>1
  <2> QED
    BY <1>1
<1>3. Accepted(programs) = w[0]
  BY <1>2 DEF Accepted
<1>4. \A f, i : i \in 0..0 => W(f)[i] = <<>>
  OBVIOUS
<1>5. [i \in 0..0 |-> <<>>] = W([i \in 0..0 |-> <<>>])
  OBVIOUS
<1> HIDE DEF W
<1>6. w = W(w)
  BY <1>5
<1>7. w[0] = W(w)[0]
  BY <1>6
<1> HIDE DEF w, programs
<1>8. w[0] = <<>>
  BY <1>4, <1>7
<1> QED
  BY <1>3, <1>8 DEF programs

Watch == EgressNotifyProgram(asked.arch)
Sandbox == BuildSeccompProgram(asked)
WatchRuling(cfg, c) == IF c.arch = {cfg.arch} /\ Reported(c) THEN "notify" ELSE "allow"

\* The interpreter stands in p and comes to what p says of the call.
Running(p) ==
  /\ ip \in 1..Len(p) /\ acc \in Accumulators(syscall, p)
  /\ Says(syscall, p, ip, acc) = Says(syscall, p, 1, {})

Watched == IF asked.watched THEN {WatchRuling(asked, syscall)} ELSE {}

FilterInv ==
  /\ asked \in FilterConfigs /\ syscall \in Syscalls
  /\ asked.policies = <<>> =>
       \/ asked.watched /\ stack = <<Watch, Sandbox>> /\ rulings = {} /\ Running(Watch)
       \/ stack = <<Sandbox>> /\ rulings = Watched /\ Running(Sandbox)
       \/ stack = <<>> /\ rulings = Watched \union {SandboxRuling(asked, syscall)}

LEMMA ProgramsAre ==
  ASSUME NEW cfg \in FilterConfigs
  PROVE  /\ EgressNotifyProgram(cfg.arch) \in Program /\ Loads(EgressNotifyProgram(cfg.arch))
         /\ BuildSeccompProgram(cfg) \in Program /\ Loads(BuildSeccompProgram(cfg))
<1>1. cfg.arch \in Labels
  BY DEF Labels
<1> QED
  BY <1>1, NotifyTyped, NotifyLoads, BuildStands, BuildLoads

LEMMA Starts ==
  ASSUME NEW p \in Program, Loads(p), ip = 1, acc = {}
  PROVE  Running(p)
<1>1. Len(p) \in Nat /\ Len(p) # 0
  BY DEF Loads, Program
<1> QED
  BY <1>1, NothingLoaded DEF Running

LEMMA JoinPair ==
  ASSUME NEW T, NEW a \in T, NEW b \in T
  PROVE  /\ <<a>> \o <<b>> = <<a, b>> /\ <<>> \o <<b>> = <<b>>
         /\ <<a, b>> \o <<>> = <<a, b>> /\ <<b>> \o <<>> = <<b>>
<1>1. <<a>> \in Seq(T) /\ Len(<<a>>) = 1 /\ <<a, b>> \in Seq(T) /\ Len(<<a, b>>) = 1 + 1
  OBVIOUS
<1>2. (\A i \in 1..1 : <<a, b>>[i] = <<a>>[i]) /\ <<a, b>>[1 + 1] = b
  OBVIOUS
<1>3. <<a>> \o <<b>> = <<a, b>>
  <2> DEFINE s == <<a>>
             x == <<a, b>>
  <2>1. s \o <<b>> = x
    <3> HIDE DEF s, x
    <3>1. s \in Seq(T) /\ Len(s) = 1 /\ x \in Seq(T) /\ Len(x) = 1 + 1
      BY <1>1 DEF s, x
    <3>2. (\A i \in 1..1 : x[i] = s[i]) /\ x[1 + 1] = b
      BY <1>2 DEF s, x
    <3> QED
      BY <3>1, <3>2, JoinOne
  <2> QED
    BY <2>1
<1> QED
  BY <1>1, <1>3

LEMMA FilterInvInit == FilterInit => FilterInv
<1> SUFFICES ASSUME FilterInit, asked.policies = <<>> PROVE FilterInv
  BY DEF FilterInit, FilterInv
<1>1. asked \in FilterConfigs /\ syscall \in Syscalls /\ ip = 1 /\ acc = {} /\ rulings = {}
  BY DEF FilterInit
<1> DEFINE n == Watch
           b == Sandbox
<1>2. n \in Program /\ b \in Program /\ Running(n) /\ Running(b)
  BY <1>1, ProgramsAre, Starts DEF Watch, Sandbox
<1>3. stack = (IF asked.watched THEN <<n>> ELSE <<>>) \o <<b>> \o <<>>
  BY NoneAccepted DEF FilterInit, ApplySeccompFilters, Watch, Sandbox
<1> HIDE DEF n, b
<1>4. /\ <<n>> \o <<b>> = <<n, b>> /\ <<>> \o <<b>> = <<b>>
      /\ <<n, b>> \o <<>> = <<n, b>> /\ <<b>> \o <<>> = <<b>>
  <2>1. PICK x \in Program, y \in Program : x = n /\ y = b
    BY <1>2
  <2> QED
    BY <2>1, JoinPair
<1>5. stack = IF asked.watched THEN <<n, b>> ELSE <<b>>
  BY <1>3, <1>4
<1> QED
  BY <1>1, <1>2, <1>5 DEF FilterInv, Watched, n, b

\* One instruction of p, and what p says once it returns.
LEMMA RunningOn ==
  ASSUME NEW p \in Program, Loads(p), Running(p), stack # <<>>, Head(stack) = p,
         LoadWord \/ MaskWord \/ JumpOver
  PROVE  Running(p)' /\ UNCHANGED <<asked, syscall, stack, rulings>>
<1> DEFINE A == Accumulators(syscall, p)
           g == p[ip]
           n == Len(p)
<1>1. ip \in 1..n /\ n \in Nat /\ g \in Instructions /\ acc \in A
  BY DEF Running, Program
<1>2. p[n].op = "ret"
  BY DEF Loads, Last
<1>3. g.op \in {"jeq", "jset"} => ip + 1 + g.jt <= n /\ ip + 1 + g.jf <= n
  BY <1>1 DEF Loads
<1>4. Instruction = g /\ UNCHANGED <<asked, syscall, stack, rulings>>
  BY DEF Instruction, LoadWord, MaskWord, JumpOver
<1>5. g.op # "ret" => Says(syscall, p, ip, acc) = Fate(syscall, p)[Onward(syscall, p, ip, acc)]
  BY <1>1, SaysIs
<1>6. PICK j \in Nat, a \in A : j > ip /\ Onward(syscall, p, ip, acc) = <<j, a>>
  BY <1>1, OnwardIs
<1>7. ip' = j /\ acc' = a /\ j <= n /\ g.op # "ret"
  <2>1. CASE LoadWord
    <3>1. g.op = "ld" /\ ip' = ip + 1 /\ acc' = Loaded(syscall, g)
      BY <1>4, <2>1 DEF LoadWord, Loaded
    <3>2. Onward(syscall, p, ip, acc) = <<ip + 1, Loaded(syscall, g)>>
      BY <3>1 DEF Onward
    <3>3. ip # n
      BY <1>2, <3>1
    <3>4. ip + 1 <= n
      BY <1>1, <3>3
    <3> HIDE DEF g
    <3> QED
      BY <1>6, <3>1, <3>2, <3>4
  <2>2. CASE MaskWord
    <3>1. g.op = "and" /\ ip' = ip + 1 /\ acc' = acc \intersect g.k
      BY <1>4, <2>2 DEF MaskWord
    <3>2. Onward(syscall, p, ip, acc) = <<ip + 1, acc \intersect g.k>>
      BY <3>1 DEF Onward
    <3>3. ip # n
      BY <1>2, <3>1
    <3>4. ip + 1 <= n
      BY <1>1, <3>3
    <3> HIDE DEF g
    <3> QED
      BY <1>6, <3>1, <3>2, <3>4
  <2>3. CASE JumpOver
    <3>1. /\ g.op \in {"jeq", "jset"} /\ acc' = acc
          /\ ip' = ip + 1 + (IF Taken(g, acc) THEN g.jt ELSE g.jf)
      BY <1>4, <2>3 DEF JumpOver, Taken
    <3>2. Onward(syscall, p, ip, acc) = <<ip', acc>>
      BY <3>1 DEF Onward
    <3>3. ip' <= n
      BY <1>3, <3>1
    <3>4. g.op # "ret"
      BY <3>1
    <3> HIDE DEF g
    <3> QED
      BY <1>6, <3>1, <3>2, <3>3, <3>4
  <2> QED
    BY <2>1, <2>2, <2>3
<1>8. Says(syscall, p, j, a) = Says(syscall, p, 1, {})
  BY <1>5, <1>6, <1>7 DEF Running, Says
<1>9. j \in 1..n
  BY <1>1, <1>6, <1>7
<1> QED
  BY <1>4, <1>6, <1>7, <1>8, <1>9 DEF Running

LEMMA RunningReturns ==
  ASSUME NEW p \in Program, Running(p), stack # <<>>, Head(stack) = p, ReturnRuling
  PROVE  /\ rulings' = rulings \union Says(syscall, p, 1, {})
         /\ stack' = Tail(stack) /\ ip' = 1 /\ acc' = {} /\ UNCHANGED <<asked, syscall>>
<1>1. Instruction = p[ip] /\ p[ip].op = "ret"
  BY DEF ReturnRuling, Instruction
<1>2. Says(syscall, p, ip, acc) = p[ip].k
  BY <1>1, SaysIs DEF Running
<1> QED
  BY <1>1, <1>2 DEF Running, ReturnRuling

LEMMA SaysOfBoth ==
  ASSUME NEW c \in Syscalls, NEW cfg \in FilterConfigs
  PROVE  /\ Says(c, EgressNotifyProgram(cfg.arch), 1, {}) = {WatchRuling(cfg, c)}
         /\ Says(c, BuildSeccompProgram(cfg), 1, {}) = {SandboxRuling(cfg, c)}
<1>1. cfg.arch \in Labels
  BY DEF Labels
<1>2. Says(c, EgressNotifyProgram(cfg.arch), 1, {})
        = IF c.arch = {cfg.arch} /\ Reported(c) THEN Ruled("notify") ELSE Ruled("allow")
  BY <1>1, NotifyRules
<1>3. Says(c, BuildSeccompProgram(cfg), 1, {}) = Ruled(SandboxRuling(cfg, c))
  BY BuildRules
<1> QED
  BY <1>2, <1>3 DEF WatchRuling, Ruled

LEMMA FilterInvNext == FilterInv /\ [FilterNext]_filterVars => FilterInv'
<1> SUFFICES ASSUME FilterInv, [FilterNext]_filterVars PROVE FilterInv'
  OBVIOUS
<1>1. CASE UNCHANGED filterVars
  BY <1>1 DEF filterVars, FilterInv, Running, Watch, Sandbox, Watched
<1>2. CASE FilterNext
  <2>1. asked \in FilterConfigs /\ syscall \in Syscalls /\ asked' = asked /\ syscall' = syscall
        /\ stack # <<>>
    BY <1>2 DEF FilterInv, FilterNext, LoadWord, MaskWord, JumpOver, ReturnRuling
  <2>2. Watch' = Watch /\ Sandbox' = Sandbox /\ Watched' = Watched
    BY <2>1 DEF Watch, Sandbox, Watched
  <2>3. /\ Watch \in Program /\ Loads(Watch) /\ Sandbox \in Program /\ Loads(Sandbox)
    BY <2>1, ProgramsAre DEF Watch, Sandbox
  <2>4. CASE asked.policies # <<>>
    BY <2>1, <2>4 DEF FilterInv
  <2>5. CASE asked.policies = <<>>
    <3>1. PICK w \in Program, b \in Program : w = Watch /\ b = Sandbox /\ Loads(w) /\ Loads(b)
      BY <2>3
    <3>2. Watch' = w /\ Sandbox' = b /\ asked'.policies = <<>>
      BY <2>1, <2>2, <2>5, <3>1
    <3>3. /\ Says(syscall, w, 1, {}) = {WatchRuling(asked, syscall)}
          /\ Says(syscall, b, 1, {}) = {SandboxRuling(asked, syscall)}
      <4>1. PICK c \in Syscalls, cfg \in FilterConfigs : c = syscall /\ cfg = asked
        BY <2>1
      <4>2. w = EgressNotifyProgram(cfg.arch) /\ b = BuildSeccompProgram(cfg)
        BY <3>1, <4>1 DEF Watch, Sandbox
      <4> QED
        BY <4>1, <4>2, SaysOfBoth
    <3>4. CASE asked.watched /\ stack = <<Watch, Sandbox>> /\ rulings = {} /\ Running(Watch)
      <4>1. stack = <<w, b>> /\ Head(stack) = w /\ Tail(stack) = <<b>> /\ Running(w)
        BY <3>1, <3>4 DEF Running
      <4>2. CASE LoadWord \/ MaskWord \/ JumpOver
        <5>1. Running(w)' /\ UNCHANGED <<asked, syscall, stack, rulings>>
          BY <2>1, <3>1, <4>1, <4>2, RunningOn
        <5>2. Running(Watch)'
          BY <3>2, <5>1 DEF Running
        <5> QED
          BY <2>1, <3>1, <3>2, <3>4, <5>1, <5>2 DEF FilterInv
      <4>3. CASE ReturnRuling
        <5>1. /\ rulings' = rulings \union Says(syscall, w, 1, {})
              /\ stack' = <<b>> /\ ip' = 1 /\ acc' = {}
          BY <2>1, <3>1, <4>1, <4>3, RunningReturns
        <5>2. Running(Sandbox)'
          <6>1. Len(b) \in Nat /\ Len(b) # 0
            BY <3>1 DEF Loads, Program
          <6> QED
            BY <3>2, <5>1, <6>1, NothingLoaded DEF Running
        <5>3. rulings' = Watched'
          BY <2>2, <3>3, <3>4, <5>1 DEF Watched
        <5> QED
          BY <2>1, <3>2, <5>1, <5>2, <5>3 DEF FilterInv
      <4> QED
        BY <1>2, <4>2, <4>3 DEF FilterNext
    <3>5. CASE stack = <<Sandbox>> /\ rulings = Watched /\ Running(Sandbox)
      <4>1. stack = <<b>> /\ Head(stack) = b /\ Tail(stack) = <<>> /\ Running(b)
        BY <3>1, <3>5 DEF Running
      <4>2. CASE LoadWord \/ MaskWord \/ JumpOver
        <5>1. Running(b)' /\ UNCHANGED <<asked, syscall, stack, rulings>>
          BY <2>1, <3>1, <4>1, <4>2, RunningOn
        <5>2. Running(Sandbox)'
          BY <3>2, <5>1 DEF Running
        <5> QED
          BY <2>1, <2>2, <3>2, <3>5, <5>1, <5>2 DEF FilterInv
      <4>3. CASE ReturnRuling
        <5>1. /\ rulings' = rulings \union Says(syscall, b, 1, {})
              /\ stack' = <<>>
          BY <2>1, <3>1, <4>1, <4>3, RunningReturns
        <5>2. rulings' = Watched' \union {SandboxRuling(asked, syscall)'}
          BY <2>1, <2>2, <3>3, <3>5, <5>1
        <5> QED
          BY <2>1, <5>1, <5>2 DEF FilterInv
      <4> QED
        BY <1>2, <4>2, <4>3 DEF FilterNext
    <3>6. stack # <<>>
      BY <2>1
    <3> QED
      BY <2>5, <3>4, <3>5, <3>6 DEF FilterInv
  <2> QED
    BY <2>4, <2>5
<1> QED
  BY <1>1, <1>2

LEMMA StrongestObeyed ==
  ASSUME NEW i \in 1..Len(Strength), Strength[i] \in rulings,
         \A j \in 1..(i - 1) : Strength[j] \notin rulings
  PROVE  Obeyed = Strength[i]
<1> DEFINE P(n) == Strength[n] \in rulings /\ \A j \in 1..(n - 1) : Strength[j] \notin rulings
           k == CHOOSE n \in 1..Len(Strength) : P(n)
<1>1. k \in 1..Len(Strength) /\ P(k)
  <2>1. P(i)
    OBVIOUS
  <2> HIDE DEF P
  <2> QED
    BY <2>1
<1>2. Obeyed = Strength[k]
  BY DEF Obeyed
<1> HIDE DEF k
<1>3. Len(Strength) = 8
  BY DEF Strength
<1>4. ~(k < i) /\ ~(i < k)
  BY <1>1, <1>3
<1>5. k = i
  BY <1>1, <1>3, <1>4
<1> QED
  BY <1>2, <1>5

\* The watch only ever turns an allowance into a report.
LEMMA StrongerRuling ==
  ASSUME NEW v \in Verdicts \ {"notify"}, NEW w \in {"notify", "allow"},
         rulings = {v} \/ rulings = {w, v}
  PROVE  Obeyed = IF v = "allow" /\ "notify" \in rulings THEN "notify" ELSE v
<1>1. /\ Strength[1] = "kill_process" /\ Strength[2] = "kill" /\ Strength[3] = "trap"
      /\ Strength[4] = "ENOSYS" /\ Strength[5] = "EPERM" /\ Strength[6] = "EACCES"
      /\ Strength[7] = "notify" /\ Strength[8] = "allow" /\ Len(Strength) = 8
  BY DEF Strength
<1>2. CASE v = "allow" /\ "notify" \in rulings
  <2>1. 7 \in 1..Len(Strength) /\ Strength[7] \in rulings
        /\ \A j \in 1..(7 - 1) : Strength[j] \notin rulings
    BY <1>1, <1>2
  <2> QED
    BY <1>1, <1>2, <2>1, StrongestObeyed
<1>3. CASE v = "allow" /\ "notify" \notin rulings
  <2>1. 8 \in 1..Len(Strength) /\ Strength[8] \in rulings
        /\ \A j \in 1..(8 - 1) : Strength[j] \notin rulings
    BY <1>1, <1>3
  <2> QED
    BY <1>1, <1>3, <2>1, StrongestObeyed
<1>4. CASE v # "allow"
  <2>1. PICK i \in 1..6 : Strength[i] = v
    BY <1>1, <1>4
  <2>2. i \in 1..Len(Strength) /\ Strength[i] \in rulings
    BY <1>1, <2>1
  <2>3. \A j \in 1..(i - 1) : Strength[j] \notin rulings
    BY <1>1, <2>1
  <2> QED
    BY <1>4, <2>1, <2>2, <2>3, StrongestObeyed
<1> QED
  BY <1>2, <1>3, <1>4

LEMMA PromisedIs ==
  ASSUME NEW cfg, NEW c
  PROVE  Promised(cfg, c) = IF SandboxRuling(cfg, c) # "allow" THEN SandboxRuling(cfg, c)
                            ELSE IF cfg.watched THEN WatchRuling(cfg, c) ELSE "allow"
<1>1. ForkRuling(cfg) # "allow"
  BY DEF ForkRuling
<1> QED
  BY <1>1 DEF Promised, SandboxRuling, WatchRuling, Foreign, NoClone3, NewSpace, Forks, Bare,
     Writes, Listed, Reported

LEMMA FilterInvDecides == FilterInv => FilterDecides
<1> SUFFICES ASSUME FilterInv, stack = <<>>, asked.policies = <<>>
             PROVE  Obeyed = Promised(asked, syscall)
  BY DEF FilterDecides
<1> DEFINE v == SandboxRuling(asked, syscall)
           w == WatchRuling(asked, syscall)
<1>1. rulings = Watched \union {v}
  BY DEF FilterInv
<1>2. v \in Verdicts \ {"notify"} /\ w \in {"notify", "allow"}
  BY DEF SandboxRuling, ForkRuling, WatchRuling
<1>3. Promised(asked, syscall) = IF v # "allow" THEN v ELSE IF asked.watched THEN w ELSE "allow"
  BY PromisedIs
<1> HIDE DEF v
<1>4. rulings = IF asked.watched THEN {w, v} ELSE {v}
  BY <1>1 DEF Watched
<1> HIDE DEF w
<1>5. Obeyed = IF v = "allow" /\ "notify" \in rulings THEN "notify" ELSE v
  BY <1>2, <1>4, StrongerRuling
<1> QED
  BY <1>2, <1>3, <1>4, <1>5

\* Where no policy is stacked, the interpreter never leaves a program, and in
\* the middle of one it comes to what that program rules on the call from its
\* start; what has been ruled so far is what the programs before it rule.
THEOREM FilterInvariant == FilterSpec => []FilterInv
<1> QED
  BY FilterInvInit, FilterInvNext, PTL DEF FilterSpec

\* On every call, with every switch on or off and no policy stacked, the
\* programs of buildSeccompProgram and egressNotifyProgram rule together as
\* their comments document: no jump lands on the wrong comparison.
THEOREM FilterKeepsPromise == FilterSpec => []FilterDecides
<1> QED
  BY FilterInvariant, FilterInvDecides, PTL
===============================================================================
