---------------------------- MODULE DataInduction ----------------------------
(***************************************************************************)
(* Induction over data, in a form that speaks of sets instead of           *)
(* predicates, and what it gives for the operators the modules fold with.  *)
(***************************************************************************)
EXTENDS Integers, Sequences, FiniteSets, FiniteSetsExt, FiniteSetTheorems,
        WellFoundedInduction, TLAPS

\* A set of natural numbers has a least one.
LEMMA LeastNumber ==
  ASSUME NEW T \in SUBSET Nat, T # {}
  PROVE  \E n \in T : \A m \in T : n <= m
<1> DEFINE R == OpToRel(<, Nat)
<1>1. IsWellFoundedOn(R, Nat)
  BY NatLessThanWellFounded
<1> HIDE DEF R
<1>2. PICK n \in T : \A m \in T : ~(<<m, n>> \in R)
  BY <1>1, WFMin
<1>3. \A m \in T : m < n => <<m, n>> \in R
  BY DEF R, OpToRel
<1>4. \A m \in T : ~(m < n)
  BY <1>2, <1>3, Zenon
<1>5. \A m \in T : n <= m
  BY <1>4
<1> QED
  BY <1>5

\* Induction over the natural numbers.
LEMMA NumberInduction ==
  ASSUME NEW Q, 0 \in Q, \A n \in Nat : n \in Q => n + 1 \in Q
  PROVE  Nat \subseteq Q
<1> DEFINE Bad == Nat \ Q
<1>1. SUFFICES ASSUME Bad # {} PROVE FALSE
  OBVIOUS
<1>2. PICK n \in Bad : \A m \in Bad : n <= m
  BY <1>1, LeastNumber
<1>3. n # 0 /\ n - 1 \in Nat
  BY <1>2
<1>4. n - 1 \in Q
  BY <1>2, <1>3
<1>5. (n - 1) + 1 \in Q
  BY <1>3, <1>4
<1> QED
  BY <1>2, <1>5

\* Induction over the parts of a finite set.
LEMMA PartInduction ==
  ASSUME NEW S, IsFiniteSet(S), NEW Q, {} \in Q,
         \A s \in SUBSET S : s # {} /\ (\A x \in s : s \ {x} \in Q) => s \in Q
  PROVE  \A s \in SUBSET S : s \in Q
<1> DEFINE N == {n \in Nat : \A s \in SUBSET S : Cardinality(s) = n => s \in Q}
<1>1. 0 \in N
  BY FS_Subset, FS_EmptySet
<1>2. ASSUME NEW n \in Nat, n \in N PROVE n + 1 \in N
  <2> SUFFICES ASSUME NEW s \in SUBSET S, Cardinality(s) = n + 1 PROVE s \in Q
    OBVIOUS
  <2>1. IsFiniteSet(s) /\ s # {}
    BY FS_Subset, FS_EmptySet
  <2>2. ASSUME NEW x \in s
        PROVE  Cardinality(s \ {x}) = n /\ s \ {x} \in SUBSET S
    <3>1. Cardinality(s \ {x}) = Cardinality(s) - 1
      BY <2>1, FS_RemoveElement
    <3> QED
      BY <3>1
  <2> QED
    BY <1>2, <2>1, <2>2
<1> HIDE DEF N
<1>3. Nat \subseteq N
  BY <1>1, <1>2, NumberInduction
<1>4. \A s \in SUBSET S : Cardinality(s) \in Nat
  BY FS_Subset, FS_CardinalityType
<1> QED
  BY <1>3, <1>4 DEF N

(***************************************************************************)
(* Sums.                                                                   *)
(***************************************************************************)
SumOver(f, S) == MapThenSumSet(LAMBDA x : f[x], S)

AnyOf(s) == CHOOSE x \in s : TRUE
SumBody(f, it, S) ==
  [s \in SUBSET S |-> IF s = {} THEN 0 ELSE f[AnyOf(s)] + it[s \ {AnyOf(s)}]]
SumFun(f, S) == CHOOSE it : it = SumBody(f, it, S)

\* There is a function that the recursion describes.
LEMMA SumFunExists ==
  ASSUME NEW f, NEW S, IsFiniteSet(S)
  PROVE  SumFun(f, S) = SumBody(f, SumFun(f, S), S)
<1> DEFINE Small(n) == {s \in SUBSET S : Cardinality(s) <= n}
           Step(it, s) == IF s = {} THEN 0 ELSE f[AnyOf(s)] + it[s \ {AnyOf(s)}]
           Fits(it, n) == it = [s \in Small(n) |-> Step(it, s)]
           N == {n \in Nat : \E it : Fits(it, n)}
<1>1. \A s \in SUBSET S : Cardinality(s) \in Nat /\ IsFiniteSet(s)
  BY FS_Subset, FS_CardinalityType
<1>2. \A s : s # {} => AnyOf(s) \in s
  BY DEF AnyOf
<1>3. ASSUME NEW s \in SUBSET S, s # {}
      PROVE  /\ s \ {AnyOf(s)} \in SUBSET S
             /\ Cardinality(s \ {AnyOf(s)}) = Cardinality(s) - 1
  BY <1>1, <1>2, <1>3, FS_RemoveElement
<1>4. 0 \in N
  <2>1. Small(0) = {{}}
    BY <1>1, FS_EmptySet
  <2>2. Fits([s \in {{}} |-> 0], 0)
    BY <2>1
  <2> QED
    BY <2>2
<1>5. ASSUME NEW n \in Nat, n \in N PROVE n + 1 \in N
  <2>1. PICK it : Fits(it, n)
    BY <1>5
  <2> DEFINE g == [s \in Small(n + 1) |-> IF s \in Small(n) THEN it[s] ELSE Step(it, s)]
  <2>2. Small(n) \subseteq Small(n + 1)
    BY <1>1
  <2>3. ASSUME NEW s \in Small(n + 1), s # {} PROVE s \ {AnyOf(s)} \in Small(n)
    <3>1. Cardinality(s \ {AnyOf(s)}) = Cardinality(s) - 1 /\ Cardinality(s) \in Nat
      BY <1>1, <1>3, <2>3
    <3> QED
      BY <1>3, <2>3, <3>1
  <2> HIDE DEF Small
  <2>4. ASSUME NEW s \in Small(n) PROVE g[s] = it[s] /\ it[s] = Step(it, s)
    BY <2>1, <2>2, <2>4
  <2>5. ASSUME NEW s \in Small(n + 1) PROVE g[s] = Step(g, s)
    <3>1. g[s] = Step(it, s)
      BY <2>4, <2>5
    <3>2. s # {} => g[s \ {AnyOf(s)}] = it[s \ {AnyOf(s)}]
      BY <2>3, <2>4
    <3> QED
      BY <3>1, <3>2
  <2>6. Fits(g, n + 1)
    BY <2>5
  <2> HIDE DEF g, Fits
  <2> QED
    BY <2>6
<1> HIDE DEF N
<1>6. Cardinality(S) \in N
  BY <1>4, <1>5, <1>1, NumberInduction
<1>7. PICK it : Fits(it, Cardinality(S))
  BY <1>6 DEF N
<1>8. Small(Cardinality(S)) = SUBSET S
  BY <1>1, FS_Subset
<1>9. it = SumBody(f, it, S)
  BY <1>7, <1>8 DEF SumBody
<1> QED
  BY <1>9 DEF SumFun

\* There is one only.
LEMMA SumFunUnique ==
  ASSUME NEW f, NEW S, IsFiniteSet(S), NEW T \in SUBSET S, NEW one, NEW other,
         one = SumBody(f, one, S), other = SumBody(f, other, T)
  PROVE  \A s \in SUBSET T : one[s] = other[s]
<1> DEFINE Q == {s \in SUBSET T : one[s] = other[s]}
<1>1. {} \in Q
  <2>1. one[{}] = 0 /\ other[{}] = 0
    BY DEF SumBody
  <2> QED
    BY <2>1
<1>2. ASSUME NEW s \in SUBSET T, s # {}, \A x \in s : s \ {x} \in Q
      PROVE  s \in Q
  <2>1. AnyOf(s) \in s
    BY <1>2 DEF AnyOf
  <2>2. one[s] = f[AnyOf(s)] + one[s \ {AnyOf(s)}]
    BY <1>2 DEF SumBody
  <2>3. other[s] = f[AnyOf(s)] + other[s \ {AnyOf(s)}]
    BY <1>2 DEF SumBody
  <2> QED
    BY <1>2, <2>1, <2>2, <2>3
<1>3. IsFiniteSet(T)
  BY FS_Subset
<1> HIDE DEF Q
<1>4. \A s \in SUBSET T : s \in Q
  BY <1>1, <1>2, <1>3, PartInduction
<1> QED
  BY <1>4 DEF Q

\* The sum of a finite set of numbers, whatever the order they are taken in.
LEMMA SumEmpty ==
  ASSUME NEW f
  PROVE  SumOver(f, {}) = 0
<1>1. SumOver(f, {}) = SumFun(f, {})[{}]
  BY DEF SumOver, SumFun, SumBody, AnyOf, MapThenSumSet, MapThenFoldSet
<1>2. SumFun(f, {}) = SumBody(f, SumFun(f, {}), {})
  BY SumFunExists, FS_EmptySet
<1> QED
  BY <1>1, <1>2 DEF SumBody

LEMMA SumIs ==
  ASSUME NEW f, NEW S, IsFiniteSet(S)
  PROVE  \A T \in SUBSET S : SumOver(f, T) = SumFun(f, S)[T]
<1> SUFFICES ASSUME NEW T \in SUBSET S PROVE SumOver(f, T) = SumFun(f, S)[T]
  OBVIOUS
<1>1. SumOver(f, T) = SumFun(f, T)[T]
  BY DEF SumOver, SumFun, SumBody, AnyOf, MapThenSumSet, MapThenFoldSet
<1>2. IsFiniteSet(T)
  BY FS_Subset
<1>3. /\ SumFun(f, S) = SumBody(f, SumFun(f, S), S)
      /\ SumFun(f, T) = SumBody(f, SumFun(f, T), T)
  BY <1>2, SumFunExists
<1>4. SumFun(f, S)[T] = SumFun(f, T)[T]
  BY <1>3, SumFunUnique
<1> QED
  BY <1>1, <1>4

LEMMA SumChoice ==
  ASSUME NEW S, IsFiniteSet(S), NEW f, NEW T \in SUBSET S, T # {}
  PROVE  AnyOf(T) \in T /\ SumOver(f, T) = f[AnyOf(T)] + SumOver(f, T \ {AnyOf(T)})
<1>1. SumFun(f, S) = SumBody(f, SumFun(f, S), S)
  BY SumFunExists
<1>2. AnyOf(T) \in T /\ T \ {AnyOf(T)} \in SUBSET S
  BY DEF AnyOf
<1>3. /\ SumOver(f, T) = SumFun(f, S)[T]
      /\ SumOver(f, T \ {AnyOf(T)}) = SumFun(f, S)[T \ {AnyOf(T)}]
  BY <1>2, SumIs
<1> QED
  BY <1>1, <1>2, <1>3 DEF SumBody

LEMMA SumNat ==
  ASSUME NEW S, IsFiniteSet(S), NEW f, \A x \in S : f[x] \in Nat
  PROVE  \A T \in SUBSET S : SumOver(f, T) \in Nat
<1> DEFINE Q == {T \in SUBSET S : SumOver(f, T) \in Nat}
<1>1. {} \in Q
  BY SumEmpty
<1>2. ASSUME NEW T \in SUBSET S, T # {}, \A x \in T : T \ {x} \in Q
      PROVE  T \in Q
  <2>1. AnyOf(T) \in T /\ SumOver(f, T) = f[AnyOf(T)] + SumOver(f, T \ {AnyOf(T)})
    BY <1>2, SumChoice
  <2>2. SumOver(f, T \ {AnyOf(T)}) \in Nat /\ f[AnyOf(T)] \in Nat
    BY <1>2, <2>1
  <2> QED
    BY <2>1, <2>2
<1> HIDE DEF Q
<1>3. \A T \in SUBSET S : T \in Q
  BY <1>1, <1>2, PartInduction
<1> QED
  BY <1>3 DEF Q

LEMMA SumStep ==
  ASSUME NEW S, IsFiniteSet(S), NEW f, \A x \in S : f[x] \in Nat
  PROVE  \A x \in S : SumOver(f, S) = f[x] + SumOver(f, S \ {x})
<1> DEFINE Sum(T) == SumOver(f, T)
           Q == {T \in SUBSET S : \A x \in T : Sum(T) = f[x] + Sum(T \ {x})}
<1>1. {} \in Q
  OBVIOUS
<1>2. \A T \in SUBSET S : Sum(T) \in Nat
  BY SumNat
<1>3. ASSUME NEW T \in SUBSET S, T # {}
      PROVE  AnyOf(T) \in T /\ Sum(T) = f[AnyOf(T)] + Sum(T \ {AnyOf(T)})
  BY <1>3, SumChoice
<1> HIDE DEF Sum
<1>4. ASSUME NEW T \in SUBSET S, T # {}, \A x \in T : T \ {x} \in Q
      PROVE  T \in Q
  <2> DEFINE c == AnyOf(T)
  <2>1. c \in T /\ Sum(T) = f[c] + Sum(T \ {c})
    BY <1>3, <1>4
  <2> HIDE DEF c
  <2>2. ASSUME NEW x \in T, x # c PROVE Sum(T) = f[x] + Sum(T \ {x})
    <3> DEFINE r == Sum((T \ {c}) \ {x})
    <3>1. x \in T \ {c} /\ c \in T \ {x} /\ (T \ {c}) \ {x} = (T \ {x}) \ {c}
      BY <2>1, <2>2
    <3>2. Sum(T \ {c}) = f[x] + r
      BY <1>4, <2>1, <3>1
    <3>3. Sum(T \ {x}) = f[c] + r
      BY <1>4, <3>1
    <3>4. (T \ {c}) \ {x} \in SUBSET S
      OBVIOUS
    <3>5. r \in Nat /\ f[x] \in Nat /\ f[c] \in Nat
      BY <1>2, <3>4, <2>1
    <3> HIDE DEF r
    <3> QED
      BY <2>1, <3>2, <3>3, <3>5
  <2> QED
    BY <2>1, <2>2
<1>5. \A T \in SUBSET S : T \in Q
  <2> HIDE DEF Q
  <2> QED
    BY <1>1, <1>4, PartInduction
<1> QED
  BY <1>5 DEF Sum

\* It depends on what is summed up only.
LEMMA SumSame ==
  ASSUME NEW S, IsFiniteSet(S), NEW f, NEW g, \A x \in S : f[x] = g[x]
  PROVE  SumOver(f, S) = SumOver(g, S)
<1> DEFINE Q == {T \in SUBSET S : SumOver(f, T) = SumOver(g, T)}
<1>1. {} \in Q
  BY SumEmpty
<1>2. ASSUME NEW T \in SUBSET S, T # {}, \A x \in T : T \ {x} \in Q
      PROVE  T \in Q
  <2>1. T # {}
    BY <1>2
  <2>2. AnyOf(T) \in T
    BY <2>1 DEF AnyOf
  <2>3. /\ SumOver(f, T) = f[AnyOf(T)] + SumOver(f, T \ {AnyOf(T)})
        /\ SumOver(g, T) = g[AnyOf(T)] + SumOver(g, T \ {AnyOf(T)})
    BY <2>1, SumChoice
  <2> QED
    BY <1>2, <2>2, <2>3
<1> HIDE DEF Q
<1>3. \A T \in SUBSET S : T \in Q
  BY <1>1, <1>2, PartInduction
<1> QED
  BY <1>3 DEF Q

\* Sums of disjoint sets add up.
LEMMA SumUnion ==
  ASSUME NEW S, IsFiniteSet(S), NEW f, \A x \in S : f[x] \in Nat,
         NEW A \in SUBSET S, NEW B \in SUBSET S, A \intersect B = {}
  PROVE  SumOver(f, A \union B) = SumOver(f, A) + SumOver(f, B)
<1> DEFINE Q == {T \in SUBSET B : SumOver(f, A \union T) = SumOver(f, A) + SumOver(f, T)}
<1>1. \A T \in SUBSET S : SumOver(f, T) \in Nat /\ IsFiniteSet(T)
  BY SumNat, FS_Subset
<1>2. ASSUME NEW T \in SUBSET S, NEW x \in T
      PROVE  SumOver(f, T) = f[x] + SumOver(f, T \ {x})
  BY <1>1, SumStep
<1>3. {} \in Q
  <2>1. A \union {} = A /\ SumOver(f, {}) = 0 /\ SumOver(f, A) \in Nat
    BY <1>1, SumEmpty
  <2> QED
    BY <2>1
<1>4. ASSUME NEW T \in SUBSET B, T # {}, \A x \in T : T \ {x} \in Q
      PROVE  T \in Q
  <2>1. PICK x \in T : TRUE
    BY <1>4
  <2>2. (A \union T) \ {x} = A \union (T \ {x})
    BY <2>1
  <2>3. SumOver(f, A \union T) = f[x] + SumOver(f, A \union (T \ {x}))
    BY <1>2, <2>1, <2>2
  <2>4. SumOver(f, T) = f[x] + SumOver(f, T \ {x})
    BY <1>2, <2>1
  <2>5. SumOver(f, A \union (T \ {x})) = SumOver(f, A) + SumOver(f, T \ {x})
    BY <1>4, <2>1
  <2>6. SumOver(f, A) \in Nat /\ SumOver(f, T \ {x}) \in Nat /\ f[x] \in Nat
    BY <1>1, <2>1
  <2>7. SumOver(f, A \union T) = SumOver(f, A) + SumOver(f, T)
    BY <2>3, <2>4, <2>5, <2>6
  <2> QED
    BY <2>7
<1> HIDE DEF Q
<1>5. \A T \in SUBSET B : T \in Q
  BY <1>1, <1>3, <1>4, PartInduction
<1> QED
  BY <1>5 DEF Q

\* g sums f up by key: g[t] is the sum over the members whose key is t.
SumsByKey(g, T, f, S, k) ==
  /\ \A x \in S : f[x] \in Nat
  /\ \A x \in S : k[x] \in T
  /\ \A t \in T : g[t] = SumOver(f, {x \in S : k[x] = t})

\* The sums by key add up to the whole sum.
LEMMA SumOfSums ==
  ASSUME NEW S, IsFiniteSet(S), NEW f, NEW T, IsFiniteSet(T), NEW k,
         NEW g, SumsByKey(g, T, f, S, k)
  PROVE  SumOver(g, T) = SumOver(f, S)
<1> USE DEF SumsByKey
<1> DEFINE In(U) == {x \in S : k[x] \in U}
           Q == {U \in SUBSET T : SumOver(g, U) = SumOver(f, In(U))}
<1>1. \A A \in SUBSET S : SumOver(f, A) \in Nat /\ IsFiniteSet(A)
  BY SumNat, FS_Subset
<1>2. \A t \in T : g[t] \in Nat
  BY <1>1
<1>3. {} \in Q
  <2>1. In({}) = {}
    OBVIOUS
  <2> QED
    BY <2>1, SumEmpty
<1>4. ASSUME NEW U \in SUBSET T, U # {}, \A t \in U : U \ {t} \in Q
      PROVE  U \in Q
  <2>1. PICK t \in U : TRUE
    BY <1>4
  <2>2. SumOver(g, U) = g[t] + SumOver(g, U \ {t})
    BY <1>2, <2>1, FS_Subset, SumStep
  <2>3. /\ In(U) = In({t}) \union In(U \ {t})
        /\ In({t}) \intersect In(U \ {t}) = {}
        /\ In({t}) = {x \in S : k[x] = t}
    BY <2>1
  <2>4. SumOver(f, In(U)) = SumOver(f, In({t})) + SumOver(f, In(U \ {t}))
    BY <2>3, SumUnion
  <2>5. SumOver(g, U \ {t}) = SumOver(f, In(U \ {t}))
    BY <1>4, <2>1
  <2> HIDE DEF In
  <2> QED
    BY <2>1, <2>2, <2>3, <2>4, <2>5
<1> HIDE DEF Q
<1>5. T \in Q
  <2>1. \A U \in SUBSET T : U \in Q
    BY <1>3, <1>4, PartInduction
  <2> QED
    BY <2>1
<1>6. In(T) = S
  OBVIOUS
<1> QED
  BY <1>5, <1>6 DEF Q
-----------------------------------------------------------------------------
(***************************************************************************)
(* Recursive functions over the places of a sequence.  step[<<i, a>>] is   *)
(* what the i-th place makes of what the ones before it made.              *)
(***************************************************************************)
Follows(f, base, step, n) ==
  f[0] = base /\ \A i \in 1..n : f[i] = step[<<i, f[i - 1]>>]

\* There is a function that follows a step.
LEMMA RecursionExists ==
  ASSUME NEW A, NEW base \in A, NEW n \in Nat, NEW step \in [(1..n) \X A -> A]
  PROVE  \E f \in [0..n -> A] : Follows(f, base, step, n)
<1> DEFINE Q == {m \in Nat : m <= n => \E f \in [0..m -> A] : Follows(f, base, step, m)}
<1>1. 0 \in Q
  <2>1. [i \in 0..0 |-> base] \in [0..0 -> A] /\ Follows([i \in 0..0 |-> base], base, step, 0)
    BY DEF Follows
  <2> QED
    BY <2>1
<1>2. ASSUME NEW m \in Nat, m \in Q PROVE m + 1 \in Q
  <2> SUFFICES ASSUME m + 1 <= n
               PROVE  \E f \in [0..(m + 1) -> A] : Follows(f, base, step, m + 1)
    OBVIOUS
  <2>1. PICK f \in [0..m -> A] : Follows(f, base, step, m)
    BY <1>2
  <2> DEFINE more == [i \in 0..(m + 1) |-> IF i = m + 1 THEN step[<<i, f[m]>>] ELSE f[i]]
  <2>2. more \in [0..(m + 1) -> A]
    OBVIOUS
  <2>3. Follows(more, base, step, m + 1)
    BY <2>1 DEF Follows
  <2> HIDE DEF more
  <2> QED
    BY <2>2, <2>3
<1> HIDE DEF Q
<1>3. n \in Q
  BY <1>1, <1>2, NumberInduction
<1> QED
  BY <1>3 DEF Q
=============================================================================
