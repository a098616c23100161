------------------------------ MODULE Induction ------------------------------
(* Induction over numbers and over finite sets, stated of sets.              *)
EXTENDS Integers, SequencesExt, FiniteSetTheorems, SequenceTheorems, TLAPS

\* A set of numbers has a least one: of the intervals 0..k that it stands for,
\* one has none of the others as a part.
LEMMA LeastNumber ==
    ASSUME NEW T \in SUBSET Nat, T # {}
    PROVE  \E m \in T : \A k \in T : m <= k
<1> DEFINE Upto == {0..k : k \in T}
<1>1. Upto \subseteq FiniteSubsetsOf(Nat)
  <2>1. \A k \in T : 0..k \in SUBSET Nat /\ IsFiniteSet(0..k) BY FS_Interval
  <2> QED BY <2>1 DEF FiniteSubsetsOf
<1>2. Upto # {} OBVIOUS
<1>3. IsWellFoundedOn(StrictSubsetOrdering(Nat), FiniteSubsetsOf(Nat)) BY FS_StrictSubsetOrderingWellFounded
<1>4. PICK x \in Upto : \A y \in Upto : ~(<<y, x>> \in StrictSubsetOrdering(Nat))
  <2> HIDE DEF Upto
  <2> QED BY <1>1, <1>2, <1>3, WFMin
<1>5. PICK m \in T : x = 0..m OBVIOUS
<1>6. ASSUME NEW k \in T PROVE m <= k
  <2>1. SUFFICES ASSUME k < m PROVE FALSE OBVIOUS
  <2>2. 0..k \subseteq 0..m /\ m \in 0..m /\ m \notin 0..k BY <2>1
  <2>3. <<0..k, x>> \in StrictSubsetOrdering(Nat) BY <2>2, <1>5 DEF StrictSubsetOrdering
  <2> QED BY <2>3, <1>4
<1> QED BY <1>6

LEMMA Numbers ==
    ASSUME NEW S, 0 \in S, \A n \in Nat : n \in S => n + 1 \in S
    PROVE  Nat \subseteq S
<1> DEFINE T == Nat \ S
<1>1. SUFFICES ASSUME T # {} PROVE FALSE OBVIOUS
<1>2. PICK m \in T : \A k \in T : m <= k BY <1>1, LeastNumber
<1>3. m - 1 \in Nat OBVIOUS
<1>4. m - 1 \notin T BY <1>2, <1>3
<1>5. (m - 1) + 1 \in S BY <1>3, <1>4
<1> QED BY <1>5

\* What holds of the empty set, and of a set when it holds of that set without
\* any one of its elements, holds of every finite set.
LEMMA FiniteParts ==
    ASSUME NEW S, IsFiniteSet(S), NEW F,
           \A T \in SUBSET S : (\A x \in T : T \ {x} \in F) => T \in F
    PROVE  \A T \in SUBSET S : T \in F
<1> DEFINE C == (SUBSET S) \ F
<1>1. SUFFICES ASSUME C # {} PROVE FALSE OBVIOUS
<1>2. C \subseteq FiniteSubsetsOf(S) BY FS_Subset DEF FiniteSubsetsOf
<1>3. PICK T \in C : \A U \in C : ~(<<U, T>> \in StrictSubsetOrdering(S))
  <2>1. IsWellFoundedOn(StrictSubsetOrdering(S), FiniteSubsetsOf(S)) BY FS_StrictSubsetOrderingWellFounded
  <2> HIDE DEF C
  <2> QED BY <1>1, <1>2, <2>1, WFMin
<1>4. ASSUME NEW x \in T PROVE T \ {x} \in F
  <2>1. <<T \ {x}, T>> \in StrictSubsetOrdering(S) BY DEF StrictSubsetOrdering
  <2> QED BY <2>1, <1>3
<1> QED BY <1>4

-----------------------------------------------------------------------------
(* Functions that are defined by recursion *)

Solution(g, V, n, base, step) ==
    g \in [0..n -> V] /\ g[0] = base /\ \A i \in 1..n : g[i] = step[<<g[i - 1], i>>]

\* A recursion over 0..n that stays in a set has a solution.
LEMMA Recursion ==
    ASSUME NEW V, NEW n \in Nat, NEW base \in V, NEW step \in [V \X (1..n) -> V]
    PROVE  \E g : Solution(g, V, n, base, step)
<1> DEFINE Solves(g, k) == g[0] = base /\ \A i \in 1..k : g[i] = step[<<g[i - 1], i>>]
           S == {k \in Nat : k <= n => \E g \in [0..k -> V] : Solves(g, k)}
<1>1. 0 \in S
  <2> DEFINE g == [i \in 0..0 |-> base]
  <2>1. g \in [0..0 -> V] OBVIOUS
  <2>2. 0 \in 0..0 /\ ~\E i \in Int : i \in 1..0 OBVIOUS
  <2>3. g[0] = base BY <2>2
  <2>4. \A i \in 1..0 : g[i] = step[<<g[i - 1], i>>] BY <2>2
  <2> HIDE DEF g
  <2> QED BY <2>1, <2>3, <2>4
<1>2. ASSUME NEW k \in Nat, k \in S PROVE k + 1 \in S
  <2>1. SUFFICES ASSUME k + 1 <= n PROVE \E g \in [0..(k + 1) -> V] : Solves(g, k + 1) OBVIOUS
  <2>2. PICK h \in [0..k -> V] : Solves(h, k) BY <1>2, <2>1
  <2> DEFINE g == [i \in 0..(k + 1) |-> IF i <= k THEN h[i] ELSE step[<<h[k], k + 1>>]]
  <2>3. step[<<h[k], k + 1>>] \in V
    <3>1. h[k] \in V /\ k + 1 \in 1..n BY <2>1
    <3> QED BY <3>1
  <2>4. g \in [0..(k + 1) -> V] BY <2>3
  <2>5. g[0] = base BY <2>2
  <2>6. ASSUME NEW i \in 1..(k + 1) PROVE g[i] = step[<<g[i - 1], i>>]
    <3>1. i - 1 \in 0..k /\ g[i - 1] = h[i - 1] OBVIOUS
    <3>2. CASE i <= k BY <2>2, <3>1, <3>2
    <3>3. CASE i = k + 1
      <4>1. ~(i <= k) /\ i - 1 = k BY <3>3
      <4>2. g[i] = step[<<h[k], k + 1>>] BY <4>1
      <4>3. g[i - 1] = h[k] BY <3>1, <4>1
      <4> HIDE DEF g
      <4> QED BY <3>3, <4>2, <4>3
    <3> QED BY <3>2, <3>3
  <2> QED BY <2>4, <2>5, <2>6
<1>3. Nat \subseteq S
  <2> HIDE DEF S
  <2> QED BY <1>1, <1>2, Numbers
<1>4. n \in S
  <2> HIDE DEF S
  <2> QED BY <1>3
<1>5. n <= n OBVIOUS
<1>6. PICK g \in [0..n -> V] : Solves(g, n) BY <1>4, <1>5
<1> QED BY <1>6 DEF Solution

\* A property of numbers up to a bound.
LEMMA NumbersUpto ==
    ASSUME NEW n \in Nat, NEW S, 0 \in S, \A k \in 0..(n - 1) : k \in S => k + 1 \in S
    PROVE  0..n \subseteq S
<1> DEFINE T == {k \in Nat : k <= n => k \in S}
<1>1. 0 \in T OBVIOUS
<1>2. \A k \in Nat : k \in T => k + 1 \in T OBVIOUS
<1>3. Nat \subseteq T
  <2> HIDE DEF T
  <2> QED BY <1>1, <1>2, Numbers
<1> QED BY <1>3

-----------------------------------------------------------------------------
(* Finite sets *)

LEMMA ImageFinite ==
    ASSUME NEW S, IsFiniteSet(S), NEW g, DOMAIN g = S
    PROVE  IsFiniteSet({g[x] : x \in S})
<1> DEFINE h == [x \in S |-> g[x]]
           T == {g[x] : x \in S}
<1>1. h \in [S -> T] /\ \A t \in T : \E x \in S : h[x] = t OBVIOUS
<1>2. h \in Surjection(S, T) BY <1>1 DEF Surjection
<1> HIDE DEF h, T
<1> QED BY <1>2, FS_Surjection DEF T

\* g sums up the weights of a set's parts, in the order of CHOOSE.
Sums(g, S, w) ==
    /\ g \in [SUBSET S -> Nat]
    /\ \A s \in SUBSET S : g[s] = IF s = {} THEN 0 ELSE LET x == CHOOSE x \in s : TRUE IN w[x] + g[s \ {x}]

\* The parts of a finite set have a sum: a table that is right for those of at
\* most k elements makes one that is right for one element more.
LEMMA SumsExist ==
    ASSUME NEW S, IsFiniteSet(S), NEW w \in [S -> Nat]
    PROVE  \E g : Sums(g, S, w)
<1> DEFINE pick(s) == CHOOSE x \in s : TRUE
           Table == [SUBSET S -> Nat]
           More(g) == [s \in SUBSET S |-> IF s = {} THEN 0 ELSE w[pick(s)] + g[s \ {pick(s)}]]
           n == Cardinality(S) + 1
           zero == [s \in SUBSET S |-> 0]
           step == [p \in Table \X (1..n) |-> More(p[1])]
<1>1. n \in Nat /\ \A s \in SUBSET S : IsFiniteSet(s) /\ Cardinality(s) \in Nat /\ Cardinality(s) < n
  <2>1. Cardinality(S) \in Nat BY FS_CardinalityType
  <2>2. \A s \in SUBSET S : IsFiniteSet(s) /\ Cardinality(s) <= Cardinality(S) BY FS_Subset
  <2>3. \A s \in SUBSET S : Cardinality(s) \in Nat BY <2>2, FS_CardinalityType
  <2> QED BY <2>1, <2>2, <2>3
<1>2. \A s \in SUBSET S : s # {} => pick(s) \in s OBVIOUS
<1>3. \A g \in Table : More(g) \in Table
  <2>1. SUFFICES ASSUME NEW g \in Table, NEW s \in SUBSET S, s # {} PROVE w[pick(s)] + g[s \ {pick(s)}] \in Nat
    OBVIOUS
  <2>2. pick(s) \in S /\ s \ {pick(s)} \in SUBSET S BY <1>2, <2>1
  <2> HIDE DEF pick
  <2> QED BY <2>2
<1>4. zero \in Table OBVIOUS
<1>5. step \in [Table \X (1..n) -> Table]
  <2> HIDE DEF More, Table
  <2> QED BY <1>3
<1>6. PICK h : Solution(h, Table, n, zero, step)
  <2> HIDE DEF Table, step, n, zero
  <2> QED BY <1>1, <1>4, <1>5, Recursion
<1>7. \A k \in 0..n : h[k] \in Table BY <1>6 DEF Solution
<1>8. \A k \in 1..n : k - 1 \in 0..n /\ h[k] = More(h[k - 1])
  <2>1. \A k \in 1..n : k - 1 \in 0..n BY <1>1
  <2>2. \A k \in 1..n : h[k] = step[<<h[k - 1], k>>] BY <1>6 DEF Solution
  <2> HIDE DEF More, Table
  <2> QED BY <1>7, <2>1, <2>2
<1> DEFINE Right == {k \in Nat : k < n => \A s \in SUBSET S : Cardinality(s) <= k => h[k + 1][s] = h[k][s]}
<1>9. 0 \in Right
  <2>1. SUFFICES ASSUME 0 < n, NEW s \in SUBSET S, Cardinality(s) <= 0 PROVE h[0 + 1][s] = h[0][s] OBVIOUS
  <2>2. s = {} BY <1>1, <2>1, FS_EmptySet
  <2>3. h[0] = zero BY <1>6 DEF Solution
  <2>4. 1 \in 1..n /\ 1 - 1 = 0 BY <2>1, <1>1
  <2>5. h[1] = More(h[0])
    <3> HIDE DEF More, n
    <3> QED BY <1>8, <2>4
  <2>6. h[1][s] = 0 /\ h[0][s] = 0 BY <2>2, <2>3, <2>5
  <2>7. 0 + 1 = 1 OBVIOUS
  <2> QED BY <2>6, <2>7
<1>10. ASSUME NEW k \in Nat, k \in Right PROVE k + 1 \in Right
  <2>1. SUFFICES ASSUME k + 1 < n, NEW s \in SUBSET S, Cardinality(s) <= k + 1
                 PROVE  h[(k + 1) + 1][s] = h[k + 1][s]
    OBVIOUS
  <2>2. /\ (k + 1) + 1 \in 1..n /\ ((k + 1) + 1) - 1 = k + 1
        /\ k + 1 \in 1..n /\ (k + 1) - 1 = k /\ k < n
    BY <1>1, <2>1
  <2>3. h[(k + 1) + 1] = More(h[k + 1]) /\ h[k + 1] = More(h[k])
    <3> HIDE DEF More, n
    <3> QED BY <1>8, <2>2
  <2>4. CASE s = {} BY <2>3, <2>4
  <2>5. CASE s # {}
    <3> DEFINE t == s \ {pick(s)}
    <3>1. pick(s) \in s BY <1>2, <2>5
    <3>2. t \in SUBSET S /\ Cardinality(t) = Cardinality(s) - 1 BY <1>1, <3>1, FS_RemoveElement
    <3>3. Cardinality(t) <= k BY <1>1, <2>1, <3>2
    <3>4. h[k + 1][t] = h[k][t] BY <1>10, <2>2, <3>2, <3>3
    <3> HIDE DEF pick, t
    <3>5. h[(k + 1) + 1][s] = w[pick(s)] + h[k + 1][t] /\ h[k + 1][s] = w[pick(s)] + h[k][t]
      BY <2>3, <2>5 DEF t
    <3> QED BY <3>4, <3>5
  <2> QED BY <2>4, <2>5
<1>11. \A s \in SUBSET S : h[n][s] = h[n - 1][s]
  <2>1. Nat \subseteq Right
    <3> HIDE DEF Right
    <3> QED BY <1>9, <1>10, Numbers
  <2>2. n - 1 \in Nat /\ n - 1 < n /\ (n - 1) + 1 = n
    <3>1. Cardinality(S) \in Nat BY FS_CardinalityType
    <3> QED BY <3>1
  <2>3. n - 1 \in Right
    <3> HIDE DEF Right, n
    <3> QED BY <2>1, <2>2
  <2>4. \A s \in SUBSET S : Cardinality(s) <= n - 1 BY <1>1, <2>2
  <2> HIDE DEF n
  <2> QED BY <2>2, <2>3, <2>4
<1> DEFINE g == h[n]
<1>12. g \in Table /\ g = More(h[n - 1])
  <2>1. n \in 0..n /\ n \in 1..n
    <3>1. Cardinality(S) \in Nat BY FS_CardinalityType
    <3> QED BY <3>1
  <2> HIDE DEF n, More, Table
  <2> QED BY <1>7, <1>8, <2>1
<1>13. ASSUME NEW s \in SUBSET S
       PROVE  g[s] = IF s = {} THEN 0 ELSE w[pick(s)] + g[s \ {pick(s)}]
  <2>1. s \ {pick(s)} \in SUBSET S OBVIOUS
  <2> HIDE DEF n, pick
  <2> QED BY <1>11, <1>12, <2>1
<1>14. Sums(g, S, w)
  <2> HIDE DEF g
  <2> QED BY <1>12, <1>13 DEF Sums
<1> HIDE DEF g
<1> QED BY <1>14

SameOn(S, f, g) == \A x \in S : f[x] = g[x]

\* A part of two sets has the same sum in both.
LEMMA SumsAgree ==
    ASSUME NEW S, IsFiniteSet(S), NEW R \in SUBSET S, NEW v, NEW w, SameOn(R, v, w),
           NEW g, NEW h, Sums(g, S, w), Sums(h, R, v)
    PROVE  SameOn(SUBSET R, g, h)
<1> DEFINE F == {T \in SUBSET R : g[T] = h[T]}
<1>1. ASSUME NEW T \in SUBSET R, \A x \in T : T \ {x} \in F PROVE T \in F
  <2>1. CASE T = {} BY <2>1 DEF Sums
  <2>2. CASE T # {}
    <3> DEFINE x == CHOOSE x \in T : TRUE
    <3>1. x \in T /\ T \ {x} \in SUBSET S BY <2>2
    <3>2. g[T \ {x}] = h[T \ {x}] /\ v[x] = w[x] BY <1>1, <3>1 DEF SameOn
    <3>3. g[T] = w[x] + g[T \ {x}] /\ h[T] = v[x] + h[T \ {x}]
      <4>1. T \in SUBSET S OBVIOUS
      <4> QED BY <2>2, <4>1 DEF Sums
    <3> QED BY <3>2, <3>3
  <2> QED BY <2>1, <2>2
<1>2. IsFiniteSet(R) BY FS_Subset
<1>3. \A T \in SUBSET R : T \in F
  <2> HIDE DEF F
  <2> QED BY <1>1, <1>2, FiniteParts
<1> QED BY <1>3 DEF SameOn

\* Any element may be the last to be added.
LEMMA SumsAny ==
    ASSUME NEW S, IsFiniteSet(S), NEW w \in [S -> Nat], NEW g, Sums(g, S, w)
    PROVE  \A T \in SUBSET S : \A x \in T : g[T] = w[x] + g[T \ {x}]
<1> DEFINE F == {T \in SUBSET S : \A x \in T : g[T] = w[x] + g[T \ {x}]}
<1>1. ASSUME NEW T \in SUBSET S, \A x \in T : T \ {x} \in F PROVE T \in F
  <2>1. SUFFICES ASSUME NEW x \in T PROVE g[T] = w[x] + g[T \ {x}] OBVIOUS
  <2> DEFINE y == CHOOSE y \in T : TRUE
  <2>2. y \in T /\ g[T] = w[y] + g[T \ {y}]
    <3>1. y \in T /\ T # {} BY <2>1
    <3> QED BY <3>1 DEF Sums
  <2> HIDE DEF y
  <2>3. CASE x = y BY <2>2, <2>3
  <2>4. CASE x # y
    <3>1. x \in T \ {y} /\ y \in T \ {x} BY <2>2, <2>4
    <3> DEFINE U == T \ {x, y}
    <3>2. (T \ {y}) \ {x} = U /\ (T \ {x}) \ {y} = U /\ U \in SUBSET S OBVIOUS
    <3>3. g[T \ {y}] = w[x] + g[U] BY <1>1, <2>2, <3>1, <3>2
    <3>4. g[T \ {x}] = w[y] + g[U] BY <1>1, <3>1, <3>2
    <3>5. w[x] \in Nat /\ w[y] \in Nat /\ g[U] \in Nat BY <2>2, <3>2 DEF Sums
    <3> HIDE DEF U
    <3> QED BY <2>2, <3>3, <3>4, <3>5
  <2> QED BY <2>3, <2>4
<1>2. \A T \in SUBSET S : T \in F
  <2> HIDE DEF F
  <2> QED BY <1>1, FiniteParts
<1> QED BY <1>2

\* A part weighs no more than the whole.
LEMMA SumsGrow ==
    ASSUME NEW S, IsFiniteSet(S), NEW w \in [S -> Nat], NEW g, Sums(g, S, w)
    PROVE  \A T \in SUBSET S : \A U \in SUBSET T : g[U] <= g[T]
<1> DEFINE F == {T \in SUBSET S : \A U \in SUBSET T : g[U] <= g[T]}
<1>1. ASSUME NEW T \in SUBSET S, \A x \in T : T \ {x} \in F PROVE T \in F
  <2>1. SUFFICES ASSUME NEW U \in SUBSET T PROVE g[U] <= g[T] OBVIOUS
  <2>2. g[U] \in Nat /\ g[T] \in Nat BY DEF Sums
  <2>3. CASE U = T BY <2>2, <2>3
  <2>4. CASE U # T
    <3>1. PICK x \in T : x \notin U BY <2>4
    <3>2. g[T] = w[x] + g[T \ {x}] BY SumsAny
    <3>3. g[U] <= g[T \ {x}] BY <1>1, <3>1
    <3>4. w[x] \in Nat /\ g[T \ {x}] \in Nat BY DEF Sums
    <3> QED BY <2>2, <3>2, <3>3, <3>4
  <2> QED BY <2>3, <2>4
<1>2. \A T \in SUBSET S : T \in F
  <2> HIDE DEF F
  <2> QED BY <1>1, FiniteParts
<1> QED BY <1>2

-----------------------------------------------------------------------------
(* Sequences of sequences *)

\* FlattenSeq has the elements of its parts and no other.
LEMMA Flattened ==
    ASSUME NEW S, NEW ss \in Seq(Seq(S))
    PROVE  /\ FlattenSeq(ss) \in Seq(S)
           /\ Range(FlattenSeq(ss)) = UNION {Range(ss[i]) : i \in 1..Len(ss)}
<1>0. Len(ss) \in Nat /\ \A i \in 1..Len(ss) : ss[i] \in Seq(S) BY LenProperties, ElementOfSeq
<1>1. CASE Len(ss) = 0
  <2>1. ss = <<>> BY <1>1, EmptySeq
  <2>2. FlattenSeq(ss) = <<>> BY <1>1, <2>1 DEF FlattenSeq
  <2>3. Range(<<>>) = {} BY RangeEquality DEF Range
  <2>4. 1..Len(ss) = {} BY <1>1
  <2>5. <<>> \in Seq(S) OBVIOUS
  <2> QED BY <2>2, <2>3, <2>4, <2>5
<1>2. CASE Len(ss) # 0
  <2> DEFINE n == Len(ss)
             Eq(g) == g = [i \in 1..n |-> IF i = 1 THEN ss[i] ELSE g[i - 1] \o ss[i]]
             flatten == CHOOSE g : Eq(g)
  <2>1. FlattenSeq(ss) = flatten[n] BY <1>2 DEF FlattenSeq
  <2>2. \E g : Eq(g)
    <3> DEFINE step == [p \in Seq(S) \X (1..n) |-> p[1] \o ss[p[2]]]
    <3>1. step \in [Seq(S) \X (1..n) -> Seq(S)] /\ <<>> \in Seq(S) BY <1>0
    <3>2. PICK h \in [0..n -> Seq(S)] : h[0] = <<>> /\ \A i \in 1..n : h[i] = step[<<h[i - 1], i>>]
      <4> DEFINE V == Seq(S)
                 base == <<>>
      <4>1. n \in Nat /\ base \in V /\ step \in [V \X (1..n) -> V] BY <1>0, <3>1
      <4> HIDE DEF V, base, step, n
      <4>2. PICK h : Solution(h, V, n, base, step) BY <4>1, Recursion
      <4> QED BY <4>2 DEF V, base, n, Solution
    <3>3. \A i \in 1..n : i - 1 \in 0..n /\ h[i - 1] \in Seq(S) /\ h[i] = h[i - 1] \o ss[i] BY <3>2
    <3> DEFINE g == [i \in 1..n |-> h[i]]
    <3>4. ASSUME NEW i \in 1..n PROVE h[i] = IF i = 1 THEN ss[i] ELSE g[i - 1] \o ss[i]
      <4>1. CASE i = 1
        <5>1. h[i] = h[i - 1] \o ss[i] BY <3>3
        <5>2. i - 1 = 0 BY <4>1
        <5> QED BY <4>1, <5>1, <5>2, <3>2, <1>0, ConcatEmptySeq
      <4>2. CASE i # 1
        <5>1. i - 1 \in 1..n BY <4>2
        <5> QED BY <5>1, <4>2, <3>3
      <4> QED BY <4>1, <4>2
    <3>5. Eq(g) BY <3>4
    <3> QED BY <3>5
  <2>3. Eq(flatten) BY <2>2
  <2> HIDE DEF flatten
  <2> DEFINE T == {k \in Nat : k \in 1..n => flatten[k] \in Seq(S) /\ Range(flatten[k]) = UNION {Range(ss[i]) : i \in 1..k}}
  <2>4. 0 \in T OBVIOUS
  <2>5. ASSUME NEW k \in Nat, k \in T PROVE k + 1 \in T
    <3>1. SUFFICES ASSUME k + 1 \in 1..n
                   PROVE  /\ flatten[k + 1] \in Seq(S)
                          /\ Range(flatten[k + 1]) = UNION {Range(ss[i]) : i \in 1..(k + 1)}
      OBVIOUS
    <3>2. CASE k = 0
      <4>1. flatten[k + 1] = ss[1] BY <2>3, <3>1, <3>2
      <4>2. 1..(k + 1) = {1} BY <3>2
      <4> QED BY <4>1, <4>2, <3>1, <3>2, <1>0
    <3>3. CASE k # 0
      <4>1. k \in 1..n /\ k + 1 # 1 /\ (k + 1) - 1 = k BY <3>1, <3>3
      <4>2. flatten[k + 1] = flatten[k] \o ss[k + 1] BY <2>3, <3>1, <4>1
      <4>3. flatten[k] \in Seq(S) /\ Range(flatten[k]) = UNION {Range(ss[i]) : i \in 1..k} BY <2>5, <4>1
      <4>4. ss[k + 1] \in Seq(S) BY <3>1, <1>0
      <4>5. flatten[k + 1] \in Seq(S) BY <4>2, <4>3, <4>4, ConcatProperties
      <4>6. Range(flatten[k + 1]) = Range(flatten[k]) \cup Range(ss[k + 1])
        BY <4>2, <4>3, <4>4, RangeConcatenation
      <4>7. 1..(k + 1) = (1..k) \cup {k + 1} OBVIOUS
      <4>8. UNION {Range(ss[i]) : i \in 1..(k + 1)} = (UNION {Range(ss[i]) : i \in 1..k}) \cup Range(ss[k + 1])
        BY <4>7
      <4> QED BY <4>3, <4>5, <4>6, <4>8
    <3> QED BY <3>2, <3>3
  <2>6. Nat \subseteq T
    <3> HIDE DEF T
    <3> QED BY <2>4, <2>5, Numbers
  <2>7. n \in T
    <3> HIDE DEF T
    <3> QED BY <2>6, <1>0
  <2>8. n \in 1..n BY <1>0, <1>2
  <2> QED BY <2>1, <2>7, <2>8
<1> QED BY <1>1, <1>2

=============================================================================
