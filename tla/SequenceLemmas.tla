--------------------------- MODULE SequenceLemmas --------------------------
(***************************************************************************)
(* What the proofs use of numbers, finite sets and sequences: induction,   *)
(* the least, the greatest and the k-th of a set of numbers, what the      *)
(* operators of the community modules return that put sets in order or     *)
(* sequences in a row, and functions that are computed step by step.       *)
(***************************************************************************)
EXTENDS Integers, FiniteSets, Sequences, SequencesExt, FiniteSetTheorems, SequenceTheorems,
        WellFoundedInduction, TLAPS

\* A set of numbers that has 0, and with each number the next, has them all.
LEMMA Induct ==
    ASSUME NEW S, 0 \in S, \A k \in Nat : k \in S => k + 1 \in S
    PROVE  Nat \subseteq S
<1> SUFFICES ASSUME Nat \ S # {} PROVE FALSE
  OBVIOUS
<1>1. PICK k \in Nat \ S : \A m \in Nat \ S : ~(<<m, k>> \in OpToRel(<, Nat))
  <2>1. Nat \ S \subseteq Nat
    OBVIOUS
  <2> QED
    BY <2>1, NatLessThanWellFounded, WFMin
<1>2. k # 0 /\ k - 1 \in Nat /\ (k - 1) + 1 = k
  OBVIOUS
<1>3. k - 1 \in S
  <2> SUFFICES ASSUME k - 1 \notin S PROVE FALSE
    OBVIOUS
  <2>1. ~(<<k - 1, k>> \in OpToRel(<, Nat))
    BY <1>1, <1>2
  <2>2. k - 1 < k /\ k \in Nat
    BY <1>2
  <2> QED
    BY <1>2, <2>1, <2>2 DEF OpToRel
<1> QED
  BY <1>2, <1>3

\* Every set of numbers has a least one.
LEMMA MinIn ==
    ASSUME NEW S, S \subseteq Nat, S # {}
    PROVE  Min(S) \in S /\ \A y \in S : Min(S) <= y
<1>1. PICK x \in S : \A y \in S : ~(<<y, x>> \in OpToRel(<, Nat))
  BY NatLessThanWellFounded, WFMin
<1>2. \A y \in S : x <= y
  <2> SUFFICES ASSUME NEW y \in S PROVE x <= y
    OBVIOUS
  <2>1. x \in Nat /\ y \in Nat
    OBVIOUS
  <2>2. ~(y < x)
    BY <1>1, <2>1 DEF OpToRel
  <2> QED
    BY <2>1, <2>2
<1> QED
  BY <1>1, <1>2 DEF Min

\* Every bounded set of numbers has a greatest one.
LEMMA MaxIn ==
    ASSUME NEW S, S \subseteq Nat, S # {}, NEW b \in Nat, \A y \in S : y <= b
    PROVE  Max(S) \in S /\ \A y \in S : y <= Max(S)
<1> DEFINE T == {b - y : y \in S}
<1>1. T \subseteq Nat /\ T # {}
  <2>1. \A y \in S : b - y \in Nat
    OBVIOUS
  <2> QED
    BY <2>1
<1>2. PICK t \in T : \A u \in T : ~(<<u, t>> \in OpToRel(<, Nat))
  BY <1>1, NatLessThanWellFounded, WFMin
<1>3. PICK x \in S : t = b - x
  BY <1>2
<1>4. \A y \in S : x >= y
  <2> SUFFICES ASSUME NEW y \in S PROVE x >= y
    OBVIOUS
  <2>1. b - y \in T /\ b - y \in Nat /\ b - x \in Nat
    BY <1>1, <1>3
  <2>2. ~(b - y < b - x)
    BY <1>2, <1>3, <2>1 DEF OpToRel
  <2> QED
    BY <2>2
<1> QED
  BY <1>4 DEF Max

\* A finite set of numbers has a k-th: counting those before each number is a
\* bijection onto 1 .. its size.
LEMMA KthExists ==
    ASSUME NEW S \in SUBSET Nat, IsFiniteSet(S), NEW k \in 1 .. Cardinality(S)
    PROVE  \E i \in S : Cardinality({j \in S : j < i}) = k - 1
<1> DEFINE Before(i) == {j \in S : j < i}
           rank == [i \in S |-> Cardinality(Before(i)) + 1]
           N == Cardinality(S)
<1>1. N \in Nat
  BY FS_CardinalityType
<1>2. ASSUME NEW i \in S
      PROVE  IsFiniteSet(Before(i)) /\ Cardinality(Before(i)) \in 0 .. N - 1
  <2>1. Before(i) \in SUBSET S /\ i \notin Before(i)
    OBVIOUS
  <2>2. /\ IsFiniteSet(Before(i)) /\ Cardinality(Before(i)) <= N
        /\ N = Cardinality(Before(i)) => S = Before(i)
    BY <2>1, FS_Subset
  <2>3. Cardinality(Before(i)) \in Nat
    BY <2>2, FS_CardinalityType
  <2> HIDE DEF Before
  <2> QED
    BY <1>1, <2>1, <2>2, <2>3
<1>3. ASSUME NEW i \in S, NEW j \in S, i < j
      PROVE  Cardinality(Before(i)) < Cardinality(Before(j))
  <2>1. Before(i) \in SUBSET Before(j) /\ i \in Before(j) /\ i \notin Before(i)
    <3>1. \A x \in S : x \in Nat
      OBVIOUS
    <3>2. \A x \in S : x < i => x < j
      BY <1>3, <3>1
    <3>3. ~(i < i)
      BY <3>1
    <3>4. Before(i) \in SUBSET Before(j)
      BY <3>2
    <3>5. i \in Before(j)
      BY <1>3
    <3> QED
      BY <3>3, <3>4, <3>5
  <2>2. IsFiniteSet(Before(j)) /\ Cardinality(Before(i)) \in Nat /\ Cardinality(Before(j)) \in Nat
    BY <1>2, <1>1
  <2> HIDE DEF Before
  <2>3. /\ Cardinality(Before(i)) <= Cardinality(Before(j))
        /\ Cardinality(Before(j)) = Cardinality(Before(i)) => Before(j) = Before(i)
    BY <2>1, <2>2, FS_Subset
  <2> QED
    BY <2>1, <2>2, <2>3
<1>4. rank \in Injection(S, 1 .. N)
  <2>1. rank \in [S -> 1 .. N]
    BY <1>1, <1>2
  <2>2. ASSUME NEW i \in S, NEW j \in S, rank[i] = rank[j] PROVE i = j
    <3>1. Cardinality(Before(i)) = Cardinality(Before(j))
      BY <1>1, <1>2, <2>2
    <3>2. ~(i < j) /\ ~(j < i)
      BY <1>1, <1>2, <1>3, <3>1
    <3> QED
      BY <3>2
  <2> QED
    BY <2>1, <2>2 DEF Injection, IsInjective
<1>5. IsFiniteSet(1 .. N) /\ Cardinality(1 .. N) = N
  BY <1>1, FS_Interval
<1>6. rank \in Surjection(S, 1 .. N)
  BY <1>4, <1>5, FS_Injection
<1>7. PICK i \in S : rank[i] = k
  BY <1>6 DEF Surjection
<1>8. Cardinality(Before(i)) = k - 1
  <2>1. rank[i] = Cardinality(Before(i)) + 1
    OBVIOUS
  <2>2. Cardinality(Before(i)) \in Nat /\ k \in Nat
    BY <1>1, <1>2
  <2> HIDE DEF Before, rank
  <2> QED
    BY <1>7, <2>1, <2>2
<1> QED
  BY <1>8

\* A finite set of numbers has a k-th, and different ones for different k.
LEMMA KthsDiffer ==
    ASSUME NEW S \in SUBSET Nat, IsFiniteSet(S),
           NEW kth, kth = [k \in 1 .. Cardinality(S) |->
                              CHOOSE i \in S : Cardinality({j \in S : j < i}) = k - 1]
    PROVE  kth \in [1 .. Cardinality(S) -> S] /\ IsInjective(kth)
<1> DEFINE N == Cardinality(S)
           Before(i) == Cardinality({j \in S : j < i})
<1>1. N \in Nat
  BY FS_CardinalityType
<1>2. ASSUME NEW k \in 1 .. N PROVE kth[k] \in S /\ Before(kth[k]) = k - 1
  <2>1. \E i \in S : Before(i) = k - 1
    BY KthExists
  <2>2. kth[k] = CHOOSE i \in S : Before(i) = k - 1
    BY Zenon
  <2> HIDE DEF Before
  <2> QED
    BY <2>1, <2>2
<1> HIDE DEF Before
<1>3. DOMAIN kth = 1 .. N
  BY Zenon
<1>4. ASSUME NEW k \in 1 .. N, NEW l \in 1 .. N, kth[k] = kth[l] PROVE k = l
  <2>1. k - 1 = l - 1
    BY <1>2, <1>4
  <2> QED
    BY <1>1, <2>1
<1>5. kth \in [1 .. N -> S]
  <2> DEFINE c(k) == CHOOSE i \in S : Before(i) = k - 1
  <2>1. kth = [k \in 1 .. N |-> c(k)]
    BY Zenon DEF Before
  <2> HIDE DEF c
  <2> QED
    BY <1>2, <2>1
<1> QED
  BY <1>3, <1>4, <1>5 DEF IsInjective

\* A sequence that repeats nothing has as many elements as places.
LEMMA InjectiveSize ==
    ASSUME NEW S, NEW s \in Seq(S), IsInjective(s)
    PROVE  IsFiniteSet(ToSet(s)) /\ Cardinality(ToSet(s)) = Len(s)
<1>1. DOMAIN s = 1 .. Len(s) /\ Len(s) \in Nat
  BY LenProperties
<1>2. IsFiniteSet(1 .. Len(s)) /\ Cardinality(1 .. Len(s)) = Len(s)
  BY <1>1, FS_Interval
<1>3. s \in [1 .. Len(s) -> ToSet(s)] /\ \A x \in ToSet(s) : \E i \in 1 .. Len(s) : s[i] = x
  BY <1>1 DEF ToSet
<1>4. s \in Surjection(1 .. Len(s), ToSet(s))
  BY <1>3 DEF Surjection
<1>5. s \in Injection(1 .. Len(s), ToSet(s))
  BY <1>1, <1>3 DEF Injection, IsInjective
<1> QED
  BY <1>2, <1>4, <1>5, FS_Surjection

\* What orders a finite set is a sequence over it.
LEMMA OrderIsSeq ==
    ASSUME NEW S, NEW T, T \subseteq S, IsFiniteSet(T), NEW s \in SetToSeqs(T)
    PROVE  s \in Seq(S)
<1>1. Cardinality(T) \in Nat
  BY FS_CardinalityType
<1>2. s \in [1 .. Cardinality(T) -> S]
  BY DEF SetToSeqs
<1> QED
  BY <1>1, <1>2, SeqDef

\* An order of a finite set has each of its elements once.
LEMMA OrderHasAll ==
    ASSUME NEW T, IsFiniteSet(T), NEW s \in SetToSeqs(T)
    PROVE  /\ s \in Seq(T) /\ Len(s) = Cardinality(T) /\ IsInjective(s)
           /\ ToSet(s) = T
<1> DEFINE n == Cardinality(T)
<1>1. n \in Nat
  BY FS_CardinalityType
<1>2. s \in [1 .. n -> T] /\ \A i, j \in 1 .. n : i # j => s[i] # s[j]
  BY DEF SetToSeqs
<1>3. s \in Seq(T) /\ Len(s) = n
  <2>1. s \in Seq(T)
    BY <1>1, <1>2, SeqDef
  <2> HIDE DEF n
  <2> QED
    BY <1>1, <1>2, <2>1, LenProperties
<1>4. s \in Injection(1 .. n, T) /\ IsInjective(s)
  BY <1>2 DEF Injection, IsInjective
<1>5. IsFiniteSet(1 .. n) /\ Cardinality(1 .. n) = n
  BY <1>1, FS_Interval
<1>6. s \in Surjection(1 .. n, T)
  BY <1>4, <1>5, FS_Injection
<1>7. ToSet(s) = T
  BY <1>2, <1>6 DEF ToSet, Surjection
<1> QED
  BY <1>3, <1>4, <1>7

\* Two sequences in a row have the elements of both.
LEMMA SetOfConcat ==
    ASSUME NEW V, NEW s \in Seq(V), NEW t \in Seq(V)
    PROVE  ToSet(s \o t) = ToSet(s) \cup ToSet(t)
<1>1. /\ DOMAIN s = 1 .. Len(s) /\ Len(s) \in Nat
      /\ DOMAIN t = 1 .. Len(t) /\ Len(t) \in Nat
      /\ DOMAIN (s \o t) = 1 .. Len(s) + Len(t)
  BY ConcatProperties, LenProperties
<1>2. \A i \in 1 .. Len(s) + Len(t) :
         (s \o t)[i] = IF i <= Len(s) THEN s[i] ELSE t[i - Len(s)]
  BY ConcatProperties
<1>3. ASSUME NEW i \in DOMAIN (s \o t) PROVE (s \o t)[i] \in ToSet(s) \cup ToSet(t)
  <2>1. CASE i <= Len(s)
    BY <1>1, <1>2, <2>1 DEF ToSet
  <2>2. CASE i > Len(s)
    <3>1. i - Len(s) \in DOMAIN t /\ (s \o t)[i] = t[i - Len(s)]
      BY <1>1, <1>2, <2>2
    <3> QED
      BY <3>1 DEF ToSet
  <2> QED
    BY <1>1, <2>1, <2>2
<1>4. ASSUME NEW i \in DOMAIN s PROVE s[i] \in ToSet(s \o t)
  <2>1. i \in DOMAIN (s \o t) /\ (s \o t)[i] = s[i]
    BY <1>1, <1>2
  <2> QED
    BY <2>1 DEF ToSet
<1>5. ASSUME NEW i \in DOMAIN t PROVE t[i] \in ToSet(s \o t)
  <2>1. Len(s) + i \in DOMAIN (s \o t) /\ (s \o t)[Len(s) + i] = t[i]
    BY <1>1, <1>2
  <2> QED
    BY <2>1 DEF ToSet
<1> QED
  BY <1>3, <1>4, <1>5 DEF ToSet

\* What holds at the start of a run and is kept by each step holds all along it.
LEMMA RunStays ==
    ASSUME NEW S, NEW n \in Nat, NEW f, f[0] \in S,
           \A k \in 1 .. n : f[k - 1] \in S => f[k] \in S
    PROVE  \A k \in 0 .. n : f[k] \in S
<1> DEFINE In == {k \in Nat : k <= n => f[k] \in S}
<1>1. 0 \in In
  OBVIOUS
<1>2. ASSUME NEW k \in Nat, k \in In PROVE k + 1 \in In
  <2> SUFFICES ASSUME k + 1 <= n PROVE f[k + 1] \in S
    OBVIOUS
  <2>1. f[k] \in S /\ k + 1 \in 1 .. n /\ (k + 1) - 1 = k
    BY <1>2
  <2> QED
    BY <2>1
<1> HIDE DEF In
<1>3. Nat \subseteq In
  BY <1>1, <1>2, Induct
<1> QED
  BY <1>3 DEF In

\* The runs of n steps from b, where G says what each step makes of the one before.
Runs(S, n, b, G) ==
    {f \in [0 .. n -> S] : f[0] = b /\ \A k \in 1 .. n : f[k] = G[<<f[k - 1], k>>]}

\* There is one.
LEMMA RunExists ==
    ASSUME NEW S, NEW n \in Nat, NEW b \in S, NEW G \in [S \X (1 .. n) -> S]
    PROVE  Runs(S, n, b, G) # {}
<1> DEFINE Run(f, m) == f[0] = b /\ \A k \in 1 .. m : f[k] = G[<<f[k - 1], k>>]
           Fits == {m \in Nat : m <= n => \E f \in [0 .. m -> S] : Run(f, m)}
<1>1. 0 \in Fits
  <2> DEFINE f == [k \in 0 .. 0 |-> b]
  <2>1. f \in [0 .. 0 -> S] /\ Run(f, 0)
    OBVIOUS
  <2> HIDE DEF f, Run
  <2> QED
    BY <2>1
<1>2. ASSUME NEW m \in Nat, m \in Fits PROVE m + 1 \in Fits
  <2> SUFFICES ASSUME m + 1 <= n PROVE \E f \in [0 .. m + 1 -> S] : Run(f, m + 1)
    <3> HIDE DEF Run
    <3> QED
      OBVIOUS
  <2>1. PICK f \in [0 .. m -> S] : Run(f, m)
    <3> HIDE DEF Run
    <3> QED
      BY <1>2
  <2> DEFINE new == G[<<f[m], m + 1>>]
             g == [k \in 0 .. m + 1 |-> IF k <= m THEN f[k] ELSE new]
  <2>2. new \in S
    <3>1. <<f[m], m + 1>> \in S \X (1 .. n)
      BY <2>1
    <3> QED
      BY <3>1
  <2>3. /\ g \in [0 .. m + 1 -> S] /\ g[m + 1] = new /\ \A k \in 0 .. m : g[k] = f[k]
    <3> HIDE DEF new
    <3> QED
      BY <2>2
  <2> HIDE DEF g
  <2>4. ASSUME NEW k \in 1 .. m + 1 PROVE g[k] = G[<<g[k - 1], k>>]
    <3>1. CASE k <= m
      BY <2>1, <2>3, <3>1
    <3>2. CASE k = m + 1
      BY <2>3, <3>2
    <3> QED
      BY <3>1, <3>2
  <2>5. g[0] = b
    BY <2>1, <2>3
  <2> QED
    BY <2>3, <2>4, <2>5
<1> HIDE DEF Fits
<1>3. n \in Fits
  BY <1>1, <1>2, Induct
<1>4. PICK f \in [0 .. n -> S] : Run(f, n)
  <2> HIDE DEF Run
  <2> QED
    BY <1>3 DEF Fits
<1> QED
  BY <1>4 DEF Runs

\* FlattenSeq goes from the empty sequence through all of them, adding one at a time.
LEMMA FlattenSteps ==
    ASSUME NEW V, NEW s \in Seq(Seq(V))
    PROVE  \E f \in [0 .. Len(s) -> Seq(V)] :
              /\ f[0] = <<>> /\ \A k \in 1 .. Len(s) : f[k] = f[k - 1] \o s[k]
              /\ FlattenSeq(s) = f[Len(s)]
<1> DEFINE n == Len(s)
           G == [x \in Seq(V) \X (1 .. n) |-> x[1] \o s[x[2]]]
<1>1. n \in Nat /\ \A i \in 1 .. n : s[i] \in Seq(V)
  BY LenProperties, ElementOfSeq
<1>2. <<>> \in Seq(V)
  BY EmptySeq
<1>3. G \in [Seq(V) \X (1 .. n) -> Seq(V)]
  BY <1>1, ConcatProperties
<1> HIDE DEF n
<1>4. PICK f \in [0 .. n -> Seq(V)] : f[0] = <<>> /\ \A k \in 1 .. n : f[k] = G[<<f[k - 1], k>>]
  <2> HIDE DEF G
  <2>1. Runs(Seq(V), n, <<>>, G) # {}
    BY <1>1, <1>2, <1>3, RunExists
  <2> QED
    BY <2>1 DEF Runs
<1>5. ASSUME NEW k \in 1 .. n PROVE f[k] = f[k - 1] \o s[k]
  <2>1. f[k - 1] \in Seq(V)
    BY <1>1
  <2>2. G[<<f[k - 1], k>>] = f[k - 1] \o s[k]
    BY <2>1
  <2> QED
    BY <1>4, <2>2
<1> HIDE DEF G
<1>6. FlattenSeq(s) = f[n]
  <2>1. CASE n = 0
    <3>1. FlattenSeq(s) = s /\ s = <<>>
      BY <2>1, EmptySeq DEF FlattenSeq, n
    <3> QED
      BY <1>4, <2>1, <3>1
  <2>2. CASE n > 0
    <3> DEFINE Step(g, i) == IF i = 1 THEN s[i] ELSE g[i - 1] \o s[i]
               flatten == CHOOSE g : g = [i \in 1 .. n |-> Step(g, i)]
               from1 == [i \in 1 .. n |-> f[i]]
    <3>1. ASSUME NEW i \in 1 .. n PROVE from1[i] = Step(from1, i)
      <4>1. CASE i = 1
        <5>1. f[1] = <<>> \o s[1]
          <6>1. 1 \in 1 .. n /\ 1 - 1 = 0
            BY <4>1
          <6> QED
            BY <1>4, <1>5, <6>1
        <5>2. <<>> \o s[1] = s[1]
          BY <1>1, <4>1, ConcatEmptySeq
        <5> QED
          BY <4>1, <5>1, <5>2
      <4>2. CASE i # 1
        <5>1. from1[i] = f[i] /\ from1[i - 1] = f[i - 1]
          BY <1>1, <4>2
        <5> HIDE DEF from1
        <5> QED
          BY <1>5, <4>2, <5>1
      <4> QED
        BY <4>1, <4>2
    <3>2. from1 = [i \in 1 .. n |-> Step(from1, i)]
      <4>1. DOMAIN from1 = 1 .. n /\ from1 = [i \in 1 .. n |-> from1[i]]
        OBVIOUS
      <4> HIDE DEF from1, Step
      <4> QED
        BY <3>1, <4>1
    <3>3. flatten = [i \in 1 .. n |-> Step(flatten, i)]
      <4> HIDE DEF from1, Step
      <4> QED
        BY <3>2
    <3>4. FlattenSeq(s) = flatten[n]
      <4>1. Len(s) # 0
        BY <1>1, <2>2 DEF n
      <4> QED
        BY <4>1, Zenon DEF FlattenSeq, n
    <3> HIDE DEF flatten, from1
    <3>5. \A i \in 1 .. n : flatten[i] = Step(flatten, i)
      BY <3>3
    <3> DEFINE Same == {k \in Nat : k \in 1 .. n => flatten[k] = f[k]}
    <3>6. 0 \in Same
      OBVIOUS
    <3>7. ASSUME NEW k \in Nat, k \in Same PROVE k + 1 \in Same
      <4> SUFFICES ASSUME k + 1 \in 1 .. n PROVE flatten[k + 1] = f[k + 1]
        OBVIOUS
      <4>1. CASE k = 0
        <5>1. flatten[1] = s[1] /\ f[1] = <<>> \o s[1]
          <6>1. 1 \in 1 .. n /\ 1 - 1 = 0
            BY <4>1
          <6> QED
            BY <1>4, <1>5, <3>5, <6>1
        <5>2. <<>> \o s[1] = s[1]
          BY <1>1, <4>1, ConcatEmptySeq
        <5> QED
          BY <4>1, <5>1, <5>2
      <4>2. CASE k > 0
        <5>1. k + 1 # 1 /\ (k + 1) - 1 = k /\ k \in 1 .. n
          BY <1>1, <4>2
        <5>2. flatten[k + 1] = flatten[k] \o s[k + 1]
          BY <3>5, <5>1, Zenon
        <5>3. f[k + 1] = f[k] \o s[k + 1]
          BY <1>5, <5>1
        <5> QED
          BY <3>7, <5>1, <5>2, <5>3
      <4> QED
        BY <4>1, <4>2
    <3> HIDE DEF Same
    <3>8. n \in Same
      BY <1>1, <3>6, <3>7, Induct
    <3> QED
      BY <1>1, <2>2, <3>4, <3>8 DEF Same
  <2> QED
    BY <1>1, <2>1, <2>2
<1> QED
  BY <1>4, <1>5, <1>6 DEF n

\* FlattenSeq puts sequences one after the other and loses no element.
LEMMA Flattened ==
    ASSUME NEW V, NEW s \in Seq(Seq(V))
    PROVE  /\ FlattenSeq(s) \in Seq(V)
           /\ ToSet(FlattenSeq(s)) = UNION {ToSet(s[i]) : i \in 1 .. Len(s)}
<1> DEFINE n == Len(s)
           In(k) == UNION {ToSet(s[i]) : i \in 1 .. k}
<1>1. n \in Nat /\ \A i \in 1 .. n : s[i] \in Seq(V)
  BY LenProperties, ElementOfSeq
<1>2. PICK f \in [0 .. n -> Seq(V)] :
          /\ f[0] = <<>> /\ \A k \in 1 .. n : f[k] = f[k - 1] \o s[k]
          /\ FlattenSeq(s) = f[n]
  BY FlattenSteps
<1> DEFINE S == {k \in Nat : k <= n => ToSet(f[k]) = In(k)}
<1>3. 0 \in S
  <2>1. ToSet(<<>>) = {} /\ In(0) = {}
    BY DEF ToSet
  <2> HIDE DEF In
  <2> QED
    BY <1>2, <2>1
<1>4. ASSUME NEW k \in Nat, k \in S PROVE k + 1 \in S
  <2> SUFFICES ASSUME k + 1 <= n PROVE ToSet(f[k + 1]) = In(k + 1)
    <3> HIDE DEF In
    <3> QED
      OBVIOUS
  <2>1. k + 1 \in 1 .. n /\ (k + 1) - 1 = k /\ k \in 0 .. n
    OBVIOUS
  <2>2. f[k + 1] = f[k] \o s[k + 1] /\ f[k] \in Seq(V) /\ s[k + 1] \in Seq(V)
    BY <1>1, <1>2, <2>1
  <2>3. ToSet(f[k + 1]) = ToSet(f[k]) \cup ToSet(s[k + 1])
    BY <2>2, SetOfConcat
  <2>4. In(k + 1) = In(k) \cup ToSet(s[k + 1])
    <3>1. 1 .. k + 1 = (1 .. k) \cup {k + 1}
      OBVIOUS
    <3> QED
      BY <3>1
  <2> HIDE DEF In
  <2> QED
    BY <1>4, <2>3, <2>4
<1> HIDE DEF S, In
<1>5. n \in S
  BY <1>1, <1>3, <1>4, Induct
<1> QED
  BY <1>1, <1>2, <1>5 DEF S, In
=============================================================================
