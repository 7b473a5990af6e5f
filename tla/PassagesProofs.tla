--------------------------- MODULE PassagesProofs ---------------------------
(***************************************************************************)
(* No passage is longer than the model can read, and nothing is lost on    *)
(* the way: the sizes of texts, what each way of cutting one leaves, what  *)
(* a unit's passages are made of and what they keep of it, what is read of *)
(* a file's blocks, and that every step of the work between the commits    *)
(* keeps the documents, the passages and the blocks so.                    *)
(***************************************************************************)
EXTENDS Passages, SequenceLemmas

(***************************************************************************)
(* Sizes                                                                   *)
(***************************************************************************)

\* Words, and texts, as an extractor reads them or the chunker cuts them.
Word ==
    {w \in [at : Nat \X Nat, part : Nat, kind : Kinds, says : SUBSET STRING, size : Nat,
            rate : Rates, filled : Nat, then : Breaks, uneven : BOOLEAN] :
        w.kind = "heading" => w.says # {}}

Text == Seq(Word)

\* The text has been cut out of one that is not Balanced.
Uneven(t) == \E w \in ToSet(t) : w.uneven

\* The texts that TokenBudget.fits, and what was cut by an average that does not.
Fitting == {t \in Text : measure(t) <= maximum \/ Uneven(t)}

\* A text with its tokens for sizes.
Weighed(t) == [i \in DOMAIN t |-> [t[i] EXCEPT !.size = @ * t[i].rate]]

\* The lesser of two numbers.
LEMMA MinOfTwo ==
    ASSUME NEW a \in Int, NEW b \in Int
    PROVE  Min({a, b}) = IF a <= b THEN a ELSE b
BY DEF Min

\* The greater of two numbers.
LEMMA MaxOfTwo ==
    ASSUME NEW a \in Int, NEW b \in Int
    PROVE  Max({a, b}) = IF a <= b THEN b ELSE a
BY DEF Max

\* The sizes the settings give, in order.
LEMMA Settings ==
    /\ maximum \in Nat /\ maximum >= 1 /\ maximum <= max_sequence_tokens
    /\ target \in Nat /\ target <= maximum
    /\ SpecialTokens \in Nat /\ SpecialTokens >= 1 /\ 10 * SpecialTokens <= maximum
    /\ max_sequence_tokens \in Nat
BY ChunkerAssumption, MinOfTwo DEF maximum, target

\* A text is made of words, and a word has a size.
LEMMA WordIn ==
    ASSUME NEW t \in Text, NEW i \in 1 .. Len(t)
    PROVE  t[i] \in Word /\ t[i].size \in Nat /\ t[i].filled \in Nat
<1>1. t[i] \in Word
  BY ElementOfSeq DEF Text
<1>2. t[i].size \in Nat /\ t[i].filled \in Nat
  BY <1>1 DEF Word
<1> QED
  BY <1>1, <1>2

\* A text's size is what a running count of its words' sizes ends with.
LEMMA SizeIs ==
    ASSUME NEW t \in Text, NEW f, f = [k \in 0 .. Len(t) |-> f[k]], f[0] = 0,
           \A k \in 1 .. Len(t) : f[k] = f[k - 1] + t[k].size
    PROVE  SizeOf(t) = f[Len(t)]
<1> DEFINE n == Len(t)
           Step(g, k) == IF k = 0 THEN 0 ELSE g[k - 1] + t[k].size
           sum == CHOOSE g : g = [k \in 0 .. n |-> Step(g, k)]
<1>1. n \in Nat
  BY DEF Text
<1>2. SizeOf(t) = sum[n]
  BY Zenon DEF SizeOf
<1> HIDE DEF n
<1>3. f = [k \in 0 .. n |-> Step(f, k)]
  <2>1. ASSUME NEW k \in 0 .. n PROVE f[k] = Step(f, k)
    <3>1. CASE k = 0
      BY <3>1
    <3>2. CASE k # 0
      <4>1. k \in 1 .. n
        BY <1>1, <3>2
      <4>2. f[k] = f[k - 1] + t[k].size
        BY <4>1 DEF n
      <4> QED
        BY <3>2, <4>2, Zenon
    <3> QED
      BY <3>1, <3>2
  <2> HIDE DEF Step
  <2>2. f = [k \in 0 .. n |-> f[k]]
    BY DEF n
  <2> QED
    BY <2>1, <2>2
<1>4. sum = [k \in 0 .. n |-> Step(sum, k)]
  <2> HIDE DEF Step
  <2> QED
    BY <1>3
<1> HIDE DEF sum
<1>5. sum[0] = 0 /\ \A k \in 1 .. n : sum[k] = sum[k - 1] + t[k].size
  <2>1. 0 \in 0 .. n /\ \A k \in 1 .. n : k \in 0 .. n /\ k # 0
    BY <1>1
  <2>2. \A k \in 0 .. n : sum[k] = Step(sum, k)
    <3> HIDE DEF Step
    <3> QED
      BY <1>4
  <2> QED
    BY <2>1, <2>2, Zenon
<1> DEFINE S == {k \in Nat : k <= n => sum[k] = f[k]}
<1>6. 0 \in S
  BY <1>5
<1>7. ASSUME NEW k \in Nat, k \in S PROVE k + 1 \in S
  <2> SUFFICES ASSUME k + 1 <= n PROVE sum[k + 1] = f[k + 1]
    OBVIOUS
  <2>1. k + 1 \in 1 .. n /\ (k + 1) - 1 = k /\ sum[k] = f[k]
    BY <1>1, <1>7
  <2> QED
    BY <1>5, <2>1 DEF n
<1> HIDE DEF S
<1>8. n \in S
  BY <1>1, <1>6, <1>7, Induct
<1> QED
  BY <1>1, <1>2, <1>8 DEF S, n

\* There is such a count, and it never goes down.
LEMMA Counted ==
    ASSUME NEW t \in Text
    PROVE  \E f \in [0 .. Len(t) -> Nat] :
              /\ f[0] = 0 /\ \A k \in 1 .. Len(t) : f[k] = f[k - 1] + t[k].size
              /\ SizeOf(t) = f[Len(t)]
<1> DEFINE n == Len(t)
           G == [x \in Nat \X (1 .. n) |-> x[1] + t[x[2]].size]
<1>1. n \in Nat /\ \A k \in 1 .. n : t[k].size \in Nat
  BY WordIn, LenProperties DEF Text
<1> HIDE DEF n
<1>2. G \in [Nat \X (1 .. n) -> Nat]
  BY <1>1
<1>3. PICK f \in [0 .. n -> Nat] : f[0] = 0 /\ \A k \in 1 .. n : f[k] = G[<<f[k - 1], k>>]
  <2> HIDE DEF G
  <2>1. Runs(Nat, n, 0, G) # {}
    BY <1>1, <1>2, RunExists
  <2> QED
    BY <2>1 DEF Runs
<1>4. ASSUME NEW k \in 1 .. n PROVE f[k] = f[k - 1] + t[k].size
  <2>1. <<f[k - 1], k>> \in Nat \X (1 .. n)
    BY <1>1
  <2>2. f[k] = G[<<f[k - 1], k>>]
    BY <1>3
  <2> QED
    BY <2>1, <2>2
<1>5. SizeOf(t) = f[n]
  <2>1. f = [k \in 0 .. n |-> f[k]]
    OBVIOUS
  <2> QED
    BY <1>3, <1>4, <2>1, SizeIs DEF n
<1> QED
  BY <1>3, <1>4, <1>5 DEF n

\* The product of two numbers is one.
LEMMA ProductType ==
    ASSUME NEW a \in Nat, NEW b \in Nat
    PROVE  a * b \in Nat
OBVIOUS

\* A text with its tokens for sizes is a text.
LEMMA WeighedText ==
    ASSUME NEW t \in Text
    PROVE  /\ Weighed(t) \in Text /\ Len(Weighed(t)) = Len(t)
           /\ \A i \in 1 .. Len(t) : t[i].rate \in Nat /\ Weighed(t)[i].size = t[i].size * t[i].rate
           /\ TokensOf(t) = SizeOf(Weighed(t))
<1>1. Len(t) \in Nat /\ DOMAIN t = 1 .. Len(t)
  BY LenProperties DEF Text
<1> DEFINE tokens(i) == [t[i] EXCEPT !.size = @ * t[i].rate]
<1>2. ASSUME NEW i \in 1 .. Len(t)
      PROVE  /\ tokens(i) \in Word /\ tokens(i).size = t[i].size * t[i].rate
             /\ t[i].rate \in Nat
  <2> DEFINE n == t[i].size * t[i].rate
  <2>1. t[i] \in Word /\ t[i].size \in Nat /\ t[i].rate \in Rates
    BY WordIn DEF Word
  <2>2. t[i].rate \in Nat
    BY <2>1, ChunkerAssumption
  <2>3. n \in Nat
    BY <2>1, <2>2, ProductType
  <2>4. tokens(i) = [t[i] EXCEPT !.size = n]
    BY Zenon
  <2> HIDE DEF n, tokens
  <2>5. [t[i] EXCEPT !.size = n] \in Word /\ [t[i] EXCEPT !.size = n].size = n
    BY <2>1, <2>3 DEF Word
  <2> QED
    BY <2>2, <2>4, <2>5 DEF n
<1>3. Weighed(t) = [i \in 1 .. Len(t) |-> tokens(i)]
  BY <1>1, Zenon DEF Weighed
<1> HIDE DEF tokens
<1>4. [i \in 1 .. Len(t) |-> tokens(i)] \in Seq(Word)
  BY <1>1, <1>2
<1>5. TokensOf(t) = SizeOf(Weighed(t))
  BY Zenon DEF TokensOf, Weighed
<1>6. Weighed(t) \in Text
  BY <1>3, <1>4 DEF Text
<1>7. Len(Weighed(t)) = Len(t) /\ \A i \in 1 .. Len(t) : Weighed(t)[i] = tokens(i)
  BY <1>1, <1>3
<1>8. \A i \in 1 .. Len(t) : t[i].rate \in Nat /\ Weighed(t)[i].size = t[i].size * t[i].rate
  BY <1>2, <1>7
<1> QED
  BY <1>5, <1>6, <1>7, <1>8

\* A size is a number.
LEMMA SizeType ==
    ASSUME NEW t \in Text
    PROVE  /\ SizeOf(t) \in Nat /\ TokensOf(t) \in Nat
           /\ measure(t) \in Nat /\ measure(t) = SpecialTokens + TokensOf(t)
<1>1. ASSUME NEW u \in Text PROVE SizeOf(u) \in Nat
  <2>1. PICK f \in [0 .. Len(u) -> Nat] : SizeOf(u) = f[Len(u)]
    BY Counted, Zenon
  <2> QED
    BY <2>1, LenProperties DEF Text
<1>2. TokensOf(t) \in Nat
  BY <1>1, WeighedText
<1> QED
  BY <1>1, <1>2, Settings DEF measure

\* Texts whose words have the same sizes are as long.
LEMMA SameSizes ==
    ASSUME NEW s \in Text, NEW t \in Text, Len(s) = Len(t),
           \A k \in 1 .. Len(t) : s[k].size = t[k].size
    PROVE  SizeOf(s) = SizeOf(t)
<1>1. PICK f \in [0 .. Len(t) -> Nat] :
         /\ f[0] = 0 /\ \A k \in 1 .. Len(t) : f[k] = f[k - 1] + t[k].size
         /\ SizeOf(t) = f[Len(t)]
  BY Counted
<1>2. f = [k \in 0 .. Len(s) |-> f[k]] /\ \A k \in 1 .. Len(s) : f[k] = f[k - 1] + s[k].size
  BY <1>1
<1>3. SizeOf(s) = f[Len(s)]
  BY <1>1, <1>2, SizeIs
<1> QED
  BY <1>1, <1>3

\* The count at each place is the size of the text up to there.
LEMMA PrefixSize ==
    ASSUME NEW t \in Text, NEW f \in [0 .. Len(t) -> Nat], f[0] = 0,
           \A k \in 1 .. Len(t) : f[k] = f[k - 1] + t[k].size,
           NEW i \in 0 .. Len(t)
    PROVE  SizeOf(SubSeq(t, 1, i)) = f[i]
<1> DEFINE u == SubSeq(t, 1, i)
           g == [k \in 0 .. i |-> f[k]]
<1>1. u \in Text /\ Len(u) = i /\ \A k \in 1 .. i : u[k] = t[k]
  BY SubSeqProperties DEF Text
<1> HIDE DEF u
<1>2. g = [k \in 0 .. Len(u) |-> g[k]] /\ g[0] = 0
  BY <1>1
<1>3. \A k \in 1 .. Len(u) : g[k] = g[k - 1] + u[k].size
  BY <1>1
<1>4. SizeOf(u) = g[Len(u)]
  BY <1>1, <1>2, <1>3, SizeIs
<1> QED
  BY <1>1, <1>4 DEF u

\* Two texts one after the other are as long as both.
LEMMA SizeOfConcat ==
    ASSUME NEW s \in Text, NEW t \in Text
    PROVE  s \o t \in Text /\ SizeOf(s \o t) = SizeOf(s) + SizeOf(t)
<1> DEFINE m == Len(s)
           n == Len(t)
           u == s \o t
<1>1. m \in Nat /\ n \in Nat /\ u \in Text /\ Len(u) = m + n
  BY ConcatProperties, LenProperties DEF Text
<1>2. /\ \A k \in 1 .. m : u[k] = s[k]
      /\ \A k \in m + 1 .. m + n : u[k] = t[k - m]
  BY DEF Text
<1>3. PICK f \in [0 .. m -> Nat] : /\ f[0] = 0 /\ \A k \in 1 .. m : f[k] = f[k - 1] + s[k].size
                                  /\ SizeOf(s) = f[m]
  BY Counted
<1>4. PICK g \in [0 .. n -> Nat] : /\ g[0] = 0 /\ \A k \in 1 .. n : g[k] = g[k - 1] + t[k].size
                                  /\ SizeOf(t) = g[n]
  BY Counted
<1> DEFINE h == [k \in 0 .. m + n |-> IF k <= m THEN f[k] ELSE f[m] + g[k - m]]
<1> HIDE DEF m, n, u
<1>5. h[0] = 0 /\ h[m + n] = f[m] + g[n]
  BY <1>1, <1>3, <1>4
<1>6. ASSUME NEW k \in 1 .. m + n PROVE h[k] = h[k - 1] + u[k].size
  <2>1. CASE k <= m
    <3>1. k \in 1 .. m /\ k - 1 \in 0 .. m + n /\ k \in 0 .. m + n /\ k - 1 <= m
      BY <1>1, <2>1
    <3>2. h[k] = f[k] /\ h[k - 1] = f[k - 1]
      BY <2>1, <3>1
    <3> HIDE DEF h
    <3> QED
      BY <1>2, <1>3, <3>1, <3>2
  <2>2. CASE k = m + 1
    <3>1. h[k] = f[m] + g[1] /\ h[k - 1] = f[m] /\ u[k] = t[1] /\ 1 \in 1 .. n
      BY <1>1, <1>2, <2>2
    <3>2. g[1] = g[0] + t[1].size /\ g[0] = 0
      BY <1>4, <3>1
    <3>3. g[1] \in Nat
      BY <1>1, <3>1
    <3>4. t[1].size \in Nat
      BY <3>1 DEF Text, Word, n
    <3>5. g[1] = t[1].size
      BY <3>2, <3>4
    <3> HIDE DEF h
    <3> QED
      BY <3>1, <3>5, Zenon
  <2>3. CASE k > m + 1
    <3>1. /\ h[k] = f[m] + g[k - m] /\ h[k - 1] = f[m] + g[k - m - 1] /\ u[k] = t[k - m]
          /\ k - m \in 1 .. n
      BY <1>1, <1>2, <2>3
    <3>2. g[k - m] = g[k - m - 1] + t[k - m].size
      BY <1>4, <3>1
    <3>3. f[m] \in Nat /\ g[k - m] \in Nat /\ g[k - m - 1] \in Nat
      BY <1>1, <1>3, <3>1
    <3>4. t[k - m].size \in Nat
      BY <3>1, WordIn DEF n
    <3>5. f[m] + (g[k - m - 1] + t[k - m].size) = (f[m] + g[k - m - 1]) + t[k - m].size
      <4>1. \A a, b, c \in Nat : a + (b + c) = (a + b) + c
        OBVIOUS
      <4> QED
        BY <3>3, <3>4, <4>1, Zenon
    <3> HIDE DEF h
    <3>6. h[k] = f[m] + (g[k - m - 1] + t[k - m].size)
      BY <3>1, <3>2, Zenon
    <3>7. h[k - 1] + u[k].size = (f[m] + g[k - m - 1]) + t[k - m].size
      BY <3>1, Zenon
    <3> QED
      BY <3>5, <3>6, <3>7, Zenon
  <2> QED
    BY <1>1, <2>1, <2>2, <2>3
<1>7. h = [k \in 0 .. Len(u) |-> h[k]]
  BY <1>1
<1>8. SizeOf(u) = h[Len(u)]
  <2> HIDE DEF h
  <2> QED
    BY <1>1, <1>5, <1>6, <1>7, SizeIs
<1> QED
  BY <1>1, <1>3, <1>4, <1>5, <1>8 DEF u

\* The empty text is of no size and fits.
LEMMA NoText == <<>> \in Text /\ Len(<<>>) = 0 /\ SizeOf(<<>>) = 0 /\ <<>> \in Fitting
<1>1. <<>> \in Text /\ Len(<<>>) = 0
  BY DEF Text
<1>2. \A t \in Text : Len(t) = 0 => SizeOf(t) = 0
  BY Counted
<1>3. TokensOf(<<>>) = 0
  <2> DEFINE none == Weighed(<<>>)
  <2>1. none \in Text /\ Len(none) = 0 /\ TokensOf(<<>>) = SizeOf(none)
    BY <1>1, WeighedText
  <2> HIDE DEF none
  <2> QED
    BY <1>2, <2>1
<1> QED
  BY <1>1, <1>2, <1>3, Settings DEF Fitting, measure

\* A text of one word is as long as the word.
LEMMA SizeOfOne ==
    ASSUME NEW w \in Word
    PROVE  <<w>> \in Text /\ SizeOf(<<w>>) = w.size
<1> DEFINE t == <<w>>
           f == [k \in 0 .. 1 |-> IF k = 0 THEN 0 ELSE w.size]
<1>1. t \in Text /\ Len(t) = 1 /\ t[1] = w /\ w.size \in Nat
  BY DEF Text, Word
<1> HIDE DEF t
<1>2. f[0] = 0 /\ f[1] = w.size
  OBVIOUS
<1>3. \A k \in 1 .. Len(t) : f[k] = f[k - 1] + t[k].size
  <2> SUFFICES f[1] = f[0] + w.size
    BY <1>1
  <2> QED
    BY <1>1, <1>2
<1>4. SizeOf(t) = f[Len(t)]
  BY <1>1, <1>2, <1>3, SizeIs
<1> QED
  BY <1>1, <1>2, <1>4 DEF t

\* A word that is cut is a word.
LEMMA CutWord ==
    ASSUME NEW w \in Word, NEW n \in Nat
    PROVE  [w EXCEPT !.size = n] \in Word /\ [w EXCEPT !.size = n].size = n
BY DEF Word

\* How much of a text that ends at p lies between two places.
Within(p, from, to) == IF p <= from THEN 0 ELSE IF p <= to THEN p - from ELSE to - from

\* A slice is no longer than the distance between its ends.
LEMMA SliceSize ==
    ASSUME NEW t \in Text, NEW from \in Nat, NEW to \in Nat, from <= to
    PROVE  Slice(t, from, to) \in Text /\ SizeOf(Slice(t, from, to)) <= to - from
<1> DEFINE n == Len(t)
           start(i) == SizeOf(SubSeq(t, 1, i - 1))
           left(i) == Min({start(i) + t[i].size, to}) - Max({start(i), from})
           cut(i) == [t[i] EXCEPT !.size = Min({start(i) + @, to}) - Max({start(i), from})]
           kept(i) == IF cut(i).size > 0 THEN <<cut(i)>> ELSE <<>>
           pieces == [i \in 1 .. n |-> kept(i)]
<1>1. n \in Nat /\ DOMAIN t = 1 .. n
  BY DEF Text
<1>2. Slice(t, from, to) = FlattenSeq(pieces)
  <2> DEFINE list == [i \in DOMAIN t |-> cut(i)]
             shown == [i \in DOMAIN list |-> IF list[i].size > 0 THEN <<list[i]>> ELSE <<>>]
  <2>1. Slice(t, from, to) = FlattenSeq(shown)
    BY Zenon DEF Slice, Only
  <2>2. shown = pieces
    <3>1. DOMAIN list = 1 .. n /\ \A i \in 1 .. n : list[i] = cut(i)
      <4> HIDE DEF cut
      <4> QED
        BY <1>1
    <3> HIDE DEF list, cut
    <3> QED
      BY <3>1
  <2> QED
    BY <2>1, <2>2
<1>3. PICK P \in [0 .. n -> Nat] :
         /\ P[0] = 0 /\ \A k \in 1 .. n : P[k] = P[k - 1] + t[k].size
         /\ SizeOf(t) = P[n]
  BY Counted
<1> HIDE DEF n
<1>4. ASSUME NEW i \in 1 .. n
      PROVE  start(i) = P[i - 1] /\ P[i - 1] \in Nat /\ P[i] \in Nat /\ P[i] = P[i - 1] + t[i].size
             /\ t[i] \in Word /\ t[i].size \in Nat
  <2>1. i - 1 \in 0 .. n /\ i \in 0 .. n
    BY <1>1
  <2>2. SizeOf(SubSeq(t, 1, i - 1)) = P[i - 1]
    BY <1>3, <2>1, PrefixSize DEF n
  <2> QED
    BY <1>3, <2>1, <2>2, WordIn DEF n
<1> HIDE DEF start
<1>5. ASSUME NEW i \in 1 .. n
      PROVE  /\ cut(i) = [t[i] EXCEPT !.size = left(i)] /\ cut(i).size = left(i)
             /\ left(i) \in Int
             /\ Within(P[i - 1], from, to) + left(i) <= Within(P[i], from, to)
                \/ left(i) <= 0
             /\ Within(P[i - 1], from, to) <= Within(P[i], from, to)
  <2>1. cut(i) = [t[i] EXCEPT !.size = left(i)]
    BY Zenon
  <2>2. [t[i] EXCEPT !.size = left(i)].size = left(i)
    <3> HIDE DEF left
    <3> QED
      BY <1>4 DEF Word
  <2>3. left(i) = (IF P[i] <= to THEN P[i] ELSE to) - (IF P[i - 1] <= from THEN from ELSE P[i - 1])
    <3>1. Min({P[i], to}) = IF P[i] <= to THEN P[i] ELSE to
      BY <1>4, MinOfTwo
    <3>2. Max({P[i - 1], from}) = IF P[i - 1] <= from THEN from ELSE P[i - 1]
      BY <1>4, MaxOfTwo
    <3> QED
      BY <1>4, <3>1, <3>2, Zenon
  <2>4. P[i - 1] <= P[i]
    BY <1>4
  <2> HIDE DEF left, cut
  <2> DEFINE a == P[i - 1]
             b == P[i]
  <2>5. a \in Nat /\ b \in Nat /\ a <= b
    BY <1>4, <2>4
  <2> HIDE DEF a, b
  <2>6. Within(a, from, to) <= Within(b, from, to)
    BY <2>5 DEF Within
  <2> DEFINE l == (IF b <= to THEN b ELSE to) - (IF a <= from THEN from ELSE a)
  <2>7. l \in Int /\ (l <= 0 \/ Within(a, from, to) + l <= Within(b, from, to))
    BY <2>5 DEF Within
  <2>8. left(i) = l
    BY <2>3 DEF a, b
  <2> HIDE DEF l
  <2> QED
    BY <2>1, <2>2, <2>6, <2>7, <2>8 DEF a, b
<1> HIDE DEF left
<1>6. ASSUME NEW i \in 1 .. n
      PROVE  /\ kept(i) \in Text
             /\ Within(P[i - 1], from, to) + SizeOf(kept(i)) <= Within(P[i], from, to)
  <2>1. CASE left(i) > 0
    <3>1. kept(i) = <<cut(i)>>
      <4> HIDE DEF cut
      <4> QED
        BY <1>5, <2>1
    <3>2. left(i) \in Nat
      <4>1. left(i) \in Int
        BY <1>5, Zenon
      <4> QED
        BY <2>1, <4>1
    <3>3. cut(i) \in Word /\ cut(i).size = left(i)
      <4>1. [t[i] EXCEPT !.size = left(i)] \in Word
        BY <1>4, <3>2, CutWord
      <4> HIDE DEF cut
      <4> QED
        BY <1>5, <4>1
    <3>4. <<cut(i)>> \in Text /\ SizeOf(<<cut(i)>>) = left(i)
      <4> HIDE DEF cut
      <4> QED
        BY <3>3, SizeOfOne
    <3> HIDE DEF cut, kept
    <3> QED
      BY <1>5, <2>1, <3>1, <3>4
  <2>2. CASE ~(left(i) > 0)
    <3>1. kept(i) = <<>>
      <4> HIDE DEF cut
      <4> QED
        BY <1>5, <2>2
    <3>2. Within(P[i - 1], from, to) \in Nat
      BY <1>4 DEF Within
    <3> HIDE DEF cut, kept
    <3> QED
      BY <1>5, <3>1, <3>2, NoText
  <2> QED
    BY <2>1, <2>2
<1> HIDE DEF kept
<1>7. pieces \in Seq(Text) /\ Len(pieces) = n /\ \A i \in 1 .. n : pieces[i] = kept(i)
  BY <1>1, <1>6
<1> HIDE DEF pieces
<1>8. PICK f \in [0 .. n -> Text] :
         /\ f[0] = <<>> /\ \A k \in 1 .. n : f[k] = f[k - 1] \o pieces[k]
         /\ FlattenSeq(pieces) = f[n]
  <2>1. pieces \in Seq(Seq(Word))
    BY <1>7 DEF Text
  <2> QED
    BY <1>7, <2>1, FlattenSteps DEF Text
<1> DEFINE S == {k \in Nat : k <= n => SizeOf(f[k]) <= Within(P[k], from, to)}
<1>9. 0 \in S
  BY <1>3, <1>8, NoText DEF Within
<1>10. ASSUME NEW k \in Nat, k \in S PROVE k + 1 \in S
  <2> SUFFICES ASSUME k + 1 <= n PROVE SizeOf(f[k + 1]) <= Within(P[k + 1], from, to)
    OBVIOUS
  <2>1. k + 1 \in 1 .. n /\ (k + 1) - 1 = k /\ k \in 0 .. n /\ k <= n
    BY <1>1
  <2>2. f[k + 1] = f[k] \o kept(k + 1) /\ f[k] \in Text /\ kept(k + 1) \in Text
    BY <1>6, <1>7, <1>8, <2>1
  <2>3. SizeOf(f[k + 1]) = SizeOf(f[k]) + SizeOf(kept(k + 1))
    BY <2>2, SizeOfConcat
  <2>4. SizeOf(f[k]) <= Within(P[k], from, to)
    BY <1>10, <2>1
  <2>5. Within(P[k], from, to) + SizeOf(kept(k + 1)) <= Within(P[k + 1], from, to)
    BY <1>6, <2>1
  <2>6. P[k] \in Nat /\ P[k + 1] \in Nat
    BY <1>4, <2>1
  <2>7. Within(P[k], from, to) \in Nat /\ Within(P[k + 1], from, to) \in Nat
    BY <2>6 DEF Within
  <2>8. SizeOf(f[k]) \in Nat /\ SizeOf(kept(k + 1)) \in Nat
    BY <2>2, SizeType
  <2> QED
    BY <2>3, <2>4, <2>5, <2>7, <2>8
<1> HIDE DEF S
<1>11. n \in S
  BY <1>1, <1>9, <1>10, Induct
<1>12. Within(P[n], from, to) <= to - from
  <2>1. P[n] \in Nat
    BY <1>1, <1>3
  <2> QED
    BY <2>1 DEF Within
<1>13. f[n] \in Text /\ SizeOf(f[n]) \in Nat
  BY <1>1, <1>8, SizeType
<1>14. Within(P[n], from, to) \in Nat
  <2>1. P[n] \in Nat
    BY <1>1, <1>3
  <2> QED
    BY <2>1 DEF Within
<1> QED
  BY <1>1, <1>2, <1>8, <1>11, <1>12, <1>13, <1>14 DEF S

\* A factor common to two products does not change their order.
LEMMA SameFactor ==
    ASSUME NEW a \in Nat, NEW b \in Nat, NEW d \in Nat, d > 0, a * d <= b * d
    PROVE  a <= b
<1> SUFFICES ASSUME a >= b + 1 PROVE FALSE
  OBVIOUS
<1>1. a * d >= (b + 1) * d
  OBVIOUS
<1>2. (b + 1) * d = b * d + d
  OBVIOUS
<1>3. b * d \in Nat /\ a * d \in Nat
  OBVIOUS
<1> QED
  BY <1>1, <1>2, <1>3

\* What passes a test is a sequence of the same elements.
LEMMA Kept ==
    ASSUME NEW S, NEW list \in Seq(S), NEW s, s = [i \in DOMAIN list |-> s[i]],
           \A i \in DOMAIN list : s[i] \in {<<list[i]>>, <<>>}
    PROVE  FlattenSeq(s) \in Seq(S)
<1>1. Len(list) \in Nat /\ DOMAIN list = 1 .. Len(list)
  BY LenProperties
<1>2. ASSUME NEW i \in 1 .. Len(list) PROVE s[i] \in Seq(S)
  <2>1. list[i] \in S
    BY ElementOfSeq
  <2>2. <<list[i]>> \in Seq(S) /\ <<>> \in Seq(S)
    BY <2>1
  <2> QED
    BY <1>1, <2>2
<1>3. s \in Seq(Seq(S))
  BY <1>1, <1>2, SeqDef
<1> QED
  BY <1>3, Flattened

\* A slice is made of words of the text, cut shorter.
LEMMA SliceOf ==
    ASSUME NEW t \in Text, NEW from \in Nat, NEW to \in Nat, from <= to,
           NEW j \in 1 .. Len(Slice(t, from, to))
    PROVE  \E i \in 1 .. Len(t) : /\ Slice(t, from, to)[j].rate = t[i].rate
                                  /\ Slice(t, from, to)[j].uneven = t[i].uneven
<1> DEFINE n == Len(t)
           start(i) == SizeOf(SubSeq(t, 1, i - 1))
           cut(i) == [t[i] EXCEPT !.size = Min({start(i) + @, to}) - Max({start(i), from})]
           list == [i \in DOMAIN t |-> cut(i)]
           shown == [i \in DOMAIN list |-> IF list[i].size > 0 THEN <<list[i]>> ELSE <<>>]
           S == {cut(i) : i \in 1 .. n}
<1>1. n \in Nat /\ DOMAIN t = 1 .. n
  BY LenProperties DEF Text
<1>2. Slice(t, from, to) = FlattenSeq(shown)
  BY Zenon DEF Slice, Only
<1>3. ASSUME NEW i \in 1 .. n PROVE cut(i).rate = t[i].rate /\ cut(i).uneven = t[i].uneven
  <2> DEFINE left == Min({start(i) + t[i].size, to}) - Max({start(i), from})
  <2>1. cut(i) = [t[i] EXCEPT !.size = left]
    BY Zenon
  <2>2. t[i] \in Word
    BY WordIn
  <2> HIDE DEF cut, left
  <2> QED
    BY <2>1, <2>2 DEF Word
<1> HIDE DEF cut
<1>4. list \in Seq(S)
  BY <1>1
<1> HIDE DEF list
<1>5. FlattenSeq(shown) \in Seq(S)
  <2>1. shown = [i \in DOMAIN list |-> shown[i]]
    OBVIOUS
  <2>2. \A i \in DOMAIN list : shown[i] \in {<<list[i]>>, <<>>}
    OBVIOUS
  <2> HIDE DEF shown, S
  <2> QED
    BY <1>4, <2>1, <2>2, Kept
<1> HIDE DEF shown
<1> DEFINE slice == Slice(t, from, to)
<1>6. slice \in Seq(S)
  BY <1>2, <1>5
<1> HIDE DEF slice
<1>7. j \in 1 .. Len(slice)
  BY DEF slice
<1>8. slice[j] \in S
  <2> HIDE DEF S
  <2> QED
    BY <1>6, <1>7, ElementOfSeq
<1> QED
  BY <1>3, <1>8 DEF slice

\* A text none of whose words has more tokens over this many characters has no more
\* tokens if it has no more characters.
LEMMA TokensWithin ==
    ASSUME NEW t \in Text, NEW width \in Nat, width > 0, NEW bound \in Nat,
           SizeOf(t) <= width, \A i \in 1 .. Len(t) : t[i].rate * width <= bound
    PROVE  TokensOf(t) <= bound
<1> DEFINE n == Len(t)
           v == Weighed(t)
<1>1. /\ n \in Nat /\ v \in Text /\ Len(v) = n /\ TokensOf(t) = SizeOf(v)
      /\ \A i \in 1 .. n : /\ t[i].rate \in Nat /\ t[i].size \in Nat
                           /\ v[i].size = t[i].size * t[i].rate
  BY WeighedText, WordIn, LenProperties DEF Text
<1>2. PICK f \in [0 .. n -> Nat] :
         /\ f[0] = 0 /\ \A k \in 1 .. n : f[k] = f[k - 1] + t[k].size
         /\ SizeOf(t) = f[n]
  BY Counted
<1> HIDE DEF v
<1>3. PICK g \in [0 .. n -> Nat] :
         /\ g[0] = 0 /\ \A k \in 1 .. n : g[k] = g[k - 1] + v[k].size
         /\ SizeOf(v) = g[n]
  BY <1>1, Counted
<1>4. \A i \in 1 .. n : t[i].rate * width <= bound
  OBVIOUS
<1> HIDE DEF n
<1> DEFINE S == {k \in Nat : k <= n => g[k] * width <= f[k] * bound}
<1>5. 0 \in S
  BY <1>2, <1>3
<1>6. ASSUME NEW k \in Nat, k \in S PROVE k + 1 \in S
  <2> SUFFICES ASSUME k + 1 <= n PROVE g[k + 1] * width <= f[k + 1] * bound
    OBVIOUS
  <2>1. k + 1 \in 1 .. n /\ (k + 1) - 1 = k /\ k \in 0 .. n /\ k <= n
    BY <1>1
  <2> DEFINE z == t[k + 1].size
             q == t[k + 1].rate
             a == f[k]
             b == g[k]
  <2>2. /\ f[k + 1] = a + z /\ g[k + 1] = b + z * q /\ b * width <= a * bound
        /\ z \in Nat /\ q \in Nat /\ a \in Nat /\ b \in Nat /\ q * width <= bound
    BY <1>1, <1>2, <1>3, <1>4, <1>6, <2>1
  <2> HIDE DEF z, q, a, b
  <2>3. (z * q) * width <= z * bound
    <3>1. (z * q) * width = z * (q * width)
      BY <2>2
    <3>2. \A x, y, c \in Nat : x <= y => c * x <= c * y
      OBVIOUS
    <3>3. q * width \in Nat
      BY <2>2, ProductType
    <3> QED
      BY <2>2, <3>1, <3>2, <3>3
  <2>4. (b + z * q) * width = b * width + (z * q) * width /\ (a + z) * bound = a * bound + z * bound
    BY <2>2
  <2>5. /\ b * width \in Nat /\ a * bound \in Nat /\ z * bound \in Nat
        /\ (z * q) * width \in Nat
    BY <2>2, ProductType
  <2>6. b * width + (z * q) * width <= a * bound + z * bound
    BY <2>2, <2>3, <2>5
  <2> QED
    BY <2>2, <2>4, <2>6
<1> HIDE DEF S
<1>7. n \in S
  BY <1>1, <1>5, <1>6, Induct
<1> DEFINE x == f[n]
           y == g[n]
<1>8. x \in Nat /\ y \in Nat /\ y * width <= x * bound /\ x <= width /\ TokensOf(t) = y
  BY <1>1, <1>2, <1>3, <1>7 DEF S
<1> HIDE DEF x, y
<1>9. x * bound <= bound * width
  <2>1. \A a, b, c \in Nat : a <= b => a * c <= c * b
    OBVIOUS
  <2> QED
    BY <1>8, <2>1
<1>10. y * width <= bound * width
  <2>1. y * width \in Nat /\ x * bound \in Nat /\ bound * width \in Nat
    BY <1>8, ProductType
  <2> QED
    BY <1>8, <1>9, <2>1
<1> QED
  BY <1>8, <1>10, SameFactor

\* A slice of a balanced text has, at the rate of any of its words, no more tokens
\* than the special ones leave.
LEMMA WidthFits ==
    ASSUME NEW t \in Text
    PROVE  /\ WrapWidth(t) \in Nat /\ WrapWidth(t) >= 1 /\ maximum - SpecialTokens \in Nat
           /\ Balanced(t) => \A i \in 1 .. Len(t) :
                               t[i].rate * WrapWidth(t) <= maximum - SpecialTokens
<1> DEFINE m == maximum
           z == SizeOf(t)
           d == measure(t)
           e == maximum - SpecialTokens
           q == (9 * m * z) \div (10 * d)
<1>1. /\ m \in Nat /\ z \in Nat /\ d \in Nat /\ d > 0
      /\ SpecialTokens \in Nat /\ SpecialTokens >= 1 /\ 10 * SpecialTokens <= m
      /\ e \in Nat /\ e = m - SpecialTokens
  BY SizeType, Settings
<1>2. WrapWidth(t) = Max({1, q})
  BY Zenon DEF WrapWidth
<1>3. ASSUME Balanced(t), NEW i \in 1 .. Len(t) PROVE 9 * m * z * t[i].rate <= 10 * e * d
  <2>1. i \in DOMAIN t
    BY LenProperties DEF Text
  <2> QED
    BY <1>3, <2>1 DEF Balanced
<1> HIDE DEF m, z, d, e
<1>4. 9 * m * z \in Nat /\ 10 * d \in Nat /\ 10 * d > 0
  BY <1>1
<1>5. q \in Nat /\ q * (10 * d) <= 9 * m * z
  <2>1. \A a, b \in Nat : b > 0 => a \div b \in Nat /\ (a \div b) * b <= a
    OBVIOUS
  <2> QED
    BY <1>4, <2>1
<1> HIDE DEF q
<1>6. Max({1, q}) = IF 1 <= q THEN q ELSE 1
  BY <1>5, MaxOfTwo
<1>7. ASSUME Balanced(t), NEW i \in 1 .. Len(t) PROVE t[i].rate * WrapWidth(t) <= e
  <2> DEFINE r == t[i].rate
  <2>1. r \in Rates /\ r \in Nat
    <3>1. t[i] \in Word
      BY WordIn
    <3> QED
      BY <3>1, ChunkerAssumption DEF Word
  <2>2. r + SpecialTokens <= m
    BY <2>1, ChunkerAssumption, MinOfTwo DEF maximum, m
  <2>3. 9 * m * z * r <= 10 * e * d
    BY <1>3, <1>7
  <2> HIDE DEF r
  <2>4. r * q <= e
    <3> DEFINE x == 9 * m * z
               y == 10 * d
    <3>1. x \in Nat /\ y \in Nat /\ y > 0 /\ q * y <= x
      BY <1>4, <1>5
    <3>2. 10 * e * d = e * y
      BY <1>1
    <3>3. x * r <= e * y
      BY <2>3, <3>2
    <3> HIDE DEF x, y
    <3>4. (q * y) * r <= x * r
      <4>1. \A a, b, c \in Nat : a <= b => a * c <= b * c
        OBVIOUS
      <4>2. q * y \in Nat
        BY <1>5, <3>1, ProductType
      <4> QED
        BY <2>1, <3>1, <4>1, <4>2
    <3>5. (r * q) * y = (q * y) * r
      BY <1>5, <2>1, <3>1
    <3>6. r * q \in Nat /\ (r * q) * y \in Nat /\ x * r \in Nat /\ e * y \in Nat
      <4>1. r * q \in Nat
        BY <1>5, <2>1, ProductType
      <4> QED
        BY <1>1, <2>1, <3>1, <4>1, ProductType
    <3>7. (r * q) * y <= e * y
      BY <3>3, <3>4, <3>5, <3>6
    <3> QED
      BY <1>1, <3>1, <3>6, <3>7, SameFactor
  <2>5. r * 1 <= e
    BY <1>1, <2>1, <2>2
  <2>6. WrapWidth(t) \in {q, 1}
    BY <1>2, <1>6
  <2> QED
    BY <2>4, <2>5, <2>6 DEF r
<1>8. WrapWidth(t) \in Nat /\ WrapWidth(t) >= 1
  BY <1>2, <1>5, <1>6
<1> QED
  BY <1>1, <1>7, <1>8, Zenon DEF e

\* What the hard wrap cuts is the text, marked as balanced or not.
LEMMA WrappedText ==
    ASSUME NEW t \in Text
    PROVE  /\ Wrapped(t) \in Text /\ Len(Wrapped(t)) = Len(t)
           /\ SizeOf(Wrapped(t)) = SizeOf(t)
           /\ \A i \in 1 .. Len(t) :
                 /\ Wrapped(t)[i].at = t[i].at /\ Wrapped(t)[i].part = t[i].part
                 /\ Wrapped(t)[i].size = t[i].size /\ Wrapped(t)[i].rate = t[i].rate
                 /\ Wrapped(t)[i].uneven = ~Balanced(t)
<1> DEFINE mark == ~Balanced(t)
           marked(i) == [t[i] EXCEPT !.uneven = mark]
<1>1. Len(t) \in Nat /\ DOMAIN t = 1 .. Len(t)
  BY LenProperties DEF Text
<1>2. Wrapped(t) = [i \in 1 .. Len(t) |-> marked(i)]
  BY <1>1, Zenon DEF Wrapped
<1>3. mark \in BOOLEAN
  BY Zenon DEF Balanced
<1> HIDE DEF mark
<1>4. ASSUME NEW i \in 1 .. Len(t)
      PROVE  /\ marked(i) \in Word /\ marked(i).at = t[i].at /\ marked(i).part = t[i].part
             /\ marked(i).size = t[i].size /\ marked(i).rate = t[i].rate
             /\ marked(i).uneven = mark
  <2>1. t[i] \in Word
    BY WordIn
  <2> QED
    BY <1>3, <2>1 DEF Word
<1> HIDE DEF marked
<1>5. [i \in 1 .. Len(t) |-> marked(i)] \in Seq(Word)
  BY <1>1, <1>4
<1>6. /\ Wrapped(t) \in Text /\ Len(Wrapped(t)) = Len(t)
      /\ \A i \in 1 .. Len(t) : Wrapped(t)[i] = marked(i)
  BY <1>1, <1>2, <1>5 DEF Text
<1>7. SizeOf(Wrapped(t)) = SizeOf(t)
  BY <1>4, <1>6, SameSizes
<1>8. \A i \in 1 .. Len(t) :
        /\ Wrapped(t)[i].at = t[i].at /\ Wrapped(t)[i].part = t[i].part
        /\ Wrapped(t)[i].size = t[i].size /\ Wrapped(t)[i].rate = t[i].rate
        /\ Wrapped(t)[i].uneven = mark
  BY <1>4, <1>6
<1> QED
  BY <1>6, <1>7, <1>8, Zenon DEF mark

\* Every piece of the hard wrap fits, unless the text is denser in places than that.
LEMMA HardWrapFits ==
    ASSUME NEW t \in Text
    PROVE  _hard_wrap(t) \in Seq(Fitting)
<1> DEFINE width == WrapWidth(t)
           n == (SizeOf(t) + width - 1) \div width
           u == Wrapped(t)
           piece(k) == Slice(u, (k - 1) * width, k * width)
<1>1. width \in Nat /\ width >= 1 /\ maximum - SpecialTokens \in Nat
  BY WidthFits
<1>2. _hard_wrap(t) = [k \in 1 .. n |-> piece(k)]
  BY Zenon DEF _hard_wrap
<1>3. ASSUME Balanced(t), NEW i \in 1 .. Len(t)
      PROVE  t[i].rate * width <= maximum - SpecialTokens
  BY <1>3, WidthFits
<1>4. /\ u \in Text /\ Len(u) = Len(t)
      /\ \A i \in 1 .. Len(t) : u[i].rate = t[i].rate /\ u[i].uneven = ~Balanced(t)
  BY WrappedText
<1> HIDE DEF width, u
<1>5. n \in Nat
  <2>1. SizeOf(t) \in Nat
    BY SizeType
  <2>2. \A a, b \in Nat : b > 0 => a \div b \in Nat
    OBVIOUS
  <2> QED
    BY <1>1, <2>1, <2>2
<1> HIDE DEF n
<1>6. ASSUME NEW k \in 1 .. n PROVE piece(k) \in Fitting
  <2> DEFINE from == (k - 1) * width
             to == k * width
             slice == Slice(u, from, to)
  <2>1. from \in Nat /\ to \in Nat /\ to = from + width
    BY <1>1, <1>5
  <2>2. \A j \in 1 .. Len(slice) : \E i \in 1 .. Len(t) :
           slice[j].rate = t[i].rate /\ slice[j].uneven = ~Balanced(t)
    <3> HIDE DEF from, to
    <3> QED
      BY <1>1, <1>4, <2>1, SliceOf
  <2>3. slice \in Text /\ SizeOf(slice) <= width
    <3> HIDE DEF from, to
    <3> QED
      BY <1>1, <1>4, <2>1, SliceSize
  <2> HIDE DEF slice
  <2>4. CASE Balanced(t)
    <3>1. \A j \in 1 .. Len(slice) : slice[j].rate * width <= maximum - SpecialTokens
      BY <1>3, <2>2, <2>4
    <3>2. TokensOf(slice) <= maximum - SpecialTokens
      BY <1>1, <2>3, <3>1, TokensWithin
    <3>3. measure(slice) <= maximum
      BY <2>3, <3>2, SizeType, Settings
    <3> QED
      BY <2>3, <3>3 DEF Fitting, slice
  <2>5. CASE ~Balanced(t) /\ slice # <<>>
    <3>1. 1 \in 1 .. Len(slice) /\ slice[1] \in ToSet(slice)
      BY <2>3, <2>5 DEF Text, ToSet
    <3>2. slice[1].uneven
      BY <2>2, <2>5, <3>1
    <3> QED
      BY <2>3, <3>1, <3>2 DEF Fitting, Uneven, slice
  <2>6. CASE slice = <<>>
    BY <2>6, NoText DEF slice
  <2> QED
    BY <2>4, <2>5, <2>6
<1> HIDE DEF piece
<1> QED
  BY <1>2, <1>5, <1>6

\* The last of several elements is one of them.
LEMMA LastIn ==
    ASSUME NEW S, NEW s \in Seq(S), s # <<>>
    PROVE  Last(s) \in S /\ Len(s) \in 1 .. Len(s) /\ Last(s) = s[Len(s)]
<1>1. Len(s) \in Nat /\ Len(s) # 0
  BY EmptySeq, LenProperties
<1>2. Len(s) \in 1 .. Len(s)
  BY <1>1
<1> QED
  BY <1>2, ElementOfSeq DEF Last

\* The parts of a text, with one more word of it.
PartsWith(parts, w, breaks) ==
    IF parts = <<>> \/ Last(Last(parts)).then \in breaks THEN Append(parts, <<w>>)
    ELSE [parts EXCEPT ![Len(parts)] = Append(@, w)]

\* A text is cut word by word.
LEMMA PartsRun ==
    ASSUME NEW t \in Text, NEW breaks
    PROVE  \E f \in [0 .. Len(t) -> Seq(Text)] :
              /\ f[0] = <<>> /\ \A k \in 1 .. Len(t) : f[k] = PartsWith(f[k - 1], t[k], breaks)
              /\ PartsAt(t, breaks) = f[Len(t)]
<1> DEFINE n == Len(t)
           S == Seq(Text)
           add(parts, w) == PartsWith(parts, w, breaks)
           Eqn(g) == g = [k \in 0 .. n |-> IF k = 0 THEN <<>> ELSE add(g[k - 1], t[k])]
           after == CHOOSE g : Eqn(g)
           G == [x \in S \X (1 .. n) |-> add(x[1], t[x[2]])]
<1>1. n \in Nat /\ <<>> \in S
  BY DEF Text
<1>2. PartsAt(t, breaks) = after[n]
  BY Zenon DEF PartsAt, PartsWith
<1>3. ASSUME NEW s \in S, NEW k \in 1 .. n PROVE add(s, t[k]) \in S
  <2>1. t[k] \in Word /\ <<t[k]>> \in Text
    BY WordIn, SizeOfOne
  <2>2. Append(s, <<t[k]>>) \in S
    BY <2>1
  <2>3. CASE s # <<>>
    <3>1. Last(s) \in Text /\ Len(s) \in 1 .. Len(s) /\ Last(s) = s[Len(s)]
      BY <2>3, LastIn
    <3>2. Append(s[Len(s)], t[k]) \in Text
      BY <2>1, <3>1 DEF Text
    <3> DEFINE new == Append(s[Len(s)], t[k])
    <3>3. [s EXCEPT ![Len(s)] = new] \in S
      <4> HIDE DEF new
      <4> QED
        BY <3>1, <3>2 DEF new
    <3> HIDE DEF S
    <3> QED
      BY <2>2, <3>3 DEF PartsWith
  <2>4. CASE s = <<>>
    <3> HIDE DEF S
    <3> QED
      BY <2>2, <2>4 DEF PartsWith
  <2> QED
    BY <2>3, <2>4
<1> HIDE DEF n, S, add
<1>4. Eqn(after)
  <2>1. G \in [S \X (1 .. n) -> S]
    BY <1>3
  <2>2. PICK f \in [0 .. n -> S] : f[0] = <<>> /\ \A k \in 1 .. n : f[k] = G[<<f[k - 1], k>>]
    <3> HIDE DEF G
    <3>1. Runs(S, n, <<>>, G) # {}
      BY <1>1, <2>1, RunExists
    <3> QED
      BY <3>1 DEF Runs
  <2>3. ASSUME NEW k \in 0 .. n
        PROVE  f[k] = IF k = 0 THEN <<>> ELSE add(f[k - 1], t[k])
    <3>1. CASE k = 0
      BY <2>2, <3>1
    <3>2. CASE k # 0
      <4>1. k \in 1 .. n /\ f[k - 1] \in S
        BY <1>1, <3>2
      <4>2. G[<<f[k - 1], k>>] = add(f[k - 1], t[k])
        BY <4>1
      <4> QED
        BY <2>2, <3>2, <4>1, <4>2
    <3> QED
      BY <3>1, <3>2
  <2>4. Eqn(f)
    BY <2>3
  <2> HIDE DEF Eqn
  <2> QED
    BY <2>4
<1> HIDE DEF after, G
<1>5. after[0] = <<>> /\ \A k \in 1 .. n : after[k] = add(after[k - 1], t[k])
  <2>1. 0 \in 0 .. n /\ \A k \in 1 .. n : k \in 0 .. n /\ k # 0
    BY <1>1
  <2> QED
    BY <1>4, <2>1
<1>6. \A k \in 0 .. n : after[k] \in S
  <2>1. after[0] \in S /\ \A k \in 1 .. n : after[k - 1] \in S => after[k] \in S
    BY <1>1, <1>3, <1>5
  <2> QED
    BY <1>1, <2>1, RunStays
<1>7. after \in [0 .. n -> S]
  BY <1>4, <1>6
<1> QED
  BY <1>1, <1>2, <1>5, <1>7 DEF S, n, add

\* A text cut after its breaks is texts.
LEMMA PartsAreTexts ==
    ASSUME NEW t \in Text, NEW breaks
    PROVE  PartsAt(t, breaks) \in Seq(Text)
<1>1. Len(t) \in 0 .. Len(t)
  BY DEF Text
<1> QED
  BY <1>1, PartsRun

\* What is packed and what is still to be, with one more part.
Packing == [packed : Seq(Fitting), buffer : Fitting]
Flushed(s) == IF s.buffer = <<>> THEN s.packed ELSE Append(s.packed, s.buffer)
PackedWith(s, part, split) ==
    IF measure(part) > maximum
    THEN [packed |-> Flushed(s) \o split[part], buffer |-> <<>>]
    ELSE IF s.buffer # <<>> /\ measure(s.buffer \o part) > target
    THEN [packed |-> Append(s.packed, s.buffer), buffer |-> part]
    ELSE [s EXCEPT !.buffer = @ \o part]

\* Parts are packed one by one.
LEMMA PackRun ==
    ASSUME NEW parts \in Seq(Text), NEW split,
           \A i \in 1 .. Len(parts) : split[parts[i]] \in Seq(Fitting)
    PROVE  \E f \in [0 .. Len(parts) -> Packing] :
              /\ f[0] = [packed |-> <<>>, buffer |-> <<>>]
              /\ \A k \in 1 .. Len(parts) : f[k] = PackedWith(f[k - 1], parts[k], split)
              /\ _pack(parts, split) = Flushed(f[Len(parts)])
<1> DEFINE n == Len(parts)
           S == Packing
           flushed(s) == Flushed(s)
           add(s, part) == PackedWith(s, part, split)
           first == [packed |-> <<>>, buffer |-> <<>>]
           Eqn(g) == g = [k \in 0 .. n |-> IF k = 0 THEN first ELSE add(g[k - 1], parts[k])]
           after == CHOOSE g : Eqn(g)
           G == [x \in S \X (1 .. n) |-> add(x[1], parts[x[2]])]
<1>1. n \in Nat /\ first \in S
  BY NoText DEF Packing
<1>2. _pack(parts, split) = flushed(after[n])
  BY Zenon DEF _pack, PackedWith, Flushed
<1>3. ASSUME NEW s \in S PROVE flushed(s) \in Seq(Fitting)
  BY DEF Packing, Flushed
<1>4. ASSUME NEW s \in S, NEW k \in 1 .. n PROVE add(s, parts[k]) \in S
  <2> USE DEF Packing, PackedWith
  <2> DEFINE part == parts[k]
  <2>1. part \in Text /\ split[part] \in Seq(Fitting) /\ measure(part) \in Nat
    <3>1. part \in Text
      OBVIOUS
    <3> QED
      BY <3>1, SizeType
  <2> HIDE DEF part
  <2>2. s.buffer \in Text /\ s.buffer \o part \in Text /\ measure(s.buffer \o part) \in Nat
    <3>1. s.buffer \in Text
      BY DEF Fitting
    <3> QED
      BY <2>1, <3>1, SizeOfConcat, SizeType
  <2>3. CASE measure(part) > maximum
    <3>1. flushed(s) \o split[part] \in Seq(Fitting)
      <4> HIDE DEF flushed
      <4> QED
        BY <1>3, <2>1, ConcatProperties
    <3>2. add(s, part) = [packed |-> flushed(s) \o split[part], buffer |-> <<>>]
      BY <2>3
    <3> HIDE DEF flushed
    <3> QED
      BY <3>1, <3>2, NoText DEF part
  <2>4. CASE ~(measure(part) > maximum)
    <3>1. part \in Fitting
      BY <2>1, <2>4, Settings DEF Fitting
    <3>2. CASE s.buffer # <<>> /\ measure(s.buffer \o part) > target
      <4>1. add(s, part) = [packed |-> Append(s.packed, s.buffer), buffer |-> part]
        BY <2>4, <3>2
      <4>2. Append(s.packed, s.buffer) \in Seq(Fitting)
        OBVIOUS
      <4> HIDE DEF add, flushed
      <4> QED
        BY <3>1, <4>1, <4>2 DEF part
    <3>3. CASE ~(s.buffer # <<>> /\ measure(s.buffer \o part) > target)
      <4>1. add(s, part) = [s EXCEPT !.buffer = s.buffer \o part]
        BY <2>4, <3>3
      <4>2. s.buffer \o part \in Fitting
        <5>1. CASE s.buffer = <<>>
          <6>1. <<>> \o part = part
            BY <2>1, ConcatEmptySeq DEF Text
          <6> QED
            BY <3>1, <5>1, <6>1
        <5>2. CASE measure(s.buffer \o part) <= target
          BY <2>2, <5>2, Settings DEF Fitting
        <5> QED
          BY <2>2, <3>3, <5>1, <5>2, Settings
      <4> QED
        BY <4>1, <4>2 DEF part
    <3> QED
      BY <3>2, <3>3
  <2> QED
    BY <2>3, <2>4
<1> HIDE DEF n, S, add, flushed, first
<1>5. Eqn(after)
  <2>1. G \in [S \X (1 .. n) -> S]
    BY <1>4
  <2>2. PICK f \in [0 .. n -> S] : f[0] = first /\ \A k \in 1 .. n : f[k] = G[<<f[k - 1], k>>]
    <3> HIDE DEF G
    <3>1. Runs(S, n, first, G) # {}
      BY <1>1, <2>1, RunExists
    <3> QED
      BY <3>1 DEF Runs
  <2>3. ASSUME NEW k \in 0 .. n
        PROVE  f[k] = IF k = 0 THEN first ELSE add(f[k - 1], parts[k])
    <3>1. CASE k = 0
      BY <2>2, <3>1
    <3>2. CASE k # 0
      <4>1. k \in 1 .. n /\ f[k - 1] \in S
        BY <1>1, <3>2
      <4>2. G[<<f[k - 1], k>>] = add(f[k - 1], parts[k])
        BY <4>1
      <4> QED
        BY <2>2, <3>2, <4>1, <4>2
    <3> QED
      BY <3>1, <3>2
  <2>4. Eqn(f)
    BY <2>3
  <2> HIDE DEF Eqn
  <2> QED
    BY <2>4
<1> HIDE DEF after, G
<1>6. after[0] = first /\ \A k \in 1 .. n : after[k] = add(after[k - 1], parts[k])
  <2>1. 0 \in 0 .. n /\ \A k \in 1 .. n : k \in 0 .. n /\ k # 0
    BY <1>1
  <2> QED
    BY <1>5, <2>1
<1>7. \A k \in 0 .. n : after[k] \in S
  <2>1. after[0] \in S /\ \A k \in 1 .. n : after[k - 1] \in S => after[k] \in S
    BY <1>1, <1>4, <1>6
  <2> QED
    BY <1>1, <2>1, RunStays
<1>8. after \in [0 .. n -> S]
  BY <1>5, <1>7
<1> QED
  BY <1>1, <1>2, <1>6, <1>8 DEF S, n, add, flushed, first

\* Packed parts fit, if what the parts too big for a passage are split into does.
LEMMA PackFits ==
    ASSUME NEW parts \in Seq(Text), NEW split,
           \A i \in 1 .. Len(parts) : split[parts[i]] \in Seq(Fitting)
    PROVE  _pack(parts, split) \in Seq(Fitting)
<1>1. Len(parts) \in 0 .. Len(parts)
  BY LenProperties
<1>2. PICK s \in Packing : _pack(parts, split) = Flushed(s)
  BY <1>1, PackRun
<1> QED
  BY <1>2 DEF Packing, Flushed

\* A text that fits is one piece.
LEMMA OneFits ==
    ASSUME NEW t \in Text, fits(t)
    PROVE  <<t>> \in Seq(Fitting)
BY DEF fits, Fitting

\* A paragraph is split into pieces that fit.
LEMMA ParagraphFits ==
    ASSUME NEW t \in Text
    PROVE  SplitParagraph(t) \in Seq(Fitting)
<1> DEFINE sentences == PartsAt(t, {"sentence", "paragraph"})
           split == [p \in ToSet(sentences) |-> _hard_wrap(p)]
<1>1. SplitParagraph(t) = IF fits(t) THEN <<t>>
                          ELSE IF Len(sentences) > 1 THEN _pack(sentences, split)
                          ELSE _hard_wrap(t)
  BY Zenon DEF SplitParagraph
<1>2. sentences \in Seq(Text)
  BY PartsAreTexts
<1> HIDE DEF sentences
<1>3. ASSUME NEW i \in 1 .. Len(sentences) PROVE split[sentences[i]] \in Seq(Fitting)
  <2>1. sentences[i] \in Text /\ sentences[i] \in ToSet(sentences)
    BY <1>2 DEF ToSet
  <2> QED
    BY <2>1, HardWrapFits
<1> HIDE DEF split
<1>4. _pack(sentences, split) \in Seq(Fitting) /\ _hard_wrap(t) \in Seq(Fitting)
  BY <1>2, <1>3, PackFits, HardWrapFits
<1> QED
  BY <1>1, <1>4, OneFits, Zenon

\* Any text is split into pieces that fit.
LEMMA SplitFits ==
    ASSUME NEW t \in Text
    PROVE  _split_to_size(t) \in Seq(Fitting)
<1> DEFINE paragraphs == PartsAt(t, {"paragraph"})
           split == [p \in ToSet(paragraphs) |-> SplitParagraph(p)]
<1>1. _split_to_size(t) = IF t = <<>> THEN <<>>
                          ELSE IF fits(t) THEN <<t>>
                          ELSE IF Len(paragraphs) > 1 THEN _pack(paragraphs, split)
                          ELSE SplitParagraph(t)
  BY Zenon DEF _split_to_size
<1>2. paragraphs \in Seq(Text)
  BY PartsAreTexts
<1> HIDE DEF paragraphs
<1>3. ASSUME NEW i \in 1 .. Len(paragraphs) PROVE split[paragraphs[i]] \in Seq(Fitting)
  <2>1. paragraphs[i] \in Text /\ paragraphs[i] \in ToSet(paragraphs)
    BY <1>2 DEF ToSet
  <2> QED
    BY <2>1, ParagraphFits
<1> HIDE DEF split
<1>4. _pack(paragraphs, split) \in Seq(Fitting) /\ SplitParagraph(t) \in Seq(Fitting)
  BY <1>2, <1>3, PackFits, ParagraphFits
<1>5. <<>> \in Seq(Fitting)
  OBVIOUS
<1> QED
  BY <1>1, <1>4, <1>5, OneFits, Zenon

\* The header of a table is one of its rows.
LEMMA HeaderRow ==
    ASSUME NEW rows \in Text, rows # <<>>
    PROVE  _header_row(rows) \in 1 .. Len(rows)
<1> DEFINE widest == Max({rows[i].filled : i \in 1 .. Min({12, Len(rows)})})
           full == {i \in 1 .. Min({3, Len(rows)}) : 2 * rows[i].filled > widest}
<1>1. _header_row(rows) = IF full = {} THEN 1 ELSE Min(full)
  BY Zenon DEF _header_row
<1>2. Len(rows) \in Nat /\ Len(rows) >= 1
  BY EmptySeq, LenProperties DEF Text
<1>3. full \subseteq 1 .. Len(rows)
  BY <1>2, MinOfTwo
<1> HIDE DEF full
<1>4. full # {} => Min(full) \in full
  <2>1. full \subseteq Nat
    BY <1>2, <1>3
  <2> QED
    BY <2>1, MinIn
<1>5. CASE full = {}
  <2>1. 1 \in 1 .. Len(rows)
    BY <1>2
  <2> QED
    BY <1>1, <1>5, <2>1, Zenon
<1>6. CASE full # {}
  <2>1. Min(full) \in 1 .. Len(rows)
    BY <1>3, <1>4, <1>6
  <2> QED
    BY <1>1, <1>6, <2>1, Zenon
<1> QED
  BY <1>5, <1>6

\* The groups of a table's rows that may be emitted under a header.
Whole(header) == {rows \in Text : Len(rows) <= 1 \/ fits(header \o rows)}

\* A group too big to emit is halved, and so is each of several.
Halves(header, part) ==
    LET middle == Len(part) \div 2
    IN  IF Len(part) <= 1 \/ fits(header \o part) THEN <<part>>
        ELSE <<SubSeq(part, 1, middle), SubSeq(part, middle + 1, Len(part))>>

Halved(header, parts) == FlattenSeq([g \in DOMAIN parts |-> Halves(header, parts[g])])

\* What is halved is texts, with every row of the text.
LEMMA HalvesKeep ==
    ASSUME NEW header \in Text, NEW part \in Text
    PROVE  /\ Halves(header, part) \in Seq(Text)
           /\ \A w \in ToSet(part) : \E g \in 1 .. Len(Halves(header, part)) :
                 w \in ToSet(Halves(header, part)[g])
<1> DEFINE l == Len(part)
           m == l \div 2
           a == SubSeq(part, 1, m)
           b == SubSeq(part, m + 1, l)
<1>1. Halves(header, part) =
          IF l <= 1 \/ fits(header \o part) THEN <<part>> ELSE <<a, b>>
  BY Zenon DEF Halves
<1>2. l \in Nat /\ DOMAIN part = 1 .. l
  BY DEF Text
<1>3. \A n \in Nat : n \div 2 \in Nat /\ n \div 2 <= n
  OBVIOUS
<1>4. m \in Nat /\ m <= l
  BY <1>2, <1>3
<1> HIDE DEF l, m
<1>5. a \in Text /\ Len(a) = m /\ \A i \in 1 .. m : a[i] = part[i]
  BY <1>2, <1>4, SubSeqProperties DEF Text, l
<1>6. b \in Text /\ Len(b) = l - m /\ \A i \in 1 .. l - m : b[i] = part[m + i]
  <2> DEFINE p == m + 1
  <2>1. p \in Int /\ l \in Int /\ p <= l + 1 /\ l - p + 1 = l - m
    BY <1>2, <1>4
  <2>2. \A i \in p .. l : part[i] \in Word
    <3>1. \A i \in p .. l : i \in 1 .. Len(part)
      BY <1>2, <1>4 DEF l
    <3> QED
      BY <3>1, WordIn
  <2>3. \A i \in 1 .. l - m : p + i - 1 = m + i
    BY <1>2, <1>4
  <2>4. b = SubSeq(part, p, l)
    OBVIOUS
  <2> HIDE DEF p, b
  <2>5. /\ b \in Seq(Word) /\ Len(b) = IF p <= l THEN l - p + 1 ELSE 0
        /\ \A i \in 1 .. l - p + 1 : b[i] = part[p + i - 1]
    BY <2>1, <2>2, <2>4, SubSeqProperties
  <2>6. Len(b) = l - m
    BY <1>2, <1>4, <2>1, <2>5 DEF p
  <2>7. \A i \in 1 .. l - m : b[i] = part[m + i]
    BY <2>1, <2>3, <2>5
  <2> QED
    BY <2>5, <2>6, <2>7 DEF Text
<1> HIDE DEF a, b
<1>7. CASE l <= 1 \/ fits(header \o part)
  <2>1. <<part>> \in Seq(Text) /\ Len(<<part>>) = 1 /\ <<part>>[1] = part
    OBVIOUS
  <2> QED
    BY <1>1, <1>7, <2>1
<1>8. CASE ~(l <= 1 \/ fits(header \o part))
  <2>1. /\ <<a, b>> \in Seq(Text) /\ Len(<<a, b>>) = 2
        /\ <<a, b>>[1] = a /\ <<a, b>>[2] = b
    BY <1>5, <1>6
  <2>2. ASSUME NEW w \in ToSet(part) PROVE w \in ToSet(a) \/ w \in ToSet(b)
    <3>1. PICK i \in 1 .. l : w = part[i]
      BY <1>2 DEF ToSet
    <3>2. CASE i <= m
      <4>1. i \in 1 .. m /\ DOMAIN a = 1 .. m
        BY <1>2, <1>4, <1>5, <3>2 DEF Text
      <4> QED
        BY <1>5, <3>1, <4>1 DEF ToSet
    <3>3. CASE i > m
      <4>1. i - m \in 1 .. l - m /\ DOMAIN b = 1 .. l - m /\ m + (i - m) = i
        BY <1>2, <1>4, <1>6, <3>3 DEF Text
      <4>2. b[i - m] = part[i]
        BY <1>6, <4>1
      <4> QED
        BY <3>1, <4>1, <4>2 DEF ToSet
    <3> QED
      BY <1>2, <1>4, <3>2, <3>3
  <2>3. 1 \in 1 .. 2 /\ 2 \in 1 .. 2
    OBVIOUS
  <2> DEFINE halves == <<a, b>>
  <2>4. Halves(header, part) = halves
    BY <1>1, <1>8
  <2>5. halves \in Seq(Text) /\ Len(halves) = 2 /\ halves[1] = a /\ halves[2] = b
    BY <2>1
  <2> HIDE DEF halves
  <2> QED
    BY <2>2, <2>3, <2>4, <2>5
<1> QED
  BY <1>7, <1>8

\* So is what several are halved into.
LEMMA HalvedKeep ==
    ASSUME NEW header \in Text, NEW parts \in Seq(Text)
    PROVE  /\ Halved(header, parts) \in Seq(Text)
           /\ \A w : (\E g \in 1 .. Len(parts) : w \in ToSet(parts[g])) =>
                 \E g \in 1 .. Len(Halved(header, parts)) : w \in ToSet(Halved(header, parts)[g])
<1> DEFINE pieces == [g \in DOMAIN parts |-> Halves(header, parts[g])]
           halved == Halved(header, parts)
<1>1. Len(parts) \in Nat /\ DOMAIN parts = 1 .. Len(parts)
  BY LenProperties
<1>2. \A g \in 1 .. Len(parts) : parts[g] \in Text /\ Halves(header, parts[g]) \in Seq(Text)
  BY HalvesKeep, ElementOfSeq
<1>3. /\ pieces \in Seq(Seq(Text)) /\ Len(pieces) = Len(parts)
      /\ \A g \in 1 .. Len(parts) : pieces[g] = Halves(header, parts[g])
  BY <1>1, <1>2
<1>4. halved = FlattenSeq(pieces)
  BY Zenon DEF Halved
<1> HIDE DEF pieces, halved
<1>5. halved \in Seq(Text) /\ ToSet(halved) = UNION {ToSet(pieces[g]) : g \in 1 .. Len(pieces)}
  BY <1>3, <1>4, Flattened
<1>6. ASSUME NEW w, NEW g \in 1 .. Len(parts), w \in ToSet(parts[g])
      PROVE  \E h \in 1 .. Len(halved) : w \in ToSet(halved[h])
  <2>1. PICK k \in 1 .. Len(pieces[g]) : w \in ToSet(pieces[g][k])
    BY <1>2, <1>3, <1>6, HalvesKeep
  <2>2. pieces[g] \in Seq(Text)
    BY <1>2, <1>3
  <2>3. pieces[g][k] \in ToSet(pieces[g])
    <3>1. k \in DOMAIN pieces[g]
      BY <2>2, LenProperties
    <3> QED
      BY <3>1 DEF ToSet
  <2>4. pieces[g][k] \in ToSet(halved)
    BY <1>3, <1>5, <2>3
  <2>5. PICK h \in DOMAIN halved : halved[h] = pieces[g][k]
    BY <2>4 DEF ToSet
  <2>6. h \in 1 .. Len(halved)
    BY <1>5, LenProperties
  <2> QED
    BY <2>1, <2>5, <2>6
<1> QED
  BY <1>5, <1>6 DEF halved

\* Groups are halved round by round.
LEMMA HalvingRun ==
    ASSUME NEW header \in Text, NEW rows \in Text
    PROVE  \E f \in [0 .. Len(rows) -> Seq(Text)] :
              /\ f[0] = <<rows>> /\ \A k \in 1 .. Len(rows) : f[k] = Halved(header, f[k - 1])
              /\ _fit_group(header, rows) = f[Len(rows)]
<1> DEFINE n == Len(rows)
           S == Seq(Text)
           halved(parts) == Halved(header, parts)
           Eqn(g) == g = [k \in 0 .. n |-> IF k = 0 THEN <<rows>> ELSE halved(g[k - 1])]
           round == CHOOSE g : Eqn(g)
           G == [x \in S \X (1 .. n) |-> halved(x[1])]
<1>1. n \in Nat /\ <<rows>> \in S
  BY DEF Text
<1>2. _fit_group(header, rows) = round[n]
  BY Zenon DEF _fit_group, Halved, Halves
<1>5. ASSUME NEW parts \in S PROVE halved(parts) \in S
  BY HalvedKeep
<1> HIDE DEF n, S, halved
<1>6. Eqn(round)
  <2>1. G \in [S \X (1 .. n) -> S]
    BY <1>5
  <2>2. PICK f \in [0 .. n -> S] : f[0] = <<rows>> /\ \A k \in 1 .. n : f[k] = G[<<f[k - 1], k>>]
    <3> HIDE DEF G
    <3>1. Runs(S, n, <<rows>>, G) # {}
      BY <1>1, <2>1, RunExists
    <3> QED
      BY <3>1 DEF Runs
  <2>3. ASSUME NEW k \in 0 .. n
        PROVE  f[k] = IF k = 0 THEN <<rows>> ELSE halved(f[k - 1])
    <3>1. CASE k = 0
      BY <2>2, <3>1
    <3>2. CASE k # 0
      <4>1. k \in 1 .. n /\ f[k - 1] \in S
        BY <1>1, <3>2
      <4>2. G[<<f[k - 1], k>>] = halved(f[k - 1])
        BY <4>1
      <4> QED
        BY <2>2, <3>2, <4>1, <4>2
    <3> QED
      BY <3>1, <3>2
  <2>4. Eqn(f)
    BY <2>3
  <2> HIDE DEF Eqn
  <2> QED
    BY <2>4
<1> HIDE DEF round, G
<1>7. round[0] = <<rows>> /\ \A k \in 1 .. n : round[k] = halved(round[k - 1])
  <2>1. 0 \in 0 .. n /\ \A k \in 1 .. n : k \in 0 .. n /\ k # 0
    BY <1>1
  <2> QED
    BY <1>6, <2>1
<1>8. \A k \in 0 .. n : round[k] \in S
  <2>1. round[0] \in S /\ \A k \in 1 .. n : round[k - 1] \in S => round[k] \in S
    BY <1>1, <1>5, <1>7
  <2> QED
    BY <1>1, <2>1, RunStays
<1>9. round \in [0 .. n -> S]
  BY <1>6, <1>8
<1> QED
  BY <1>1, <1>2, <1>7, <1>9 DEF S, n, halved

\* Halving as often as there are rows leaves groups that fit, or of one row.
LEMMA GroupFits ==
    ASSUME NEW header \in Text, NEW rows \in Text
    PROVE  _fit_group(header, rows) \in Seq(Whole(header))
<1> DEFINE n == Len(rows)
           whole(part) == Len(part) <= 1 \/ fits(header \o part)
           halves(part) == Halves(header, part)
           halved(parts) == Halved(header, parts)
           Left(k) == {part \in Text : whole(part) \/ Len(part) <= n - k}
<1>1. n \in Nat /\ <<rows>> \in Seq(Left(0))
  <2>1. n \in Nat /\ n - 0 = n
    BY DEF Text
  <2>2. rows \in Left(0)
    BY <2>1
  <2> HIDE DEF Left
  <2> QED
    BY <2>1, <2>2
<1>2. PICK round \in [0 .. n -> Seq(Text)] :
         /\ round[0] = <<rows>> /\ \A k \in 1 .. n : round[k] = halved(round[k - 1])
         /\ _fit_group(header, rows) = round[n]
  BY HalvingRun
<1> HIDE DEF n
<1>3. ASSUME NEW k \in Nat, NEW part \in Left(k) PROVE halves(part) \in Seq(Left(k + 1))
  <2>1. CASE whole(part)
    <3>1. part \in Left(k + 1)
      <4> HIDE DEF whole
      <4> QED
        BY <2>1
    <3>2. halves(part) = <<part>>
      BY <2>1 DEF Halves
    <3> HIDE DEF Left, whole, halves
    <3> QED
      BY <3>1, <3>2
  <2>2. CASE ~whole(part)
    <3> DEFINE l == Len(part)
               m == l \div 2
               a == SubSeq(part, 1, m)
               b == SubSeq(part, m + 1, l)
    <3>1. part \in Text /\ l \in Nat /\ l <= n - k
      <4>1. part \in Text /\ (whole(part) \/ Len(part) <= n - k)
        <5> HIDE DEF whole
        <5> QED
          OBVIOUS
      <4>2. Len(part) \in Nat
        BY <4>1 DEF Text
      <4> HIDE DEF whole
      <4> QED
        BY <2>2, <4>1, <4>2
    <3>2. ~(l <= 1)
      BY <2>2
    <3> HIDE DEF l
    <3>3. m \in 1 .. l - 1
      BY <3>1, <3>2
    <3> HIDE DEF m
    <3>4. a \in Text /\ Len(a) = m
      <4>1. \A i \in 1 .. m : i \in 1 .. Len(part)
        BY <3>1, <3>3 DEF l
      <4> QED
        BY <3>1, <3>3, <4>1, SubSeqProperties DEF Text, l
    <3>5. b \in Text /\ Len(b) = l - m
      <4>1. m + 1 \in Int /\ l \in Int /\ m + 1 <= l + 1
        BY <3>1, <3>3
      <4>2. \A i \in m + 1 .. l : i \in 1 .. Len(part)
        BY <3>1, <3>3 DEF l
      <4> QED
        BY <3>1, <3>3, <4>1, <4>2, SubSeqProperties DEF Text, l
    <3> HIDE DEF a, b
    <3>6. Len(a) <= n - (k + 1) /\ Len(b) <= n - (k + 1)
      BY <1>1, <3>1, <3>3, <3>4, <3>5
    <3>7. a \in Left(k + 1) /\ b \in Left(k + 1)
      <4> HIDE DEF whole
      <4> QED
        BY <3>4, <3>5, <3>6
    <3>8. halves(part) = <<a, b>>
      BY <2>2 DEF Halves, a, b, m, l
    <3> HIDE DEF halves, Left
    <3> QED
      BY <3>7, <3>8
  <2> QED
    BY <2>1, <2>2
<1>4. ASSUME NEW k \in Nat, NEW parts \in Seq(Left(k)) PROVE halved(parts) \in Seq(Left(k + 1))
  <2> DEFINE pieces == [g \in DOMAIN parts |-> halves(parts[g])]
  <2> HIDE DEF Left, halves
  <2>1. pieces \in Seq(Seq(Left(k + 1)))
    <3>1. Len(parts) \in Nat /\ DOMAIN parts = 1 .. Len(parts)
      BY LenProperties
    <3>2. \A g \in 1 .. Len(parts) : halves(parts[g]) \in Seq(Left(k + 1))
      BY <1>3, ElementOfSeq
    <3> QED
      BY <3>1, <3>2
  <2> HIDE DEF pieces
  <2>2. FlattenSeq(pieces) \in Seq(Left(k + 1))
    BY <2>1, Flattened
  <2> QED
    BY <2>2 DEF pieces, halves, Halved
<1> HIDE DEF halved, Left
<1> DEFINE T == {k \in Nat : k <= n => round[k] \in Seq(Left(k))}
<1>8. 0 \in T
  BY <1>1, <1>2
<1>9. ASSUME NEW k \in Nat, k \in T PROVE k + 1 \in T
  <2> SUFFICES ASSUME k + 1 <= n PROVE round[k + 1] \in Seq(Left(k + 1))
    OBVIOUS
  <2>1. k + 1 \in 1 .. n /\ (k + 1) - 1 = k /\ k <= n
    BY <1>1
  <2>2. round[k] \in Seq(Left(k))
    BY <1>9, <2>1
  <2>3. halved(round[k]) \in Seq(Left(k + 1))
    BY <1>4, <2>2
  <2> QED
    BY <1>2, <2>1, <2>3
<1> HIDE DEF T
<1>10. round[n] \in Seq(Left(n))
  <2>1. n \in T
    BY <1>1, <1>8, <1>9, Induct
  <2> QED
    BY <1>1, <2>1 DEF T
<1>11. Left(n) \subseteq Whole(header)
  <2>1. ASSUME NEW part \in Left(n) PROVE part \in Text /\ (whole(part) \/ Len(part) <= n - n)
    <3> HIDE DEF whole
    <3> QED
      BY DEF Left
  <2>2. n - n <= 1
    BY <1>1
  <2>3. ASSUME NEW part \in Text PROVE Len(part) \in Nat
    BY DEF Text
  <2> QED
    BY <1>1, <2>1, <2>2, <2>3 DEF Whole
<1>12. Seq(Left(n)) \subseteq Seq(Whole(header))
  BY <1>11
<1> QED
  BY <1>2, <1>10, <1>12

\* The groups of a table's rows, with one more row.
GroupedWith(header, s, row) ==
    LET estimate == FoldLeft(LAMBDA m, r : m + measure(<<r>>), measure(header),
                             Append(Last(s), row))
    IN  IF /\ Last(s) # <<>>
           /\ estimate > Max({measure(header) + 1, (9 * maximum) \div 10})
        THEN Append(s, <<row>>)
        ELSE [s EXCEPT ![Len(s)] = Append(@, row)]

\* There is a group from the start.
Groups == {s \in Seq(Text) : s # <<>>}

\* A row is added to the groups there are, or is a group.
LEMMA RowGrouped ==
    ASSUME NEW header \in Text, NEW s \in Groups, NEW row \in Word
    PROVE  /\ GroupedWith(header, s, row) \in Groups
           /\ Len(s) \in 1 .. Len(s)
           /\ GroupedWith(header, s, row) \in
                  {Append(s, <<row>>), [s EXCEPT ![Len(s)] = Append(s[Len(s)], row)]}
<1>0. s \in Seq(Text) /\ s # <<>>
  BY DEF Groups
<1>1. <<row>> \in Text
  BY SizeOfOne
<1>2. Append(s, <<row>>) \in Seq(Text) /\ Append(s, <<row>>) # <<>>
  BY <1>0, <1>1, AppendProperties
<1>3. s[Len(s)] \in Text /\ Len(s) \in 1 .. Len(s)
  BY <1>0, LastIn
<1> DEFINE new == Append(s[Len(s)], row)
<1>4. new \in Text
  BY <1>1, <1>3 DEF Text
<1> HIDE DEF new
<1>5. [s EXCEPT ![Len(s)] = new] \in Seq(Text) /\ [s EXCEPT ![Len(s)] = new] # <<>>
  <2>1. [s EXCEPT ![Len(s)] = new] \in Seq(Text) /\ Len([s EXCEPT ![Len(s)] = new]) = Len(s)
    BY <1>0, <1>3, <1>4, ExceptSeq
  <2>2. Len(s) # 0 /\ Len(<<>>) = 0
    BY <1>3
  <2> QED
    BY <2>1, <2>2
<1>6. GroupedWith(header, s, row) \in {Append(s, <<row>>), [s EXCEPT ![Len(s)] = new]}
  BY DEF GroupedWith, new
<1> QED
  BY <1>2, <1>3, <1>5, <1>6 DEF Groups, new

\* Rows are grouped one by one.
LEMMA GroupRun ==
    ASSUME NEW header \in Text, NEW rows \in Text
    PROVE  \E f \in [0 .. Len(rows) -> Groups] :
              /\ f[0] = << <<>> >>
              /\ \A k \in 1 .. Len(rows) : f[k] = GroupedWith(header, f[k - 1], rows[k])
              /\ _group_rows(header, rows) =
                    FlattenSeq([g \in DOMAIN f[Len(rows)] |-> _fit_group(header, f[Len(rows)][g])])
<1> DEFINE n == Len(rows)
           S == Groups
           add(s, row) == GroupedWith(header, s, row)
           first == << <<>> >>
           Eqn(g) == g = [k \in 0 .. n |-> IF k = 0 THEN first ELSE add(g[k - 1], rows[k])]
           after == CHOOSE g : Eqn(g)
           groups == after[n]
           fitted == [g \in DOMAIN groups |-> _fit_group(header, groups[g])]
           G == [x \in S \X (1 .. n) |-> add(x[1], rows[x[2]])]
<1>1. n \in Nat /\ first \in S
  BY NoText DEF Text, Groups
<1>2. _group_rows(header, rows) = FlattenSeq(fitted)
  BY Zenon DEF _group_rows, GroupedWith
<1>3. ASSUME NEW s \in S, NEW k \in 1 .. n PROVE add(s, rows[k]) \in S
  BY WordIn, RowGrouped
<1> HIDE DEF n, S, add, first
<1>4. Eqn(after)
  <2>1. G \in [S \X (1 .. n) -> S]
    BY <1>3
  <2>2. PICK f \in [0 .. n -> S] : f[0] = first /\ \A k \in 1 .. n : f[k] = G[<<f[k - 1], k>>]
    <3> HIDE DEF G
    <3>1. Runs(S, n, first, G) # {}
      BY <1>1, <2>1, RunExists
    <3> QED
      BY <3>1 DEF Runs
  <2>3. ASSUME NEW k \in 0 .. n
        PROVE  f[k] = IF k = 0 THEN first ELSE add(f[k - 1], rows[k])
    <3>1. CASE k = 0
      BY <2>2, <3>1
    <3>2. CASE k # 0
      <4>1. k \in 1 .. n /\ f[k - 1] \in S
        BY <1>1, <3>2
      <4>2. G[<<f[k - 1], k>>] = add(f[k - 1], rows[k])
        BY <4>1
      <4> QED
        BY <2>2, <3>2, <4>1, <4>2
    <3> QED
      BY <3>1, <3>2
  <2>4. Eqn(f)
    BY <2>3
  <2> HIDE DEF Eqn
  <2> QED
    BY <2>4
<1> HIDE DEF after, G
<1>5. after[0] = first /\ \A k \in 1 .. n : after[k] = add(after[k - 1], rows[k])
  <2>1. 0 \in 0 .. n /\ \A k \in 1 .. n : k \in 0 .. n /\ k # 0
    BY <1>1
  <2> QED
    BY <1>4, <2>1
<1>6. \A k \in 0 .. n : after[k] \in S
  <2>1. after[0] \in S /\ \A k \in 1 .. n : after[k - 1] \in S => after[k] \in S
    BY <1>1, <1>3, <1>5
  <2> QED
    BY <1>1, <2>1, RunStays
<1>7. after \in [0 .. n -> S]
  BY <1>4, <1>6
<1> QED
  BY <1>1, <1>2, <1>5, <1>7 DEF S, n, add, first

\* Every group of a table's rows is whole.
LEMMA GroupsFit ==
    ASSUME NEW header \in Text, NEW rows \in Text
    PROVE  _group_rows(header, rows) \in Seq(Whole(header))
<1>1. PICK f \in [0 .. Len(rows) -> Groups] :
         _group_rows(header, rows) =
             FlattenSeq([g \in DOMAIN f[Len(rows)] |-> _fit_group(header, f[Len(rows)][g])])
  BY GroupRun
<1> DEFINE groups == f[Len(rows)]
           fitted == [g \in DOMAIN groups |-> _fit_group(header, groups[g])]
<1>2. groups \in Seq(Text)
  <2>1. Len(rows) \in 0 .. Len(rows)
    BY DEF Text
  <2> QED
    BY <2>1 DEF Groups
<1> HIDE DEF groups
<1>3. fitted \in Seq(Seq(Whole(header)))
  <2>1. Len(groups) \in Nat /\ DOMAIN groups = 1 .. Len(groups)
    BY <1>2, LenProperties
  <2>2. \A g \in 1 .. Len(groups) : _fit_group(header, groups[g]) \in Seq(Whole(header))
    BY <1>2, ElementOfSeq, GroupFits
  <2> QED
    BY <2>1, <2>2
<1>4. _group_rows(header, rows) = FlattenSeq(fitted)
  BY <1>1 DEF groups
<1> HIDE DEF fitted
<1> QED
  BY <1>3, <1>4, Flattened

\* What a table is rendered as: groups of its rows, each under its header.
Grid == {p \in [head : Text, text : Text] : p.text \in Whole(p.head)}

\* A table is rendered as whole groups.
LEMMA RenderFits ==
    ASSUME NEW rows \in Text
    PROVE  _render_table(rows) \in Seq(Grid)
<1> DEFINE start == _header_row(rows)
           header == SubSeq(rows, 1, start)
           body == SubSeq(rows, start + 1, Len(rows))
           rendered(groups) == [g \in DOMAIN groups |-> [head |-> header, text |-> groups[g]]]
           groups == IF body = <<>> THEN << <<>> >> ELSE _group_rows(header, body)
<1>1. _render_table(rows) = IF rows = <<>> THEN <<>> ELSE rendered(groups)
  BY Zenon DEF _render_table
<1>2. CASE rows = <<>>
  BY <1>1, <1>2
<1>3. CASE rows # <<>>
  <2>1. start \in 1 .. Len(rows) /\ Len(rows) \in Nat
    BY <1>3, HeaderRow DEF Text
  <2>2. header \in Text /\ body \in Text
    BY <2>1, SubSeqProperties DEF Text
  <2> HIDE DEF header, body
  <2>3. groups \in Seq(Whole(header))
    <3>1. <<>> \in Whole(header)
      BY NoText DEF Whole
    <3> QED
      BY <2>2, <3>1, GroupsFit
  <2> HIDE DEF groups
  <2>4. \A g \in 1 .. Len(groups) : [head |-> header, text |-> groups[g]] \in Grid
    BY <2>2, <2>3 DEF Grid, Whole
  <2>5. rendered(groups) \in Seq(Grid)
    <3>1. Len(groups) \in Nat /\ DOMAIN groups = 1 .. Len(groups)
      BY <2>3, LenProperties
    <3> QED
      BY <2>4, <3>1
  <2> HIDE DEF rendered
  <2> QED
    BY <1>1, <1>3, <2>5
<1> QED
  BY <1>2, <1>3

(***************************************************************************)
(* Passages                                                                *)
(***************************************************************************)

Heading == STRING \cup {None}

\* A table has rows, and a figure a label that says something.
Table == {x \in [unit_index : Nat, rows : Text, heading : Heading] : x.rows # <<>>}
Figure ==
    {x \in [unit_index : Nat, label : Text, text : Text, heading : Heading] :
        \E w \in ToSet(x.label) : w.size > 0}

\* The passages FitsWindow allows.
Passage ==
    {p \in [head : Text, text : Text, page_number : Nat, section_heading : Heading,
            is_table : BOOLEAN] :
        \/ measure(p.head \o p.text) <= max_sequence_tokens
        \/ p.is_table /\ Len(p.text) <= 1
        \/ Uneven(p.text)}

\* Pieces of prose that fit are passages.
LEMMA ProseFits ==
    ASSUME NEW pieces \in Seq(Fitting), NEW page \in Nat, NEW heading \in Heading
    PROVE  prose(pieces, page, heading) \in Seq(Passage)
<1> DEFINE passage(k) == Chunk(<<>>, pieces[k], page, heading, FALSE)
<1>1. Len(pieces) \in Nat /\ DOMAIN pieces = 1 .. Len(pieces)
  BY LenProperties
<1>2. ASSUME NEW k \in 1 .. Len(pieces) PROVE passage(k) \in Passage
  <2> DEFINE piece == pieces[k]
  <2>1. piece \in Text /\ (measure(piece) <= maximum \/ Uneven(piece))
    BY ElementOfSeq DEF Fitting
  <2> HIDE DEF piece
  <2>2. <<>> \o piece = piece /\ <<>> \in Text
    BY <2>1, NoText, ConcatEmptySeq DEF Text
  <2>3. measure(piece) <= max_sequence_tokens \/ Uneven(piece)
    BY <2>1, SizeType, Settings
  <2>4. measure(<<>> \o piece) <= max_sequence_tokens \/ Uneven(piece)
    BY <2>2, <2>3, Zenon
  <2>5. Chunk(<<>>, piece, page, heading, FALSE) \in Passage
    BY <2>1, <2>2, <2>4 DEF Chunk, Passage
  <2> QED
    BY <2>5 DEF piece
<1> HIDE DEF passage
<1>3. [k \in DOMAIN pieces |-> passage(k)] \in Seq(Passage)
  BY <1>1, <1>2
<1> QED
  BY <1>3 DEF prose, passage

\* Whole groups of a table are passages.
LEMMA GridFits ==
    ASSUME NEW pieces \in Seq(Grid), NEW page \in Nat, NEW heading \in Heading
    PROVE  grid(pieces, page, heading) \in Seq(Passage)
<1> DEFINE passage(k) == Chunk(pieces[k].head, pieces[k].text, page, heading, TRUE)
<1>1. Len(pieces) \in Nat /\ DOMAIN pieces = 1 .. Len(pieces)
  BY LenProperties
<1>2. ASSUME NEW k \in 1 .. Len(pieces) PROVE passage(k) \in Passage
  <2> DEFINE h == pieces[k].head
             r == pieces[k].text
  <2>1. h \in Text /\ r \in Text /\ (Len(r) <= 1 \/ fits(h \o r))
    <3>1. pieces[k] \in Grid
      BY ElementOfSeq
    <3> QED
      BY <3>1 DEF Grid, Whole
  <2> HIDE DEF h, r
  <2>2. Len(r) <= 1 \/ measure(h \o r) <= max_sequence_tokens
    <3>1. measure(h \o r) \in Nat
      BY <2>1, SizeOfConcat, SizeType
    <3> QED
      BY <2>1, <3>1, Settings DEF fits
  <2>3. Chunk(h, r, page, heading, TRUE) \in Passage
    BY <2>1, <2>2 DEF Chunk, Passage
  <2> QED
    BY <2>3 DEF h, r
<1> HIDE DEF passage
<1>3. [k \in DOMAIN pieces |-> passage(k)] \in Seq(Passage)
  BY <1>1, <1>2
<1> QED
  BY <1>3 DEF grid, passage

\* The heading a table or figure is filed under.
LEMMA NamedHeading ==
    ASSUME NEW x, x.heading \in Heading, NEW heading \in Heading
    PROVE  NamedOr(x, heading) \in Heading
BY DEF NamedOr

\* Tables become passages.
LEMMA TablesFit ==
    ASSUME NEW tables \in Seq(Table), NEW heading \in Heading
    PROVE  add_tables(tables, heading) \in Seq(Passage)
<1> DEFINE added(k) == add_table(tables[k], NamedOr(tables[k], heading))
<1>1. Len(tables) \in Nat /\ DOMAIN tables = 1 .. Len(tables)
  BY LenProperties
<1>2. ASSUME NEW k \in 1 .. Len(tables) PROVE added(k) \in Seq(Passage)
  <2> DEFINE table == tables[k]
             named == NamedOr(table, heading)
  <2>1. table.rows \in Text /\ table.unit_index \in Nat /\ table.heading \in Heading
    <3>1. table \in Table
      BY ElementOfSeq
    <3> QED
      BY <3>1 DEF Table
  <2> HIDE DEF table
  <2>2. named \in Heading
    BY <2>1, NamedHeading
  <2> HIDE DEF named
  <2>3. add_table(table, named) \in Seq(Passage)
    BY <2>1, <2>2, RenderFits, GridFits DEF add_table
  <2> QED
    BY <2>3 DEF table, named
<1> HIDE DEF added
<1>3. [k \in DOMAIN tables |-> added(k)] \in Seq(Seq(Passage))
  BY <1>1, <1>2
<1>4. FlattenSeq([k \in DOMAIN tables |-> added(k)]) \in Seq(Passage)
  BY <1>3, Flattened
<1> QED
  BY <1>4 DEF add_tables, added

\* Figures become passages.
LEMMA FiguresFit ==
    ASSUME NEW figures \in Seq(Figure), NEW heading \in Heading
    PROVE  add_figures(figures, heading) \in Seq(Passage)
<1> DEFINE added(k) == add_figure(figures[k], NamedOr(figures[k], heading))
<1>1. Len(figures) \in Nat /\ DOMAIN figures = 1 .. Len(figures)
  BY LenProperties
<1>2. ASSUME NEW k \in 1 .. Len(figures) PROVE added(k) \in Seq(Passage)
  <2> DEFINE figure == figures[k]
             named == NamedOr(figure, heading)
  <2>1. /\ figure.label \in Text /\ figure.text \in Text /\ figure.unit_index \in Nat
        /\ figure.heading \in Heading
    <3>1. figure \in Figure
      BY ElementOfSeq
    <3> QED
      BY <3>1 DEF Figure
  <2> HIDE DEF figure
  <2>2. named \in Heading
    BY <2>1, NamedHeading
  <2> HIDE DEF named
  <2>3. _split_to_size(figure.label \o figure.text) \in Seq(Fitting)
    BY <2>1, SizeOfConcat, SplitFits
  <2>4. add_figure(figure, named) \in Seq(Passage)
    BY <2>1, <2>2, <2>3, ProseFits DEF add_figure
  <2> QED
    BY <2>4 DEF figure, named
<1> HIDE DEF added
<1>3. [k \in DOMAIN figures |-> added(k)] \in Seq(Seq(Passage))
  BY <1>1, <1>2
<1>4. FlattenSeq([k \in DOMAIN figures |-> added(k)]) \in Seq(Passage)
  BY <1>3, Flattened
<1> QED
  BY <1>4 DEF add_figures, added

\* A stretch of a text is a text.
LEMMA Stretch ==
    ASSUME NEW t \in Text, NEW m \in Int, NEW n \in Int, m >= 1, n <= Len(t)
    PROVE  SubSeq(t, m, n) \in Text
<1>1. \A i \in m .. n : t[i] \in Word
  <2>1. Len(t) \in Nat
    BY DEF Text
  <2>2. \A i \in m .. n : i \in 1 .. Len(t)
    BY <2>1
  <2> QED
    BY <2>2, WordIn
<1> QED
  BY <1>1, SubSeqProperties DEF Text

\* Where headings are found in a text, and which.
Cut(t) == [at : 1 .. Len(t), heading : STRING]

\* Headings are found at words of the text.
LEMMA CutsFound ==
    ASSUME NEW t \in Text, NEW titles \in Seq(STRING)
    PROVE  Cuts(t, titles) \in Seq(Cut(t))
<1> DEFINE n == Len(titles)
           S == Seq(Cut(t))
           from(cuts) == IF cuts = <<>> THEN 1 ELSE Last(cuts).at + 1
           found(cuts, title) == Find(t, title, from(cuts))
           add(cuts, title) ==
               IF found(cuts, title) = 0 THEN cuts
               ELSE Append(cuts, [at |-> found(cuts, title), heading |-> title])
           Eqn(g) == g = [k \in 0 .. n |-> IF k = 0 THEN <<>> ELSE add(g[k - 1], titles[k])]
           after == CHOOSE g : Eqn(g)
           G == [x \in S \X (1 .. n) |-> add(x[1], titles[x[2]])]
<1>1. n \in Nat /\ <<>> \in S /\ Len(t) \in Nat
  BY DEF Text
<1>2. Cuts(t, titles) = after[n]
  BY Zenon DEF Cuts
<1>3. ASSUME NEW s \in S, NEW k \in 1 .. n PROVE add(s, titles[k]) \in S
  <2>1. titles[k] \in STRING
    BY ElementOfSeq
  <2>2. from(s) \in Nat /\ from(s) >= 1
    <3>1. CASE s = <<>>
      BY <3>1
    <3>2. CASE s # <<>>
      <4>1. Last(s) \in Cut(t)
        BY <3>2, LastIn
      <4> QED
        BY <1>1, <3>2, <4>1 DEF Cut
    <3> QED
      BY <3>1, <3>2
  <2> DEFINE title == titles[k]
             start == from(s)
  <2>3. Find(t, title, start) \in 0 .. Len(t)
    <3> DEFINE hits == {i \in start .. Len(t) : title \in t[i].says}
    <3>1. Find(t, title, start) = IF hits = {} THEN 0 ELSE Min(hits)
      BY Zenon DEF Find
    <3>2. hits \subseteq 1 .. Len(t)
      <4> HIDE DEF start
      <4>1. start \in Nat /\ start >= 1
        BY <2>2 DEF start
      <4> QED
        BY <1>1, <4>1
    <3> HIDE DEF hits
    <3>3. hits # {} => Min(hits) \in hits
      <4>1. hits \subseteq Nat
        BY <1>1, <3>2
      <4> QED
        BY <4>1, MinIn
    <3>4. hits # {} => Min(hits) \in 1 .. Len(t)
      BY <3>2, <3>3
    <3> QED
      BY <1>1, <3>1, <3>4
  <2>4. ASSUME found(s, title) # 0
        PROVE  Append(s, [at |-> found(s, title), heading |-> title]) \in S
    <3>1. found(s, title) \in 1 .. Len(t)
      BY <1>1, <2>3, <2>4
    <3> HIDE DEF found, from
    <3>2. [at |-> found(s, title), heading |-> title] \in Cut(t)
      BY <2>1, <3>1 DEF Cut
    <3> QED
      BY <3>2
  <2> HIDE DEF S, found, from
  <2> QED
    BY <2>4
<1> HIDE DEF n, S, add
<1>4. Eqn(after)
  <2>1. G \in [S \X (1 .. n) -> S]
    BY <1>3
  <2>2. PICK f \in [0 .. n -> S] : f[0] = <<>> /\ \A k \in 1 .. n : f[k] = G[<<f[k - 1], k>>]
    <3> HIDE DEF G
    <3>1. Runs(S, n, <<>>, G) # {}
      BY <1>1, <2>1, RunExists
    <3> QED
      BY <3>1 DEF Runs
  <2>3. ASSUME NEW k \in 0 .. n
        PROVE  f[k] = IF k = 0 THEN <<>> ELSE add(f[k - 1], titles[k])
    <3>1. CASE k = 0
      BY <2>2, <3>1
    <3>2. CASE k # 0
      <4>1. k \in 1 .. n /\ f[k - 1] \in S
        BY <1>1, <3>2
      <4>2. G[<<f[k - 1], k>>] = add(f[k - 1], titles[k])
        BY <4>1
      <4> QED
        BY <2>2, <3>2, <4>1, <4>2
    <3> QED
      BY <3>1, <3>2
  <2>4. Eqn(f)
    BY <2>3
  <2> HIDE DEF Eqn
  <2> QED
    BY <2>4
<1> HIDE DEF after, G
<1>5. after[0] \in S /\ \A k \in 1 .. n : after[k - 1] \in S => after[k] \in S
  <2>1. 0 \in 0 .. n /\ \A k \in 1 .. n : k \in 0 .. n /\ k # 0
    BY <1>1
  <2>2. after[0] = <<>> /\ \A k \in 1 .. n : after[k] = add(after[k - 1], titles[k])
    BY <1>4, <2>1
  <2> QED
    BY <1>1, <1>3, <2>2
<1>6. after[n] \in S
  <2>1. \A k \in 0 .. n : after[k] \in S
    BY <1>1, <1>5, RunStays
  <2> QED
    BY <1>1, <2>1
<1> QED
  BY <1>2, <1>6 DEF S

\* A section: a stretch of a unit's text, and its heading if it has one.
Part == [heading : Heading, body : Text]

\* A unit's text is cut into such stretches.
LEMMA SectionsMade ==
    ASSUME NEW t \in Text, NEW titles \in Seq(STRING)
    PROVE  _split_unit_by_headings(t, titles) \in Seq(Part)
<1> DEFINE cuts == Cuts(t, titles)
           end(i) == IF i < Len(cuts) THEN cuts[i + 1].at - 1 ELSE Len(t)
           section(i) == [heading |-> cuts[i].heading, body |-> SubSeq(t, cuts[i].at, end(i))]
           before == IF cuts = <<>> THEN t ELSE SubSeq(t, 1, cuts[1].at - 1)
           lead == IF before = <<>> THEN <<>> ELSE <<[heading |-> None, body |-> before]>>
           sections == [i \in DOMAIN cuts |-> section(i)]
<1>1. _split_unit_by_headings(t, titles) = lead \o sections
  BY Zenon DEF _split_unit_by_headings
<1>2. cuts \in Seq(Cut(t))
  BY CutsFound
<1> HIDE DEF cuts
<1>3. /\ Len(cuts) \in Nat /\ DOMAIN cuts = 1 .. Len(cuts) /\ Len(t) \in Nat
      /\ \A i \in 1 .. Len(cuts) : cuts[i].at \in 1 .. Len(t) /\ cuts[i].heading \in STRING
  <2>1. Len(cuts) \in Nat /\ DOMAIN cuts = 1 .. Len(cuts)
    BY <1>2, LenProperties
  <2>2. Len(t) \in Nat
    BY DEF Text
  <2>3. ASSUME NEW i \in 1 .. Len(cuts)
        PROVE  cuts[i].at \in 1 .. Len(t) /\ cuts[i].heading \in STRING
    <3>1. cuts[i] \in Cut(t)
      BY <1>2, ElementOfSeq
    <3> QED
      BY <3>1 DEF Cut
  <2> QED
    BY <2>1, <2>2, <2>3
<1>4. ASSUME NEW i \in 1 .. Len(cuts) PROVE section(i) \in Part
  <2>1. end(i) \in Int /\ end(i) <= Len(t)
    <3>1. CASE i < Len(cuts)
      <4>1. i + 1 \in 1 .. Len(cuts)
        BY <1>3, <3>1
      <4>2. cuts[i + 1].at \in 1 .. Len(t)
        BY <1>3, <4>1
      <4> QED
        BY <1>3, <3>1, <4>2
    <3>2. CASE ~(i < Len(cuts))
      BY <1>3, <3>2
    <3> QED
      BY <3>1, <3>2
  <2> HIDE DEF end
  <2>2. cuts[i].at \in 1 .. Len(t) /\ cuts[i].heading \in STRING
    BY <1>3
  <2>3. SubSeq(t, cuts[i].at, end(i)) \in Text
    BY <1>3, <2>1, <2>2, Stretch
  <2> QED
    BY <2>2, <2>3 DEF Part, Heading
<1> HIDE DEF section
<1>5. sections \in Seq(Part)
  <2>1. DOMAIN cuts = 1 .. Len(cuts) /\ Len(cuts) \in Nat
    BY <1>3
  <2> QED
    BY <1>4, <2>1
<1>6. before \in Text
  <2>1. CASE cuts = <<>>
    BY <2>1
  <2>2. CASE cuts # <<>>
    <3>1. 1 \in 1 .. Len(cuts)
      BY <1>2, <1>3, <2>2, EmptySeq
    <3>2. cuts[1].at \in 1 .. Len(t)
      BY <1>3, <3>1
    <3>3. SubSeq(t, 1, cuts[1].at - 1) \in Text
      BY <1>3, <3>2, Stretch
    <3> QED
      BY <2>2, <3>3
  <2> QED
    BY <2>1, <2>2
<1> HIDE DEF before
<1>7. lead \in Seq(Part)
  <2>1. [heading |-> None, body |-> before] \in Part
    BY <1>6 DEF Part, Heading
  <2> QED
    BY <2>1
<1> HIDE DEF lead, sections
<1> QED
  BY <1>1, <1>5, <1>7, ConcatProperties

\* What the chunker has made of a unit so far, and what it still has to place.
Placed == [chunks : Seq(Passage), heading : Heading, tables : Seq(Table), figures : Seq(Figure)]

\* A section adds passages, and leaves tables and figures to place.
LEMMA SectionFits ==
    ASSUME NEW s \in Placed, NEW section \in Part, NEW page \in Nat
    PROVE  add_section(s, section, page) \in Placed
<1> DEFINE heading == IF section.heading = None THEN s.heading ELSE section.heading
           mine(x) == section.heading # None /\ x.heading = section.heading
           rest(x) == ~mine(x)
           body == IF Dropped(section, s.tables, s.figures) THEN <<>>
                   ELSE _split_to_size(section.body)
           said == prose(body, page, heading)
           tables == add_tables(Only(s.tables, mine), heading)
           figures == add_figures(Only(s.figures, mine), heading)
           left == Only(s.tables, rest)
           others == Only(s.figures, rest)
<1>1. add_section(s, section, page) =
          [chunks |-> s.chunks \o said \o tables \o figures, heading |-> heading,
           tables |-> left, figures |-> others]
  BY Zenon DEF add_section
<1>2. /\ s.chunks \in Seq(Passage) /\ s.heading \in Heading
      /\ s.tables \in Seq(Table) /\ s.figures \in Seq(Figure)
  BY DEF Placed
<1>3. section.heading \in Heading /\ section.body \in Text
  BY DEF Part
<1>4. heading \in Heading
  BY <1>2, <1>3
<1>5. Only(s.tables, mine) \in Seq(Table) /\ left \in Seq(Table)
  <2> HIDE DEF mine
  <2>1. Only(s.tables, mine) \in Seq(Table)
    BY <1>2, Kept DEF Only
  <2> HIDE DEF rest
  <2>2. Only(s.tables, rest) \in Seq(Table)
    BY <1>2, Kept DEF Only
  <2> QED
    BY <2>1, <2>2
<1>6. Only(s.figures, mine) \in Seq(Figure) /\ others \in Seq(Figure)
  <2> HIDE DEF mine
  <2>1. Only(s.figures, mine) \in Seq(Figure)
    BY <1>2, Kept DEF Only
  <2> HIDE DEF rest
  <2>2. Only(s.figures, rest) \in Seq(Figure)
    BY <1>2, Kept DEF Only
  <2> QED
    BY <2>1, <2>2
<1>7. body \in Seq(Fitting)
  <2>1. _split_to_size(section.body) \in Seq(Fitting)
    BY <1>3, SplitFits
  <2>2. <<>> \in Seq(Fitting)
    OBVIOUS
  <2> QED
    BY <2>1, <2>2
<1> HIDE DEF heading, mine, rest, body, left, others
<1>8. said \in Seq(Passage)
  BY <1>4, <1>7, ProseFits
<1>9. tables \in Seq(Passage)
  BY <1>4, <1>5, TablesFit
<1>10. figures \in Seq(Passage)
  BY <1>4, <1>6, FiguresFit
<1> HIDE DEF said, tables, figures
<1>11. s.chunks \o said \o tables \o figures \in Seq(Passage)
  <2>1. s.chunks \o said \in Seq(Passage)
    BY <1>2, <1>8, ConcatProperties
  <2>2. (s.chunks \o said) \o tables \in Seq(Passage)
    BY <1>9, <2>1, ConcatProperties
  <2> QED
    BY <1>10, <2>2, ConcatProperties
<1> QED
  BY <1>1, <1>4, <1>5, <1>6, <1>11 DEF Placed

\* Sections are added one by one.
LEMMA SectionsRun ==
    ASSUME NEW start \in Placed, NEW sections \in Seq(Part), NEW page \in Nat
    PROVE  \E f \in [0 .. Len(sections) -> Placed] :
              /\ f[0] = start
              /\ \A k \in 1 .. Len(sections) : f[k] = add_section(f[k - 1], sections[k], page)
              /\ add_sections(start, sections, page) = f[Len(sections)]
<1> DEFINE n == Len(sections)
           S == Placed
           Eqn(g) == g = [k \in 0 .. n |->
                             IF k = 0 THEN start ELSE add_section(g[k - 1], sections[k], page)]
           after == CHOOSE g : Eqn(g)
           G == [x \in S \X (1 .. n) |-> add_section(x[1], sections[x[2]], page)]
<1>1. n \in Nat /\ start \in S
  OBVIOUS
<1>2. add_sections(start, sections, page) = after[n]
  BY Zenon DEF add_sections
<1>3. ASSUME NEW s \in S, NEW k \in 1 .. n PROVE add_section(s, sections[k], page) \in S
  BY ElementOfSeq, SectionFits
<1> HIDE DEF n, S
<1>4. Eqn(after)
  <2>1. G \in [S \X (1 .. n) -> S]
    BY <1>3
  <2>2. PICK f \in [0 .. n -> S] : f[0] = start /\ \A k \in 1 .. n : f[k] = G[<<f[k - 1], k>>]
    <3> HIDE DEF G
    <3>1. Runs(S, n, start, G) # {}
      BY <1>1, <2>1, RunExists
    <3> QED
      BY <3>1 DEF Runs
  <2>3. ASSUME NEW k \in 0 .. n
        PROVE  f[k] = IF k = 0 THEN start ELSE add_section(f[k - 1], sections[k], page)
    <3>1. CASE k = 0
      BY <2>2, <3>1
    <3>2. CASE k # 0
      <4>1. k \in 1 .. n /\ f[k - 1] \in S
        BY <1>1, <3>2
      <4>2. G[<<f[k - 1], k>>] = add_section(f[k - 1], sections[k], page)
        BY <4>1
      <4> QED
        BY <2>2, <3>2, <4>1, <4>2
    <3> QED
      BY <3>1, <3>2
  <2>4. Eqn(f)
    BY <2>3
  <2> HIDE DEF Eqn
  <2> QED
    BY <2>4
<1> HIDE DEF after, G
<1>5. /\ after[0] = start
      /\ \A k \in 1 .. n : after[k] = add_section(after[k - 1], sections[k], page)
  <2>1. 0 \in 0 .. n /\ \A k \in 1 .. n : k \in 0 .. n /\ k # 0
    BY <1>1
  <2> QED
    BY <1>4, <2>1
<1>6. \A k \in 0 .. n : after[k] \in S
  <2>1. after[0] \in S /\ \A k \in 1 .. n : after[k - 1] \in S => after[k] \in S
    BY <1>1, <1>3, <1>5
  <2> QED
    BY <1>1, <2>1, RunStays
<1>7. after \in [0 .. n -> S]
  BY <1>4, <1>6
<1> QED
  BY <1>1, <1>2, <1>5, <1>7 DEF S, n

\* So do all of a unit's sections.
LEMMA SectionsFit ==
    ASSUME NEW start \in Placed, NEW sections \in Seq(Part), NEW page \in Nat
    PROVE  add_sections(start, sections, page) \in Placed
<1>1. Len(sections) \in 0 .. Len(sections)
  BY LenProperties
<1> QED
  BY <1>1, SectionsRun

(***************************************************************************)
(* Documents                                                               *)
(***************************************************************************)

HeadingAt == [title : STRING, unit_index : Nat]
UnitText == [index : Nat, text : Text, text_is_table : BOOLEAN]

\* What EXTRACT reads, and NORMALIZE and CHUNK work on.
Contents ==
    [mime_type : Mimes, units : Seq(UnitText), headings : Seq(HeadingAt), tables : Seq(Table),
     figures : Seq(Figure), ocr_pages : Seq(Nat), ocr_skipped_pages : SUBSET Nat,
     ocr_unreadable_lines : SUBSET (Nat \X Nat)]

\* A unit becomes passages, and leaves a heading in force.
LEMMA UnitFits ==
    ASSUME NEW doc \in Contents, NEW unit \in UnitText, NEW heading \in Heading
    PROVE  /\ chunk_unit(doc, unit, heading).chunks \in Seq(Passage)
           /\ chunk_unit(doc, unit, heading).heading \in Heading
<1> DEFINE here(x) == x.unit_index = unit.index
           headings == Only(doc.headings, here)
           titles == [k \in DOMAIN headings |-> headings[k].title]
           tables == Only(doc.tables, here)
           figures == Only(doc.figures, here)
           start == [chunks |-> <<>>,
                     heading |-> IF units_stand_alone(doc.mime_type) THEN None ELSE heading,
                     tables |-> tables,
                     figures |-> figures]
           sections == IF unit.text_is_table THEN <<>>
                       ELSE _split_unit_by_headings(unit.text, titles)
           placed == add_sections(start, sections, unit.index)
<1>1. chunk_unit(doc, unit, heading) = add_rest(placed, titles)
  BY Zenon DEF chunk_unit
<1>2. /\ doc.headings \in Seq(HeadingAt) /\ doc.tables \in Seq(Table) /\ doc.figures \in Seq(Figure)
  BY DEF Contents
<1>3. unit.index \in Nat /\ unit.text \in Text
  BY DEF UnitText
<1> HIDE DEF here
<1>4. headings \in Seq(HeadingAt)
  BY <1>2, Kept DEF Only
<1>5. tables \in Seq(Table)
  BY <1>2, Kept DEF Only
<1>6. figures \in Seq(Figure)
  BY <1>2, Kept DEF Only
<1> HIDE DEF headings, tables, figures
<1>7. titles \in Seq(STRING)
  <2>1. Len(headings) \in Nat /\ DOMAIN headings = 1 .. Len(headings)
    BY <1>4, LenProperties
  <2>2. ASSUME NEW k \in 1 .. Len(headings) PROVE headings[k].title \in STRING
    <3>1. headings[k] \in HeadingAt
      BY <1>4, ElementOfSeq
    <3> QED
      BY <3>1 DEF HeadingAt
  <2> QED
    BY <2>1, <2>2
<1> HIDE DEF titles
<1>8. start \in Placed
  BY <1>5, <1>6 DEF Placed, Heading
<1>9. sections \in Seq(Part)
  BY <1>3, <1>7, SectionsMade
<1> HIDE DEF start, sections
<1>10. placed \in Placed
  BY <1>3, <1>8, <1>9, SectionsFit
<1> HIDE DEF placed
<1> DEFINE section == Fallback(titles, placed.heading)
           more == add_tables(placed.tables, section)
           last == add_figures(placed.figures, section)
<1>11. /\ placed.chunks \in Seq(Passage) /\ placed.heading \in Heading
       /\ placed.tables \in Seq(Table) /\ placed.figures \in Seq(Figure)
  BY <1>10 DEF Placed
<1>12. section \in Heading
  BY <1>11 DEF Fallback, Heading
<1> HIDE DEF section
<1>13. more \in Seq(Passage) /\ last \in Seq(Passage)
  BY <1>11, <1>12, TablesFit, FiguresFit
<1>14. add_rest(placed, titles) =
          [chunks |-> placed.chunks \o more \o last, heading |-> placed.heading]
  BY Zenon DEF add_rest, section
<1> HIDE DEF more, last
<1>15. placed.chunks \o more \o last \in Seq(Passage)
  <2>1. placed.chunks \o more \in Seq(Passage)
    BY <1>11, <1>13, ConcatProperties
  <2> QED
    BY <1>13, <2>1, ConcatProperties
<1> QED
  BY <1>1, <1>11, <1>14, <1>15

\* The files the settings allow.
Document == [mime : Mimes, units : Seq(Units)]

\* A unit's blocks by number, and those of some kinds.
BlockNumbers(f, u) == 1 .. Len(f.units[u].blocks)
OfKind(f, u, kinds) == {b \in BlockNumbers(f, u) : f.units[u].blocks[b].kind \in kinds}

\* A unit of a file has blocks.
LEMMA UnitBlocks ==
    ASSUME NEW f \in Document, NEW u \in 1 .. Len(f.units)
    PROVE  /\ u \in Nat
           /\ f.units[u].blocks \in Seq(Blocks)
           /\ DOMAIN f.units[u].blocks = BlockNumbers(f, u)
           /\ Len(f.units[u].blocks) \in Nat
           /\ f.units[u].scanned \in BOOLEAN /\ f.units[u].hidden \in BOOLEAN
           /\ \A b \in BlockNumbers(f, u) : f.units[u].blocks[b] \in Blocks /\ b \in Nat
<1>1. f.units \in Seq(Units) /\ Len(f.units) \in Nat
  BY DEF Document
<1>2. f.units[u] \in Units /\ u \in Nat
  BY <1>1, ElementOfSeq
<1> DEFINE blocks == f.units[u].blocks
<1>3. blocks \in Seq(Blocks) /\ f.units[u].scanned \in BOOLEAN /\ f.units[u].hidden \in BOOLEAN
  BY <1>2 DEF Units
<1> HIDE DEF blocks
<1>4. Len(blocks) \in Nat /\ DOMAIN blocks = 1 .. Len(blocks)
  BY <1>3, LenProperties
<1>5. \A b \in 1 .. Len(blocks) : blocks[b] \in Blocks /\ b \in Nat
  BY <1>3, <1>4, ElementOfSeq
<1> QED
  BY <1>2, <1>3, <1>4, <1>5 DEF BlockNumbers, blocks

\* A block is read as words, at least one.
LEMMA WordsRead ==
    ASSUME NEW f \in Document, NEW u \in 1 .. Len(f.units), NEW b \in BlockNumbers(f, u)
    PROVE  Words(f, u, b) \in Text /\ Words(f, u, b) # <<>>
<1> DEFINE block == f.units[u].blocks[b]
           last(k) == k = Len(block.parts)
           word(k) == [at |-> <<u, b>>, part |-> k, kind |-> block.kind,
                       says |-> IF k = 1 THEN block.says ELSE {},
                       size |-> block.parts[k], rate |-> block.rate,
                       filled |-> block.filled[k],
                       then |-> IF last(k) THEN block.then ELSE "sentence", uneven |-> FALSE]
           n == Len(block.parts)
<1>1. Words(f, u, b) = [k \in DOMAIN block.parts |-> word(k)]
  BY Zenon DEF Words
<1>2. block \in Blocks /\ u \in Nat /\ b \in Nat
  BY UnitBlocks
<1> HIDE DEF block
<1>3. /\ block.kind \in Kinds /\ block.says \in SUBSET STRING /\ block.then \in Breaks
      /\ block.parts \in Seq(Nat) /\ block.filled \in Seq(Nat)
      /\ Len(block.filled) = Len(block.parts) /\ block.parts # <<>>
      /\ block.kind = "heading" => block.says # {} /\ Len(block.parts) = 1
      /\ block.rate \in Rates
  BY <1>2 DEF Blocks
<1>4. n \in Nat /\ n # 0 /\ DOMAIN block.parts = 1 .. n
  BY <1>3, EmptySeq, LenProperties
<1>5. ASSUME NEW k \in 1 .. n PROVE word(k) \in Word
  <2>1. block.parts[k] \in Nat /\ block.filled[k] \in Nat /\ k \in Nat
    BY <1>3, <1>4, ElementOfSeq
  <2> DEFINE says == IF k = 1 THEN block.says ELSE {}
             then == IF last(k) THEN block.then ELSE "sentence"
  <2>2. says \in SUBSET STRING /\ then \in Breaks
    <3>1. block.says \in SUBSET STRING /\ {} \in SUBSET STRING
      BY <1>3
    <3> HIDE DEF word
    <3>2. block.then \in Breaks /\ "sentence" \in Breaks
      <4>1. block.then \in Breaks
        BY <1>3
      <4>2. "sentence" \in Breaks
        BY DEF Breaks
      <4> QED
        BY <4>1, <4>2
    <3>3. says \in SUBSET STRING
      BY <3>1
    <3>4. then \in Breaks
      BY <3>2
    <3> QED
      BY <3>3, <3>4
  <2>3. block.kind = "heading" => says # {}
    <3> SUFFICES ASSUME block.kind = "heading" PROVE says # {}
      OBVIOUS
    <3>1. block.says # {} /\ Len(block.parts) = 1
      BY <1>3
    <3>2. k = 1
      BY <3>1
    <3> HIDE DEF word
    <3> QED
      BY <3>1, <3>2
  <2> HIDE DEF says, then
  <2>4. word(k) = [at |-> <<u, b>>, part |-> k, kind |-> block.kind, says |-> says,
                   size |-> block.parts[k], rate |-> block.rate, filled |-> block.filled[k],
                   then |-> then, uneven |-> FALSE]
    BY Zenon DEF says, then
  <2> HIDE DEF word
  <2> QED
    BY <1>2, <1>3, <2>1, <2>2, <2>3, <2>4 DEF Word
<1> HIDE DEF word, n
<1> DEFINE words == [k \in DOMAIN block.parts |-> word(k)]
<1>6. words \in Text /\ Len(words) = n
  BY <1>4, <1>5 DEF Text
<1> HIDE DEF words
<1>7. words # <<>>
  BY <1>4, <1>6, EmptySeq
<1> QED
  BY <1>1, <1>6, <1>7 DEF words

\* What is read of a unit is a text.
LEMMA ReadText ==
    ASSUME NEW f \in Document, NEW u \in 1 .. Len(f.units), NEW kinds
    PROVE  Read(f, u, kinds) \in Text
<1> DEFINE blocks == f.units[u].blocks
           pieces == [b \in DOMAIN blocks |->
                         IF blocks[b].kind \in kinds THEN Words(f, u, b) ELSE <<>>]
<1>1. Read(f, u, kinds) = FlattenSeq(pieces)
  BY Zenon DEF Read
<1>2. DOMAIN blocks = BlockNumbers(f, u) /\ Len(blocks) \in Nat
  BY UnitBlocks
<1>3. \A b \in BlockNumbers(f, u) : Words(f, u, b) \in Text /\ <<>> \in Text
  BY WordsRead, NoText
<1>4. pieces \in [BlockNumbers(f, u) -> Text]
  BY <1>2, <1>3
<1> HIDE DEF pieces
<1>5. pieces \in Seq(Seq(Word))
  BY <1>2, <1>4, SeqDef DEF Text, BlockNumbers
<1> QED
  BY <1>1, <1>5, Flattened DEF Text

\* The blocks of some kinds are blocks of those kinds.
LEMMA BlocksFound ==
    ASSUME NEW f \in Document, NEW u \in 1 .. Len(f.units), NEW kinds
    PROVE  BlocksOf(f, u, kinds) \in Seq(OfKind(f, u, kinds))
<1> DEFINE blocks == f.units[u].blocks
           all == [b \in DOMAIN blocks |-> b]
           pieces == [i \in DOMAIN all |->
                         IF blocks[all[i]].kind \in kinds THEN <<all[i]>> ELSE <<>>]
<1>1. BlocksOf(f, u, kinds) = FlattenSeq(pieces)
  BY Zenon DEF BlocksOf, Only
<1>2. DOMAIN blocks = BlockNumbers(f, u) /\ Len(blocks) \in Nat
  BY UnitBlocks
<1>3. DOMAIN all = BlockNumbers(f, u) /\ \A b \in BlockNumbers(f, u) : all[b] = b
  BY <1>2
<1> HIDE DEF all
<1>4. ASSUME NEW b \in BlockNumbers(f, u) PROVE pieces[b] \in Seq(OfKind(f, u, kinds))
  <2>1. pieces[b] = IF blocks[b].kind \in kinds THEN <<b>> ELSE <<>>
    BY <1>3
  <2> HIDE DEF pieces
  <2>2. blocks[b].kind \in kinds => b \in OfKind(f, u, kinds)
    BY DEF OfKind
  <2> QED
    BY <2>1, <2>2
<1>5. pieces \in [BlockNumbers(f, u) -> Seq(OfKind(f, u, kinds))]
  <2>1. DOMAIN pieces = BlockNumbers(f, u) /\ pieces = [b \in BlockNumbers(f, u) |-> pieces[b]]
    BY <1>3
  <2> HIDE DEF pieces
  <2> QED
    BY <1>4, <2>1
<1> HIDE DEF pieces
<1>6. pieces \in Seq(Seq(OfKind(f, u, kinds)))
  BY <1>2, <1>5, SeqDef DEF BlockNumbers
<1> QED
  BY <1>1, <1>6, Flattened

\* A heading's title is a title.
LEMMA TitleFound ==
    ASSUME NEW f \in Document, NEW u \in 1 .. Len(f.units), NEW b \in OfKind(f, u, {"heading"})
    PROVE  TitleOf(f.units[u].blocks[b]) \in STRING
<1> DEFINE block == f.units[u].blocks[b]
<1>1. block \in Blocks /\ block.kind = "heading"
  BY UnitBlocks DEF OfKind
<1> HIDE DEF block
<1>2. block.says \in SUBSET STRING /\ block.says # {}
  BY <1>1 DEF Blocks
<1>3. TitleOf(block) \in block.says
  BY <1>2 DEF TitleOf
<1> QED
  BY <1>2, <1>3 DEF block

\* A unit's titles are titles.
LEMMA TitlesFound ==
    ASSUME NEW f \in Document, NEW u \in 1 .. Len(f.units)
    PROVE  Titles(f, u) \in Seq(STRING)
<1> DEFINE bs == BlocksOf(f, u, {"heading"})
<1>1. bs \in Seq(OfKind(f, u, {"heading"}))
  BY BlocksFound
<1>2. Titles(f, u) = [k \in DOMAIN bs |-> TitleOf(f.units[u].blocks[bs[k]])]
  BY Zenon DEF Titles
<1> HIDE DEF bs
<1>3. Len(bs) \in Nat /\ DOMAIN bs = 1 .. Len(bs)
  BY <1>1, LenProperties
<1>4. \A k \in 1 .. Len(bs) : TitleOf(f.units[u].blocks[bs[k]]) \in STRING
  BY <1>1, TitleFound, ElementOfSeq
<1> QED
  BY <1>2, <1>3, <1>4

\* The heading a block stands under, if there is one.
LEMMA UnderFound ==
    ASSUME NEW f \in Document, NEW u \in 1 .. Len(f.units), NEW b
    PROVE  Under(f, u, b) \in Heading
<1> DEFINE above == Only(BlocksOf(f, u, {"heading"}), LAMBDA h : h <= b)
<1>1. Under(f, u, b) = IF above = <<>> THEN None ELSE TitleOf(f.units[u].blocks[Last(above)])
  BY Zenon DEF Under
<1>2. above \in Seq(OfKind(f, u, {"heading"}))
  <2> DEFINE bs == BlocksOf(f, u, {"heading"})
  <2>1. bs \in Seq(OfKind(f, u, {"heading"}))
    BY BlocksFound
  <2> HIDE DEF bs
  <2>2. Only(bs, LAMBDA h : h <= b) \in Seq(OfKind(f, u, {"heading"}))
    BY <2>1, Kept DEF Only
  <2> QED
    BY <2>2 DEF bs
<1> HIDE DEF above
<1>3. above # <<>> => TitleOf(f.units[u].blocks[Last(above)]) \in STRING
  <2> SUFFICES ASSUME above # <<>> PROVE TitleOf(f.units[u].blocks[Last(above)]) \in STRING
    OBVIOUS
  <2>1. Last(above) \in OfKind(f, u, {"heading"})
    BY <1>2, LastIn
  <2> QED
    BY <2>1, TitleFound
<1> QED
  BY <1>1, <1>3 DEF Heading

\* A slide's title or a sheet's name, if it has one.
LEMMA OwnTitleFound ==
    ASSUME NEW f \in Document, NEW u \in 1 .. Len(f.units)
    PROVE  OwnTitle(f, u) \in Heading
<1> DEFINE titles == Titles(f, u)
<1>1. titles \in Seq(STRING)
  BY TitlesFound
<1>2. OwnTitle(f, u) = IF titles = <<>> THEN None ELSE titles[1]
  BY Zenon DEF OwnTitle
<1> HIDE DEF titles
<1>3. titles # <<>> => titles[1] \in STRING
  <2> SUFFICES ASSUME titles # <<>> PROVE titles[1] \in STRING
    OBVIOUS
  <2>1. 1 \in 1 .. Len(titles)
    BY <1>1, EmptySeq, LenProperties
  <2> QED
    BY <1>1, <2>1, ElementOfSeq
<1> QED
  BY <1>2, <1>3 DEF Heading

\* What an extractor answers for one unit.
UnitRead == [unit : UnitText, headings : Seq(HeadingAt), tables : Seq(Table)]

\* An answer is made of what it should be.
LEMMA ExtractedIs ==
    ASSUME NEW f \in Document, NEW u \in 1 .. Len(f.units), NEW t \in Text,
           NEW is_table \in BOOLEAN, NEW tabular, NEW heading,
           \A b \in BlockNumbers(f, u) : heading[b] \in Heading
    PROVE  Extracted(f, u, t, is_table, tabular, heading) \in UnitRead
<1> DEFINE bs == BlocksOf(f, u, tabular)
           titles == Titles(f, u)
           table(k) == [unit_index |-> u, rows |-> Words(f, u, bs[k]), heading |-> heading[bs[k]]]
           heads == [k \in DOMAIN titles |-> [title |-> titles[k], unit_index |-> u]]
           tables == [k \in DOMAIN bs |-> table(k)]
           unit == [index |-> u, text |-> t, text_is_table |-> is_table]
<1>1. Extracted(f, u, t, is_table, tabular, heading) =
          [unit |-> unit, headings |-> heads, tables |-> tables]
  BY Zenon DEF Extracted
<1>2. u \in Nat
  BY UnitBlocks
<1>3. bs \in Seq(OfKind(f, u, tabular)) /\ titles \in Seq(STRING)
  BY BlocksFound, TitlesFound
<1> HIDE DEF bs, titles
<1>4. heads \in Seq(HeadingAt)
  <2>1. Len(titles) \in Nat /\ DOMAIN titles = 1 .. Len(titles)
    BY <1>3, LenProperties
  <2>2. \A k \in 1 .. Len(titles) : [title |-> titles[k], unit_index |-> u] \in HeadingAt
    BY <1>2, <1>3, ElementOfSeq DEF HeadingAt
  <2> QED
    BY <2>1, <2>2
<1>5. tables \in Seq(Table)
  <2>1. Len(bs) \in Nat /\ DOMAIN bs = 1 .. Len(bs)
    BY <1>3, LenProperties
  <2>2. ASSUME NEW k \in 1 .. Len(bs) PROVE table(k) \in Table
    <3>1. bs[k] \in BlockNumbers(f, u)
      BY <1>3, ElementOfSeq DEF OfKind
    <3>2. /\ Words(f, u, bs[k]) \in Text /\ Words(f, u, bs[k]) # <<>>
          /\ heading[bs[k]] \in Heading
      BY <3>1, WordsRead
    <3> QED
      BY <1>2, <3>2 DEF Table
  <2> HIDE DEF table
  <2> QED
    BY <2>1, <2>2
<1>6. unit \in UnitText
  BY <1>2 DEF UnitText
<1> HIDE DEF heads, tables, unit
<1> QED
  BY <1>1, <1>4, <1>5, <1>6 DEF UnitRead

\* Word, slides and sheets.
LEMMA OfficeRead ==
    ASSUME NEW f \in Document, NEW u \in 1 .. Len(f.units)
    PROVE  /\ docx_extract(f, u) \in UnitRead
           /\ pptx_extract(f, u) \in UnitRead
           /\ xlsx_extract(f, u) \in UnitRead
<1>1. DOMAIN f.units[u].blocks = BlockNumbers(f, u)
  BY UnitBlocks
<1> DEFINE under == [b \in DOMAIN f.units[u].blocks |-> Under(f, u, b)]
           own == [b \in DOMAIN f.units[u].blocks |-> OwnTitle(f, u)]
<1>2. \A b \in BlockNumbers(f, u) : under[b] \in Heading
  BY <1>1, UnderFound
<1>3. \A b \in BlockNumbers(f, u) : own[b] \in Heading
  BY <1>1, OwnTitleFound
<1> HIDE DEF under, own
<1> DEFINE r(kinds) == Read(f, u, kinds)
<1>4. \A kinds : r(kinds) \in Text
  BY ReadText
<1> HIDE DEF r
<1>5. docx_extract(f, u) \in UnitRead
  <2>1. r({"heading", "prose"}) \o r({"note"}) \in Text
    BY <1>4, SizeOfConcat
  <2> HIDE DEF r
  <2>2. Extracted(f, u, r({"heading", "prose"}) \o r({"note"}), FALSE, {"table", "chart"}, under)
            \in UnitRead
    BY <1>2, <2>1, ExtractedIs
  <2> QED
    BY <2>2 DEF docx_extract, r, under
<1>6. pptx_extract(f, u) \in UnitRead
  <2>1. r({"heading"}) \o r({"prose"}) \in Text
    BY <1>4, SizeOfConcat
  <2>2. r({"heading"}) \o r({"prose"}) \o r({"note"}) \in Text
    BY <1>4, <2>1, SizeOfConcat
  <2>3. Extracted(f, u, r({"heading"}) \o r({"prose"}) \o r({"note"}), FALSE, {"table", "chart"},
                  own) \in UnitRead
    BY <1>3, <2>2, ExtractedIs
  <2> QED
    BY <2>3 DEF pptx_extract, r, own
<1>7. xlsx_extract(f, u) \in UnitRead
  <2>1. (r({"table"}) # <<>>) \in BOOLEAN
    OBVIOUS
  <2>2. Extracted(f, u, r({"table"}), r({"table"}) # <<>>, {"table", "chart"}, own) \in UnitRead
    BY <1>3, <1>4, <2>1, ExtractedIs
  <2> QED
    BY <2>2 DEF xlsx_extract, r, own
<1> QED
  BY <1>5, <1>6, <1>7

\* What OCR answers for a page.
PageRead == [text : Text, unreadable : BOOLEAN, tables : Seq(Table)]

\* Of a page it was not asked for, nothing.
LEMMA NothingRead == NotRead \in PageRead
BY NoText DEF NotRead, PageRead

\* A notice is a word.
LEMMA NoticeWord ==
    ASSUME NEW p \in Nat \X Nat, NEW kind \in Kinds, kind # "heading"
    PROVE  Notice(p, kind) \in Word
<1>1. /\ "sentence" \in Breaks /\ {} \in SUBSET STRING /\ 0 \in Nat /\ 1 \in Nat
      /\ 1 \in Rates /\ FALSE \in BOOLEAN
  BY ChunkerAssumption DEF Breaks
<1> QED
  BY <1>1 DEF Notice, Word

\* A table read from pixels has the notice as its first row.
LEMMA NoticedRows ==
    ASSUME NEW f \in Document, NEW u \in 1 .. Len(f.units), NEW b \in BlockNumbers(f, u)
    PROVE  /\ with_ocr_notice(Words(f, u, b)) \in Text /\ with_ocr_notice(Words(f, u, b)) # <<>>
           /\ ToSet(Words(f, u, b)) \subseteq ToSet(with_ocr_notice(Words(f, u, b)))
<1> DEFINE rows == Words(f, u, b)
<1>1. rows \in Text /\ rows # <<>>
  BY WordsRead
<1> HIDE DEF rows
<1>2. 1 \in 1 .. Len(rows)
  BY <1>1, EmptySeq, LenProperties DEF Text
<1>3. rows[1].at \in Nat \X Nat
  <2>1. rows[1] \in Word
    BY <1>1, <1>2, WordIn
  <2> QED
    BY <2>1 DEF Word
<1>4. Notice(rows[1].at, "table") \in Word
  BY <1>3, NoticeWord DEF Kinds
<1>5. <<Notice(rows[1].at, "table")>> \in Text
  BY <1>4, SizeOfOne
<1> DEFINE notice == <<Notice(rows[1].at, "table")>>
<1> HIDE DEF notice
<1>6. notice \o rows \in Text /\ notice \o rows # <<>>
  <2>1. notice \o rows \in Text /\ Len(notice \o rows) = Len(notice) + Len(rows)
    BY <1>1, <1>5, SizeOfConcat, ConcatProperties DEF Text, notice
  <2>2. Len(notice) \in Nat /\ Len(rows) \in Nat /\ Len(rows) # 0
    BY <1>1, <1>2, <1>5 DEF Text, notice
  <2>3. Len(notice \o rows) # 0
    BY <2>1, <2>2
  <2> QED
    BY <2>1, <2>3, NoText, Zenon
<1>7. ToSet(rows) \subseteq ToSet(notice \o rows)
  <2>1. notice \in Seq(Word) /\ rows \in Seq(Word)
    BY <1>1, <1>5 DEF Text, notice
  <2>2. ToSet(notice \o rows) = ToSet(notice) \cup ToSet(rows)
    BY <2>1, SetOfConcat
  <2> QED
    BY <2>2, Zenon
<1> QED
  BY <1>6, <1>7 DEF rows, notice, with_ocr_notice

\* A page read by OCR is a text and tables.
LEMMA OcrRead ==
    ASSUME NEW f \in Document, NEW u \in 1 .. Len(f.units), NEW unsure, NEW reads_tables \in BOOLEAN
    PROVE  _ocr_page(f, u, unsure, reads_tables) \in PageRead
<1> DEFINE seen == OnThePage(f, u, unsure)
           bs == BlocksOf(f, u, {"table", "picture of a table"})
           tables == IF reads_tables THEN Only(bs, LAMBDA b : b \notin unsure) ELSE <<>>
           rest == Only(seen, LAMBDA w : w.at[2] \notin ToSet(tables))
           notice == IF rest # <<>> /\ unsure # {} THEN <<Notice(<<u, 0>>, "prose")>> ELSE <<>>
           table(k) == [unit_index |-> u, rows |-> with_ocr_notice(Words(f, u, tables[k])),
                        heading |-> None]
           grids == [k \in DOMAIN tables |-> table(k)]
           S == OfKind(f, u, {"table", "picture of a table"})
<1>1. _ocr_page(f, u, unsure, reads_tables) =
          [text |-> rest \o notice, unreadable |-> unsure # {}, tables |-> grids]
  BY Zenon DEF _ocr_page
<1>2. u \in Nat
  BY UnitBlocks
<1>3. tables \in Seq(S)
  <2>1. bs \in Seq(S)
    BY BlocksFound
  <2> HIDE DEF bs, S
  <2>2. Only(bs, LAMBDA b : b \notin unsure) \in Seq(S)
    BY <2>1, Kept DEF Only
  <2>3. <<>> \in Seq(S)
    OBVIOUS
  <2> QED
    BY <2>2, <2>3
<1> HIDE DEF tables
<1>4. seen \in Text
  <2> DEFINE kinds == {"heading", "prose", "table", "picture", "picture of a table"}
             r == Read(f, u, kinds)
  <2>1. r \in Seq(Word)
    BY ReadText DEF Text
  <2> HIDE DEF r
  <2>2. Only(r, LAMBDA w : w.at[2] \notin unsure) \in Seq(Word)
    BY <2>1, Kept DEF Only
  <2> QED
    BY <2>2 DEF OnThePage, r, Text
<1> HIDE DEF seen
<1>5. rest \in Text
  <2>1. seen \in Seq(Word)
    BY <1>4 DEF Text
  <2>2. Only(seen, LAMBDA w : w.at[2] \notin ToSet(tables)) \in Seq(Word)
    BY <2>1, Kept DEF Only
  <2> QED
    BY <2>2 DEF Text
<1> HIDE DEF rest
<1>6. notice \in Text
  <2>1. Notice(<<u, 0>>, "prose") \in Word
    <3>1. <<u, 0>> \in Nat \X Nat /\ "prose" \in Kinds
      BY <1>2 DEF Kinds
    <3> QED
      BY <3>1, NoticeWord
  <2>2. <<Notice(<<u, 0>>, "prose")>> \in Text
    BY <2>1, SizeOfOne
  <2> QED
    BY <2>2, NoText
<1> HIDE DEF notice
<1>7. rest \o notice \in Text
  BY <1>5, <1>6, SizeOfConcat
<1>8. grids \in Seq(Table)
  <2>1. Len(tables) \in Nat /\ DOMAIN tables = 1 .. Len(tables)
    BY <1>3, LenProperties
  <2>2. ASSUME NEW k \in 1 .. Len(tables) PROVE table(k) \in Table
    <3>1. tables[k] \in BlockNumbers(f, u)
      BY <1>3, ElementOfSeq DEF OfKind
    <3>2. /\ with_ocr_notice(Words(f, u, tables[k])) \in Text
          /\ with_ocr_notice(Words(f, u, tables[k])) # <<>>
      BY <3>1, NoticedRows
    <3> QED
      BY <1>2, <3>2 DEF Table, Heading
  <2> HIDE DEF table
  <2> QED
    BY <2>1, <2>2
<1> HIDE DEF grids
<1> QED
  BY <1>1, <1>7, <1>8 DEF PageRead

\* A page's text layer is a text.
LEMMA NativeIs ==
    ASSUME NEW f \in Document, NEW u \in 1 .. Len(f.units)
    PROVE  NativeText(f, u) \in Text
BY ReadText, NoText DEF NativeText

\* A memo's subject lines are headings.
LEMMA SubjectsFound ==
    ASSUME NEW t \in Text
    PROVE  _subject_headings(t) \in Seq(HeadingAt)
<1> DEFINE lines == Only(t, LAMBDA w : w.kind = "heading")
           S == {w \in Word : w.kind = "heading"}
           head(k) == [title |-> CHOOSE x \in lines[k].says : TRUE, unit_index |-> lines[k].at[1]]
           pieces == [i \in DOMAIN t |-> IF t[i].kind = "heading" THEN <<t[i]>> ELSE <<>>]
<1>1. _subject_headings(t) = [k \in DOMAIN lines |-> head(k)]
  BY Zenon DEF _subject_headings
<1>2. lines \in Seq(S)
  <2>1. lines = FlattenSeq(pieces)
    BY Zenon DEF Only
  <2>2. Len(t) \in Nat /\ DOMAIN t = 1 .. Len(t)
    BY LenProperties DEF Text
  <2>3. ASSUME NEW i \in 1 .. Len(t)
        PROVE  (IF t[i].kind = "heading" THEN <<t[i]>> ELSE <<>>) \in Seq(S)
    <3>1. t[i] \in Word
      BY WordIn
    <3>2. CASE t[i].kind = "heading"
      <4>1. t[i] \in S
        BY <3>1, <3>2
      <4> HIDE DEF S
      <4> QED
        BY <3>2, <4>1
    <3>3. CASE t[i].kind # "heading"
      BY <3>3
    <3> QED
      BY <3>2, <3>3
  <2> HIDE DEF S
  <2>4. pieces \in Seq(Seq(S))
    BY <2>2, <2>3
  <2> HIDE DEF pieces
  <2> QED
    BY <2>1, <2>4, Flattened
<1> HIDE DEF lines
<1>3. ASSUME NEW k \in 1 .. Len(lines) PROVE head(k) \in HeadingAt
  <2> DEFINE w == lines[k]
  <2>1. w \in S
    BY <1>2, ElementOfSeq
  <2>2. w \in Word /\ w.kind = "heading"
    BY <2>1
  <2> HIDE DEF w
  <2>3. w.says \in SUBSET STRING /\ w.says # {} /\ w.at \in Nat \X Nat
    BY <2>2 DEF Word
  <2>4. (CHOOSE x \in w.says : TRUE) \in STRING /\ w.at[1] \in Nat
    BY <2>3
  <2>5. [title |-> CHOOSE x \in w.says : TRUE, unit_index |-> w.at[1]] \in HeadingAt
    BY <2>4 DEF HeadingAt
  <2> QED
    BY <2>5 DEF w
<1> HIDE DEF head
<1>4. Len(lines) \in Nat /\ DOMAIN lines = 1 .. Len(lines)
  BY <1>2, LenProperties
<1> QED
  BY <1>1, <1>3, <1>4

\* A page, with what OCR made of it or not.
LEMMA PageIs ==
    ASSUME NEW f \in Document, NEW u \in 1 .. Len(f.units),
           NEW read \in PageRead
    PROVE  pdf_page(f, u, read) \in UnitRead
<1> DEFINE none == [b \in DOMAIN f.units[u].blocks |-> None]
           native == Extracted(f, u, NativeText(f, u), FALSE, {"table"}, none)
           used == read.text # <<>>
           unit == [native.unit EXCEPT !.text = IF used THEN read.text ELSE native.unit.text]
           heads == (IF f.units[u].scanned THEN <<>> ELSE native.headings)
                    \o (IF used /\ f.units[u].scanned THEN _subject_headings(read.text) ELSE <<>>)
           tables == read.tables
                     \o (IF f.units[u].scanned THEN <<>> ELSE native.tables)
<1>1. pdf_page(f, u, read) = [unit |-> unit, headings |-> heads, tables |-> tables]
  BY Zenon DEF pdf_page
<1>2. native \in UnitRead
  <2>1. \A b \in BlockNumbers(f, u) : none[b] \in Heading
    BY UnitBlocks DEF Heading
  <2> HIDE DEF none
  <2> QED
    BY <2>1, NativeIs, ExtractedIs
<1> HIDE DEF native
<1>3. native.unit \in UnitText /\ native.headings \in Seq(HeadingAt) /\ native.tables \in Seq(Table)
  BY <1>2 DEF UnitRead
<1>4. read.text \in Text /\ read.tables \in Seq(Table)
  BY DEF PageRead
<1>5. unit \in UnitText
  <2> DEFINE t == IF used THEN read.text ELSE native.unit.text
  <2>1. t \in Text
    <3>1. native.unit.text \in Text
      BY <1>3 DEF UnitText
    <3> QED
      BY <1>4, <3>1
  <2> HIDE DEF t
  <2>2. [native.unit EXCEPT !.text = t] \in UnitText
    BY <1>3, <2>1 DEF UnitText
  <2> QED
    BY <2>2 DEF t
<1>6. heads \in Seq(HeadingAt)
  <2>1. used => _subject_headings(read.text) \in Seq(HeadingAt)
    BY <1>4, SubjectsFound
  <2>2. <<>> \in Seq(HeadingAt)
    OBVIOUS
  <2> HIDE DEF used
  <2> QED
    BY <1>3, <2>1, <2>2, ConcatProperties
<1>7. tables \in Seq(Table)
  <2>1. <<>> \in Seq(Table)
    OBVIOUS
  <2> QED
    BY <1>3, <1>4, <2>1, ConcatProperties
<1> HIDE DEF unit, heads, tables
<1> QED
  BY <1>1, <1>5, <1>6, <1>7 DEF UnitRead

\* The blocks of a file, by unit and number.
Places(f) == {p \in Nat \X Nat : p[1] \in 1 .. Len(f.units) /\ p[2] \in BlockNumbers(f, p[1])}

\* The pictures to read are blocks of the file.
LEMMA PicturesFound ==
    ASSUME NEW f \in Document
    PROVE  find_pictures(f) \in Seq(Places(f))
<1> DEFINE bs(u) == BlocksOf(f, u, Pictures)
           skipped(u) == \/ f.units[u].hidden
                         \/ /\ f.mime = "pdf"
                            /\ SizeOf(NativeText(f, u)) < OCR_MIN_NATIVE_CHARS
           here(u) == [k \in DOMAIN bs(u) |-> <<u, bs(u)[k]>>]
           found(u) == IF skipped(u) THEN <<>> ELSE here(u)
           pieces == [u \in DOMAIN f.units |-> found(u)]
<1>1. find_pictures(f) = FlattenSeq(pieces)
  BY Zenon DEF find_pictures
<1>2. Len(f.units) \in Nat /\ DOMAIN f.units = 1 .. Len(f.units)
  BY LenProperties DEF Document
<1> HIDE DEF skipped
<1>3. ASSUME NEW u \in 1 .. Len(f.units) PROVE found(u) \in Seq(Places(f))
  <2>1. bs(u) \in Seq(OfKind(f, u, Pictures))
    BY BlocksFound
  <2> DEFINE list == bs(u)
  <2> HIDE DEF bs
  <2>2. Len(list) \in Nat /\ DOMAIN list = 1 .. Len(list)
    BY <2>1, LenProperties
  <2>3. ASSUME NEW k \in 1 .. Len(list) PROVE <<u, list[k]>> \in Places(f)
    <3>1. list[k] \in BlockNumbers(f, u) /\ u \in Nat
      BY <2>1, UnitBlocks, ElementOfSeq DEF OfKind
    <3>2. list[k] \in Nat
      BY <3>1, UnitBlocks
    <3> HIDE DEF list
    <3>3. <<u, list[k]>> \in Nat \X Nat /\ <<u, list[k]>>[1] = u /\ <<u, list[k]>>[2] = list[k]
      BY <3>1, <3>2
    <3> QED
      BY <3>1, <3>3 DEF Places
  <2>4. here(u) = [k \in DOMAIN list |-> <<u, list[k]>>]
    OBVIOUS
  <2> HIDE DEF list
  <2>5. [k \in DOMAIN list |-> <<u, list[k]>>] \in Seq(Places(f))
    BY <2>2, <2>3
  <2>6. <<>> \in Seq(Places(f))
    OBVIOUS
  <2> HIDE DEF here
  <2> QED
    BY <2>4, <2>5, <2>6
<1> HIDE DEF found
<1>4. pieces \in Seq(Seq(Places(f)))
  BY <1>2, <1>3
<1> HIDE DEF pieces
<1> QED
  BY <1>1, <1>4, Flattened

\* What a document holds.
LEMMA ContentsParts ==
    ASSUME NEW doc \in Contents
    PROVE  /\ doc.units \in Seq(UnitText) /\ doc.headings \in Seq(HeadingAt)
           /\ doc.tables \in Seq(Table) /\ doc.figures \in Seq(Figure)
           /\ doc.ocr_pages \in Seq(Nat) /\ doc.ocr_skipped_pages \in SUBSET Nat
           /\ doc.ocr_unreadable_lines \in SUBSET (Nat \X Nat)
BY DEF Contents

\* The section a picture is filed under is a heading.
LEMMA SectionFound ==
    ASSUME NEW f \in Document, NEW doc \in Contents, NEW p \in Places(f)
    PROVE  Section(f, doc, p) \in Heading
<1> DEFINE titles == Only(doc.headings, LAMBDA h : h.unit_index = p[1])
           found == IF f.mime = "docx" THEN Under(f, p[1], p[2])
                    ELSE IF f.mime = "xlsx" THEN OwnTitle(f, p[1]) ELSE None
<1>1. Section(f, doc, p) =
          IF Len(titles) > 1 \/ titles = <<>> THEN found ELSE titles[1].title
  BY Zenon DEF Section
<1>2. titles \in Seq(HeadingAt)
  BY ContentsParts, Kept DEF Only
<1> HIDE DEF titles
<1>3. found \in Heading
  <2>1. p[1] \in 1 .. Len(f.units)
    BY DEF Places
  <2>2. Under(f, p[1], p[2]) \in Heading /\ OwnTitle(f, p[1]) \in Heading
    BY <2>1, UnderFound, OwnTitleFound
  <2>3. None \in Heading
    BY DEF Heading
  <2> QED
    BY <2>2, <2>3
<1> HIDE DEF found
<1>4. titles # <<>> => titles[1].title \in Heading
  <2> SUFFICES ASSUME titles # <<>> PROVE titles[1].title \in Heading
    OBVIOUS
  <2>1. 1 \in 1 .. Len(titles)
    BY <1>2, EmptySeq, LenProperties
  <2>2. titles[1] \in HeadingAt
    BY <1>2, <2>1, ElementOfSeq
  <2> QED
    BY <2>2 DEF HeadingAt, Heading
<1> QED
  BY <1>1, <1>3, <1>4

\* Pictures add tables and figures.
LEMMA PicturesMerged ==
    ASSUME NEW f \in Document, NEW doc \in Contents, NEW read \in Seq(Places(f))
    PROVE  merge_pictures(f, doc, read) \in Contents
<1> DEFINE kind(p) == f.units[p[1]].blocks[p[2]].kind
           grids == Only(read, LAMBDA p : kind(p) = "picture of a table")
           others == Only(read, LAMBDA p : kind(p) = "picture")
           table(k) == [unit_index |-> grids[k][1],
                        rows |-> with_ocr_notice(Words(f, grids[k][1], grids[k][2])),
                        heading |-> Section(f, doc, grids[k])]
           figure(k) == [unit_index |-> others[k][1],
                         label |-> <<[Notice(others[k], "picture") EXCEPT !.then = "space"]>>,
                         text |-> Words(f, others[k][1], others[k][2]),
                         heading |-> Section(f, doc, others[k])]
           tables == [k \in DOMAIN grids |-> table(k)]
           figures == [k \in DOMAIN others |-> figure(k)]
<1>1. merge_pictures(f, doc, read) =
          [doc EXCEPT !.tables = doc.tables \o tables, !.figures = doc.figures \o figures]
  BY Zenon DEF merge_pictures
<1> HIDE DEF kind
<1>2. grids \in Seq(Places(f)) /\ others \in Seq(Places(f))
  <2>1. grids \in Seq(Places(f))
    BY Kept DEF Only
  <2>2. others \in Seq(Places(f))
    BY Kept DEF Only
  <2> QED
    BY <2>1, <2>2
<1> HIDE DEF grids, others
<1>3. ASSUME NEW p \in Places(f)
      PROVE  /\ p \in Nat \X Nat /\ p[1] \in Nat
             /\ p[1] \in 1 .. Len(f.units) /\ p[2] \in BlockNumbers(f, p[1])
  BY DEF Places
<1>4. tables \in Seq(Table)
  <2>1. Len(grids) \in Nat /\ DOMAIN grids = 1 .. Len(grids)
    BY <1>2, LenProperties
  <2>2. ASSUME NEW k \in 1 .. Len(grids) PROVE table(k) \in Table
    <3>1. grids[k] \in Places(f)
      BY <1>2, ElementOfSeq
    <3>2. /\ grids[k][1] \in Nat /\ with_ocr_notice(Words(f, grids[k][1], grids[k][2])) \in Text
          /\ with_ocr_notice(Words(f, grids[k][1], grids[k][2])) # <<>>
      BY <1>3, <3>1, NoticedRows
    <3>3. Section(f, doc, grids[k]) \in Heading
      BY <3>1, SectionFound
    <3> QED
      BY <3>2, <3>3 DEF Table
  <2> HIDE DEF table
  <2> QED
    BY <2>1, <2>2
<1>5. figures \in Seq(Figure)
  <2>1. Len(others) \in Nat /\ DOMAIN others = 1 .. Len(others)
    BY <1>2, LenProperties
  <2>2. ASSUME NEW k \in 1 .. Len(others) PROVE figure(k) \in Figure
    <3>1. others[k] \in Places(f)
      BY <1>2, ElementOfSeq
    <3>2. others[k][1] \in Nat /\ Words(f, others[k][1], others[k][2]) \in Text
      BY <1>3, <3>1, WordsRead
    <3>3. Section(f, doc, others[k]) \in Heading
      BY <3>1, SectionFound
    <3> DEFINE said == Notice(others[k], "picture")
               notice == [said EXCEPT !.then = "space"]
    <3>4. <<notice>> \in Text /\ notice.size > 0
      <4>1. others[k] \in Nat \X Nat
        BY <1>3, <3>1
      <4>2. notice.size > 0
        BY DEF Notice
      <4>3. notice \in Word
        <5>1. said \in Word /\ "space" \in Breaks
          BY <4>1, NoticeWord DEF Kinds, Breaks
        <5> HIDE DEF said
        <5> QED
          BY <5>1 DEF Word
      <4> HIDE DEF notice
      <4>4. <<notice>> \in Text
        BY <4>3, SizeOfOne
      <4> QED
        BY <4>2, <4>4
    <3> HIDE DEF notice
    <3>5. notice \in ToSet(<<notice>>)
      <4>1. 1 \in DOMAIN <<notice>> /\ <<notice>>[1] = notice
        OBVIOUS
      <4> QED
        BY <4>1 DEF ToSet
    <3>6. <<notice>> \in Text /\ \E w \in ToSet(<<notice>>) : w.size > 0
      BY <3>4, <3>5
    <3> DEFINE label == <<notice>>
    <3> HIDE DEF label
    <3>7. [unit_index |-> others[k][1], label |-> label,
           text |-> Words(f, others[k][1], others[k][2]),
           heading |-> Section(f, doc, others[k])] \in Figure
      BY <3>2, <3>3, <3>6 DEF Figure, label
    <3> QED
      BY <3>7 DEF label, notice, said
  <2> HIDE DEF figure
  <2> QED
    BY <2>1, <2>2
<1> HIDE DEF tables, figures
<1>6. doc.tables \o tables \in Seq(Table) /\ doc.figures \o figures \in Seq(Figure)
  BY <1>4, <1>5, ContentsParts, ConcatProperties
<1> DEFINE ts == doc.tables \o tables
           fs == doc.figures \o figures
<1> HIDE DEF ts, fs
<1>7. [doc EXCEPT !.tables = ts, !.figures = fs] \in Contents
  BY <1>6 DEF Contents, ts, fs
<1> QED
  BY <1>1, <1>7 DEF ts, fs

(***************************************************************************)
(* The work between the commits                                            *)
(***************************************************************************)

\* What every step keeps: the document is one, and so is every passage.
TextInv ==
    /\ file \in Document
    /\ at \in Nat /\ at >= 1
    /\ content \in Contents
    /\ current_heading \in Heading
    /\ passages \in Seq(Passage)

\* A unit that was read is added.
LEMMA UnitAdded ==
    ASSUME content \in Contents, NEW x \in UnitRead
    PROVE  WithUnit(x) \in Contents
<1>1. x.unit \in UnitText /\ x.headings \in Seq(HeadingAt) /\ x.tables \in Seq(Table)
  BY DEF UnitRead
<1> DEFINE us == Append(content.units, x.unit)
           hs == content.headings \o x.headings
           ts == content.tables \o x.tables
<1>2. us \in Seq(UnitText) /\ hs \in Seq(HeadingAt) /\ ts \in Seq(Table)
  BY <1>1, ContentsParts, ConcatProperties, AppendProperties
<1> HIDE DEF us, hs, ts
<1>3. WithUnit(x) = [content EXCEPT !.units = us, !.headings = hs, !.tables = ts]
  BY Zenon DEF WithUnit, us, hs, ts
<1>4. [content EXCEPT !.units = us, !.headings = hs, !.tables = ts] \in Contents
  BY <1>2 DEF Contents
<1> QED
  BY <1>3, <1>4

\* Cleaning leaves texts.
LEMMA CleanedUnits ==
    ASSUME NEW units \in Seq(UnitText)
    PROVE  Cleaned(units) \in Seq(UnitText)
<1> DEFINE cleaned(k) == [units[k] EXCEPT !.text = clean(units[k].text)]
<1>1. Cleaned(units) = [k \in DOMAIN units |-> cleaned(k)]
  BY Zenon DEF Cleaned
<1>2. Len(units) \in Nat /\ DOMAIN units = 1 .. Len(units)
  BY LenProperties
<1>3. ASSUME NEW k \in 1 .. Len(units) PROVE cleaned(k) \in UnitText
  <2>1. units[k] \in UnitText
    BY ElementOfSeq
  <2> DEFINE t == units[k].text
  <2>2. t \in Seq(Word)
    BY <2>1 DEF UnitText, Text
  <2> HIDE DEF t
  <2>3. clean(t) \in Seq(Word)
    BY <2>2, Kept DEF clean, Only
  <2> DEFINE c == clean(t)
  <2> HIDE DEF c
  <2>4. [units[k] EXCEPT !.text = c] \in UnitText
    BY <2>1, <2>3 DEF UnitText, Text, c
  <2> QED
    BY <2>4 DEF c, t
<1> HIDE DEF cleaned
<1> QED
  BY <1>1, <1>2, <1>3

\* Nothing is cut at the start.
LEMMA TextInit == Init => TextInv
<1> SUFFICES ASSUME Init PROVE TextInv
  OBVIOUS
<1>1. file \in Document /\ file.mime \in Mimes
  BY PassagesAssumption DEF Init, Document
<1>2. NoContent(file) \in Contents
  BY <1>1 DEF NoContent, Contents
<1>3. <<>> \in Seq(Passage) /\ None \in Heading
  BY DEF Heading
<1> QED
  BY <1>1, <1>2, <1>3 DEF Init, TextInv

\* Every step keeps it.
LEMMA TextStep == TextInv /\ [Next]_vars => TextInv'
<1> SUFFICES ASSUME TextInv, [Next]_vars PROVE TextInv'
  OBVIOUS
<1> USE DEF TextInv
<1>1. ASSUME NEW mime, Reading(mime)
      PROVE  at \in 1 .. Len(file.units)
  BY <1>1 DEF Reading, Document
<1>2. ASSUME NEW x \in UnitRead PROVE WithUnit(x) \in Contents
  BY <1>2, UnitAdded
<1>3. NextUnit => at' \in Nat /\ at' >= 1 /\ UNCHANGED <<file, passages, current_heading>>
  BY DEF NextUnit
<1>4. CASE reads_word_file
  <2>1. WithUnit(docx_extract(file, at)) \in Contents
    BY <1>1, <1>2, <1>4, OfficeRead DEF reads_word_file
  <2> QED
    BY <1>3, <1>4, <2>1 DEF reads_word_file
<1>5. CASE reads_slide
  <2>1. WithUnit(pptx_extract(file, at)) \in Contents
    BY <1>1, <1>2, <1>5, OfficeRead DEF reads_slide
  <2> QED
    BY <1>3, <1>5, <2>1 DEF reads_slide
<1>6. CASE reads_sheet
  <2>1. WithUnit(xlsx_extract(file, at)) \in Contents
    BY <1>1, <1>2, <1>6, OfficeRead DEF reads_sheet
  <2> QED
    BY <1>3, <1>6, <2>1 DEF reads_sheet
<1>7. ASSUME Reading("pdf") PROVE WithUnit(pdf_page(file, at, NotRead)) \in Contents
  BY <1>1, <1>2, <1>7, NothingRead, PageIs
<1>8. CASE reads_page
  BY <1>3, <1>7, <1>8 DEF reads_page
<1>9. CASE skips_page
  <2> DEFINE doc == WithUnit(pdf_page(file, at, NotRead))
             skipped == doc.ocr_skipped_pages \cup {at}
  <2>1. doc \in Contents
    BY <1>7, <1>9 DEF skips_page
  <2>2. content' = [doc EXCEPT !.ocr_skipped_pages = skipped]
    BY <1>9, Zenon DEF skips_page
  <2> HIDE DEF doc
  <2>3. skipped \in SUBSET Nat
    BY <2>1, ContentsParts
  <2> HIDE DEF skipped
  <2>4. content' \in Contents
    BY <2>1, <2>2, <2>3 DEF Contents
  <2> QED
    BY <1>3, <1>9, <2>4 DEF skips_page
<1>10. CASE ocr_off \/ ocr_fails
  BY <1>3, <1>7, <1>10 DEF ocr_off, ocr_fails
<1>11. CASE ocr_reads
  <2> PICK unsure \in SUBSET DOMAIN file.units[at].blocks, reads_tables \in BOOLEAN :
         LET read == _ocr_page(file, at, unsure, reads_tables)
             found == read.text # <<>>
         IN  content' = [WithUnit(pdf_page(file, at, read)) EXCEPT
                            !.ocr_unreadable_lines = @ \cup Unreadable(at, unsure),
                            !.ocr_pages = IF found THEN Append(@, at) ELSE @]
    BY <1>11, Zenon DEF ocr_reads
  <2>0. Reading("pdf") /\ NextUnit
    BY <1>11 DEF ocr_reads
  <2> DEFINE read == _ocr_page(file, at, unsure, reads_tables)
             doc == WithUnit(pdf_page(file, at, read))
             lines == doc.ocr_unreadable_lines \cup Unreadable(at, unsure)
             pages == IF read.text # <<>> THEN Append(doc.ocr_pages, at) ELSE doc.ocr_pages
  <2>1. read \in PageRead
    BY <1>1, <2>0, OcrRead
  <2>2. content' = [doc EXCEPT !.ocr_unreadable_lines = lines, !.ocr_pages = pages]
    BY Zenon
  <2> HIDE DEF read
  <2>3. doc \in Contents
    BY <1>1, <1>2, <2>0, <2>1, PageIs
  <2> HIDE DEF doc
  <2>4. lines \in SUBSET (Nat \X Nat)
    <3>1. DOMAIN file.units[at].blocks \subseteq Nat
      BY <1>1, <2>0, UnitBlocks
    <3>2. Unreadable(at, unsure) \subseteq Nat \X Nat
      BY <3>1 DEF Unreadable
    <3> QED
      BY <2>3, <3>2, ContentsParts
  <2>5. pages \in Seq(Nat)
    BY <2>3, ContentsParts
  <2> HIDE DEF lines, pages
  <2>6. content' \in Contents
    BY <2>2, <2>3, <2>4, <2>5 DEF Contents
  <2> QED
    BY <1>3, <2>0, <2>6
<1>12. ASSUME NEW warned, NEW silent, _read_pictures(warned, silent) PROVE TextInv'
  <2> DEFINE all == find_pictures(file)
             read == Only(all, LAMBDA p : p \notin warned \cup silent /\ ~tables_only(file, p))
  <2>1. content' = merge_pictures(file, content, read)
    BY <1>12, Zenon DEF _read_pictures
  <2>2. all \in Seq(Places(file))
    BY PicturesFound
  <2> HIDE DEF all
  <2>3. read \in Seq(Places(file))
    BY <2>2, Kept DEF Only
  <2> HIDE DEF read
  <2>4. content' \in Contents
    BY <2>1, <2>3, PicturesMerged
  <2> QED
    BY <1>12, <2>4 DEF _read_pictures
<1>13. CASE normalize
  <2> DEFINE us == Cleaned(content.units)
  <2>1. us \in Seq(UnitText)
    BY ContentsParts, CleanedUnits
  <2>2. content' = [content EXCEPT !.units = us]
    BY <1>13, Zenon DEF normalize
  <2> HIDE DEF us
  <2>3. content' \in Contents
    BY <2>1, <2>2 DEF Contents
  <2> QED
    BY <1>13, <2>3 DEF normalize
<1>14. CASE chunks_unit
  <2> DEFINE cut == chunk_unit(content, content.units[at], current_heading)
  <2>1. passages' = passages \o cut.chunks /\ current_heading' = cut.heading
    BY <1>14, Zenon DEF chunks_unit
  <2>2. content.units[at] \in UnitText
    <3>1. content.units \in Seq(UnitText)
      BY ContentsParts
    <3>2. at \in 1 .. Len(content.units)
      BY <1>14, <3>1, LenProperties DEF chunks_unit
    <3> QED
      BY <3>1, <3>2, ElementOfSeq
  <2>3. cut.chunks \in Seq(Passage) /\ cut.heading \in Heading
    BY <2>2, UnitFits
  <2> HIDE DEF cut
  <2>4. passages' \in Seq(Passage) /\ current_heading' \in Heading
    BY <2>1, <2>3, ConcatProperties
  <2> QED
    BY <1>14, <2>4 DEF chunks_unit
<1>15. CASE chunked \/ passes_pictures
  BY <1>15 DEF chunked, passes_pictures
<1>16. CASE UNCHANGED vars
  BY <1>16 DEF vars
<1> QED
  BY <1>4, <1>5, <1>6, <1>8, <1>9, <1>10, <1>11, <1>12, <1>13, <1>14, <1>15, <1>16 DEF Next

\* No passage is longer than the model can read, whatever the files, the settings and
\* what OCR makes of them: the packing, splitting, hard wrap and row groups of chunker.py
\* leave nothing over the token budget but a table's single row and, since the slices of
\* _hard_wrap are not measured, a slice of a text that is denser in places than its margin.
THEOREM FitsWindowHolds == Spec => []FitsWindow
<1>1. TextInv => FitsWindow
  <2> SUFFICES ASSUME TextInv, NEW p \in ToSet(passages)
               PROVE  \/ measure(p.head \o p.text) <= max_sequence_tokens
                      \/ p.is_table /\ Len(p.text) <= 1
                      \/ \E w \in ToSet(p.text) : w.uneven
    BY DEF FitsWindow
  <2>1. p \in Passage
    <3>1. passages \in Seq(Passage)
      BY DEF TextInv
    <3> QED
      BY <3>1, ElementOfSeq DEF ToSet
  <2> QED
    BY <2>1 DEF Passage, Uneven
<1>2. Spec => []TextInv
  BY TextInit, TextStep, PTL DEF Spec
<1> QED
  BY <1>1, <1>2, PTL

(***************************************************************************)
(* Where a word of a text is                                               *)
(***************************************************************************)

\* Where a word of a text begins.
Begins(t, i) == SizeOf(SubSeq(t, 1, i - 1))

\* A text goes on at least as far as each of its words ends.
LEMMA WordEnds ==
    ASSUME NEW t \in Text, NEW i \in 1 .. Len(t)
    PROVE  /\ Begins(t, i) \in Nat /\ t[i] \in Word /\ t[i].size \in Nat
           /\ Begins(t, i) + t[i].size <= SizeOf(t)
<1> DEFINE n == Len(t)
<1>1. PICK f \in [0 .. n -> Nat] :
         /\ f[0] = 0 /\ \A k \in 1 .. n : f[k] = f[k - 1] + t[k].size
         /\ SizeOf(t) = f[n]
  BY Counted
<1>2. n \in Nat /\ \A k \in 1 .. n : t[k].size \in Nat
  BY WordIn DEF Text
<1>3. Begins(t, i) = f[i - 1] /\ f[i - 1] \in Nat
  <2>1. i - 1 \in 0 .. Len(t)
    BY <1>2
  <2> QED
    BY <1>1, <2>1, PrefixSize DEF Begins
<1> HIDE DEF n
<1> DEFINE S == {k \in Nat : k <= n /\ i <= k => f[k] >= f[i - 1] + t[i].size}
<1>4. 0 \in S
  BY <1>2 DEF n
<1>5. ASSUME NEW k \in Nat, k \in S PROVE k + 1 \in S
  <2> SUFFICES ASSUME k + 1 <= n, i <= k + 1 PROVE f[k + 1] >= f[i - 1] + t[i].size
    OBVIOUS
  <2>1. k + 1 \in 1 .. n /\ (k + 1) - 1 = k /\ k \in 0 .. n /\ k <= n
    BY <1>2
  <2>2. f[k + 1] = f[k] + t[k + 1].size /\ f[k] \in Nat /\ t[k + 1].size \in Nat
    BY <1>1, <1>2, <2>1
  <2>3. CASE i = k + 1
    BY <2>2, <2>3
  <2>4. CASE i <= k
    <3>1. f[k] >= f[i - 1] + t[i].size
      BY <1>5, <2>1, <2>4
    <3> QED
      BY <1>2, <1>3, <2>2, <3>1 DEF n
  <2> QED
    BY <2>3, <2>4 DEF n
<1> HIDE DEF S
<1>6. n \in S
  BY <1>2, <1>4, <1>5, Induct
<1> QED
  BY <1>1, <1>2, <1>3, <1>6, WordIn DEF S, n

\* A text is at least as long as each of its words.
LEMMA SizeAtLeast ==
    ASSUME NEW t \in Text, NEW i \in 1 .. Len(t)
    PROVE  SizeOf(t) >= t[i].size
BY WordEnds, SizeType

(***************************************************************************)
(* What is held of a word                                                  *)
(***************************************************************************)

\* A word of a text, if it is one of these, and else of no size.
Counting(v, w) ==
    [v EXCEPT !.size = IF v.at = w.at /\ v.part = w.part THEN v.size ELSE 0]

\* What each text has of a word.
Shares(texts, w) == [k \in DOMAIN texts |-> [w EXCEPT !.size = ShareOf(texts[k], w)]]

\* The whole of a word is in some texts.
Held(texts, w) == SizeOf(Shares(texts, w)) >= w.size

\* A share is a number, and no less than what a word of that place adds.
LEMMA ShareType ==
    ASSUME NEW t \in Text, NEW w \in Word
    PROVE  /\ ShareOf(t, w) \in Nat
           /\ \A i \in 1 .. Len(t) :
                 t[i].at = w.at /\ t[i].part = w.part => ShareOf(t, w) >= t[i].size
<1> DEFINE counted == [i \in DOMAIN t |-> Counting(t[i], w)]
<1>1. Len(t) \in Nat /\ DOMAIN t = 1 .. Len(t)
  BY LenProperties DEF Text
<1>2. ASSUME NEW v \in Word
      PROVE  /\ Counting(v, w) \in Word
             /\ v.at = w.at /\ v.part = w.part => Counting(v, w).size = v.size
  <2> DEFINE n == IF v.at = w.at /\ v.part = w.part THEN v.size ELSE 0
  <2>1. n \in Nat
    BY DEF Word
  <2>2. Counting(v, w) = [v EXCEPT !.size = n]
    BY Zenon DEF Counting
  <2>3. [v EXCEPT !.size = n] \in Word /\ [v EXCEPT !.size = n].size = n
    <3> HIDE DEF n
    <3> QED
      BY <2>1, CutWord
  <2> QED
    BY <2>2, <2>3
<1>3. /\ counted \in Text /\ Len(counted) = Len(t)
      /\ \A i \in 1 .. Len(t) : counted[i] = Counting(t[i], w)
  <2>1. \A i \in 1 .. Len(t) : Counting(t[i], w) \in Word
    BY <1>2, WordIn
  <2>2. counted = [i \in 1 .. Len(t) |-> Counting(t[i], w)]
    BY <1>1
  <2> HIDE DEF counted
  <2> QED
    BY <1>1, <2>1, <2>2 DEF Text
<1>4. ShareOf(t, w) = SizeOf(counted)
  BY Zenon DEF ShareOf, Counting
<1> HIDE DEF counted
<1>5. ASSUME NEW i \in 1 .. Len(t), t[i].at = w.at, t[i].part = w.part
      PROVE  ShareOf(t, w) >= t[i].size
  <2>1. SizeOf(counted) >= counted[i].size
    BY <1>3, SizeAtLeast
  <2>2. counted[i].size = t[i].size
    BY <1>2, <1>3, <1>5, WordIn
  <2> QED
    BY <1>4, <2>1, <2>2
<1> QED
  BY <1>3, <1>4, <1>5, SizeType

\* Shares are words.
LEMMA SharesType ==
    ASSUME NEW texts \in Seq(Text), NEW w \in Word
    PROVE  /\ Shares(texts, w) \in Text /\ Len(Shares(texts, w)) = Len(texts)
           /\ \A k \in 1 .. Len(texts) :
                 /\ Shares(texts, w)[k] \in Word
                 /\ Shares(texts, w)[k].size = ShareOf(texts[k], w)
<1>1. Len(texts) \in Nat /\ DOMAIN texts = 1 .. Len(texts)
  BY LenProperties
<1>2. ASSUME NEW k \in 1 .. Len(texts)
      PROVE  /\ [w EXCEPT !.size = ShareOf(texts[k], w)] \in Word
             /\ [w EXCEPT !.size = ShareOf(texts[k], w)].size = ShareOf(texts[k], w)
  <2>1. ShareOf(texts[k], w) \in Nat
    BY ElementOfSeq, ShareType
  <2> QED
    BY <2>1, CutWord
<1> DEFINE share(k) == [w EXCEPT !.size = ShareOf(texts[k], w)]
<1>3. Shares(texts, w) = [k \in 1 .. Len(texts) |-> share(k)]
  BY <1>1 DEF Shares
<1> HIDE DEF share
<1>4. \A k \in 1 .. Len(texts) : share(k) \in Word /\ share(k).size = ShareOf(texts[k], w)
  BY <1>2 DEF share
<1>5. [k \in 1 .. Len(texts) |-> share(k)] \in Seq(Word)
  BY <1>1, <1>4
<1> QED
  BY <1>1, <1>3, <1>4, <1>5 DEF Text

\* What is held of a word, is held with more texts around.
LEMMA HeldMore ==
    ASSUME NEW a \in Seq(Text), NEW b \in Seq(Text), NEW w \in Word
    PROVE  /\ a \o b \in Seq(Text)
           /\ Held(a, w) \/ Held(b, w) => Held(a \o b, w)
<1>1. a \o b \in Seq(Text) /\ Len(a \o b) = Len(a) + Len(b) /\ Len(a) \in Nat /\ Len(b) \in Nat
  BY ConcatProperties, LenProperties
<1>2. /\ Shares(a, w) \in Text /\ Len(Shares(a, w)) = Len(a)
      /\ Shares(b, w) \in Text /\ Len(Shares(b, w)) = Len(b)
      /\ Shares(a \o b, w) \in Text /\ Len(Shares(a \o b, w)) = Len(a) + Len(b)
  BY <1>1, SharesType
<1>3. Shares(a \o b, w) = Shares(a, w) \o Shares(b, w)
  <2> DEFINE x == Shares(a \o b, w)
             y == Shares(a, w) \o Shares(b, w)
             share(t) == [w EXCEPT !.size = ShareOf(t, w)]
  <2>1. /\ x \in Seq(Word) /\ y \in Seq(Word)
        /\ Len(x) = Len(a) + Len(b) /\ Len(y) = Len(a) + Len(b)
    BY <1>2, ConcatProperties DEF Text
  <2>2. /\ \A k \in 1 .. Len(a) : Shares(a, w)[k] = share(a[k])
        /\ \A k \in 1 .. Len(b) : Shares(b, w)[k] = share(b[k])
        /\ \A k \in 1 .. Len(a) + Len(b) : x[k] = share((a \o b)[k])
    <3> HIDE DEF share
    <3>1. DOMAIN a = 1 .. Len(a) /\ DOMAIN b = 1 .. Len(b) /\ DOMAIN (a \o b) = 1 .. Len(a) + Len(b)
      BY <1>1, LenProperties
    <3> QED
      BY <3>1 DEF Shares, share
  <2> DEFINE p == Shares(a, w)
             q == Shares(b, w)
  <2>0. /\ p \in Seq(Word) /\ Len(p) = Len(a) /\ q \in Seq(Word) /\ Len(q) = Len(b)
        /\ y = p \o q
    BY <1>2 DEF Text
  <2>3. ASSUME NEW k \in 1 .. Len(a) + Len(b) PROVE x[k] = y[k]
    <3> HIDE DEF share, x, y, p, q
    <3>1. CASE k <= Len(a)
      <4>1. k \in 1 .. Len(a) /\ (a \o b)[k] = a[k]
        BY <1>1, <3>1, ConcatProperties
      <4>2. y[k] = p[k]
        BY <2>0, <4>1, ConcatProperties
      <4> QED
        BY <2>2, <4>1, <4>2 DEF p
    <3>2. CASE k > Len(a)
      <4>1. k - Len(a) \in 1 .. Len(b) /\ (a \o b)[k] = b[k - Len(a)]
        BY <1>1, <3>2, ConcatProperties
      <4>2. y[k] = q[k - Len(a)]
        BY <1>1, <2>0, <3>2, ConcatProperties
      <4> QED
        BY <2>2, <4>1, <4>2 DEF q
    <3> QED
      BY <1>1, <3>1, <3>2
  <2> HIDE DEF x, y
  <2>4. x = y
    BY <2>1, <2>3, SeqEqual
  <2> QED
    BY <2>4 DEF x, y
<1>4. SizeOf(Shares(a \o b, w)) = SizeOf(Shares(a, w)) + SizeOf(Shares(b, w))
  BY <1>2, <1>3, SizeOfConcat
<1>5. SizeOf(Shares(a, w)) \in Nat /\ SizeOf(Shares(b, w)) \in Nat /\ w.size \in Nat
  BY <1>2, SizeType DEF Word
<1> QED
  BY <1>1, <1>4, <1>5 DEF Held

\* A word one of the texts has is held.
LEMMA HeldWhole ==
    ASSUME NEW texts \in Seq(Text), NEW k \in 1 .. Len(texts), NEW w \in ToSet(texts[k])
    PROVE  w \in Word /\ Held(texts, w)
<1>1. texts[k] \in Text
  BY ElementOfSeq
<1>2. PICK i \in 1 .. Len(texts[k]) : w = texts[k][i]
  BY <1>1 DEF ToSet, Text
<1>3. w \in Word /\ w.size \in Nat
  BY <1>1, <1>2, WordIn
<1>4. ShareOf(texts[k], w) >= w.size /\ ShareOf(texts[k], w) \in Nat
  BY <1>1, <1>2, <1>3, ShareType
<1> DEFINE shares == Shares(texts, w)
<1>5. shares \in Text /\ k \in 1 .. Len(shares) /\ shares[k].size = ShareOf(texts[k], w)
  BY <1>3, SharesType
<1> HIDE DEF shares
<1>6. SizeOf(shares) >= shares[k].size /\ SizeOf(shares) \in Nat
  BY <1>5, SizeAtLeast, SizeType
<1>7. SizeOf(shares) >= w.size
  BY <1>3, <1>4, <1>5, <1>6
<1> QED
  BY <1>3, <1>7 DEF Held, shares

\* What passes a test is kept.
LEMMA KeptAll ==
    ASSUME NEW S, NEW list \in Seq(S), NEW s, s = [i \in DOMAIN list |-> s[i]],
           \A i \in DOMAIN list : s[i] \in {<<list[i]>>, <<>>},
           NEW j \in 1 .. Len(list), s[j] = <<list[j]>>
    PROVE  list[j] \in ToSet(FlattenSeq(s))
<1>1. Len(list) \in Nat /\ DOMAIN list = 1 .. Len(list)
  BY LenProperties
<1>2. ASSUME NEW i \in 1 .. Len(list) PROVE s[i] \in Seq(S)
  <2>1. list[i] \in S
    BY ElementOfSeq
  <2>2. <<list[i]>> \in Seq(S) /\ <<>> \in Seq(S)
    BY <2>1
  <2> QED
    BY <1>1, <2>2
<1>3. s \in Seq(Seq(S)) /\ Len(s) = Len(list)
  <2>1. s \in [1 .. Len(list) -> Seq(S)]
    BY <1>1, <1>2
  <2>2. s \in Seq(Seq(S))
    BY <1>1, <2>1, SeqDef
  <2> QED
    BY <1>1, <2>1, <2>2, LenProperties
<1>4. ToSet(FlattenSeq(s)) = UNION {ToSet(s[i]) : i \in 1 .. Len(s)}
  BY <1>3, Flattened
<1>5. list[j] \in ToSet(s[j])
  <2> DEFINE x == list[j]
  <2>1. s[j] = <<x>>
    OBVIOUS
  <2> HIDE DEF x
  <2>2. 1 \in DOMAIN <<x>> /\ <<x>>[1] = x
    OBVIOUS
  <2>3. x \in ToSet(<<x>>)
    BY <2>2 DEF ToSet
  <2> QED
    BY <2>1, <2>3 DEF x
<1> QED
  BY <1>3, <1>4, <1>5

\* The lesser of a place and a limit.
Cap(p, limit) == IF p <= limit THEN p ELSE limit

\* A slice has as much of a word as lies between its ends.
LEMMA SliceHas ==
    ASSUME NEW t \in Text, NEW from \in Nat, NEW to \in Nat, from <= to, NEW i \in 1 .. Len(t),
           NEW l, l = Cap(Begins(t, i) + t[i].size, to)
                      - (IF Begins(t, i) <= from THEN from ELSE Begins(t, i)),
           l > 0
    PROVE  ShareOf(Slice(t, from, to), t[i]) >= l
<1> DEFINE n == Len(t)
           start(j) == SizeOf(SubSeq(t, 1, j - 1))
           cut(j) == [t[j] EXCEPT !.size = Min({start(j) + @, to}) - Max({start(j), from})]
           list == [j \in DOMAIN t |-> cut(j)]
           shown == [j \in DOMAIN list |-> IF list[j].size > 0 THEN <<list[j]>> ELSE <<>>]
           S == {cut(j) : j \in 1 .. n}
<1>1. n \in Nat /\ DOMAIN t = 1 .. n
  BY DEF Text
<1>2. Slice(t, from, to) = FlattenSeq(shown)
  BY Zenon DEF Slice, Only
<1>3. Begins(t, i) \in Nat /\ t[i] \in Word /\ t[i].size \in Nat
  BY WordEnds
<1>4. l \in Nat
  BY <1>3 DEF Cap
<1>5. cut(i) \in Word /\ cut(i).size = l /\ cut(i).at = t[i].at /\ cut(i).part = t[i].part
  <2> DEFINE left == Min({start(i) + t[i].size, to}) - Max({start(i), from})
  <2>1. cut(i) = [t[i] EXCEPT !.size = left]
    BY Zenon
  <2>2. left = l
    <3>1. start(i) = Begins(t, i)
      BY DEF Begins
    <3>2. Min({Begins(t, i) + t[i].size, to}) = Cap(Begins(t, i) + t[i].size, to)
      BY <1>3, MinOfTwo DEF Cap
    <3>3. Max({Begins(t, i), from}) = IF Begins(t, i) <= from THEN from ELSE Begins(t, i)
      BY <1>3, MaxOfTwo
    <3> QED
      BY <3>1, <3>2, <3>3, Zenon
  <2> HIDE DEF cut, left
  <2>3. [t[i] EXCEPT !.size = l] \in Word /\ [t[i] EXCEPT !.size = l].size = l
    BY <1>3, <1>4, CutWord
  <2>4. [t[i] EXCEPT !.size = l].at = t[i].at /\ [t[i] EXCEPT !.size = l].part = t[i].part
    BY <1>3 DEF Word
  <2> QED
    BY <2>1, <2>2, <2>3, <2>4
<1> HIDE DEF cut
<1>6. list \in Seq(S) /\ Len(list) = n /\ list[i] = cut(i)
  BY <1>1
<1> HIDE DEF list, S
<1>7. cut(i) \in ToSet(FlattenSeq(shown))
  <2>1. shown = [j \in DOMAIN list |-> shown[j]]
    OBVIOUS
  <2>2. \A j \in DOMAIN list : shown[j] \in {<<list[j]>>, <<>>}
    OBVIOUS
  <2>3. shown[i] = <<list[i]>>
    <3>1. i \in DOMAIN list
      BY <1>6, LenProperties
    <3>2. list[i].size > 0
      BY <1>5, <1>6
    <3> QED
      BY <3>1, <3>2
  <2> HIDE DEF shown
  <2>4. list[i] \in ToSet(FlattenSeq(shown))
    BY <1>6, <2>1, <2>2, <2>3, KeptAll
  <2> QED
    BY <1>6, <2>4
<1> HIDE DEF shown
<1> DEFINE slice == Slice(t, from, to)
<1>8. slice \in Text
  BY SliceSize
<1>9. cut(i) \in ToSet(slice)
  BY <1>2, <1>7
<1> HIDE DEF slice
<1>10. PICK m \in 1 .. Len(slice) : slice[m] = cut(i)
  BY <1>8, <1>9 DEF ToSet, Text
<1>11. ShareOf(slice, t[i]) >= slice[m].size
  BY <1>3, <1>5, <1>8, <1>10, ShareType
<1> QED
  BY <1>5, <1>10, <1>11 DEF slice

\* The hard wrap loses nothing.
LEMMA HardWrapKeeps ==
    ASSUME NEW t \in Text, NEW w \in ToSet(t)
    PROVE  Held(_hard_wrap(t), w)
<1> DEFINE width == WrapWidth(t)
           n == (SizeOf(t) + width - 1) \div width
           u == Wrapped(t)
           piece(k) == Slice(u, (k - 1) * width, k * width)
           pieces == _hard_wrap(t)
<1>1. width \in Nat /\ width >= 1 /\ SizeOf(t) \in Nat
  BY WidthFits, SizeType
<1>2. pieces = [k \in 1 .. n |-> piece(k)]
  BY Zenon DEF _hard_wrap
<1>3. pieces \in Seq(Text)
  <2>1. Fitting \subseteq Text
    BY DEF Fitting
  <2>2. pieces \in Seq(Fitting)
    BY HardWrapFits
  <2> HIDE DEF pieces
  <2> QED
    BY <2>1, <2>2
<1> HIDE DEF pieces, width, u
<1>4. n \in Nat /\ n * width >= SizeOf(t)
  <2>1. \A a, b \in Nat : b > 0 => a \div b \in Nat /\ (a \div b) * b > a - b
    OBVIOUS
  <2> DEFINE a == SizeOf(t) + width - 1
  <2>2. a \in Nat /\ width > 0 /\ a - width = SizeOf(t) - 1
    BY <1>1
  <2>3. n = a \div width
    OBVIOUS
  <2> HIDE DEF a, n
  <2>4. n \in Nat /\ n * width > SizeOf(t) - 1
    BY <1>1, <2>1, <2>2, <2>3
  <2>5. n * width \in Nat
    BY <1>1, <2>4
  <2> QED
    BY <1>1, <2>4, <2>5
<1> HIDE DEF n
<1>5. Len(pieces) = n /\ \A k \in 1 .. n : pieces[k] = piece(k)
  BY <1>2, <1>3, <1>4
<1>6. PICK i \in 1 .. Len(t) : w = t[i]
  BY DEF ToSet, Text
<1> DEFINE a == Begins(u, i)
           b == Begins(u, i) + u[i].size
           shares == Shares(pieces, w)
<1>15. /\ u \in Text /\ Len(u) = Len(t) /\ SizeOf(u) = SizeOf(t)
       /\ u[i].size = w.size /\ u[i].at = w.at /\ u[i].part = w.part
  BY <1>6, WrappedText DEF u
<1>7. a \in Nat /\ b \in Nat /\ a <= b /\ b <= SizeOf(t) /\ b - a = w.size /\ w \in Word
  BY <1>6, <1>15, WordEnds
<1>16. \A x : ShareOf(x, u[i]) = ShareOf(x, w)
  BY <1>15, Zenon DEF ShareOf
<1>8. /\ shares \in Text /\ Len(shares) = n
      /\ \A k \in 1 .. n : shares[k].size = ShareOf(pieces[k], w) /\ shares[k].size \in Nat
  BY <1>3, <1>5, <1>7, SharesType DEF Word
<1> HIDE DEF shares, piece
<1>9. PICK f \in [0 .. n -> Nat] :
         /\ f[0] = 0 /\ \A k \in 1 .. n : f[k] = f[k - 1] + shares[k].size
         /\ SizeOf(shares) = f[n]
  BY <1>8, Counted
<1> DEFINE S == {k \in Nat : k <= n => f[k] >= Cap(b, k * width) - Cap(a, k * width)}
<1>10. 0 \in S
  <2>1. 0 * width = 0
    BY <1>1
  <2> HIDE DEF a, b
  <2> QED
    BY <1>4, <1>7, <1>9, <2>1 DEF Cap
<1>11. ASSUME NEW k \in Nat, k \in S PROVE k + 1 \in S
  <2> DEFINE from == k * width
             to == (k + 1) * width
             l == Cap(b, to) - (IF a <= from THEN from ELSE a)
             share == shares[k + 1].size
  <2> SUFFICES ASSUME k + 1 <= n PROVE f[k + 1] >= Cap(b, to) - Cap(a, to)
    OBVIOUS
  <2>1. k + 1 \in 1 .. n /\ (k + 1) - 1 = k /\ k \in 0 .. n /\ k <= n
    BY <1>4
  <2>2. from \in Nat /\ to \in Nat /\ from <= to
    BY <1>1
  <2>3. f[k] >= Cap(b, from) - Cap(a, from)
    BY <1>11, <2>1
  <2>4. f[k + 1] = f[k] + share /\ share \in Nat /\ f[k] \in Nat
    BY <1>8, <1>9, <2>1
  <2>5. pieces[k + 1] = Slice(u, from, to)
    BY <1>5, <2>1 DEF piece
  <2>6. l > 0 => share >= l
    <3> SUFFICES ASSUME l > 0 PROVE share >= l
      OBVIOUS
    <3>1. ShareOf(Slice(u, from, to), u[i]) >= l
      <4> HIDE DEF from, to
      <4> QED
        BY <1>15, <2>2, SliceHas
    <3> QED
      BY <1>8, <1>16, <2>1, <2>5, <3>1
  <2> HIDE DEF a, b, from, to, share
  <2> QED
    BY <1>7, <2>2, <2>3, <2>4, <2>6 DEF Cap
<1> HIDE DEF S
<1>12. n \in S
  BY <1>4, <1>10, <1>11, Induct
<1>13. SizeOf(shares) >= Cap(b, n * width) - Cap(a, n * width)
  BY <1>4, <1>9, <1>12 DEF S
<1>14. Cap(b, n * width) = b /\ Cap(a, n * width) = a
  <2>1. n * width \in Nat
    BY <1>1, <1>4
  <2> HIDE DEF a, b
  <2> QED
    BY <1>1, <1>4, <1>7, <2>1 DEF Cap
<1> QED
  BY <1>7, <1>13, <1>14 DEF Held, shares, pieces

\* A word is in one of some texts.
Among(texts, w) == \E g \in 1 .. Len(texts) : w \in ToSet(texts[g])

\* What is among texts is held by them.
LEMMA AmongHeld ==
    ASSUME NEW texts \in Seq(Text), NEW w, Among(texts, w)
    PROVE  w \in Word /\ Held(texts, w)
BY HeldWhole DEF Among

\* A word put at the end of the last text, or in one of its own, is among them.
LEMMA WordAdded ==
    ASSUME NEW s \in Seq(Text), NEW w \in Word, NEW added,
           \/ added = Append(s, <<w>>)
           \/ s # <<>> /\ added = [s EXCEPT ![Len(s)] = Append(s[Len(s)], w)]
    PROVE  Among(added, w) /\ \A v : Among(s, v) => Among(added, v)
<1>1. Len(s) \in Nat /\ \A g \in 1 .. Len(s) : s[g] \in Text
  BY LenProperties, ElementOfSeq
<1>2. w \in ToSet(<<w>>)
  <2>1. 1 \in DOMAIN <<w>> /\ <<w>>[1] = w
    OBVIOUS
  <2> QED
    BY <2>1 DEF ToSet
<1>3. CASE added = Append(s, <<w>>)
  <2> DEFINE own == <<w>>
  <2>1. own \in Text
    BY SizeOfOne
  <2>2. added = Append(s, own) /\ w \in ToSet(own)
    BY <1>2, <1>3
  <2> HIDE DEF own
  <2>3. /\ Len(added) = Len(s) + 1 /\ added[Len(s) + 1] = own
        /\ \A g \in 1 .. Len(s) : added[g] = s[g]
    BY <2>1, <2>2, AppendProperties
  <2>4. Len(s) + 1 \in 1 .. Len(added) /\ \A g \in 1 .. Len(s) : g \in 1 .. Len(added)
    BY <1>1, <2>3
  <2> QED
    BY <2>2, <2>3, <2>4 DEF Among
<1>4. CASE s # <<>> /\ added = [s EXCEPT ![Len(s)] = Append(s[Len(s)], w)]
  <2> DEFINE last == Append(s[Len(s)], w)
  <2>1. s[Len(s)] \in Text /\ Len(s) \in 1 .. Len(s)
    BY <1>4, LastIn
  <2>2. last \in Text /\ w \in ToSet(last) /\ ToSet(s[Len(s)]) \subseteq ToSet(last)
    <3> DEFINE t == s[Len(s)]
    <3>1. t \in Seq(Word)
      BY <2>1 DEF Text
    <3> HIDE DEF t
    <3>2. /\ Append(t, w) \in Seq(Word) /\ Len(Append(t, w)) = Len(t) + 1
          /\ Append(t, w)[Len(t) + 1] = w /\ \A i \in 1 .. Len(t) : Append(t, w)[i] = t[i]
          /\ Len(t) \in Nat /\ DOMAIN t = 1 .. Len(t)
          /\ DOMAIN Append(t, w) = 1 .. Len(t) + 1
      BY <3>1, AppendProperties, LenProperties
    <3>3. w \in ToSet(Append(t, w))
      <4>1. Len(t) + 1 \in DOMAIN Append(t, w)
        BY <3>2
      <4> QED
        BY <3>2, <4>1 DEF ToSet
    <3>4. ToSet(t) \subseteq ToSet(Append(t, w))
      <4>1. \A i \in DOMAIN t : i \in DOMAIN Append(t, w) /\ Append(t, w)[i] = t[i]
        BY <3>2
      <4> QED
        BY <4>1 DEF ToSet
    <3> QED
      BY <3>2, <3>3, <3>4 DEF t, Text
  <2> HIDE DEF last
  <2>3. added = [s EXCEPT ![Len(s)] = last]
    BY <1>4 DEF last
  <2>4. added \in Seq(Text) /\ Len(added) = Len(s)
    BY <2>1, <2>2, <2>3, ExceptSeq
  <2>5. \A g \in 1 .. Len(s) : added[g] = IF g = Len(s) THEN last ELSE s[g]
    BY <1>1, <2>3, LenProperties
  <2> QED
    BY <2>1, <2>2, <2>4, <2>5 DEF Among
<1> QED
  BY <1>3, <1>4

\* Every word of a text is in one of its parts.
LEMMA PartsKeep ==
    ASSUME NEW t \in Text, NEW breaks, NEW w \in ToSet(t)
    PROVE  Among(PartsAt(t, breaks), w)
<1>1. PICK f \in [0 .. Len(t) -> Seq(Text)] :
         /\ f[0] = <<>> /\ \A k \in 1 .. Len(t) : f[k] = PartsWith(f[k - 1], t[k], breaks)
         /\ PartsAt(t, breaks) = f[Len(t)]
  BY PartsRun
<1> DEFINE n == Len(t)
<1>2. n \in Nat
  BY DEF Text
<1>3. PICK i \in 1 .. n : w = t[i]
  BY DEF ToSet, Text
<1> DEFINE S == {k \in Nat : k <= n /\ i <= k => Among(f[k], w)}
<1>4. 0 \in S
  BY <1>2
<1>5. ASSUME NEW k \in Nat, k \in S PROVE k + 1 \in S
  <2> SUFFICES ASSUME k + 1 <= n, i <= k + 1 PROVE Among(f[k + 1], w)
    OBVIOUS
  <2>1. k + 1 \in 1 .. n /\ (k + 1) - 1 = k /\ k \in 0 .. n /\ k <= n
    BY <1>2
  <2> DEFINE s == f[k]
             added == f[k + 1]
  <2>2. s \in Seq(Text) /\ t[k + 1] \in Word
    BY <2>1, WordIn
  <2>3. \/ added = Append(s, <<t[k + 1]>>)
        \/ s # <<>> /\ added = [s EXCEPT ![Len(s)] = Append(s[Len(s)], t[k + 1])]
    <3>1. added = PartsWith(s, t[k + 1], breaks)
      BY <1>1, <2>1
    <3> HIDE DEF s, added
    <3> QED
      BY <3>1 DEF PartsWith
  <2>4. k \in S
    BY <1>5
  <2> HIDE DEF s, added
  <2>5. Among(added, t[k + 1]) /\ \A v : Among(s, v) => Among(added, v)
    BY <2>2, <2>3, WordAdded
  <2>6. CASE i = k + 1
    BY <1>3, <2>5, <2>6 DEF added
  <2>7. CASE i <= k
    BY <2>1, <2>4, <2>5, <2>7 DEF added, s
  <2> QED
    BY <1>2, <2>6, <2>7
<1> HIDE DEF S
<1>6. n \in S
  BY <1>2, <1>4, <1>5, Induct
<1> QED
  BY <1>1, <1>2, <1>3, <1>6 DEF S

\* What is packed or still to be holds a word.
Packs(s, w) == Held(s.packed, w) \/ w \in ToSet(s.buffer)

\* Pieces that fit are texts.
LEMMA FittingTexts == Fitting \subseteq Text /\ Seq(Fitting) \subseteq Seq(Text)
<1>1. Fitting \subseteq Text
  BY DEF Fitting
<1> QED
  BY <1>1

\* One text after others is held with them.
LEMMA HeldAppend ==
    ASSUME NEW texts \in Seq(Text), NEW t \in Text, NEW w \in Word,
           Held(texts, w) \/ w \in ToSet(t)
    PROVE  Append(texts, t) \in Seq(Text) /\ Held(Append(texts, t), w)
<1>1. Append(texts, t) = texts \o <<t>> /\ <<t>> \in Seq(Text) /\ Len(<<t>>) = 1 /\ <<t>>[1] = t
  OBVIOUS
<1> DEFINE one == <<t>>
<1>2. one \in Seq(Text) /\ Len(one) = 1 /\ one[1] = t
  BY <1>1
<1> HIDE DEF one
<1>3. w \in ToSet(t) => Held(one, w)
  <2>1. 1 \in 1 .. Len(one)
    BY <1>2
  <2> QED
    BY <1>2, <2>1, HeldWhole
<1> QED
  BY <1>1, <1>2, <1>3, HeldMore DEF one

\* What is packed at the end holds what was packed or to be.
LEMMA FlushedKeeps ==
    ASSUME NEW s \in Packing, NEW w \in Word, Packs(s, w)
    PROVE  Flushed(s) \in Seq(Text) /\ Held(Flushed(s), w)
<1>1. s.packed \in Seq(Text) /\ s.buffer \in Text
  BY FittingTexts DEF Packing
<1>2. CASE s.buffer = <<>>
  <2>1. ToSet(<<>>) = {}
    BY DEF ToSet
  <2> QED
    BY <1>1, <1>2, <2>1 DEF Packs, Flushed
<1>3. CASE s.buffer # <<>>
  BY <1>1, <1>3, HeldAppend DEF Packs, Flushed
<1> QED
  BY <1>2, <1>3

\* One more part keeps what there was, and is kept.
LEMMA PackKeepsOne ==
    ASSUME NEW s \in Packing, NEW part \in Text, NEW split, split[part] \in Seq(Fitting),
           NEW w \in Word, w \in ToSet(part) => Held(split[part], w),
           Packs(s, w) \/ w \in ToSet(part)
    PROVE  Packs(PackedWith(s, part, split), w)
<1>1. s.packed \in Seq(Text) /\ s.buffer \in Text /\ split[part] \in Seq(Text)
  BY FittingTexts DEF Packing
<1>2. Flushed(s) \in Seq(Text)
  BY <1>1 DEF Flushed
<1>3. Packs(s, w) => Held(Flushed(s), w)
  BY FlushedKeeps
<1>4. CASE measure(part) > maximum
  <2>1. Held(Flushed(s) \o split[part], w)
    BY <1>1, <1>2, <1>3, HeldMore
  <2>2. PackedWith(s, part, split) = [packed |-> Flushed(s) \o split[part], buffer |-> <<>>]
    BY <1>4, Zenon DEF PackedWith
  <2>3. PackedWith(s, part, split).packed = Flushed(s) \o split[part]
    BY <2>2
  <2> QED
    BY <2>1, <2>3 DEF Packs
<1>5. CASE ~(measure(part) > maximum) /\ s.buffer # <<>> /\ measure(s.buffer \o part) > target
  <2>1. PackedWith(s, part, split) = [packed |-> Append(s.packed, s.buffer), buffer |-> part]
    BY <1>5, Zenon DEF PackedWith
  <2>2. Flushed(s) = Append(s.packed, s.buffer)
    BY <1>5, Zenon DEF Flushed
  <2>3. /\ PackedWith(s, part, split).packed = Flushed(s)
        /\ PackedWith(s, part, split).buffer = part
    BY <2>1, <2>2
  <2> QED
    BY <1>3, <2>3 DEF Packs
<1>6. CASE ~(measure(part) > maximum) /\ ~(s.buffer # <<>> /\ measure(s.buffer \o part) > target)
  <2>1. PackedWith(s, part, split) = [s EXCEPT !.buffer = s.buffer \o part]
    BY <1>6, Zenon DEF PackedWith
  <2>2. /\ PackedWith(s, part, split).packed = s.packed
        /\ PackedWith(s, part, split).buffer = s.buffer \o part
    BY <2>1 DEF Packing
  <2>3. ToSet(s.buffer \o part) = ToSet(s.buffer) \cup ToSet(part)
    BY <1>1, SetOfConcat DEF Text
  <2> QED
    BY <2>2, <2>3 DEF Packs
<1> QED
  BY <1>4, <1>5, <1>6

\* Packing loses nothing, if splitting a part too big for a passage does not.
LEMMA PackKeeps ==
    ASSUME NEW parts \in Seq(Text), NEW split,
           \A i \in 1 .. Len(parts) :
              /\ split[parts[i]] \in Seq(Fitting)
              /\ \A v \in ToSet(parts[i]) : Held(split[parts[i]], v),
           NEW w, Among(parts, w)
    PROVE  Held(_pack(parts, split), w)
<1> DEFINE n == Len(parts)
<1>1. PICK f \in [0 .. n -> Packing] :
         /\ f[0] = [packed |-> <<>>, buffer |-> <<>>]
         /\ \A k \in 1 .. n : f[k] = PackedWith(f[k - 1], parts[k], split)
         /\ _pack(parts, split) = Flushed(f[n])
  BY PackRun
<1>2. n \in Nat /\ \A i \in 1 .. n : parts[i] \in Text
  BY ElementOfSeq, LenProperties
<1>3. PICK i \in 1 .. n : w \in ToSet(parts[i])
  BY DEF Among
<1>4. w \in Word
  BY AmongHeld
<1> DEFINE S == {k \in Nat : k <= n /\ i <= k => Packs(f[k], w)}
<1>5. 0 \in S
  BY <1>2
<1>6. ASSUME NEW k \in Nat, k \in S PROVE k + 1 \in S
  <2> SUFFICES ASSUME k + 1 <= n, i <= k + 1 PROVE Packs(f[k + 1], w)
    OBVIOUS
  <2>1. k + 1 \in 1 .. n /\ (k + 1) - 1 = k /\ k \in 0 .. n /\ k <= n
    BY <1>2
  <2> DEFINE part == parts[k + 1]
  <2>2. f[k + 1] = PackedWith(f[k], part, split) /\ f[k] \in Packing
    BY <1>1, <2>1
  <2>3. part \in Text /\ split[part] \in Seq(Fitting) /\ \A v \in ToSet(part) : Held(split[part], v)
    BY <1>2, <2>1
  <2>4. Packs(f[k], w) \/ w \in ToSet(part)
    <3>1. CASE i = k + 1
      BY <1>3, <3>1
    <3>2. CASE i <= k
      BY <1>6, <2>1, <3>2
    <3> QED
      BY <1>2, <3>1, <3>2
  <2> HIDE DEF part
  <2> QED
    BY <1>4, <2>2, <2>3, <2>4, PackKeepsOne
<1> HIDE DEF S
<1>7. n \in S
  BY <1>2, <1>5, <1>6, Induct
<1>8. Packs(f[n], w) /\ f[n] \in Packing
  BY <1>1, <1>2, <1>3, <1>7 DEF S
<1> QED
  BY <1>1, <1>4, <1>8, FlushedKeeps

\* A text that is one piece is held.
LEMMA OneKeeps ==
    ASSUME NEW t \in Text, NEW w \in ToSet(t)
    PROVE  Held(<<t>>, w)
<1> DEFINE one == <<t>>
<1>1. one \in Seq(Text) /\ 1 \in 1 .. Len(one) /\ one[1] = t
  OBVIOUS
<1> HIDE DEF one
<1>2. Held(one, w)
  BY <1>1, HeldWhole
<1> QED
  BY <1>2 DEF one

\* Splitting a paragraph loses nothing.
LEMMA ParagraphKeeps ==
    ASSUME NEW t \in Text, NEW w \in ToSet(t)
    PROVE  Held(SplitParagraph(t), w)
<1> DEFINE sentences == PartsAt(t, {"sentence", "paragraph"})
           split == [p \in ToSet(sentences) |-> _hard_wrap(p)]
<1>1. SplitParagraph(t) = IF fits(t) THEN <<t>>
                          ELSE IF Len(sentences) > 1 THEN _pack(sentences, split)
                          ELSE _hard_wrap(t)
  BY Zenon DEF SplitParagraph
<1>2. sentences \in Seq(Text) /\ Among(sentences, w)
  BY PartsAreTexts, PartsKeep
<1> HIDE DEF sentences
<1>3. ASSUME NEW i \in 1 .. Len(sentences)
      PROVE  /\ split[sentences[i]] \in Seq(Fitting)
             /\ \A v \in ToSet(sentences[i]) : Held(split[sentences[i]], v)
  <2>1. sentences[i] \in Text /\ sentences[i] \in ToSet(sentences)
    BY <1>2 DEF ToSet
  <2>2. split[sentences[i]] = _hard_wrap(sentences[i])
    BY <2>1
  <2> QED
    BY <2>1, <2>2, HardWrapFits, HardWrapKeeps
<1> HIDE DEF split
<1>4. Held(_pack(sentences, split), w) /\ Held(_hard_wrap(t), w) /\ Held(<<t>>, w)
  BY <1>2, <1>3, PackKeeps, HardWrapKeeps, OneKeeps
<1> QED
  BY <1>1, <1>4, Zenon

\* Splitting a text loses nothing.
LEMMA SplitKeeps ==
    ASSUME NEW t \in Text, NEW w \in ToSet(t)
    PROVE  Held(_split_to_size(t), w)
<1> DEFINE paragraphs == PartsAt(t, {"paragraph"})
           split == [p \in ToSet(paragraphs) |-> SplitParagraph(p)]
<1>1. _split_to_size(t) = IF t = <<>> THEN <<>>
                          ELSE IF fits(t) THEN <<t>>
                          ELSE IF Len(paragraphs) > 1 THEN _pack(paragraphs, split)
                          ELSE SplitParagraph(t)
  BY Zenon DEF _split_to_size
<1>2. paragraphs \in Seq(Text) /\ Among(paragraphs, w)
  BY PartsAreTexts, PartsKeep
<1> HIDE DEF paragraphs
<1>3. ASSUME NEW i \in 1 .. Len(paragraphs)
      PROVE  /\ split[paragraphs[i]] \in Seq(Fitting)
             /\ \A v \in ToSet(paragraphs[i]) : Held(split[paragraphs[i]], v)
  <2>1. paragraphs[i] \in Text /\ paragraphs[i] \in ToSet(paragraphs)
    BY <1>2 DEF ToSet
  <2>2. split[paragraphs[i]] = SplitParagraph(paragraphs[i])
    BY <2>1
  <2> QED
    BY <2>1, <2>2, ParagraphFits, ParagraphKeeps
<1> HIDE DEF split
<1>4. Held(_pack(paragraphs, split), w) /\ Held(SplitParagraph(t), w) /\ Held(<<t>>, w)
  BY <1>2, <1>3, PackKeeps, ParagraphKeeps, OneKeeps
<1>5. t # <<>>
  BY DEF ToSet
<1> QED
  BY <1>1, <1>4, <1>5, Zenon

\* A word is among texts if it is in one of them.
LEMMA AmongSet ==
    ASSUME NEW texts \in Seq(Text), NEW w
    PROVE  Among(texts, w) <=> \E t \in ToSet(texts) : w \in ToSet(t)
<1>1. DOMAIN texts = 1 .. Len(texts)
  BY LenProperties
<1>2. ToSet(texts) = {texts[g] : g \in 1 .. Len(texts)}
  BY <1>1 DEF ToSet
<1> QED
  BY <1>2 DEF Among

\* Every row of a group is in what it is halved into.
LEMMA FitGroupKeeps ==
    ASSUME NEW header \in Text, NEW rows \in Text, NEW w \in ToSet(rows)
    PROVE  _fit_group(header, rows) \in Seq(Text) /\ Among(_fit_group(header, rows), w)
<1>1. PICK f \in [0 .. Len(rows) -> Seq(Text)] :
         /\ f[0] = <<rows>> /\ \A k \in 1 .. Len(rows) : f[k] = Halved(header, f[k - 1])
         /\ _fit_group(header, rows) = f[Len(rows)]
  BY HalvingRun
<1> DEFINE n == Len(rows)
           S == {s \in Seq(Text) : Among(s, w)}
           one == <<rows>>
<1>2. n \in Nat
  BY DEF Text
<1>3. one \in S
  <2>1. one \in Seq(Text) /\ 1 \in 1 .. Len(one) /\ one[1] = rows
    OBVIOUS
  <2> HIDE DEF one
  <2>2. Among(one, w)
    BY <2>1 DEF Among
  <2> QED
    BY <2>1, <2>2
<1> HIDE DEF one
<1>4. \A k \in 1 .. n : f[k - 1] \in S => f[k] \in S
  <2> SUFFICES ASSUME NEW k \in 1 .. n, f[k - 1] \in S PROVE f[k] \in S
    OBVIOUS
  <2> DEFINE s == f[k - 1]
  <2>1. s \in Seq(Text) /\ Among(s, w) /\ f[k] = Halved(header, s)
    BY <1>1
  <2> HIDE DEF s
  <2>2. Halved(header, s) \in Seq(Text) /\ Among(Halved(header, s), w)
    BY <2>1, HalvedKeep DEF Among
  <2> QED
    BY <2>1, <2>2
<1>5. f[0] \in S
  BY <1>1, <1>3 DEF one
<1> HIDE DEF S, n
<1>6. \A k \in 0 .. n : f[k] \in S
  BY <1>2, <1>4, <1>5, RunStays
<1>7. f[n] \in S
  BY <1>2, <1>6
<1> QED
  BY <1>1, <1>7 DEF S, n

\* Every row of a table is in one of its groups.
LEMMA GroupRowsKeep ==
    ASSUME NEW header \in Text, NEW rows \in Text, NEW w \in ToSet(rows)
    PROVE  _group_rows(header, rows) \in Seq(Text) /\ Among(_group_rows(header, rows), w)
<1>1. PICK f \in [0 .. Len(rows) -> Groups] :
         /\ f[0] = << <<>> >>
         /\ \A k \in 1 .. Len(rows) : f[k] = GroupedWith(header, f[k - 1], rows[k])
         /\ _group_rows(header, rows) =
               FlattenSeq([g \in DOMAIN f[Len(rows)] |-> _fit_group(header, f[Len(rows)][g])])
  BY GroupRun
<1> DEFINE n == Len(rows)
           groups == f[n]
           fitted == [g \in DOMAIN groups |-> _fit_group(header, groups[g])]
<1>2. n \in Nat /\ n \in 0 .. n
  BY DEF Text
<1>3. PICK i \in 1 .. n : w = rows[i]
  BY DEF ToSet, Text
<1> DEFINE S == {k \in Nat : k <= n /\ i <= k => Among(f[k], w)}
<1>4. 0 \in S
  BY <1>2
<1>5. ASSUME NEW k \in Nat, k \in S PROVE k + 1 \in S
  <2> SUFFICES ASSUME k + 1 <= n, i <= k + 1 PROVE Among(f[k + 1], w)
    OBVIOUS
  <2>1. k + 1 \in 1 .. n /\ (k + 1) - 1 = k /\ k \in 0 .. n /\ k <= n
    BY <1>2
  <2> DEFINE s == f[k]
             added == f[k + 1]
             row == rows[k + 1]
  <2>2. s \in Groups /\ row \in Word /\ added = GroupedWith(header, s, row)
    BY <1>1, <2>1, WordIn
  <2>3. k \in S
    BY <1>5
  <2> HIDE DEF s, added, row
  <2>4. s \in Seq(Text) /\ s # <<>>
    BY <2>2 DEF Groups
  <2>5. \/ added = Append(s, <<row>>)
        \/ s # <<>> /\ added = [s EXCEPT ![Len(s)] = Append(s[Len(s)], row)]
    <3>1. GroupedWith(header, s, row) \in
              {Append(s, <<row>>), [s EXCEPT ![Len(s)] = Append(s[Len(s)], row)]}
      BY <2>2, RowGrouped, Zenon
    <3> QED
      BY <2>2, <2>4, <3>1, Zenon
  <2>6. Among(added, row) /\ \A v : Among(s, v) => Among(added, v)
    BY <2>2, <2>4, <2>5, WordAdded
  <2>7. CASE i = k + 1
    BY <1>3, <2>6, <2>7 DEF added, row
  <2>8. CASE i <= k
    BY <2>1, <2>3, <2>6, <2>8 DEF added, s
  <2> QED
    BY <1>2, <2>7, <2>8
<1> HIDE DEF S
<1>6. n \in S
  BY <1>2, <1>4, <1>5, Induct
<1>7. groups \in Seq(Text) /\ Among(groups, w)
  BY <1>2, <1>3, <1>6 DEF S, Groups
<1> HIDE DEF groups
<1>8. \A g \in 1 .. Len(groups) : groups[g] \in Text /\ _fit_group(header, groups[g]) \in Seq(Text)
  <2> SUFFICES ASSUME NEW g \in 1 .. Len(groups)
               PROVE  groups[g] \in Text /\ _fit_group(header, groups[g]) \in Seq(Text)
    OBVIOUS
  <2>1. groups[g] \in Text
    BY <1>7, ElementOfSeq
  <2>2. _fit_group(header, groups[g]) \in Seq(Whole(header))
    BY <2>1, GroupFits
  <2>3. Whole(header) \subseteq Text
    BY DEF Whole
  <2> QED
    BY <2>1, <2>2, <2>3
<1>9. /\ fitted \in Seq(Seq(Text)) /\ Len(fitted) = Len(groups)
      /\ \A g \in 1 .. Len(groups) : fitted[g] = _fit_group(header, groups[g])
  <2>1. Len(groups) \in Nat /\ DOMAIN groups = 1 .. Len(groups)
    BY <1>7, LenProperties
  <2> QED
    BY <1>8, <2>1
<1>10. _group_rows(header, rows) = FlattenSeq(fitted)
  BY <1>1 DEF groups, n
<1> HIDE DEF fitted
<1> DEFINE all == FlattenSeq(fitted)
<1>11. all \in Seq(Text) /\ ToSet(all) = UNION {ToSet(fitted[g]) : g \in 1 .. Len(fitted)}
  BY <1>9, Flattened
<1>12. PICK g \in 1 .. Len(groups) : w \in ToSet(groups[g])
  BY <1>7 DEF Among
<1>13. fitted[g] \in Seq(Text) /\ Among(fitted[g], w)
  BY <1>8, <1>9, <1>12, FitGroupKeeps
<1>14. PICK t \in ToSet(fitted[g]) : w \in ToSet(t)
  BY <1>13, AmongSet
<1>15. t \in ToSet(all)
  BY <1>9, <1>11, <1>14
<1> HIDE DEF all
<1>16. Among(all, w)
  BY <1>11, <1>14, <1>15, AmongSet
<1> QED
  BY <1>10, <1>11, <1>16 DEF all

\* What is in each passage, or each piece of a table: its header and its text.
FullTexts(pieces) == [k \in DOMAIN pieces |-> pieces[k].head \o pieces[k].text]

\* Every row of a table is in one of the pieces it is rendered as.
LEMMA RenderKeeps ==
    ASSUME NEW rows \in Text, NEW w \in ToSet(rows)
    PROVE  \E k \in 1 .. Len(_render_table(rows)) :
              w \in ToSet(_render_table(rows)[k].head \o _render_table(rows)[k].text)
<1> DEFINE start == _header_row(rows)
           header == SubSeq(rows, 1, start)
           body == SubSeq(rows, start + 1, Len(rows))
           rendered(groups) == [g \in DOMAIN groups |-> [head |-> header, text |-> groups[g]]]
           groups == IF body = <<>> THEN << <<>> >> ELSE _group_rows(header, body)
<1>1. rows # <<>>
  BY DEF ToSet
<1>2. _render_table(rows) = rendered(groups)
  BY <1>1, Zenon DEF _render_table
<1>3. start \in 1 .. Len(rows) /\ Len(rows) \in Nat
  BY <1>1, HeaderRow DEF Text
<1>4. header \in Text /\ body \in Text
  BY <1>3, SubSeqProperties DEF Text
<1>5. w \in ToSet(header) \/ w \in ToSet(body)
  <2>1. PICK i \in 1 .. Len(rows) : w = rows[i]
    BY DEF ToSet, Text
  <2>2. CASE i <= start
    <3>1. /\ i \in 1 .. start /\ Len(header) = start
          /\ \A j \in 1 .. start : header[j] = rows[j]
      BY <1>3, <2>2, SubSeqProperties DEF Text
    <3>2. DOMAIN header = 1 .. start
      BY <1>4, <3>1 DEF Text
    <3> QED
      BY <2>1, <3>1, <3>2 DEF ToSet
  <2>3. CASE i > start
    <3> DEFINE l == Len(rows)
               p == start + 1
    <3>1. /\ p \in Int /\ l \in Int /\ p <= l
          /\ i - start \in 1 .. l - p + 1 /\ p + (i - start) - 1 = i
      BY <1>3, <2>3
    <3>2. \A j \in p .. l : rows[j] \in Word
      <4>1. \A j \in p .. l : j \in 1 .. Len(rows)
        BY <1>3
      <4> QED
        BY <4>1, WordIn
    <3>3. body = SubSeq(rows, p, l)
      OBVIOUS
    <3> HIDE DEF p, l, body
    <3>4. /\ Len(body) = l - p + 1 /\ \A j \in 1 .. l - p + 1 : body[j] = rows[p + j - 1]
      BY <3>1, <3>2, <3>3, SubSeqProperties
    <3>5. body[i - start] = rows[p + (i - start) - 1]
      BY <3>1, <3>4
    <3>6. i - start \in 1 .. Len(body) /\ DOMAIN body = 1 .. Len(body)
      BY <1>4, <3>1, <3>4 DEF Text
    <3> QED
      BY <2>1, <3>1, <3>5, <3>6 DEF ToSet
  <2> QED
    BY <1>3, <2>1, <2>2, <2>3
<1> HIDE DEF header, body
<1>6. /\ groups \in Seq(Text) /\ 1 \in 1 .. Len(groups)
      /\ w \in ToSet(body) => Among(groups, w)
  <2>1. CASE body = <<>>
    <3>1. groups = << <<>> >>
      BY <2>1
    <3>2. groups \in Seq(Text) /\ Len(groups) = 1
      <4> DEFINE none == <<>>
      <4>1. none \in Text /\ groups = <<none>>
        BY <3>1, NoText
      <4> HIDE DEF none, groups
      <4> QED
        BY <4>1
    <3>3. ToSet(body) = {}
      BY <2>1 DEF ToSet
    <3> QED
      BY <3>2, <3>3
  <2>2. CASE body # <<>>
    <3>1. groups = _group_rows(header, body)
      BY <2>2
    <3>2. \A v \in ToSet(body) : groups \in Seq(Text) /\ Among(groups, v)
      BY <1>4, <3>1, GroupRowsKeep
    <3>3. body[1] \in ToSet(body)
      BY <1>4, <2>2, EmptySeq, LenProperties DEF ToSet, Text
    <3>4. groups \in Seq(Text) /\ Among(groups, body[1])
      BY <3>2, <3>3
    <3>5. 1 \in 1 .. Len(groups)
      <4>1. Len(groups) \in Nat /\ \E g \in 1 .. Len(groups) : TRUE
        BY <3>4, LenProperties DEF Among
      <4> QED
        BY <4>1
    <3> QED
      BY <3>2, <3>4, <3>5
  <2> QED
    BY <2>1, <2>2
<1> HIDE DEF groups
<1>7. PICK g \in 1 .. Len(groups) : w \in ToSet(header) \cup ToSet(groups[g])
  BY <1>5, <1>6 DEF Among
<1>8. groups[g] \in Text
  BY <1>6, ElementOfSeq
<1>9. w \in ToSet(header \o groups[g])
  BY <1>4, <1>7, <1>8, SetOfConcat DEF Text
<1> DEFINE piece(k) == [head |-> header, text |-> groups[k]]
<1>10. _render_table(rows) = [k \in 1 .. Len(groups) |-> piece(k)]
  BY <1>2, <1>6, LenProperties
<1>11. piece(g).head = header /\ piece(g).text = groups[g]
  OBVIOUS
<1> HIDE DEF piece
<1>12. Len(groups) \in Nat
  BY <1>6, LenProperties
<1>13. Len(_render_table(rows)) = Len(groups) /\ _render_table(rows)[g] = piece(g)
  BY <1>10, <1>12
<1> QED
  BY <1>9, <1>11, <1>13

(***************************************************************************)
(* What passages tell of a word                                            *)
(***************************************************************************)

\* The whole of a word is in passages.
Tells(chunks, w) == Held(FullTexts(chunks), w)

\* What is in passages is texts.
LEMMA FullTextsAre ==
    ASSUME NEW chunks \in Seq(Passage)
    PROVE  /\ FullTexts(chunks) \in Seq(Text) /\ Len(FullTexts(chunks)) = Len(chunks)
           /\ \A k \in 1 .. Len(chunks) : FullTexts(chunks)[k] = chunks[k].head \o chunks[k].text
<1> DEFINE full(k) == chunks[k].head \o chunks[k].text
<1>1. Len(chunks) \in Nat /\ DOMAIN chunks = 1 .. Len(chunks)
  BY LenProperties
<1>2. ASSUME NEW k \in 1 .. Len(chunks) PROVE full(k) \in Text
  <2>1. chunks[k] \in Passage
    BY ElementOfSeq
  <2>2. chunks[k].head \in Text /\ chunks[k].text \in Text
    BY <2>1 DEF Passage
  <2> QED
    BY <2>2, SizeOfConcat
<1>3. FullTexts(chunks) = [k \in 1 .. Len(chunks) |-> full(k)]
  BY <1>1 DEF FullTexts
<1> HIDE DEF full
<1>4. /\ FullTexts(chunks) \in Seq(Text) /\ Len(FullTexts(chunks)) = Len(chunks)
      /\ \A k \in 1 .. Len(chunks) : FullTexts(chunks)[k] = full(k)
  BY <1>1, <1>2, <1>3
<1> QED
  BY <1>4 DEF full

\* A word one of them has is in them.
LEMMA ChunkTells ==
    ASSUME NEW chunks \in Seq(Passage), NEW k \in 1 .. Len(chunks),
           NEW w \in ToSet(chunks[k].head \o chunks[k].text)
    PROVE  w \in Word /\ Tells(chunks, w)
<1> DEFINE full == FullTexts(chunks)
<1>1. full \in Seq(Text) /\ k \in 1 .. Len(full) /\ w \in ToSet(full[k])
  BY FullTextsAre
<1> HIDE DEF full
<1>2. w \in Word /\ Held(full, w)
  BY <1>1, HeldWhole
<1> QED
  BY <1>2 DEF full, Tells

\* What is in passages, is with more of them.
LEMMA TellsMore ==
    ASSUME NEW a \in Seq(Passage), NEW b \in Seq(Passage), NEW w \in Word
    PROVE  /\ a \o b \in Seq(Passage)
           /\ Tells(a, w) \/ Tells(b, w) => Tells(a \o b, w)
<1>1. /\ a \o b \in Seq(Passage) /\ Len(a \o b) = Len(a) + Len(b)
      /\ Len(a) \in Nat /\ Len(b) \in Nat
  BY ConcatProperties, LenProperties
<1> DEFINE p == FullTexts(a)
           q == FullTexts(b)
           both == FullTexts(a \o b)
<1>2. /\ p \in Seq(Text) /\ Len(p) = Len(a) /\ q \in Seq(Text) /\ Len(q) = Len(b)
      /\ both \in Seq(Text) /\ Len(both) = Len(a) + Len(b)
  BY <1>1, FullTextsAre
<1>3. p \o q \in Seq(Text) /\ Len(p \o q) = Len(a) + Len(b)
  <2> HIDE DEF p, q, both
  <2>1. p \o q \in Seq(Text) /\ Len(p \o q) = Len(p) + Len(q)
    BY <1>2, ConcatProperties, Zenon
  <2> QED
    BY <1>2, <2>1
<1>4. ASSUME NEW k \in 1 .. Len(a) + Len(b) PROVE both[k] = (p \o q)[k]
  <2> DEFINE chunk == (a \o b)[k]
  <2>1. both[k] = chunk.head \o chunk.text
    BY <1>1, FullTextsAre
  <2> HIDE DEF both
  <2>2. CASE k <= Len(a)
    <3>1. k \in 1 .. Len(a) /\ chunk = a[k]
      BY <1>1, <2>2, ConcatProperties
    <3>2. p[k] = a[k].head \o a[k].text
      BY <3>1, FullTextsAre
    <3> HIDE DEF p, q, chunk
    <3>3. (p \o q)[k] = p[k]
      BY <1>2, <3>1, ConcatProperties
    <3> QED
      BY <2>1, <3>1, <3>2, <3>3
  <2>3. CASE k > Len(a)
    <3> DEFINE l == k - Len(a)
    <3>1. l \in 1 .. Len(b) /\ chunk = b[l]
      BY <1>1, <2>3, ConcatProperties
    <3>2. q[l] = b[l].head \o b[l].text
      BY <3>1, FullTextsAre
    <3> HIDE DEF p, q, chunk
    <3>3. (p \o q)[k] = q[l]
      <4>1. k \in 1 .. Len(p) + Len(q) /\ k - Len(p) = l /\ k > Len(p)
        BY <1>1, <1>2, <2>3 DEF l
      <4> HIDE DEF l
      <4> QED
        BY <1>2, <4>1, ConcatProperties
    <3> QED
      BY <2>1, <3>1, <3>2, <3>3
  <2>4. k <= Len(a) \/ k > Len(a)
    BY <1>1
  <2> HIDE DEF p, q, chunk
  <2> QED
    BY <2>2, <2>3, <2>4
<1> HIDE DEF p, q, both
<1>5. both = p \o q
  BY <1>2, <1>3, <1>4, SeqEqual
<1>6. Held(p, w) \/ Held(q, w) => Held(both, w)
  BY <1>2, <1>5, HeldMore
<1> QED
  BY <1>1, <1>6 DEF Tells, p, q, both

\* What is in some of several passages in a row, is in all of them.
LEMMA TellsFlat ==
    ASSUME NEW s \in Seq(Seq(Passage)), NEW j \in 1 .. Len(s), NEW w \in Word, Tells(s[j], w)
    PROVE  Tells(FlattenSeq(s), w)
<1> DEFINE n == Len(s)
<1>1. PICK f \in [0 .. n -> Seq(Passage)] :
         /\ f[0] = <<>> /\ \A k \in 1 .. n : f[k] = f[k - 1] \o s[k]
         /\ FlattenSeq(s) = f[n]
  BY FlattenSteps
<1>2. n \in Nat /\ \A k \in 1 .. n : s[k] \in Seq(Passage)
  BY LenProperties, ElementOfSeq
<1> DEFINE S == {k \in Nat : k <= n /\ j <= k => Tells(f[k], w)}
<1>3. 0 \in S
  BY <1>2
<1>4. ASSUME NEW k \in Nat, k \in S PROVE k + 1 \in S
  <2> SUFFICES ASSUME k + 1 <= n, j <= k + 1 PROVE Tells(f[k + 1], w)
    OBVIOUS
  <2>1. k + 1 \in 1 .. n /\ (k + 1) - 1 = k /\ k \in 0 .. n /\ k <= n
    BY <1>2
  <2> DEFINE a == f[k]
             b == s[k + 1]
  <2>2. f[k + 1] = a \o b /\ a \in Seq(Passage) /\ b \in Seq(Passage)
    BY <1>1, <1>2, <2>1
  <2>3. Tells(a, w) \/ Tells(b, w)
    <3>1. CASE j = k + 1
      BY <3>1
    <3>2. CASE j <= k
      BY <1>4, <2>1, <3>2
    <3> QED
      BY <1>2, <3>1, <3>2
  <2> HIDE DEF a, b
  <2> QED
    BY <2>2, <2>3, TellsMore
<1> HIDE DEF S
<1>5. n \in S
  BY <1>2, <1>3, <1>4, Induct
<1> QED
  BY <1>1, <1>2, <1>5 DEF S

\* A passage of a page, filed under a heading.
HasFiled(chunks, page, heading) ==
    \E p \in ToSet(chunks) : p.page_number = page /\ p.section_heading = heading

\* Pieces of prose tell what the pieces hold.
LEMMA ProseTells ==
    ASSUME NEW pieces \in Seq(Fitting), NEW page \in Nat, NEW heading \in Heading, NEW w \in Word,
           Held(pieces, w)
    PROVE  /\ Tells(prose(pieces, page, heading), w)
           /\ w.size > 0 => HasFiled(prose(pieces, page, heading), page, heading)
<1> DEFINE chunks == prose(pieces, page, heading)
           full == FullTexts(chunks)
<1>1. Len(pieces) \in Nat /\ DOMAIN pieces = 1 .. Len(pieces) /\ pieces \in Seq(Text)
  BY LenProperties, FittingTexts
<1>2. chunks \in Seq(Passage)
  BY ProseFits
<1> DEFINE passage(k) == Chunk(<<>>, pieces[k], page, heading, FALSE)
<1>3. chunks = [k \in 1 .. Len(pieces) |-> passage(k)]
  BY <1>1 DEF prose
<1>4. \A k \in 1 .. Len(pieces) :
         /\ passage(k).head = <<>> /\ passage(k).text = pieces[k]
         /\ passage(k).page_number = page /\ passage(k).section_heading = heading
  BY DEF Chunk
<1> HIDE DEF passage, chunks
<1>5. Len(chunks) = Len(pieces) /\ \A k \in 1 .. Len(pieces) : chunks[k] = passage(k)
  BY <1>1, <1>2, <1>3, LenProperties
<1>6. /\ full \in Seq(Text) /\ Len(full) = Len(pieces)
      /\ \A k \in 1 .. Len(pieces) : full[k] = chunks[k].head \o chunks[k].text
  BY <1>2, <1>5, FullTextsAre
<1> HIDE DEF full
<1>7. full = pieces
  <2>1. ASSUME NEW k \in 1 .. Len(pieces) PROVE full[k] = pieces[k]
    <3>1. pieces[k] \in Seq(Word)
      BY <1>1, ElementOfSeq DEF Text
    <3>2. full[k] = <<>> \o pieces[k]
      BY <1>4, <1>5, <1>6
    <3> QED
      BY <3>1, <3>2, ConcatEmptySeq
  <2> QED
    BY <1>1, <1>6, <2>1, SeqEqual
<1>8. ASSUME w.size > 0 PROVE HasFiled(chunks, page, heading)
  <2>1. pieces # <<>>
    <3> SUFFICES ASSUME pieces = <<>> PROVE FALSE
      OBVIOUS
    <3> DEFINE none == Shares(pieces, w)
    <3>1. none \in Seq(Word) /\ Len(none) = Len(pieces) /\ Len(pieces) = 0
      BY <1>1, SharesType DEF Text
    <3>2. SizeOf(none) >= w.size /\ w.size \in Nat
      BY DEF Held, Word
    <3> HIDE DEF none
    <3>3. none = <<>>
      BY <3>1, EmptySeq
    <3> QED
      BY <1>8, <3>2, <3>3, NoText
  <2>2. 1 \in 1 .. Len(pieces)
    BY <1>1, <2>1, EmptySeq
  <2>3. chunks[1] \in ToSet(chunks)
    BY <1>2, <1>5, <2>2, LenProperties DEF ToSet
  <2> QED
    BY <1>4, <1>5, <2>2, <2>3 DEF HasFiled
<1> QED
  BY <1>7, <1>8 DEF Tells, chunks, full

\* A table's passages have all its rows, and are filed where it is.
LEMMA TableTells ==
    ASSUME NEW x \in Table, NEW heading \in Heading
    PROVE  /\ add_table(x, heading) \in Seq(Passage)
           /\ \A w \in ToSet(x.rows) : w \in Word /\ Tells(add_table(x, heading), w)
           /\ HasFiled(add_table(x, heading), x.unit_index, heading)
<1> DEFINE pieces == _render_table(x.rows)
           page == x.unit_index
           chunks == add_table(x, heading)
           passage(k) == Chunk(pieces[k].head, pieces[k].text, page, heading, TRUE)
<1>1. x.rows \in Text /\ x.rows # <<>> /\ page \in Nat
  BY DEF Table
<1>2. pieces \in Seq(Grid)
  BY <1>1, RenderFits
<1>3. chunks = grid(pieces, page, heading)
  BY DEF add_table
<1>4. ASSUME NEW w \in ToSet(x.rows)
      PROVE  \E k \in 1 .. Len(pieces) : w \in ToSet(pieces[k].head \o pieces[k].text)
  BY <1>1, RenderKeeps
<1> HIDE DEF pieces, page, chunks
<1>5. chunks \in Seq(Passage)
  BY <1>1, <1>2, <1>3, GridFits
<1>6. Len(pieces) \in Nat /\ DOMAIN pieces = 1 .. Len(pieces)
  BY <1>2, LenProperties
<1>7. chunks = [k \in 1 .. Len(pieces) |-> passage(k)]
  BY <1>3, <1>6 DEF grid
<1>8. \A k \in 1 .. Len(pieces) :
         /\ passage(k).head = pieces[k].head /\ passage(k).text = pieces[k].text
         /\ passage(k).page_number = page /\ passage(k).section_heading = heading
  BY DEF Chunk
<1> HIDE DEF passage
<1>9. Len(chunks) = Len(pieces) /\ \A k \in 1 .. Len(pieces) : chunks[k] = passage(k)
  BY <1>5, <1>6, <1>7, LenProperties
<1>10. ASSUME NEW w \in ToSet(x.rows) PROVE w \in Word /\ Tells(chunks, w)
  <2>1. PICK k \in 1 .. Len(pieces) : w \in ToSet(pieces[k].head \o pieces[k].text)
    BY <1>4
  <2>2. k \in 1 .. Len(chunks) /\ w \in ToSet(chunks[k].head \o chunks[k].text)
    BY <1>8, <1>9, <2>1
  <2> QED
    BY <1>5, <2>2, ChunkTells
<1>11. HasFiled(chunks, page, heading)
  <2>1. x.rows[1] \in ToSet(x.rows)
    BY <1>1, EmptySeq, LenProperties DEF ToSet, Text
  <2>2. PICK k \in 1 .. Len(pieces) : TRUE
    BY <1>4, <2>1
  <2>3. chunks[k] \in ToSet(chunks)
    BY <1>5, <1>9, <2>2, LenProperties DEF ToSet
  <2> QED
    BY <1>8, <1>9, <2>2, <2>3 DEF HasFiled
<1> QED
  BY <1>5, <1>10, <1>11 DEF chunks, page

\* So with a figure's label and text.
LEMMA FigureTells ==
    ASSUME NEW x \in Figure, NEW heading \in Heading
    PROVE  /\ add_figure(x, heading) \in Seq(Passage)
           /\ \A w \in ToSet(x.text) : w \in Word /\ Tells(add_figure(x, heading), w)
           /\ HasFiled(add_figure(x, heading), x.unit_index, heading)
<1>1. x.label \in Text /\ x.text \in Text /\ x.unit_index \in Nat
  BY DEF Figure
<1> DEFINE whole == x.label \o x.text
           pieces == _split_to_size(whole)
<1>2. whole \in Text /\ ToSet(whole) = ToSet(x.label) \cup ToSet(x.text)
  <2>1. x.label \in Seq(Word) /\ x.text \in Seq(Word)
    BY <1>1 DEF Text
  <2> QED
    BY <1>1, <2>1, SizeOfConcat, SetOfConcat
<1> HIDE DEF whole
<1>3. pieces \in Seq(Fitting) /\ \A w \in ToSet(whole) : Held(pieces, w) /\ w \in Word
  <2>1. \A w \in ToSet(whole) : w \in Word
    BY <1>2, WordIn DEF ToSet, Text
  <2> QED
    BY <1>2, <2>1, SplitFits, SplitKeeps
<1> HIDE DEF pieces
<1>4. add_figure(x, heading) = prose(pieces, x.unit_index, heading)
  BY DEF add_figure, pieces, whole
<1>5. PICK v \in ToSet(whole) : v.size > 0
  BY <1>2 DEF Figure
<1> QED
  BY <1>1, <1>2, <1>3, <1>4, <1>5, ProseTells, ProseFits

\* Several tables one after the other.
LEMMA TablesTell ==
    ASSUME NEW tables \in Seq(Table), NEW heading \in Heading, NEW x \in ToSet(tables)
    PROVE  /\ \A w \in ToSet(x.rows) : w \in Word /\ Tells(add_tables(tables, heading), w)
           /\ HasFiled(add_tables(tables, heading), x.unit_index, NamedOr(x, heading))
<1> DEFINE added(k) == add_table(tables[k], NamedOr(tables[k], heading))
           lists == [k \in DOMAIN tables |-> added(k)]
<1>1. Len(tables) \in Nat /\ DOMAIN tables = 1 .. Len(tables)
  BY LenProperties
<1>2. ASSUME NEW k \in 1 .. Len(tables)
      PROVE  /\ added(k) \in Seq(Passage)
             /\ \A w \in ToSet(tables[k].rows) : w \in Word /\ Tells(added(k), w)
             /\ HasFiled(added(k), tables[k].unit_index, NamedOr(tables[k], heading))
  <2> DEFINE table == tables[k]
  <2>1. table \in Table
    BY ElementOfSeq
  <2> HIDE DEF table
  <2>2. NamedOr(table, heading) \in Heading
    BY <2>1, NamedHeading DEF Table
  <2>3. /\ add_table(table, NamedOr(table, heading)) \in Seq(Passage)
        /\ \A w \in ToSet(table.rows) :
              w \in Word /\ Tells(add_table(table, NamedOr(table, heading)), w)
        /\ HasFiled(add_table(table, NamedOr(table, heading)), table.unit_index,
                  NamedOr(table, heading))
    BY <2>1, <2>2, TableTells
  <2> QED
    BY <2>3 DEF table
<1> HIDE DEF added
<1>3. /\ lists \in Seq(Seq(Passage)) /\ Len(lists) = Len(tables)
      /\ \A k \in 1 .. Len(tables) : lists[k] = added(k)
  BY <1>1, <1>2
<1>4. add_tables(tables, heading) = FlattenSeq(lists)
  BY DEF add_tables, added
<1>5. PICK j \in 1 .. Len(tables) : x = tables[j]
  BY <1>1 DEF ToSet
<1> HIDE DEF lists
<1>6. \A w \in ToSet(x.rows) : w \in Word /\ Tells(FlattenSeq(lists), w)
  BY <1>2, <1>3, <1>5, TellsFlat
<1>7. HasFiled(FlattenSeq(lists), x.unit_index, NamedOr(x, heading))
  <2>1. ToSet(FlattenSeq(lists)) = UNION {ToSet(lists[i]) : i \in 1 .. Len(lists)}
    BY <1>3, Flattened
  <2>2. \A p \in ToSet(added(j)) : p \in ToSet(FlattenSeq(lists))
    BY <1>3, <2>1
  <2> QED
    BY <1>2, <1>5, <2>2 DEF HasFiled
<1> QED
  BY <1>4, <1>6, <1>7

\* Several figures.
LEMMA FiguresTell ==
    ASSUME NEW figures \in Seq(Figure), NEW heading \in Heading, NEW x \in ToSet(figures)
    PROVE  /\ \A w \in ToSet(x.text) : w \in Word /\ Tells(add_figures(figures, heading), w)
           /\ HasFiled(add_figures(figures, heading), x.unit_index, NamedOr(x, heading))
<1> DEFINE added(k) == add_figure(figures[k], NamedOr(figures[k], heading))
           lists == [k \in DOMAIN figures |-> added(k)]
<1>1. Len(figures) \in Nat /\ DOMAIN figures = 1 .. Len(figures)
  BY LenProperties
<1>2. ASSUME NEW k \in 1 .. Len(figures)
      PROVE  /\ added(k) \in Seq(Passage)
             /\ \A w \in ToSet(figures[k].text) : w \in Word /\ Tells(added(k), w)
             /\ HasFiled(added(k), figures[k].unit_index, NamedOr(figures[k], heading))
  <2> DEFINE figure == figures[k]
  <2>1. figure \in Figure
    BY ElementOfSeq
  <2> HIDE DEF figure
  <2>2. NamedOr(figure, heading) \in Heading
    BY <2>1, NamedHeading DEF Figure
  <2>3. /\ add_figure(figure, NamedOr(figure, heading)) \in Seq(Passage)
        /\ \A w \in ToSet(figure.text) :
              w \in Word /\ Tells(add_figure(figure, NamedOr(figure, heading)), w)
        /\ HasFiled(add_figure(figure, NamedOr(figure, heading)), figure.unit_index,
                  NamedOr(figure, heading))
    BY <2>1, <2>2, FigureTells
  <2> QED
    BY <2>3 DEF figure
<1> HIDE DEF added
<1>3. /\ lists \in Seq(Seq(Passage)) /\ Len(lists) = Len(figures)
      /\ \A k \in 1 .. Len(figures) : lists[k] = added(k)
  BY <1>1, <1>2
<1>4. add_figures(figures, heading) = FlattenSeq(lists)
  BY DEF add_figures, added
<1>5. PICK j \in 1 .. Len(figures) : x = figures[j]
  BY <1>1 DEF ToSet
<1> HIDE DEF lists
<1>6. \A w \in ToSet(x.text) : w \in Word /\ Tells(FlattenSeq(lists), w)
  BY <1>2, <1>3, <1>5, TellsFlat
<1>7. HasFiled(FlattenSeq(lists), x.unit_index, NamedOr(x, heading))
  <2>1. ToSet(FlattenSeq(lists)) = UNION {ToSet(lists[i]) : i \in 1 .. Len(lists)}
    BY <1>3, Flattened
  <2>2. \A p \in ToSet(added(j)) : p \in ToSet(FlattenSeq(lists))
    BY <1>3, <2>1
  <2> QED
    BY <1>2, <1>5, <2>2 DEF HasFiled
<1> QED
  BY <1>4, <1>6, <1>7

(***************************************************************************)
(* A unit is cut up                                                        *)
(***************************************************************************)

\* A list with what is not in a set taken out, as a list of lists.
Passing(list, P) == [i \in DOMAIN list |-> IF list[i] \in P THEN <<list[i]>> ELSE <<>>]

\* What passes a test, given as the set of what does, is what is kept.
LEMMA KeptThose ==
    ASSUME NEW S, NEW list \in Seq(S), NEW P
    PROVE  /\ FlattenSeq(Passing(list, P)) \in Seq(S)
           /\ ToSet(FlattenSeq(Passing(list, P))) = ToSet(list) \cap P
<1> DEFINE s == Passing(list, P)
<1>0. /\ s = [i \in DOMAIN list |-> s[i]]
      /\ \A i \in DOMAIN list : s[i] = IF list[i] \in P THEN <<list[i]>> ELSE <<>>
  BY DEF Passing
<1> HIDE DEF s
<1>1. Len(list) \in Nat /\ DOMAIN list = 1 .. Len(list)
  BY LenProperties
<1>2. ASSUME NEW x \in S
      PROVE  /\ <<x>> \in Seq(S) /\ ToSet(<<x>>) = {x}
             /\ <<>> \in Seq(S) /\ ToSet(<<>>) = {}
  <2> DEFINE one == <<x>>
  <2>1. one \in Seq(S) /\ DOMAIN one = {1} /\ one[1] = x
    OBVIOUS
  <2> HIDE DEF one
  <2>2. ToSet(one) = {x}
    BY <2>1 DEF ToSet
  <2>3. <<>> \in Seq(S) /\ ToSet(<<>>) = {}
    BY DEF ToSet
  <2> QED
    BY <2>1, <2>2, <2>3 DEF one
<1>3. ASSUME NEW i \in 1 .. Len(list)
      PROVE  s[i] \in Seq(S) /\ ToSet(s[i]) = {list[i]} \cap P
  <2> DEFINE x == list[i]
  <2>1. x \in S
    BY ElementOfSeq
  <2>2. s[i] = IF x \in P THEN <<x>> ELSE <<>>
    BY <1>0, <1>1
  <2> HIDE DEF x
  <2>3. CASE x \in P
    BY <1>2, <2>1, <2>2, <2>3 DEF x
  <2>4. CASE x \notin P
    BY <1>2, <2>1, <2>2, <2>4 DEF x
  <2> QED
    BY <2>3, <2>4
<1>4. s \in Seq(Seq(S)) /\ Len(s) = Len(list)
  <2>1. s \in [1 .. Len(list) -> Seq(S)]
    BY <1>0, <1>1, <1>3
  <2>2. s \in Seq(Seq(S))
    BY <1>1, <2>1, SeqDef
  <2> QED
    BY <1>1, <2>1, <2>2, LenProperties
<1> DEFINE all == FlattenSeq(s)
<1>5. all \in Seq(S) /\ ToSet(all) = UNION {ToSet(s[i]) : i \in 1 .. Len(s)}
  BY <1>4, Flattened
<1> HIDE DEF all
<1>6. ToSet(list) = {list[i] : i \in 1 .. Len(list)}
  BY <1>1 DEF ToSet
<1>7. ASSUME NEW x PROVE x \in ToSet(all) <=> x \in ToSet(list) /\ x \in P
  <2>1. x \in ToSet(all) <=> \E i \in 1 .. Len(list) : x \in ToSet(s[i])
    BY <1>4, <1>5
  <2>2. x \in ToSet(list) <=> \E i \in 1 .. Len(list) : x = list[i]
    BY <1>6
  <2> QED
    BY <1>3, <2>1, <2>2
<1>8. ToSet(all) = ToSet(list) \cap P
  BY <1>7
<1> QED
  BY <1>5, <1>8 DEF all, s

\* A stretch of a text has the words between its ends.
LEMMA StretchHas ==
    ASSUME NEW t \in Text, NEW m \in Int, NEW n \in Int, m >= 1, n <= Len(t),
           NEW j \in 1 .. Len(t), m <= j, j <= n
    PROVE  t[j] \in ToSet(SubSeq(t, m, n))
<1> DEFINE part == SubSeq(t, m, n)
           i == j - m + 1
<1>1. part \in Text
  BY Stretch
<1>2. Len(t) \in Nat /\ i \in 1 .. n - m + 1 /\ m + i - 1 = j /\ m <= n + 1 /\ m <= n
  BY DEF Text
<1>3. \A k \in m .. n : t[k] \in Word
  <2>1. \A k \in m .. n : k \in 1 .. Len(t)
    BY <1>2
  <2> QED
    BY <2>1, WordIn
<1>4. Len(part) = n - m + 1 /\ \A k \in 1 .. n - m + 1 : part[k] = t[m + k - 1]
  BY <1>2, <1>3, SubSeqProperties
<1> HIDE DEF part, i
<1>5. i \in DOMAIN part /\ part[i] = t[m + i - 1]
  BY <1>1, <1>2, <1>4 DEF Text
<1>6. part[i] = t[j]
  BY <1>2, <1>5
<1> QED
  BY <1>5, <1>6 DEF ToSet, part

\* Every word of a unit's text is in one of its sections.
LEMMA SectionsHave ==
    ASSUME NEW t \in Text, NEW titles \in Seq(STRING), NEW w \in ToSet(t)
    PROVE  \E i \in 1 .. Len(_split_unit_by_headings(t, titles)) :
              w \in ToSet(_split_unit_by_headings(t, titles)[i].body)
<1> DEFINE cuts == Cuts(t, titles)
           end(i) == IF i < Len(cuts) THEN cuts[i + 1].at - 1 ELSE Len(t)
           section(i) == [heading |-> cuts[i].heading, body |-> SubSeq(t, cuts[i].at, end(i))]
           before == IF cuts = <<>> THEN t ELSE SubSeq(t, 1, cuts[1].at - 1)
           first == [heading |-> None, body |-> before]
           lead == IF before = <<>> THEN <<>> ELSE <<first>>
           sections == [i \in DOMAIN cuts |-> section(i)]
           result == _split_unit_by_headings(t, titles)
           V == {first} \cup {section(i) : i \in 1 .. Len(cuts)}
<1>1. result = lead \o sections
  BY Zenon DEF _split_unit_by_headings
<1>2. cuts \in Seq(Cut(t))
  BY CutsFound
<1> HIDE DEF cuts
<1>3. /\ Len(cuts) \in Nat /\ DOMAIN cuts = 1 .. Len(cuts) /\ Len(t) \in Nat
      /\ \A i \in 1 .. Len(cuts) : cuts[i].at \in 1 .. Len(t)
  <2>1. Len(cuts) \in Nat /\ DOMAIN cuts = 1 .. Len(cuts)
    BY <1>2, LenProperties
  <2>2. Len(t) \in Nat
    BY DEF Text
  <2>3. ASSUME NEW i \in 1 .. Len(cuts) PROVE cuts[i].at \in 1 .. Len(t)
    <3>1. cuts[i] \in Cut(t)
      BY <1>2, ElementOfSeq
    <3> QED
      BY <3>1 DEF Cut
  <2> QED
    BY <2>1, <2>2, <2>3
<1>4. PICK j \in 1 .. Len(t) : w = t[j]
  BY DEF ToSet, Text
<1>5. \/ w \in ToSet(before)
      \/ \E i \in 1 .. Len(cuts) : w \in ToSet(section(i).body)
  <2>1. CASE cuts = <<>>
    BY <2>1
  <2>2. CASE cuts # <<>> /\ j < cuts[1].at
    <3>1. 1 \in 1 .. Len(cuts)
      BY <1>2, <1>3, <2>2, EmptySeq
    <3>2. cuts[1].at \in 1 .. Len(t)
      BY <1>3, <3>1
    <3> DEFINE n == cuts[1].at - 1
    <3>3. n \in Int /\ n <= Len(t) /\ 1 <= j /\ j <= n
      BY <1>3, <2>2, <3>2
    <3> HIDE DEF n
    <3>4. w \in ToSet(SubSeq(t, 1, n))
      BY <1>3, <1>4, <3>3, StretchHas
    <3> QED
      BY <2>2, <3>4 DEF n
  <2>3. CASE cuts # <<>> /\ ~(j < cuts[1].at)
    <3> DEFINE I == {i \in 1 .. Len(cuts) : cuts[i].at <= j}
               m == Max(I)
    <3>1. 1 \in 1 .. Len(cuts)
      BY <1>2, <1>3, <2>3, EmptySeq
    <3>2. cuts[1].at \in 1 .. Len(t)
      BY <1>3, <3>1
    <3>3. 1 \in I
      BY <1>3, <2>3, <3>1, <3>2
    <3>4. I \subseteq Nat /\ \A y \in I : y <= Len(cuts)
      BY <1>3
    <3>5. m \in I /\ \A y \in I : y <= m
      <4> HIDE DEF I
      <4> QED
        BY <1>3, <3>3, <3>4, MaxIn
    <3> HIDE DEF m
    <3>6. m \in 1 .. Len(cuts) /\ cuts[m].at \in 1 .. Len(t) /\ cuts[m].at <= j
      BY <1>3, <3>5
    <3>7. end(m) \in Int /\ end(m) <= Len(t) /\ j <= end(m)
      <4>1. CASE m < Len(cuts)
        <5>1. m + 1 \in 1 .. Len(cuts) /\ ~(m + 1 <= m)
          BY <1>3, <3>6, <4>1
        <5>2. m + 1 \notin I
          BY <3>5, <5>1
        <5>3. cuts[m + 1].at \in 1 .. Len(t) /\ ~(cuts[m + 1].at <= j)
          BY <1>3, <5>1, <5>2
        <5> QED
          BY <1>3, <4>1, <5>3
      <4>2. CASE ~(m < Len(cuts))
        BY <1>3, <4>2
      <4> QED
        BY <4>1, <4>2
    <3> HIDE DEF end, I
    <3>8. w \in ToSet(SubSeq(t, cuts[m].at, end(m)))
      BY <1>3, <1>4, <3>6, <3>7, StretchHas
    <3>9. section(m).body = SubSeq(t, cuts[m].at, end(m))
      OBVIOUS
    <3> QED
      BY <3>6, <3>8, <3>9
  <2> QED
    BY <2>1, <2>2, <2>3
<1> HIDE DEF section, before
<1>6. first.body = before
  OBVIOUS
<1>7. /\ sections \in Seq(V) /\ Len(sections) = Len(cuts)
      /\ \A i \in 1 .. Len(cuts) : sections[i] = section(i)
  BY <1>3
<1>8. /\ lead \in Seq(V)
      /\ w \in ToSet(before) => Len(lead) = 1 /\ lead[1] = first
  <2>1. CASE before = <<>>
    <3>1. ToSet(before) = {}
      BY <2>1 DEF ToSet
    <3> QED
      BY <2>1, <3>1
  <2>2. CASE before # <<>>
    <3> HIDE DEF first
    <3>1. first \in V /\ lead = <<first>>
      BY <2>2
    <3> HIDE DEF V, lead
    <3> QED
      BY <3>1
  <2> QED
    BY <2>1, <2>2
<1> HIDE DEF V, lead, sections, first
<1>9. /\ Len(result) = Len(lead) + Len(sections) /\ Len(lead) \in Nat
      /\ \A i \in 1 .. Len(lead) + Len(sections) :
            result[i] = IF i <= Len(lead) THEN lead[i] ELSE sections[i - Len(lead)]
  <2> HIDE DEF result
  <2>1. lead \in Seq(V) /\ sections \in Seq(V) /\ result = lead \o sections
    BY <1>1, <1>7, <1>8
  <2> QED
    BY <2>1, ConcatProperties, LenProperties
<1> HIDE DEF result
<1>10. CASE w \in ToSet(before)
  <2>0. Len(lead) = 1 /\ lead[1] = first /\ Len(sections) \in Nat
    BY <1>3, <1>7, <1>8, <1>10
  <2>1. 1 \in 1 .. Len(result) /\ result[1] = first
    BY <1>9, <2>0
  <2> QED
    BY <1>6, <1>10, <2>1 DEF result
<1>11. CASE \E i \in 1 .. Len(cuts) : w \in ToSet(section(i).body)
  <2>1. PICK i \in 1 .. Len(cuts) : w \in ToSet(section(i).body)
    BY <1>11
  <2> DEFINE k == Len(lead) + i
  <2>2. k \in 1 .. Len(result) /\ ~(k <= Len(lead)) /\ k - Len(lead) = i
    <3>1. Len(cuts) \in Nat /\ Len(result) = Len(lead) + Len(cuts) /\ Len(lead) \in Nat
      BY <1>3, <1>7, <1>9
    <3> QED
      BY <3>1
  <2>3. result[k] = section(i)
    BY <1>7, <1>9, <2>2
  <2> QED
    BY <2>1, <2>2, <2>3 DEF result
<1> QED
  BY <1>5, <1>10, <1>11

\* A word is found by its title where a passage of the page is filed under it.
Filed(chunks, page, w) ==
    w.size = 1 /\ \E p \in ToSet(chunks) : p.page_number = page /\ w.says = {p.section_heading}

\* Its words are there, or it is found by its title.
Safe(chunks, page, w) == Tells(chunks, w) \/ Filed(chunks, page, w)

\* It still is with more passages.
LEMMA SafeMore ==
    ASSUME NEW a \in Seq(Passage), NEW b \in Seq(Passage), NEW page, NEW w \in Word
    PROVE  /\ a \o b \in Seq(Passage)
           /\ Safe(a, page, w) \/ Safe(b, page, w) => Safe(a \o b, page, w)
<1>1. ToSet(a \o b) = ToSet(a) \cup ToSet(b)
  BY SetOfConcat
<1> QED
  BY <1>1, TellsMore DEF Safe, Filed

\* A word of a table or figure that is still to be placed.
Waits(tables, figures, w) ==
    \/ \E x \in ToSet(tables) : w \in ToSet(x.rows)
    \/ \E x \in ToSet(figures) : w \in ToSet(x.text)

\* What is to be placed is of the page.
OnPage(s, page) ==
    /\ \A x \in ToSet(s.tables) : x.unit_index = page
    /\ \A x \in ToSet(s.figures) : x.unit_index = page

\* A word is safe, or still to be placed.
Has(s, page, w) == Safe(s.chunks, page, w) \/ Waits(s.tables, s.figures, w)

\* A section's words are in passages or found by their title; what waited is in passages
\* or waits still.
LEMMA SectionTells ==
    ASSUME NEW s \in Placed, NEW section \in Part, NEW page \in Nat, OnPage(s, page),
           NEW new, new = add_section(s, section, page)
    PROVE  /\ OnPage(new, page)
           /\ \A w \in Word : Has(s, page, w) \/ w \in ToSet(section.body) => Has(new, page, w)
<1> DEFINE heading == IF section.heading = None THEN s.heading ELSE section.heading
           mine(x) == section.heading # None /\ x.heading = section.heading
           rest(x) == ~mine(x)
           bare == Dropped(section, s.tables, s.figures)
           body == IF bare THEN <<>> ELSE _split_to_size(section.body)
           said == prose(body, page, heading)
           ours == Only(s.tables, mine)
           drawn == Only(s.figures, mine)
           tables == add_tables(ours, heading)
           figures == add_figures(drawn, heading)
           left == Only(s.tables, rest)
           others == Only(s.figures, rest)
           M == {y \in ToSet(s.tables) \cup ToSet(s.figures) : mine(y)}
           R == {y \in ToSet(s.tables) \cup ToSet(s.figures) : ~mine(y)}
<1>1. new = [chunks |-> s.chunks \o said \o tables \o figures, heading |-> heading,
             tables |-> left, figures |-> others]
  BY Zenon DEF add_section
<1>2. /\ s.chunks \in Seq(Passage) /\ s.heading \in Heading
      /\ s.tables \in Seq(Table) /\ s.figures \in Seq(Figure)
  BY DEF Placed
<1>3. section.heading \in Heading /\ section.body \in Text
  BY DEF Part
<1>4. heading \in Heading
  BY <1>2, <1>3
<1>5. /\ \A i \in DOMAIN s.tables : s.tables[i] \in ToSet(s.tables)
      /\ \A i \in DOMAIN s.figures : s.figures[i] \in ToSet(s.figures)
  BY DEF ToSet
<1>6. /\ \A i \in DOMAIN s.tables : /\ s.tables[i] \in M <=> mine(s.tables[i])
                                    /\ s.tables[i] \in R <=> rest(s.tables[i])
      /\ \A i \in DOMAIN s.figures : /\ s.figures[i] \in M <=> mine(s.figures[i])
                                     /\ s.figures[i] \in R <=> rest(s.figures[i])
  <2> HIDE DEF mine
  <2> QED
    BY <1>5
<1>7. /\ \A x \in M : section.heading # None /\ x.heading = section.heading
      /\ \A x \in ToSet(s.tables) \cup ToSet(s.figures) : x \in M \/ x \in R
      /\ \A x \in ToSet(s.tables) \cup ToSet(s.figures) :
            section.heading # None /\ x.heading = section.heading => x \in M
  OBVIOUS
<1> HIDE DEF mine, rest, M, R
<1>8. ours \in Seq(Table) /\ ToSet(ours) = ToSet(s.tables) \cap M
  <2> DEFINE shown == [i \in DOMAIN s.tables |->
                          IF mine(s.tables[i]) THEN <<s.tables[i]>> ELSE <<>>]
  <2>1. ours = FlattenSeq(shown)
    BY Zenon DEF Only
  <2>2. shown = Passing(s.tables, M)
    BY <1>6 DEF Passing
  <2> HIDE DEF shown, ours
  <2> QED
    BY <1>2, <2>1, <2>2, KeptThose
<1>9. drawn \in Seq(Figure) /\ ToSet(drawn) = ToSet(s.figures) \cap M
  <2> DEFINE shown == [i \in DOMAIN s.figures |->
                          IF mine(s.figures[i]) THEN <<s.figures[i]>> ELSE <<>>]
  <2>1. drawn = FlattenSeq(shown)
    BY Zenon DEF Only
  <2>2. shown = Passing(s.figures, M)
    BY <1>6 DEF Passing
  <2> HIDE DEF shown, drawn
  <2> QED
    BY <1>2, <2>1, <2>2, KeptThose
<1>10. left \in Seq(Table) /\ ToSet(left) = ToSet(s.tables) \cap R
  <2> DEFINE shown == [i \in DOMAIN s.tables |->
                          IF rest(s.tables[i]) THEN <<s.tables[i]>> ELSE <<>>]
  <2>1. left = FlattenSeq(shown)
    BY Zenon DEF Only
  <2>2. shown = Passing(s.tables, R)
    BY <1>6 DEF Passing
  <2> HIDE DEF shown, left
  <2> QED
    BY <1>2, <2>1, <2>2, KeptThose
<1>11. others \in Seq(Figure) /\ ToSet(others) = ToSet(s.figures) \cap R
  <2> DEFINE shown == [i \in DOMAIN s.figures |->
                          IF rest(s.figures[i]) THEN <<s.figures[i]>> ELSE <<>>]
  <2>1. others = FlattenSeq(shown)
    BY Zenon DEF Only
  <2>2. shown = Passing(s.figures, R)
    BY <1>6 DEF Passing
  <2> HIDE DEF shown, others
  <2> QED
    BY <1>2, <2>1, <2>2, KeptThose
<1> HIDE DEF ours, drawn, left, others
<1>12. OnPage(new, page)
  <2>1. new.tables = left /\ new.figures = others
    BY <1>1
  <2> QED
    BY <1>10, <1>11, <2>1 DEF OnPage
<1>13. body \in Seq(Fitting)
  <2>1. _split_to_size(section.body) \in Seq(Fitting)
    BY <1>3, SplitFits
  <2>2. <<>> \in Seq(Fitting)
    OBVIOUS
  <2> QED
    BY <2>1, <2>2
<1>14. said \in Seq(Passage) /\ tables \in Seq(Passage) /\ figures \in Seq(Passage)
  <2> HIDE DEF body, heading
  <2> QED
    BY <1>4, <1>8, <1>9, <1>13, ProseFits, TablesFit, FiguresFit
<1>15. ASSUME NEW w \in Word, w \in ToSet(section.body), ~bare PROVE Tells(said, w)
  <2>1. body = _split_to_size(section.body)
    BY <1>15
  <2>2. Held(body, w)
    BY <1>3, <1>15, <2>1, SplitKeeps
  <2> HIDE DEF body, heading, bare
  <2> QED
    BY <1>4, <1>13, <2>2, ProseTells
<1> HIDE DEF said, body
<1>16. ASSUME NEW w \in Word, NEW x \in ToSet(s.tables), x \in M, w \in ToSet(x.rows)
       PROVE  Tells(tables, w)
  <2> HIDE DEF heading
  <2> QED
    BY <1>4, <1>8, <1>16, TablesTell
<1>17. ASSUME NEW w \in Word, NEW x \in ToSet(s.figures), x \in M, w \in ToSet(x.text)
       PROVE  Tells(figures, w)
  <2> HIDE DEF heading
  <2> QED
    BY <1>4, <1>9, <1>17, FiguresTell
<1>18. ASSUME NEW w \in Word, w \in ToSet(section.body), bare
       PROVE  Filed(tables, page, w) \/ Filed(figures, page, w)
  <2>1. /\ section.heading # None
        /\ Len(section.body) = 1 /\ section.body[1].says = {section.heading}
        /\ section.body[1].size = 1
    BY <1>18 DEF Dropped, OnlyTitle
  <2>2. w = section.body[1]
    BY <1>3, <1>18, <2>1 DEF ToSet, Text
  <2>3. PICK x \in ToSet(s.tables) \cup ToSet(s.figures) : x.heading = section.heading
    BY <1>18 DEF Dropped
  <2>4. x \in M /\ NamedOr(x, heading) = section.heading /\ x.unit_index = page
    BY <1>7, <2>1, <2>3 DEF NamedOr, OnPage
  <2> HIDE DEF heading
  <2>5. CASE x \in ToSet(s.tables)
    <3>1. HasFiled(tables, page, section.heading)
      BY <1>4, <1>8, <2>4, <2>5, TablesTell
    <3> QED
      BY <2>1, <2>2, <3>1 DEF HasFiled, Filed
  <2>6. CASE x \in ToSet(s.figures)
    <3>1. HasFiled(figures, page, section.heading)
      BY <1>4, <1>9, <2>4, <2>6, FiguresTell
    <3> QED
      BY <2>1, <2>2, <3>1 DEF HasFiled, Filed
  <2> QED
    BY <2>3, <2>5, <2>6
<1> HIDE DEF tables, figures, bare
<1>19. ASSUME NEW w \in Word, Has(s, page, w) \/ w \in ToSet(section.body)
       PROVE  Has(new, page, w)
  <2> DEFINE one == s.chunks \o said
             two == one \o tables
             all == two \o figures
  <2>1. /\ one \in Seq(Passage)
        /\ Safe(s.chunks, page, w) \/ Safe(said, page, w) => Safe(one, page, w)
    BY <1>2, <1>14, SafeMore
  <2> HIDE DEF one
  <2>2. /\ two \in Seq(Passage)
        /\ Safe(one, page, w) \/ Safe(tables, page, w) => Safe(two, page, w)
    BY <1>14, <2>1, SafeMore
  <2> HIDE DEF two
  <2>3. Safe(two, page, w) \/ Safe(figures, page, w) => Safe(all, page, w)
    BY <1>14, <2>2, SafeMore
  <2>4. new.chunks = all /\ new.tables = left /\ new.figures = others
    BY <1>1 DEF one, two
  <2> HIDE DEF all
  <2>5. CASE w \in ToSet(section.body)
    BY <1>15, <1>18, <2>1, <2>2, <2>3, <2>4, <2>5 DEF Safe, Has
  <2>6. CASE Safe(s.chunks, page, w)
    BY <2>1, <2>2, <2>3, <2>4, <2>6 DEF Has
  <2>7. ASSUME NEW x \in ToSet(s.tables), w \in ToSet(x.rows) PROVE Has(new, page, w)
    <3>1. CASE x \in M
      BY <1>16, <2>2, <2>3, <2>4, <2>7, <3>1 DEF Has, Safe
    <3>2. CASE x \in R
      BY <1>10, <2>4, <2>7, <3>2 DEF Has, Waits
    <3> QED
      BY <1>7, <3>1, <3>2
  <2>8. ASSUME NEW x \in ToSet(s.figures), w \in ToSet(x.text) PROVE Has(new, page, w)
    <3>1. CASE x \in M
      BY <1>17, <2>3, <2>4, <2>8, <3>1 DEF Has, Safe
    <3>2. CASE x \in R
      BY <1>11, <2>4, <2>8, <3>2 DEF Has, Waits
    <3> QED
      BY <1>7, <3>1, <3>2
  <2> QED
    BY <1>19, <2>5, <2>6, <2>7, <2>8 DEF Has, Waits
<1> QED
  BY <1>12, <1>19

\* So with all the sections of a unit.
LEMMA SectionsTell ==
    ASSUME NEW start \in Placed, NEW sections \in Seq(Part), NEW page \in Nat,
           OnPage(start, page)
    PROVE  /\ OnPage(add_sections(start, sections, page), page)
           /\ \A w \in Word :
                 \/ Has(start, page, w)
                 \/ \E i \in 1 .. Len(sections) : w \in ToSet(sections[i].body)
                 => Has(add_sections(start, sections, page), page, w)
<1> DEFINE n == Len(sections)
<1>1. PICK f \in [0 .. n -> Placed] :
         /\ f[0] = start /\ \A k \in 1 .. n : f[k] = add_section(f[k - 1], sections[k], page)
         /\ add_sections(start, sections, page) = f[n]
  BY SectionsRun
<1>2. n \in Nat /\ \A k \in 1 .. n : sections[k] \in Part
  BY ElementOfSeq, LenProperties
<1>3. ASSUME NEW k \in 1 .. n, OnPage(f[k - 1], page)
      PROVE  /\ OnPage(f[k], page)
             /\ \A w \in Word : Has(f[k - 1], page, w) \/ w \in ToSet(sections[k].body)
                                => Has(f[k], page, w)
  <2>1. /\ k - 1 \in 0 .. n /\ sections[k] \in Part
        /\ f[k] = add_section(f[k - 1], sections[k], page)
    BY <1>1, <1>2
  <2>2. f[k - 1] \in Placed
    BY <2>1
  <2> QED
    BY <1>3, <2>1, <2>2, SectionTells
<1> DEFINE P == {s \in Placed : OnPage(s, page)}
<1>4. \A k \in 0 .. n : f[k] \in P
  <2>1. f[0] \in P /\ \A k \in 1 .. n : f[k - 1] \in P => f[k] \in P
    <3>1. \A k \in 1 .. n : f[k] \in Placed /\ f[0] \in Placed
      BY <1>2
    <3> QED
      BY <1>1, <1>3, <3>1
  <2> HIDE DEF P
  <2> QED
    BY <1>2, <2>1, RunStays
<1>5. ASSUME NEW w \in Word, NEW i \in 0 .. n, Has(f[i], page, w)
      PROVE  Has(f[n], page, w)
  <2> DEFINE S == {k \in Nat : k <= n /\ i <= k => Has(f[k], page, w)}
  <2>1. 0 \in S
    BY <1>2, <1>5
  <2>2. ASSUME NEW k \in Nat, k \in S PROVE k + 1 \in S
    <3> SUFFICES ASSUME k + 1 <= n, i <= k + 1 PROVE Has(f[k + 1], page, w)
      OBVIOUS
    <3>1. CASE i = k + 1
      BY <1>5, <3>1
    <3>2. CASE i <= k
      <4>1. /\ k + 1 \in 1 .. n /\ (k + 1) - 1 = k /\ k \in 0 .. n /\ k <= n
        BY <1>2
      <4>2. Has(f[k], page, w) /\ OnPage(f[k], page)
        BY <1>4, <2>2, <3>2, <4>1
      <4> QED
        BY <1>3, <4>1, <4>2
    <3> QED
      BY <1>2, <3>1, <3>2
  <2> HIDE DEF S
  <2>3. n \in S
    BY <1>2, <2>1, <2>2, Induct
  <2> QED
    BY <1>2, <2>3 DEF S
<1>6. n \in 0 .. n /\ 0 \in 0 .. n
  BY <1>2
<1>7. ASSUME NEW w \in Word, NEW i \in 1 .. n, w \in ToSet(sections[i].body)
      PROVE  Has(f[n], page, w)
  <2>1. i - 1 \in 0 .. n /\ i \in 0 .. n
    BY <1>2
  <2>2. Has(f[i], page, w)
    BY <1>3, <1>4, <1>7, <2>1
  <2> QED
    BY <1>5, <2>1, <2>2
<1> QED
  BY <1>1, <1>4, <1>5, <1>6, <1>7

\* Every word of a unit that is not a table's grid, of its tables and of its figures is in
\* its passages or found by its title.
LEMMA UnitTells ==
    ASSUME NEW doc \in Contents, NEW unit \in UnitText, NEW heading \in Heading, NEW w \in Word,
           \/ ~unit.text_is_table /\ w \in ToSet(unit.text)
           \/ \E x \in ToSet(doc.tables) : x.unit_index = unit.index /\ w \in ToSet(x.rows)
           \/ \E x \in ToSet(doc.figures) : x.unit_index = unit.index /\ w \in ToSet(x.text)
    PROVE  Safe(chunk_unit(doc, unit, heading).chunks, unit.index, w)
<1> DEFINE here(x) == x.unit_index = unit.index
           headings == Only(doc.headings, here)
           titles == [k \in DOMAIN headings |-> headings[k].title]
           tables == Only(doc.tables, here)
           figures == Only(doc.figures, here)
           start == [chunks |-> <<>>,
                     heading |-> IF units_stand_alone(doc.mime_type) THEN None ELSE heading,
                     tables |-> tables,
                     figures |-> figures]
           sections == IF unit.text_is_table THEN <<>>
                       ELSE _split_unit_by_headings(unit.text, titles)
           placed == add_sections(start, sections, unit.index)
           page == unit.index
           T == {x \in Table : x.unit_index = page}
           F == {x \in Figure : x.unit_index = page}
<1>1. chunk_unit(doc, unit, heading) = add_rest(placed, titles)
  BY Zenon DEF chunk_unit
<1>2. /\ doc.headings \in Seq(HeadingAt) /\ doc.tables \in Seq(Table) /\ doc.figures \in Seq(Figure)
  BY DEF Contents
<1>3. page \in Nat /\ unit.text \in Text
  BY DEF UnitText
<1>4. /\ \A i \in DOMAIN doc.tables : doc.tables[i] \in T <=> here(doc.tables[i])
      /\ \A i \in DOMAIN doc.figures : doc.figures[i] \in F <=> here(doc.figures[i])
  <2>1. /\ \A i \in DOMAIN doc.tables : doc.tables[i] \in Table
        /\ \A i \in DOMAIN doc.figures : doc.figures[i] \in Figure
    BY <1>2, LenProperties, ElementOfSeq
  <2> QED
    BY <2>1
<1>5. /\ \A x \in T : x.unit_index = page
      /\ \A x \in F : x.unit_index = page
  OBVIOUS
<1> HIDE DEF here
<1>6. headings \in Seq(HeadingAt)
  BY <1>2, Kept DEF Only
<1> HIDE DEF T, F
<1>7. tables \in Seq(Table) /\ ToSet(tables) = ToSet(doc.tables) \cap T
  <2> DEFINE shown == [i \in DOMAIN doc.tables |->
                          IF here(doc.tables[i]) THEN <<doc.tables[i]>> ELSE <<>>]
  <2>1. tables = FlattenSeq(shown)
    BY Zenon DEF Only
  <2>2. shown = Passing(doc.tables, T)
    BY <1>4 DEF Passing
  <2> HIDE DEF shown, tables
  <2> QED
    BY <1>2, <2>1, <2>2, KeptThose
<1>8. figures \in Seq(Figure) /\ ToSet(figures) = ToSet(doc.figures) \cap F
  <2> DEFINE shown == [i \in DOMAIN doc.figures |->
                          IF here(doc.figures[i]) THEN <<doc.figures[i]>> ELSE <<>>]
  <2>1. figures = FlattenSeq(shown)
    BY Zenon DEF Only
  <2>2. shown = Passing(doc.figures, F)
    BY <1>4 DEF Passing
  <2> HIDE DEF shown, figures
  <2> QED
    BY <1>2, <2>1, <2>2, KeptThose
<1> HIDE DEF headings, tables, figures
<1>9. titles \in Seq(STRING)
  <2>1. Len(headings) \in Nat /\ DOMAIN headings = 1 .. Len(headings)
    BY <1>6, LenProperties
  <2>2. ASSUME NEW k \in 1 .. Len(headings) PROVE headings[k].title \in STRING
    <3>1. headings[k] \in HeadingAt
      BY <1>6, ElementOfSeq
    <3> QED
      BY <3>1 DEF HeadingAt
  <2> QED
    BY <2>1, <2>2
<1> HIDE DEF titles
<1>10. /\ start \in Placed /\ OnPage(start, page)
       /\ start.tables = tables /\ start.figures = figures
  BY <1>5, <1>7, <1>8 DEF Placed, Heading, OnPage
<1>11. sections \in Seq(Part)
  BY <1>3, <1>9, SectionsMade
<1>12. \/ Has(start, page, w)
       \/ \E i \in 1 .. Len(sections) : w \in ToSet(sections[i].body)
  <2>1. CASE ~unit.text_is_table /\ w \in ToSet(unit.text)
    <3>1. sections = _split_unit_by_headings(unit.text, titles)
      BY <2>1
    <3> HIDE DEF sections
    <3> QED
      BY <1>3, <1>9, <2>1, <3>1, SectionsHave
  <2>2. ASSUME NEW x \in ToSet(doc.tables), x.unit_index = unit.index, w \in ToSet(x.rows)
        PROVE  Has(start, page, w)
    <3>1. x \in T
      <4>1. x \in Table
        BY <1>2, LenProperties, ElementOfSeq DEF ToSet
      <4> QED
        BY <2>2, <4>1 DEF T
    <3> QED
      BY <1>7, <1>10, <2>2, <3>1 DEF Has, Waits
  <2>3. ASSUME NEW x \in ToSet(doc.figures), x.unit_index = unit.index, w \in ToSet(x.text)
        PROVE  Has(start, page, w)
    <3>1. x \in F
      <4>1. x \in Figure
        BY <1>2, LenProperties, ElementOfSeq DEF ToSet
      <4> QED
        BY <2>3, <4>1 DEF F
    <3> QED
      BY <1>8, <1>10, <2>3, <3>1 DEF Has, Waits
  <2> QED
    BY <2>1, <2>2, <2>3
<1> HIDE DEF start, sections
<1>13. placed \in Placed /\ Has(placed, page, w)
  <2>1. placed \in Placed
    BY <1>3, <1>10, <1>11, SectionsFit
  <2> QED
    BY <1>3, <1>10, <1>11, <1>12, <2>1, SectionsTell
<1> HIDE DEF placed
<1> DEFINE section == Fallback(titles, placed.heading)
           more == add_tables(placed.tables, section)
           last == add_figures(placed.figures, section)
<1>14. /\ placed.chunks \in Seq(Passage) /\ placed.heading \in Heading
       /\ placed.tables \in Seq(Table) /\ placed.figures \in Seq(Figure)
  BY <1>13 DEF Placed
<1>15. section \in Heading
  BY <1>14 DEF Fallback, Heading
<1> HIDE DEF section
<1>16. more \in Seq(Passage) /\ last \in Seq(Passage)
  BY <1>14, <1>15, TablesFit, FiguresFit
<1>17. /\ \A x \in ToSet(placed.tables) : w \in ToSet(x.rows) => Tells(more, w)
       /\ \A x \in ToSet(placed.figures) : w \in ToSet(x.text) => Tells(last, w)
  BY <1>14, <1>15, TablesTell, FiguresTell
<1>18. Safe(placed.chunks, page, w) \/ Tells(more, w) \/ Tells(last, w)
  BY <1>13, <1>17 DEF Has, Waits
<1>19. add_rest(placed, titles) =
          [chunks |-> placed.chunks \o more \o last, heading |-> placed.heading]
  BY Zenon DEF add_rest, section
<1> HIDE DEF more, last
<1>20. Safe(placed.chunks \o more \o last, page, w)
  <2> DEFINE one == placed.chunks \o more
  <2>1. /\ one \in Seq(Passage)
        /\ Safe(placed.chunks, page, w) \/ Safe(more, page, w) => Safe(one, page, w)
    BY <1>14, <1>16, SafeMore
  <2> HIDE DEF one
  <2>2. Safe(one, page, w) \/ Safe(last, page, w) => Safe(one \o last, page, w)
    BY <1>16, <2>1, SafeMore
  <2>3. Safe(one \o last, page, w)
    BY <1>18, <2>1, <2>2 DEF Safe
  <2> QED
    BY <2>3 DEF one
<1> QED
  BY <1>1, <1>19, <1>20

(***************************************************************************)
(* What is read of a block                                                 *)
(***************************************************************************)

\* A block's words are at the block and of its kind.
LEMMA WordsOf ==
    ASSUME NEW f \in Document, NEW u \in 1 .. Len(f.units), NEW b \in BlockNumbers(f, u),
           NEW w \in ToSet(Words(f, u, b))
    PROVE  /\ w \in Word /\ w.at = <<u, b>> /\ w.at[1] = u /\ w.at[2] = b
           /\ w.kind = f.units[u].blocks[b].kind
<1> DEFINE block == f.units[u].blocks[b]
           last(k) == k = Len(block.parts)
           word(k) == [at |-> <<u, b>>, part |-> k, kind |-> block.kind,
                       says |-> IF k = 1 THEN block.says ELSE {},
                       size |-> block.parts[k], rate |-> block.rate,
                       filled |-> block.filled[k],
                       then |-> IF last(k) THEN block.then ELSE "sentence", uneven |-> FALSE]
           words == Words(f, u, b)
<1>1. words = [k \in DOMAIN block.parts |-> word(k)]
  BY Zenon DEF Words
<1>2. \A k : word(k).at = <<u, b>> /\ word(k).kind = block.kind
  OBVIOUS
<1>3. words \in Text
  BY WordsRead
<1> HIDE DEF words, word, block
<1>4. PICK k \in DOMAIN words : w = words[k]
  BY DEF ToSet, words
<1>5. w = word(k)
  BY <1>1, <1>4
<1>6. w \in Word
  BY <1>3, <1>4, WordIn DEF Text
<1>7. <<u, b>>[1] = u /\ <<u, b>>[2] = b
  OBVIOUS
<1> QED
  BY <1>2, <1>5, <1>6, <1>7 DEF block

\* The words of a block of some kinds are read.
LEMMA ReadHas ==
    ASSUME NEW f \in Document, NEW u \in 1 .. Len(f.units), NEW b \in BlockNumbers(f, u),
           NEW kinds, f.units[u].blocks[b].kind \in kinds, NEW w \in ToSet(Words(f, u, b))
    PROVE  w \in ToSet(Read(f, u, kinds))
<1> DEFINE blocks == f.units[u].blocks
           pieces == [c \in DOMAIN blocks |->
                         IF blocks[c].kind \in kinds THEN Words(f, u, c) ELSE <<>>]
<1>1. Read(f, u, kinds) = FlattenSeq(pieces)
  BY Zenon DEF Read
<1>2. DOMAIN blocks = BlockNumbers(f, u) /\ Len(blocks) \in Nat
  BY UnitBlocks
<1>3. \A c \in BlockNumbers(f, u) : Words(f, u, c) \in Text /\ <<>> \in Text
  BY WordsRead, NoText
<1>4. pieces \in [BlockNumbers(f, u) -> Text] /\ pieces[b] = Words(f, u, b)
  BY <1>2, <1>3
<1> HIDE DEF pieces
<1>5. pieces \in Seq(Seq(Word)) /\ Len(pieces) = Len(blocks)
  <2>1. pieces \in Seq(Seq(Word))
    BY <1>2, <1>4, SeqDef DEF Text, BlockNumbers
  <2> QED
    BY <1>2, <1>4, <2>1, LenProperties DEF BlockNumbers
<1>6. ToSet(FlattenSeq(pieces)) = UNION {ToSet(pieces[c]) : c \in 1 .. Len(pieces)}
  BY <1>5, Flattened
<1>7. b \in 1 .. Len(pieces)
  BY <1>5 DEF BlockNumbers
<1> QED
  BY <1>1, <1>4, <1>6, <1>7

\* The blocks of some kinds are all found.
LEMMA BlocksHas ==
    ASSUME NEW f \in Document, NEW u \in 1 .. Len(f.units), NEW kinds
    PROVE  ToSet(BlocksOf(f, u, kinds)) = OfKind(f, u, kinds)
<1> DEFINE blocks == f.units[u].blocks
           all == [b \in DOMAIN blocks |-> b]
           pieces == [i \in DOMAIN all |->
                         IF blocks[all[i]].kind \in kinds THEN <<all[i]>> ELSE <<>>]
           P == OfKind(f, u, kinds)
           N == BlockNumbers(f, u)
<1>1. BlocksOf(f, u, kinds) = FlattenSeq(pieces)
  BY Zenon DEF BlocksOf, Only
<1>2. DOMAIN blocks = N /\ Len(blocks) \in Nat
  BY UnitBlocks
<1>3. DOMAIN all = N /\ \A b \in N : all[b] = b
  BY <1>2
<1>4. all \in Seq(N) /\ ToSet(all) = N
  <2>1. all = [b \in 1 .. Len(blocks) |-> b]
    BY <1>2 DEF BlockNumbers
  <2>2. \A b \in 1 .. Len(blocks) : b \in N
    BY DEF BlockNumbers
  <2>3. all \in Seq(N)
    BY <1>2, <2>1, <2>2
  <2> HIDE DEF all
  <2> QED
    BY <1>3, <2>3 DEF ToSet
<1>5. pieces = Passing(all, P)
  <2>1. \A i \in DOMAIN all : all[i] \in P <=> blocks[all[i]].kind \in kinds
    BY <1>3 DEF OfKind
  <2> HIDE DEF all, P
  <2> QED
    BY <2>1 DEF Passing
<1>6. P \subseteq N
  BY DEF OfKind
<1> HIDE DEF all, pieces, P, N
<1>7. ToSet(FlattenSeq(pieces)) = ToSet(all) \cap P
  BY <1>4, <1>5, KeptThose
<1> QED
  BY <1>1, <1>4, <1>6, <1>7 DEF P

\* An answer for a unit has a word, in its text or in a table.
UnitHas(x, u, w) ==
    /\ x.unit.index = u
    /\ \/ ~x.unit.text_is_table /\ w \in ToSet(x.unit.text)
       \/ \E y \in ToSet(x.tables) : y.unit_index = u /\ w \in ToSet(y.rows)

\* An answer has this text, and the rows of the blocks of these kinds.
Gives(x, f, u, t, is_table, tabular) ==
    /\ x.unit.index = u /\ x.unit.text = t /\ x.unit.text_is_table = is_table
    /\ \A b \in OfKind(f, u, tabular) : \A w \in ToSet(Words(f, u, b)) :
          \E y \in ToSet(x.tables) : y.unit_index = u /\ w \in ToSet(y.rows)

\* An extractor's answer does.
LEMMA ExtractedHas ==
    ASSUME NEW f \in Document, NEW u \in 1 .. Len(f.units), NEW t, NEW is_table \in BOOLEAN,
           NEW tabular, NEW heading
    PROVE  Gives(Extracted(f, u, t, is_table, tabular, heading), f, u, t, is_table, tabular)
<1> DEFINE bs == BlocksOf(f, u, tabular)
           titles == Titles(f, u)
           table(k) == [unit_index |-> u, rows |-> Words(f, u, bs[k]), heading |-> heading[bs[k]]]
           heads == [k \in DOMAIN titles |-> [title |-> titles[k], unit_index |-> u]]
           tables == [k \in DOMAIN bs |-> table(k)]
           unit == [index |-> u, text |-> t, text_is_table |-> is_table]
           x == Extracted(f, u, t, is_table, tabular, heading)
<1>1. x = [unit |-> unit, headings |-> heads, tables |-> tables]
  BY Zenon DEF Extracted
<1>2. unit.index = u /\ unit.text = t /\ unit.text_is_table = is_table
  OBVIOUS
<1>3. bs \in Seq(OfKind(f, u, tabular)) /\ ToSet(bs) = OfKind(f, u, tabular)
  BY BlocksFound, BlocksHas
<1> HIDE DEF bs
<1>4. ASSUME NEW b \in OfKind(f, u, tabular), NEW w \in ToSet(Words(f, u, b))
      PROVE  \E y \in ToSet(tables) : y.unit_index = u /\ w \in ToSet(y.rows)
  <2>1. PICK k \in DOMAIN bs : bs[k] = b
    BY <1>3 DEF ToSet
  <2>2. tables[k] = table(k) /\ k \in DOMAIN tables
    BY <2>1
  <2>3. table(k).unit_index = u /\ table(k).rows = Words(f, u, b)
    BY <2>1
  <2> HIDE DEF table, tables
  <2>4. table(k) \in ToSet(tables)
    BY <2>2 DEF ToSet
  <2> QED
    BY <1>4, <2>3, <2>4
<1> HIDE DEF x, heads, tables, unit
<1>5. x.unit = unit /\ x.tables = tables
  BY <1>1
<1>6. Gives(x, f, u, t, is_table, tabular)
  BY <1>2, <1>4, <1>5 DEF Gives
<1> QED
  BY <1>6 DEF x

\* Word, slides and sheets: each kind of block is in the text or a table, but for page
\* furniture, pictures, and a sheet's name.
LEMMA OfficeHas ==
    ASSUME NEW f \in Document, NEW u \in 1 .. Len(f.units), NEW b \in BlockNumbers(f, u),
           NEW w \in ToSet(Words(f, u, b)), NEW kind, kind = f.units[u].blocks[b].kind
    PROVE  /\ docx_extract(f, u).unit.index = u
           /\ pptx_extract(f, u).unit.index = u
           /\ xlsx_extract(f, u).unit.index = u
           /\ kind \in {"heading", "prose", "note", "table", "chart"}
                 => UnitHas(docx_extract(f, u), u, w) /\ UnitHas(pptx_extract(f, u), u, w)
           /\ kind \in {"table", "chart"} => UnitHas(xlsx_extract(f, u), u, w)
<1> DEFINE under == [c \in DOMAIN f.units[u].blocks |-> Under(f, u, c)]
           own == [c \in DOMAIN f.units[u].blocks |-> OwnTitle(f, u)]
           word == Read(f, u, {"heading", "prose"}) \o Read(f, u, {"note"})
           slide == Read(f, u, {"heading"}) \o Read(f, u, {"prose"}) \o Read(f, u, {"note"})
           sheet == Read(f, u, {"table"})
           tabular == {"table", "chart"}
           isgrid == sheet # <<>>
<1>1. /\ docx_extract(f, u) = Extracted(f, u, word, FALSE, tabular, under)
      /\ pptx_extract(f, u) = Extracted(f, u, slide, FALSE, tabular, own)
      /\ xlsx_extract(f, u) = Extracted(f, u, sheet, isgrid, tabular, own)
  BY Zenon DEF docx_extract, pptx_extract, xlsx_extract
<1>2. ASSUME kind \in tabular PROVE b \in OfKind(f, u, tabular)
  BY <1>2 DEF OfKind
<1>3. ASSUME kind \in {"heading", "prose", "note"}
      PROVE  w \in ToSet(word) /\ w \in ToSet(slide)
  <2> DEFINE h == Read(f, u, {"heading"})
             p == Read(f, u, {"prose"})
             n == Read(f, u, {"note"})
             hp == Read(f, u, {"heading", "prose"})
  <2>1. h \in Seq(Word) /\ p \in Seq(Word) /\ n \in Seq(Word) /\ hp \in Seq(Word)
    BY ReadText DEF Text
  <2>2. /\ kind \in {"heading", "prose"} => w \in ToSet(hp)
        /\ kind = "heading" => w \in ToSet(h)
        /\ kind = "prose" => w \in ToSet(p)
        /\ kind = "note" => w \in ToSet(n)
    BY ReadHas
  <2> HIDE DEF h, p, n, hp
  <2>3. ToSet(hp \o n) = ToSet(hp) \cup ToSet(n)
    BY <2>1, SetOfConcat
  <2>4. ToSet(h \o p) = ToSet(h) \cup ToSet(p) /\ h \o p \in Seq(Word)
    BY <2>1, SetOfConcat, ConcatProperties
  <2> DEFINE first == h \o p
  <2>5. ToSet(first \o n) = ToSet(first) \cup ToSet(n)
    <3> HIDE DEF first
    <3>1. first \in Seq(Word)
      BY <2>4 DEF first
    <3> QED
      BY <2>1, <3>1, SetOfConcat
  <2>6. w \in ToSet(hp \o n)
    BY <1>3, <2>2, <2>3
  <2>7. w \in ToSet(h \o p \o n)
    BY <1>3, <2>2, <2>4, <2>5
  <2> QED
    BY <2>6, <2>7 DEF h, p, n, hp
<1>4. isgrid \in BOOLEAN /\ FALSE \in BOOLEAN
  OBVIOUS
<1> HIDE DEF under, own, word, slide, sheet, isgrid, tabular
<1> DEFINE d == Extracted(f, u, word, FALSE, tabular, under)
           s == Extracted(f, u, slide, FALSE, tabular, own)
           g == Extracted(f, u, sheet, isgrid, tabular, own)
<1>5. /\ Gives(d, f, u, word, FALSE, tabular)
      /\ Gives(s, f, u, slide, FALSE, tabular)
      /\ Gives(g, f, u, sheet, isgrid, tabular)
  BY <1>4, ExtractedHas
<1> HIDE DEF d, s, g
<1>6. /\ d.unit.index = u /\ d.unit.text = word /\ d.unit.text_is_table = FALSE
      /\ kind \in tabular => \E y \in ToSet(d.tables) : y.unit_index = u /\ w \in ToSet(y.rows)
  BY <1>2, <1>5 DEF Gives
<1>7. /\ s.unit.index = u /\ s.unit.text = slide /\ s.unit.text_is_table = FALSE
      /\ kind \in tabular => \E y \in ToSet(s.tables) : y.unit_index = u /\ w \in ToSet(y.rows)
  BY <1>2, <1>5 DEF Gives
<1>9. /\ g.unit.index = u
      /\ kind \in tabular => \E y \in ToSet(g.tables) : y.unit_index = u /\ w \in ToSet(y.rows)
  BY <1>2, <1>5 DEF Gives
<1>8. /\ kind \in {"heading", "prose", "note", "table", "chart"}
            => UnitHas(d, u, w) /\ UnitHas(s, u, w)
      /\ kind \in {"table", "chart"} => UnitHas(g, u, w)
  BY <1>3, <1>6, <1>7, <1>9 DEF UnitHas, tabular
<1> QED
  BY <1>1, <1>6, <1>7, <1>8, <1>9 DEF d, s, g

\* The kinds of block OCR can see.
Visible == {"heading", "prose", "table", "picture", "picture of a table"}

\* What OCR made of a page has a word, in its text or in a table.
ReadHasWord(read, u, w) ==
    \/ w \in ToSet(read.text)
    \/ \E y \in ToSet(read.tables) : y.unit_index = u /\ w \in ToSet(y.rows)

\* A block OCR can see and is sure of is in what it reads.
LEMMA OcrHas ==
    ASSUME NEW f \in Document, NEW u \in 1 .. Len(f.units), NEW unsure,
           NEW reads_tables \in BOOLEAN, NEW b \in BlockNumbers(f, u), b \notin unsure,
           f.units[u].blocks[b].kind \in Visible,
           NEW w \in ToSet(Words(f, u, b))
    PROVE  ReadHasWord(_ocr_page(f, u, unsure, reads_tables), u, w)
<1> DEFINE seen == OnThePage(f, u, unsure)
           bs == BlocksOf(f, u, {"table", "picture of a table"})
           tables == IF reads_tables THEN Only(bs, LAMBDA c : c \notin unsure) ELSE <<>>
           rest == Only(seen, LAMBDA v : v.at[2] \notin ToSet(tables))
           notice == IF rest # <<>> /\ unsure # {} THEN <<Notice(<<u, 0>>, "prose")>> ELSE <<>>
           table(k) == [unit_index |-> u, rows |-> with_ocr_notice(Words(f, u, tables[k])),
                        heading |-> None]
           grids == [k \in DOMAIN tables |-> table(k)]
           read == _ocr_page(f, u, unsure, reads_tables)
           S == OfKind(f, u, {"table", "picture of a table"})
           whole == Read(f, u, Visible)
           sure == {v \in ToSet(whole) : v.at[2] \notin unsure}
           left == {v \in ToSet(seen) : v.at[2] \notin ToSet(tables)}
<1>1. read = [text |-> rest \o notice, unreadable |-> unsure # {}, tables |-> grids]
  BY Zenon DEF _ocr_page
<1>2. w \in Word /\ w.at[2] = b /\ w \in ToSet(whole) /\ whole \in Seq(Word) /\ u \in Nat
  BY WordsOf, ReadHas, ReadText, UnitBlocks DEF Text
<1>3. tables \in Seq(S)
  <2>1. bs \in Seq(S)
    BY BlocksFound
  <2> HIDE DEF bs, S
  <2>2. Only(bs, LAMBDA c : c \notin unsure) \in Seq(S)
    BY <2>1, Kept DEF Only
  <2>3. <<>> \in Seq(S)
    OBVIOUS
  <2> QED
    BY <2>2, <2>3
<1>4. seen \in Seq(Word) /\ ToSet(seen) = ToSet(whole) \cap sure
  <2> DEFINE shown == [i \in DOMAIN whole |->
                          IF whole[i].at[2] \notin unsure THEN <<whole[i]>> ELSE <<>>]
  <2>1. seen = FlattenSeq(shown)
    BY Zenon DEF OnThePage, Only, Visible
  <2>2. \A i \in DOMAIN whole : whole[i] \in sure <=> whole[i].at[2] \notin unsure
    <3>1. \A i \in DOMAIN whole : whole[i] \in ToSet(whole)
      BY DEF ToSet
    <3> QED
      BY <3>1
  <2> HIDE DEF whole, sure
  <2>3. shown = Passing(whole, sure)
    BY <2>2 DEF Passing
  <2> HIDE DEF shown, seen
  <2> QED
    BY <1>2, <2>1, <2>3, KeptThose
<1> HIDE DEF tables, whole
<1>5. w \in ToSet(seen)
  BY <1>2, <1>4
<1> HIDE DEF seen, sure
<1>6. rest \in Seq(Word) /\ ToSet(rest) = ToSet(seen) \cap left
  <2> DEFINE shown == [i \in DOMAIN seen |->
                          IF seen[i].at[2] \notin ToSet(tables) THEN <<seen[i]>> ELSE <<>>]
  <2>1. rest = FlattenSeq(shown)
    BY Zenon DEF Only
  <2>2. \A i \in DOMAIN seen : seen[i] \in left <=> seen[i].at[2] \notin ToSet(tables)
    <3>1. \A i \in DOMAIN seen : seen[i] \in ToSet(seen)
      BY DEF ToSet
    <3> QED
      BY <3>1
  <2> HIDE DEF left
  <2>3. shown = Passing(seen, left)
    BY <2>2 DEF Passing
  <2> HIDE DEF shown, rest
  <2> QED
    BY <1>4, <2>1, <2>3, KeptThose
<1> HIDE DEF rest
<1>7. CASE b \in ToSet(tables)
  <2>1. PICK k \in DOMAIN tables : tables[k] = b
    BY <1>7 DEF ToSet
  <2>2. table(k).unit_index = u /\ table(k).rows = with_ocr_notice(Words(f, u, b))
    BY <2>1
  <2>3. k \in DOMAIN grids /\ grids[k] = table(k)
    BY <2>1
  <2>4. w \in ToSet(with_ocr_notice(Words(f, u, b)))
    BY NoticedRows
  <2> HIDE DEF table, grids, read
  <2>5. table(k) \in ToSet(grids) /\ w \in ToSet(table(k).rows)
    BY <2>2, <2>3, <2>4 DEF ToSet
  <2>6. read.tables = grids
    BY <1>1
  <2>7. ReadHasWord(read, u, w)
    BY <2>2, <2>5, <2>6 DEF ReadHasWord
  <2> QED
    BY <2>7 DEF read
<1>8. CASE b \notin ToSet(tables)
  <2>1. w \in ToSet(rest)
    BY <1>2, <1>5, <1>6, <1>8
  <2>2. notice \in Seq(Word)
    <3>1. Notice(<<u, 0>>, "prose") \in Word
      <4>1. <<u, 0>> \in Nat \X Nat /\ "prose" \in Kinds
        BY <1>2 DEF Kinds
      <4> QED
        BY <4>1, NoticeWord
    <3> DEFINE said == Notice(<<u, 0>>, "prose")
    <3> HIDE DEF said
    <3>2. <<said>> \in Seq(Word) /\ <<>> \in Seq(Word)
      BY <3>1 DEF said
    <3> QED
      BY <3>2 DEF said
  <2> HIDE DEF notice, read, grids
  <2>3. ToSet(rest \o notice) = ToSet(rest) \cup ToSet(notice)
    BY <1>6, <2>2, SetOfConcat
  <2>4. read.text = rest \o notice
    BY <1>1
  <2>5. ReadHasWord(read, u, w)
    BY <2>1, <2>3, <2>4 DEF ReadHasWord
  <2> QED
    BY <2>5 DEF read
<1> QED
  BY <1>7, <1>8

\* A page has what OCR made of it, and what is typed on a page OCR was not asked for.
LEMMA PageHas ==
    ASSUME NEW f \in Document, NEW u \in 1 .. Len(f.units), NEW read \in PageRead,
           NEW b \in BlockNumbers(f, u), NEW w \in ToSet(Words(f, u, b)),
           NEW kind, kind = f.units[u].blocks[b].kind
    PROVE  /\ pdf_page(f, u, read).unit.index = u
           /\ ReadHasWord(read, u, w) => UnitHas(pdf_page(f, u, read), u, w)
           /\ ~f.units[u].scanned /\ kind \in {"heading", "prose", "table"} /\ read = NotRead
                 => UnitHas(pdf_page(f, u, read), u, w)
<1> DEFINE none == [c \in DOMAIN f.units[u].blocks |-> None]
           typed == NativeText(f, u)
           native == Extracted(f, u, typed, FALSE, {"table"}, none)
           used == read.text # <<>>
           heads == (IF f.units[u].scanned THEN <<>> ELSE native.headings)
                    \o (IF used /\ f.units[u].scanned THEN _subject_headings(read.text) ELSE <<>>)
           more == IF f.units[u].scanned THEN <<>> ELSE native.tables
           tables == read.tables \o more
           text == IF used THEN read.text ELSE native.unit.text
           unit == [native.unit EXCEPT !.text = text]
           page == pdf_page(f, u, read)
<1>1. page = [unit |-> unit, headings |-> heads, tables |-> tables]
  BY Zenon DEF pdf_page
<1>2. native \in UnitRead /\ Gives(native, f, u, typed, FALSE, {"table"})
  <2>1. \A c \in BlockNumbers(f, u) : none[c] \in Heading
    BY UnitBlocks DEF Heading
  <2>2. typed \in Text /\ FALSE \in BOOLEAN
    BY NativeIs
  <2> HIDE DEF none, typed
  <2> QED
    BY <2>1, <2>2, ExtractedIs, ExtractedHas
<1> HIDE DEF native, none
<1>3. /\ native.unit \in UnitText /\ native.tables \in Seq(Table)
      /\ native.unit.index = u /\ native.unit.text = typed /\ native.unit.text_is_table = FALSE
  BY <1>2 DEF UnitRead, Gives
<1>4. read.text \in Text /\ read.tables \in Seq(Table)
  BY DEF PageRead
<1> HIDE DEF heads, text, more, typed
<1>5. unit.index = u /\ ~unit.text_is_table /\ unit.text = text
  BY <1>3 DEF UnitText
<1>6. more \in Seq(Table)
  BY <1>3 DEF more
<1>7. ToSet(tables) = ToSet(read.tables) \cup ToSet(more)
  BY <1>4, <1>6, SetOfConcat
<1> HIDE DEF unit, tables, page
<1>8. page.unit = unit /\ page.tables = tables
  BY <1>1
<1>9. ASSUME ReadHasWord(read, u, w) PROVE UnitHas(page, u, w)
  <2>1. CASE w \in ToSet(read.text)
    <3>1. used
      <4> SUFFICES ASSUME read.text = <<>> PROVE FALSE
        OBVIOUS
      <4> QED
        BY <2>1 DEF ToSet
    <3>2. text = read.text
      BY <3>1 DEF text
    <3> QED
      BY <1>5, <1>8, <2>1, <3>2 DEF UnitHas
  <2>2. CASE \E y \in ToSet(read.tables) : y.unit_index = u /\ w \in ToSet(y.rows)
    BY <1>5, <1>7, <1>8, <2>2 DEF UnitHas
  <2> QED
    BY <1>9, <2>1, <2>2 DEF ReadHasWord
<1>10. ASSUME ~f.units[u].scanned, kind \in {"heading", "prose", "table"}, read = NotRead
       PROVE  UnitHas(page, u, w)
  <2>1. text = typed
    BY <1>3, <1>10 DEF NotRead, text
  <2>2. w \in ToSet(typed)
    <3>1. typed = Read(f, u, {"heading", "prose", "table", "furniture"})
      BY <1>10 DEF typed, NativeText
    <3> QED
      BY <1>10, <3>1, ReadHas
  <2> QED
    BY <1>5, <1>8, <2>1, <2>2 DEF UnitHas
<1> QED
  BY <1>5, <1>8, <1>9, <1>10 DEF page

(***************************************************************************)
(* Pictures and cleaning                                                   *)
(***************************************************************************)

\* The pictures of a unit that is neither hidden nor a page for OCR are found.
LEMMA PicturesHas ==
    ASSUME NEW f \in Document, NEW u \in 1 .. Len(f.units), NEW b \in OfKind(f, u, Pictures),
           ~f.units[u].hidden,
           f.mime = "pdf" => ~(SizeOf(NativeText(f, u)) < OCR_MIN_NATIVE_CHARS)
    PROVE  <<u, b>> \in ToSet(find_pictures(f))
<1> DEFINE bs(v) == BlocksOf(f, v, Pictures)
           skipped(v) == \/ f.units[v].hidden
                         \/ /\ f.mime = "pdf"
                            /\ SizeOf(NativeText(f, v)) < OCR_MIN_NATIVE_CHARS
           here(v) == [k \in DOMAIN bs(v) |-> <<v, bs(v)[k]>>]
           found(v) == IF skipped(v) THEN <<>> ELSE here(v)
           pieces == [v \in DOMAIN f.units |-> found(v)]
           V == UNION {ToSet(found(v)) : v \in DOMAIN f.units}
<1>1. find_pictures(f) = FlattenSeq(pieces)
  BY Zenon DEF find_pictures
<1>2. Len(f.units) \in Nat /\ DOMAIN f.units = 1 .. Len(f.units)
  BY LenProperties DEF Document
<1>3. found(u) = here(u)
  OBVIOUS
<1> HIDE DEF skipped
<1>4. <<u, b>> \in ToSet(here(u))
  <2>1. ToSet(bs(u)) = OfKind(f, u, Pictures)
    BY BlocksHas
  <2> DEFINE list == bs(u)
  <2> HIDE DEF bs
  <2>2. PICK k \in DOMAIN list : list[k] = b
    BY <2>1 DEF ToSet
  <2>3. k \in DOMAIN here(u) /\ here(u)[k] = <<u, b>>
    BY <2>2
  <2> HIDE DEF here
  <2> QED
    BY <2>3 DEF ToSet
<1>5. ASSUME NEW v \in 1 .. Len(f.units) PROVE found(v) \in Seq(V)
  <2>1. bs(v) \in Seq(OfKind(f, v, Pictures))
    BY BlocksFound
  <2> DEFINE list == bs(v)
  <2> HIDE DEF bs
  <2>2. Len(list) \in Nat /\ DOMAIN list = 1 .. Len(list)
    BY <2>1, LenProperties
  <2>3. here(v) = [k \in 1 .. Len(list) |-> <<v, list[k]>>]
    BY <2>2
  <2>4. found(v) = <<>> \/ found(v) = here(v)
    OBVIOUS
  <2> HIDE DEF list, here
  <2>5. \A k \in DOMAIN found(v) : found(v)[k] \in V
    BY <1>2 DEF ToSet
  <2> HIDE DEF V, found
  <2>6. CASE found(v) = <<>>
    BY <2>6
  <2>7. CASE found(v) = here(v)
    <3>1. found(v) = [k \in 1 .. Len(list) |-> found(v)[k]]
      BY <2>3, <2>7
    <3>2. DOMAIN found(v) = 1 .. Len(list)
      BY <2>3, <2>7
    <3> QED
      BY <2>2, <2>5, <3>1, <3>2
  <2> QED
    BY <2>4, <2>6, <2>7
<1> HIDE DEF found, here, V
<1>6. pieces \in Seq(Seq(V)) /\ Len(pieces) = Len(f.units) /\ pieces[u] = found(u)
  BY <1>2, <1>5
<1> HIDE DEF pieces
<1>7. ToSet(FlattenSeq(pieces)) = UNION {ToSet(pieces[v]) : v \in 1 .. Len(pieces)}
  BY <1>6, Flattened
<1> QED
  BY <1>1, <1>3, <1>4, <1>6, <1>7

\* A word is in a table or a figure of the unit.
InDrawn(doc, u, w) ==
    \/ \E y \in ToSet(doc.tables) : y.unit_index = u /\ w \in ToSet(y.rows)
    \/ \E y \in ToSet(doc.figures) : y.unit_index = u /\ w \in ToSet(y.text)

\* The document with pictures read has what it had, and the words of the pictures.
Merged(new, f, doc, read) ==
    /\ new.units = doc.units
    /\ new.ocr_skipped_pages = doc.ocr_skipped_pages
    /\ new.ocr_unreadable_lines = doc.ocr_unreadable_lines
    /\ ToSet(doc.tables) \subseteq ToSet(new.tables)
    /\ ToSet(doc.figures) \subseteq ToSet(new.figures)
    /\ \A p \in ToSet(read) : f.units[p[1]].blocks[p[2]].kind \in Pictures =>
          \A w \in ToSet(Words(f, p[1], p[2])) : InDrawn(new, p[1], w)

\* Merging does that.
LEMMA MergedHas ==
    ASSUME NEW f \in Document, NEW doc \in Contents, NEW read \in Seq(Places(f))
    PROVE  Merged(merge_pictures(f, doc, read), f, doc, read)
<1> DEFINE kind(p) == f.units[p[1]].blocks[p[2]].kind
           G == {p \in ToSet(read) : kind(p) = "picture of a table"}
           O == {p \in ToSet(read) : kind(p) = "picture"}
           grids == Only(read, LAMBDA p : kind(p) = "picture of a table")
           others == Only(read, LAMBDA p : kind(p) = "picture")
           table(k) == [unit_index |-> grids[k][1],
                        rows |-> with_ocr_notice(Words(f, grids[k][1], grids[k][2])),
                        heading |-> Section(f, doc, grids[k])]
           figure(k) == [unit_index |-> others[k][1],
                         label |-> <<[Notice(others[k], "picture") EXCEPT !.then = "space"]>>,
                         text |-> Words(f, others[k][1], others[k][2]),
                         heading |-> Section(f, doc, others[k])]
           tables == [k \in DOMAIN grids |-> table(k)]
           figures == [k \in DOMAIN others |-> figure(k)]
           ts == doc.tables \o tables
           fs == doc.figures \o figures
           new == merge_pictures(f, doc, read)
<1>1. new = [doc EXCEPT !.tables = ts, !.figures = fs]
  BY Zenon DEF merge_pictures
<1>2. \A i \in DOMAIN read : read[i] \in ToSet(read)
  BY DEF ToSet
<1>3. grids \in Seq(Places(f)) /\ ToSet(grids) = ToSet(read) \cap G
  <2> DEFINE shown == [i \in DOMAIN read |->
                          IF kind(read[i]) = "picture of a table" THEN <<read[i]>> ELSE <<>>]
  <2>1. grids = FlattenSeq(shown)
    BY Zenon DEF Only
  <2>2. \A i \in DOMAIN read : read[i] \in G <=> kind(read[i]) = "picture of a table"
    BY <1>2
  <2> HIDE DEF kind, G
  <2>3. shown = Passing(read, G)
    BY <2>2 DEF Passing
  <2> HIDE DEF shown, grids
  <2> QED
    BY <2>1, <2>3, KeptThose
<1>4. others \in Seq(Places(f)) /\ ToSet(others) = ToSet(read) \cap O
  <2> DEFINE shown == [i \in DOMAIN read |->
                          IF kind(read[i]) = "picture" THEN <<read[i]>> ELSE <<>>]
  <2>1. others = FlattenSeq(shown)
    BY Zenon DEF Only
  <2>2. \A i \in DOMAIN read : read[i] \in O <=> kind(read[i]) = "picture"
    BY <1>2
  <2> HIDE DEF kind, O
  <2>3. shown = Passing(read, O)
    BY <2>2 DEF Passing
  <2> HIDE DEF shown, others
  <2> QED
    BY <2>1, <2>3, KeptThose
<1> HIDE DEF grids, others
<1>5. ASSUME NEW p \in Places(f)
      PROVE  p[1] \in 1 .. Len(f.units) /\ p[2] \in BlockNumbers(f, p[1])
  BY DEF Places
<1>6. /\ \A k \in DOMAIN grids : grids[k] \in Places(f)
      /\ \A k \in DOMAIN others : others[k] \in Places(f)
  <2>1. DOMAIN grids = 1 .. Len(grids) /\ DOMAIN others = 1 .. Len(others)
    BY <1>3, <1>4, LenProperties
  <2> QED
    BY <1>3, <1>4, <2>1, ElementOfSeq
<1>7. ASSUME NEW p \in ToSet(read), kind(p) = "picture of a table",
             NEW w \in ToSet(Words(f, p[1], p[2]))
      PROVE  \E y \in ToSet(tables) : y.unit_index = p[1] /\ w \in ToSet(y.rows)
  <2>1. p \in ToSet(grids)
    BY <1>3, <1>7
  <2>2. PICK k \in DOMAIN grids : grids[k] = p
    BY <2>1 DEF ToSet
  <2>3. k \in DOMAIN tables /\ tables[k] = table(k)
    BY <2>2
  <2>4. table(k).unit_index = p[1] /\ table(k).rows = with_ocr_notice(Words(f, p[1], p[2]))
    BY <2>2
  <2>5. w \in ToSet(with_ocr_notice(Words(f, p[1], p[2])))
    <3>1. p \in Places(f)
      BY <1>6, <2>2
    <3> QED
      BY <1>5, <1>7, <3>1, NoticedRows
  <2> HIDE DEF table, tables
  <2>6. tables[k] \in ToSet(tables)
    BY <2>3 DEF ToSet
  <2> QED
    BY <2>3, <2>4, <2>5, <2>6
<1>8. ASSUME NEW p \in ToSet(read), kind(p) = "picture",
             NEW w \in ToSet(Words(f, p[1], p[2]))
      PROVE  \E y \in ToSet(figures) : y.unit_index = p[1] /\ w \in ToSet(y.text)
  <2>1. p \in ToSet(others)
    BY <1>4, <1>8
  <2>2. PICK k \in DOMAIN others : others[k] = p
    BY <2>1 DEF ToSet
  <2>3. k \in DOMAIN figures /\ figures[k] = figure(k)
    BY <2>2
  <2>4. figure(k).unit_index = p[1] /\ figure(k).text = Words(f, p[1], p[2])
    BY <2>2
  <2> HIDE DEF figure, figures
  <2>5. figures[k] \in ToSet(figures)
    BY <2>3 DEF ToSet
  <2> QED
    BY <1>8, <2>3, <2>4, <2>5
<1>9. /\ tables \in Seq({tables[k] : k \in DOMAIN grids})
      /\ figures \in Seq({figures[k] : k \in DOMAIN others})
  <2>1. /\ Len(grids) \in Nat /\ DOMAIN grids = 1 .. Len(grids)
        /\ Len(others) \in Nat /\ DOMAIN others = 1 .. Len(others)
    BY <1>3, <1>4, LenProperties
  <2> HIDE DEF table, figure
  <2> QED
    BY <2>1
<1> DEFINE T == {tables[k] : k \in DOMAIN grids} \cup Table
           F == {figures[k] : k \in DOMAIN others} \cup Figure
<1> HIDE DEF tables, figures, kind
<1>10. ToSet(ts) = ToSet(doc.tables) \cup ToSet(tables)
  <2>1. tables \in Seq(T) /\ doc.tables \in Seq(T)
    BY <1>9, ContentsParts, SeqDef
  <2> HIDE DEF T
  <2> QED
    BY <2>1, SetOfConcat
<1>11. ToSet(fs) = ToSet(doc.figures) \cup ToSet(figures)
  <2>1. figures \in Seq(F) /\ doc.figures \in Seq(F)
    BY <1>9, ContentsParts, SeqDef
  <2> HIDE DEF F
  <2> QED
    BY <2>1, SetOfConcat
<1> HIDE DEF ts, fs, T, F, new
<1>12. /\ new.units = doc.units /\ new.tables = ts /\ new.figures = fs
       /\ new.ocr_skipped_pages = doc.ocr_skipped_pages
       /\ new.ocr_unreadable_lines = doc.ocr_unreadable_lines
  BY <1>1 DEF Contents
<1>13. ASSUME NEW p \in ToSet(read), f.units[p[1]].blocks[p[2]].kind \in Pictures,
              NEW w \in ToSet(Words(f, p[1], p[2]))
       PROVE  InDrawn(new, p[1], w)
  <2>1. kind(p) = "picture of a table" \/ kind(p) = "picture"
    BY <1>13 DEF Pictures, kind
  <2> QED
    BY <1>7, <1>8, <1>10, <1>11, <1>12, <2>1 DEF InDrawn
<1>14. Merged(new, f, doc, read)
  BY <1>10, <1>11, <1>12, <1>13 DEF Merged
<1> QED
  BY <1>14 DEF new

\* These units are those, with no more than page furniture taken out.
CleanedOf(new, old) ==
    /\ Len(new) = Len(old)
    /\ \A k \in 1 .. Len(old) :
          /\ new[k].index = old[k].index /\ new[k].text_is_table = old[k].text_is_table
          /\ \A w \in ToSet(old[k].text) : w.kind # "furniture" => w \in ToSet(new[k].text)

\* Cleaning does that.
LEMMA CleanedHas ==
    ASSUME NEW units \in Seq(UnitText)
    PROVE  CleanedOf(Cleaned(units), units)
<1> DEFINE cleaned(k) == [units[k] EXCEPT !.text = clean(units[k].text)]
           new == Cleaned(units)
<1>1. new = [k \in DOMAIN units |-> cleaned(k)]
  BY Zenon DEF Cleaned
<1>2. Len(units) \in Nat /\ DOMAIN units = 1 .. Len(units)
  BY LenProperties
<1>3. ASSUME NEW k \in 1 .. Len(units)
      PROVE  /\ cleaned(k).index = units[k].index
             /\ cleaned(k).text_is_table = units[k].text_is_table
             /\ \A w \in ToSet(units[k].text) : w.kind # "furniture" => w \in ToSet(cleaned(k).text)
  <2>1. units[k] \in UnitText
    BY ElementOfSeq
  <2> DEFINE t == units[k].text
             P == {w \in ToSet(t) : w.kind # "furniture"}
             c == clean(t)
  <2>2. t \in Seq(Word)
    BY <2>1 DEF UnitText, Text
  <2>3. cleaned(k) = [units[k] EXCEPT !.text = c]
    OBVIOUS
  <2>4. ToSet(c) = ToSet(t) \cap P
    <3> DEFINE shown == [i \in DOMAIN t |-> IF t[i].kind # "furniture" THEN <<t[i]>> ELSE <<>>]
    <3>1. c = FlattenSeq(shown)
      BY Zenon DEF clean, Only
    <3> HIDE DEF t
    <3>2. \A i \in DOMAIN t : t[i] \in P <=> t[i].kind # "furniture"
      BY DEF ToSet
    <3> HIDE DEF P
    <3>3. shown = Passing(t, P)
      BY <3>2 DEF Passing
    <3> HIDE DEF shown, c
    <3> QED
      BY <2>2, <3>1, <3>3, KeptThose
  <2> HIDE DEF c, cleaned
  <2>5. cleaned(k).index = units[k].index /\ cleaned(k).text_is_table = units[k].text_is_table
        /\ cleaned(k).text = c
    BY <2>1, <2>3 DEF UnitText
  <2> QED
    BY <2>4, <2>5
<1> HIDE DEF cleaned, new
<1>4. Len(new) = Len(units) /\ \A k \in 1 .. Len(units) : new[k] = cleaned(k)
  BY <1>1, <1>2
<1>5. CleanedOf(new, units)
  BY <1>3, <1>4 DEF CleanedOf
<1> QED
  BY <1>5 DEF new

(***************************************************************************)
(* Nothing is lost                                                         *)
(***************************************************************************)

\* A word is with one of a document's units: in its text, or in a table or figure of it.
InUnit(doc, k, w) ==
    /\ doc.units[k].index = w.at[1]
    /\ \/ ~doc.units[k].text_is_table /\ w \in ToSet(doc.units[k].text)
       \/ InDrawn(doc, w.at[1], w)

\* A word is with a unit from this one on.
InDoc(doc, from, w) == \E k \in 1 .. Len(doc.units) : k >= from /\ InUnit(doc, k, w)

\* A picture that is to be read.
Due(f, u, b) ==
    /\ f.units[u].blocks[b].kind \in Pictures
    /\ <<u, b>> \in ToSet(find_pictures(f)) /\ ~tables_only(f, <<u, b>>)

\* A unit of the file was read.
HasUnit(doc, u) == \E k \in 1 .. Len(doc.units) : doc.units[k].index = u

\* The units that are not in passages yet start here.
From == IF step \in {"extract", "normalize"} THEN 1 ELSE at

\* A gap: somebody can find it, or its reader dropped it without a word.
Gone(u, b) == Recorded(u, b) \/ <<u, b>> \in dropped

\* A block is still to be read, left out, a gap, or each of its words is with a unit
\* that is still to be cut, or safe in passages.
BlockKept(u, b) ==
    \/ step = "extract" /\ (u >= at \/ (HasUnit(content, u) /\ Due(file, u, b)))
    \/ LeftOut(u, b) \/ Gone(u, b)
    \/ \A w \in ToSet(Words(file, u, b)) : InDoc(content, From, w) \/ Safe(passages, u, w)

\* What every step keeps: every block of every unit that was read.
KeptInv ==
    /\ file \in Files
    /\ TextInv
    /\ step = "done" => at > Len(content.units)
    /\ \A u \in 1 .. Len(file.units) : \A b \in BlockNumbers(file, u) : BlockKept(u, b)

\* A document with a unit more.
UnitMore(new, doc, x) ==
    /\ new.units = Append(doc.units, x.unit)
    /\ new.tables = doc.tables \o x.tables
    /\ new.figures = doc.figures
    /\ doc.ocr_skipped_pages \subseteq new.ocr_skipped_pages
    /\ doc.ocr_unreadable_lines \subseteq new.ocr_unreadable_lines

\* It has what it had, and what the unit has.
LEMMA MoreHas ==
    ASSUME NEW doc \in Contents, NEW new, NEW x \in UnitRead, UnitMore(new, doc, x)
    PROVE  /\ HasUnit(new, x.unit.index)
           /\ \A u : HasUnit(doc, u) => HasUnit(new, u)
           /\ \A w : InDoc(doc, 1, w) => InDoc(new, 1, w)
           /\ \A w : UnitHas(x, w.at[1], w) => InDoc(new, 1, w)
<1>1. /\ doc.units \in Seq(UnitText) /\ x.unit \in UnitText
      /\ doc.tables \in Seq(Table) /\ x.tables \in Seq(Table)
  BY ContentsParts DEF UnitRead
<1> DEFINE n == Len(doc.units)
<1>2. /\ n \in Nat /\ Len(new.units) = n + 1 /\ new.units[n + 1] = x.unit
      /\ \A k \in 1 .. n : new.units[k] = doc.units[k]
  BY <1>1, AppendProperties, LenProperties DEF UnitMore
<1>3. ToSet(new.tables) = ToSet(doc.tables) \cup ToSet(x.tables)
  BY <1>1, SetOfConcat DEF UnitMore
<1> HIDE DEF n
<1>4. \A k \in 1 .. n : k \in 1 .. Len(new.units) /\ k >= 1
  BY <1>2
<1>5. n + 1 \in 1 .. Len(new.units) /\ n + 1 >= 1
  BY <1>2
<1>6. ASSUME NEW w, InDoc(doc, 1, w) PROVE InDoc(new, 1, w)
  <2>1. PICK k \in 1 .. n : InUnit(doc, k, w)
    BY <1>6 DEF InDoc, n
  <2>2. InDrawn(doc, w.at[1], w) => InDrawn(new, w.at[1], w)
    BY <1>3 DEF InDrawn, UnitMore
  <2>3. InUnit(new, k, w)
    BY <1>2, <2>1, <2>2 DEF InUnit
  <2> QED
    BY <1>4, <2>3 DEF InDoc
<1>7. ASSUME NEW w, UnitHas(x, w.at[1], w) PROVE InDoc(new, 1, w)
  <2>1. InUnit(new, n + 1, w)
    BY <1>2, <1>3, <1>7 DEF UnitHas, InUnit, InDrawn
  <2> QED
    BY <1>5, <2>1 DEF InDoc
<1>8. HasUnit(new, x.unit.index) /\ \A u : HasUnit(doc, u) => HasUnit(new, u)
  BY <1>2, <1>4, <1>5 DEF HasUnit, n
<1> QED
  BY <1>6, <1>7, <1>8

\* Reading a unit keeps every block, if it keeps the unit's.
LEMMA UnitKept ==
    ASSUME KeptInv, step = "extract", step' = step, UNCHANGED <<file, passages>>, at' = at + 1,
           log \subseteq log', dropped \subseteq dropped', TextInv',
           NEW here, here = at,
           NEW x \in UnitRead, x.unit.index = here, UnitMore(content', content, x),
           \A b \in BlockNumbers(file, here) :
              \/ LeftOut(here, b) \/ Gone(here, b)'
              \/ Due(file, here, b)
              \/ \A w \in ToSet(Words(file, here, b)) : UnitHas(x, here, w)
    PROVE  KeptInv'
<1>1. /\ file \in Files /\ file' = file /\ file \in Document /\ content \in Contents /\ at \in Nat
      /\ passages' = passages
  BY DEF KeptInv, TextInv
<1>2. From = 1 /\ From' = 1 /\ step' = "extract"
  BY DEF From
<1>3. /\ HasUnit(content', here)
      /\ \A u : HasUnit(content, u) => HasUnit(content', u)
      /\ \A w : InDoc(content, 1, w) => InDoc(content', 1, w)
      /\ \A w : UnitHas(x, w.at[1], w) => InDoc(content', 1, w)
  BY <1>1, MoreHas
<1>4. ASSUME NEW u, NEW b
      PROVE  /\ LeftOut(u, b)' <=> LeftOut(u, b)
             /\ Gone(u, b) => Gone(u, b)'
  BY <1>1 DEF LeftOut, Gone, Recorded, UnitMore
<1>5. ASSUME NEW u \in 1 .. Len(file.units), NEW b \in BlockNumbers(file, u)
      PROVE  BlockKept(u, b)'
  <2>1. u \in Nat /\ BlockKept(u, b)
    BY <1>1, <1>5, UnitBlocks DEF KeptInv
  <2>2. CASE u > at
    <3>1. u >= at'
      BY <1>1, <2>1, <2>2
    <3> QED
      BY <1>2, <3>1 DEF BlockKept
  <2>3. CASE u < at
    <3>1. ~(u >= at)
      BY <1>1, <2>1, <2>3
    <3>2. CASE HasUnit(content, u) /\ Due(file, u, b)
      <4>1. (HasUnit(content, u) /\ Due(file, u, b))'
        BY <1>1, <1>3, <3>2
      <4> QED
        BY <1>2, <4>1 DEF BlockKept
    <3>3. CASE LeftOut(u, b) \/ Gone(u, b)
      BY <1>4, <3>3 DEF BlockKept
    <3>4. CASE \A w \in ToSet(Words(file, u, b)) : InDoc(content, 1, w) \/ Safe(passages, u, w)
      <4>1. \A w \in ToSet(Words(file, u, b)) : InDoc(content', 1, w) \/ Safe(passages, u, w)
        BY <1>3, <3>4
      <4> QED
        BY <1>1, <1>2, <4>1 DEF BlockKept
    <3> QED
      BY <1>2, <2>1, <3>1, <3>2, <3>3, <3>4 DEF BlockKept
  <2>4. CASE u = here
    <3>1. CASE LeftOut(here, b) \/ Gone(here, b)'
      BY <1>4, <2>4, <3>1 DEF BlockKept
    <3>2. CASE Due(file, here, b)
      <4>1. (HasUnit(content, u) /\ Due(file, u, b))'
        BY <1>1, <1>3, <2>4, <3>2
      <4> QED
        BY <1>2, <4>1 DEF BlockKept
    <3>3. CASE \A w \in ToSet(Words(file, here, b)) : UnitHas(x, here, w)
      <4>1. \A w \in ToSet(Words(file, u, b)) : w.at[1] = u
        BY <1>1, <1>5, WordsOf
      <4>2. \A w \in ToSet(Words(file, u, b)) : InDoc(content', 1, w)
        BY <1>3, <2>4, <3>3, <4>1
      <4> QED
        BY <1>1, <1>2, <4>2 DEF BlockKept
    <3> QED
      BY <1>5, <2>4, <3>1, <3>2, <3>3
  <2> QED
    BY <1>1, <2>1, <2>2, <2>3, <2>4
<1>6. KeptInv'
  BY <1>1, <1>2, <1>5 DEF KeptInv
<1> QED
  BY <1>6

\* What a block of a file is.
LEMMA BlockIs ==
    ASSUME file \in Files, NEW u \in 1 .. Len(file.units), NEW b \in BlockNumbers(file, u)
    PROVE  /\ file \in Document /\ file.mime \in Mimes
           /\ file.units[u].blocks[b].kind \in Kinds
           /\ file.units[u].blocks[b].kind \notin Lacks(file.mime)
<1>1. file \in Document /\ file.mime \in Mimes
  BY PassagesAssumption DEF Document
<1>2. /\ DOMAIN file.units[u].blocks = BlockNumbers(file, u)
      /\ file.units[u].blocks[b] \in Blocks
  BY <1>1, UnitBlocks
<1>3. u \in DOMAIN file.units
  BY <1>1, LenProperties DEF Document
<1>4. file.units[u].blocks[b].kind \notin Lacks(file.mime)
  BY <1>2, <1>3, PassagesAssumption
<1>5. file.units[u].blocks[b].kind \in Kinds
  BY <1>2 DEF Blocks
<1> QED
  BY <1>1, <1>4, <1>5

\* The document with a unit read is one with a unit more.
LEMMA WithUnitHas ==
    ASSUME content \in Contents, NEW x \in UnitRead
    PROVE  UnitMore(WithUnit(x), content, x)
<1> DEFINE us == Append(content.units, x.unit)
           hs == content.headings \o x.headings
           ts == content.tables \o x.tables
           new == WithUnit(x)
<1>1. new = [content EXCEPT !.units = us, !.headings = hs, !.tables = ts]
  BY Zenon DEF WithUnit
<1> HIDE DEF us, hs, ts, new
<1>2. /\ new.units = us /\ new.tables = ts /\ new.figures = content.figures
      /\ new.ocr_skipped_pages = content.ocr_skipped_pages
      /\ new.ocr_unreadable_lines = content.ocr_unreadable_lines
  BY <1>1 DEF Contents
<1>3. UnitMore(new, content, x)
  BY <1>2 DEF UnitMore, us, ts
<1> QED
  BY <1>3 DEF new

\* A picture of a unit that is not hidden is to be read, where it is not in a PDF.
LEMMA PictureDue ==
    ASSUME file \in Document, NEW u \in 1 .. Len(file.units), NEW b \in BlockNumbers(file, u),
           file.units[u].blocks[b].kind \in Pictures, ~file.units[u].hidden,
           \/ file.mime # "pdf"
           \/ /\ file.units[u].blocks[b].kind # "picture"
              /\ ~(SizeOf(NativeText(file, u)) < OCR_MIN_NATIVE_CHARS)
    PROVE  Due(file, u, b)
<1>1. b \in OfKind(file, u, Pictures)
  BY DEF OfKind
<1>2. <<u, b>> \in ToSet(find_pictures(file))
  BY <1>1, PicturesHas
<1>3. <<u, b>>[1] = u /\ <<u, b>>[2] = b
  OBVIOUS
<1>4. ~tables_only(file, <<u, b>>)
  BY <1>3 DEF tables_only
<1> QED
  BY <1>2, <1>4 DEF Due

\* A page with a picture that is not for OCR has enough text, and is not scanned.
LEMMA TypedPage ==
    ASSUME file \in Document, NEW u \in 1 .. Len(file.units), ~_needs_ocr(file, u)
    PROVE  /\ ~file.units[u].scanned
           /\ OfKind(file, u, Pictures) # {}
                 => ~(SizeOf(NativeText(file, u)) < OCR_MIN_NATIVE_CHARS)
<1>1. OfKind(file, u, Pictures) # {} => HasImages(file, u)
  <2>1. ToSet(BlocksOf(file, u, Pictures)) = OfKind(file, u, Pictures)
    BY BlocksHas
  <2>2. ToSet(<<>>) = {}
    BY DEF ToSet
  <2> QED
    BY <2>1, <2>2 DEF HasImages
<1>2. ASSUME file.units[u].scanned PROVE FALSE
  <2>1. NativeText(file, u) = <<>> /\ HasImages(file, u)
    BY <1>2 DEF NativeText, HasImages
  <2>2. SizeOf(NativeText(file, u)) < OCR_MIN_NATIVE_CHARS
    BY <2>1, NoText, ExtractionAssumption
  <2> QED
    BY <2>1, <2>2 DEF _needs_ocr
<1> QED
  BY <1>1, <1>2 DEF _needs_ocr

\* What is read of a unit is the unit's.
LEMMA ReadUnit ==
    ASSUME NEW f \in Document, NEW u \in 1 .. Len(f.units), NEW read \in PageRead
    PROVE  /\ docx_extract(f, u).unit.index = u
           /\ pptx_extract(f, u).unit.index = u
           /\ xlsx_extract(f, u).unit.index = u
           /\ pdf_page(f, u, read).unit.index = u
<1>2. \A t, is_table, tabular, heading :
         Extracted(f, u, t, is_table, tabular, heading).unit.index = u
  BY DEF Extracted
<1>3. docx_extract(f, u).unit.index = u
  <2>1. \E t, is_table, tabular, heading :
           docx_extract(f, u) = Extracted(f, u, t, is_table, tabular, heading)
    BY Zenon DEF docx_extract
  <2> QED
    BY <1>2, <2>1
<1>4. pptx_extract(f, u).unit.index = u
  <2>1. \E t, is_table, tabular, heading :
           pptx_extract(f, u) = Extracted(f, u, t, is_table, tabular, heading)
    BY Zenon DEF pptx_extract
  <2> QED
    BY <1>2, <2>1
<1>5. xlsx_extract(f, u).unit.index = u
  <2>1. \E t, is_table, tabular, heading :
           xlsx_extract(f, u) = Extracted(f, u, t, is_table, tabular, heading)
    BY Zenon DEF xlsx_extract
  <2> QED
    BY <1>2, <2>1
<1>6. pdf_page(f, u, read).unit.index = u
  <2> DEFINE none == [c \in DOMAIN f.units[u].blocks |-> None]
             native == Extracted(f, u, NativeText(f, u), FALSE, {"table"}, none)
             used == read.text # <<>>
             heads == (IF f.units[u].scanned THEN <<>> ELSE native.headings)
                      \o (IF used /\ f.units[u].scanned THEN _subject_headings(read.text) ELSE <<>>)
             tables == read.tables \o (IF f.units[u].scanned THEN <<>> ELSE native.tables)
             unit == [native.unit EXCEPT !.text = IF used THEN read.text ELSE native.unit.text]
             page == pdf_page(f, u, read)
  <2>1. page = [unit |-> unit, headings |-> heads, tables |-> tables]
    BY Zenon DEF pdf_page
  <2>2. native.unit = [index |-> u, text |-> NativeText(f, u), text_is_table |-> FALSE]
    BY DEF Extracted
  <2> HIDE DEF native, heads, tables, page
  <2>3. unit.index = u
    BY <2>2
  <2> HIDE DEF unit
  <2>4. page.unit = unit
    BY <2>1
  <2> QED
    BY <2>3, <2>4 DEF page
<1> QED
  BY <1>3, <1>4, <1>5, <1>6

\* Reading a unit of any format keeps every block.
LEMMA ReadingKeeps ==
    ASSUME KeptInv, TextInv',
           \/ reads_word_file \/ reads_slide \/ reads_sheet
           \/ reads_page \/ skips_page \/ ocr_off \/ ocr_fails \/ ocr_reads
    PROVE  KeptInv'
<1>1. /\ file \in Files /\ file \in Document /\ content \in Contents /\ at \in Nat /\ at >= 1
      /\ step = "extract" /\ step' = step /\ UNCHANGED <<file, passages>> /\ at' = at + 1
      /\ at <= Len(file.units) /\ Len(file.units) \in Nat
  BY LenProperties DEF KeptInv, TextInv, Document, Reading, NextUnit, reads_word_file, reads_slide,
         reads_sheet, reads_page, skips_page, ocr_off, ocr_fails, ocr_reads
<1>0. PICK here : here = at
  OBVIOUS
<1> DEFINE kind(b) == file.units[here].blocks[b].kind
<1>2. here \in 1 .. Len(file.units) /\ here = at
  BY <1>0, <1>1
<1>3. ASSUME NEW b \in BlockNumbers(file, here)
      PROVE  kind(b) \in Kinds /\ kind(b) \notin Lacks(file.mime)
  BY <1>1, <1>2, BlockIs
<1> HIDE DEF kind
<1>4. ASSUME NEW x \in UnitRead, content' = WithUnit(x) PROVE UnitMore(content', content, x)
  BY <1>1, <1>4, WithUnitHas
<1>5. CASE reads_word_file
  <2> DEFINE x == docx_extract(file, here)
  <2>1. /\ x \in UnitRead /\ content' = WithUnit(x) /\ log' = log /\ dropped' = dropped
        /\ file.mime = "docx" /\ x.unit.index = here
    BY <1>1, <1>2, <1>5, OfficeRead, NothingRead, ReadUnit DEF reads_word_file, Reading
  <2> HIDE DEF x
  <2>2. UnitMore(content', content, x)
    BY <1>4, <2>1
  <2>3. ASSUME NEW b \in BlockNumbers(file, here)
        PROVE  \/ LeftOut(here, b) \/ Due(file, here, b)
               \/ \A w \in ToSet(Words(file, here, b)) : UnitHas(x, here, w)
    <3>1. CASE kind(b) \in {"heading", "prose", "note", "table", "chart"}
      BY <1>1, <1>2, <3>1, OfficeHas DEF x, kind
    <3>2. CASE kind(b) \in Pictures /\ ~file.units[here].hidden
      BY <1>1, <1>2, <2>1, <3>2, PictureDue DEF kind
    <3>3. CASE kind(b) = "furniture" \/ file.units[here].hidden
      BY <3>3 DEF LeftOut, kind
    <3> QED
      BY <1>3, <3>1, <3>2, <3>3 DEF Kinds, Pictures
  <2> QED
    BY <1>1, <1>2, <2>1, <2>2, <2>3, UnitKept
<1>6. CASE reads_slide
  <2>1. CASE ~file.units[here].hidden
    <3> DEFINE x == pptx_extract(file, here)
    <3>1. /\ x \in UnitRead /\ content' = WithUnit(x) /\ log' = log /\ dropped' = dropped
          /\ file.mime = "pptx" /\ x.unit.index = here
      BY <1>1, <1>2, <1>6, <2>1, OfficeRead, NothingRead, ReadUnit DEF reads_slide, Reading
    <3> HIDE DEF x
    <3>2. UnitMore(content', content, x)
      BY <1>4, <3>1
    <3>3. ASSUME NEW b \in BlockNumbers(file, here)
          PROVE  \/ LeftOut(here, b) \/ Due(file, here, b)
                 \/ \A w \in ToSet(Words(file, here, b)) : UnitHas(x, here, w)
      <4>1. CASE kind(b) \in {"heading", "prose", "note", "table", "chart"}
        BY <1>1, <1>2, <4>1, OfficeHas DEF x, kind
      <4>2. CASE kind(b) \in Pictures
        BY <1>1, <1>2, <2>1, <3>1, <4>2, PictureDue DEF kind
      <4>3. CASE kind(b) = "furniture"
        BY <4>3 DEF LeftOut, kind
      <4> QED
        BY <1>3, <4>1, <4>2, <4>3 DEF Kinds, Pictures
    <3> QED
      BY <1>1, <1>2, <3>1, <3>2, <3>3, UnitKept
  <2>2. CASE file.units[here].hidden
    <3>1. content' = content /\ log' = log /\ dropped' = dropped
      BY <1>2, <1>6, <2>2 DEF reads_slide
    <3>2. From = 1 /\ From' = 1 /\ step' = "extract"
      BY <1>1 DEF From
    <3>3. ASSUME NEW u \in 1 .. Len(file.units), NEW b \in BlockNumbers(file, u)
          PROVE  BlockKept(u, b)'
      <4>1. u \in Nat /\ BlockKept(u, b)
        BY <1>1, <3>3, UnitBlocks DEF KeptInv
      <4>2. CASE u = at
        <5>1. LeftOut(u, b)'
          BY <1>1, <1>2, <2>2, <4>2 DEF LeftOut
        <5> QED
          BY <5>1 DEF BlockKept
      <4>3. CASE u # at
        <5>1. u >= at => u >= at'
          BY <1>1, <4>1, <4>3
        <5>2. (LeftOut(u, b) => LeftOut(u, b)') /\ (Gone(u, b) => Gone(u, b)')
          BY <1>1, <3>1 DEF LeftOut, Gone, Recorded
        <5> QED
          BY <1>1, <3>1, <3>2, <4>1, <5>1, <5>2 DEF BlockKept
      <4> QED
        BY <4>2, <4>3
    <3>4. KeptInv'
      BY <1>1, <3>2, <3>3 DEF KeptInv
    <3> QED
      BY <3>4
  <2> QED
    BY <2>1, <2>2
<1>7. CASE reads_sheet
  <2> DEFINE x == xlsx_extract(file, here)
  <2>1. /\ x \in UnitRead /\ content' = WithUnit(x) /\ log' = log /\ dropped' = dropped
        /\ file.mime = "xlsx" /\ x.unit.index = here
    BY <1>1, <1>2, <1>7, OfficeRead, NothingRead, ReadUnit DEF reads_sheet, Reading
  <2> HIDE DEF x
  <2>2. UnitMore(content', content, x)
    BY <1>4, <2>1
  <2>3. ASSUME NEW b \in BlockNumbers(file, here)
        PROVE  \/ LeftOut(here, b) \/ Due(file, here, b)
               \/ \A w \in ToSet(Words(file, here, b)) : UnitHas(x, here, w)
    <3>1. CASE kind(b) \in {"table", "chart"}
      BY <1>1, <1>2, <3>1, OfficeHas DEF x, kind
    <3>2. CASE kind(b) \in Pictures /\ ~file.units[here].hidden
      BY <1>1, <1>2, <2>1, <3>2, PictureDue DEF kind
    <3>3. CASE kind(b) \in {"heading", "furniture"} \/ file.units[here].hidden
      BY <2>1, <3>3 DEF LeftOut, kind
    <3>4. kind(b) \notin {"prose", "note"}
      BY <1>3, <2>1 DEF Lacks
    <3> QED
      BY <1>3, <3>1, <3>2, <3>3, <3>4 DEF Kinds, Pictures
  <2> QED
    BY <1>1, <1>2, <2>1, <2>2, <2>3, UnitKept
<1>8. ASSUME file.mime = "pdf", NEW b \in BlockNumbers(file, here), ~LeftOut(here, b)
      PROVE  kind(b) \in {"heading", "prose", "table", "picture of a table"}
             /\ ~file.units[here].hidden
  BY <1>3, <1>8 DEF Kinds, Lacks, LeftOut, kind
<1>9. CASE reads_page
  <2> DEFINE x == pdf_page(file, here, NotRead)
  <2>1. /\ x \in UnitRead /\ content' = WithUnit(x) /\ log' = log /\ dropped' = dropped
        /\ file.mime = "pdf" /\ x.unit.index = here /\ ~_needs_ocr(file, here)
    BY <1>1, <1>2, <1>9, NothingRead, PageIs, ReadUnit DEF reads_page, Reading
  <2> HIDE DEF x
  <2>2. UnitMore(content', content, x)
    BY <1>4, <2>1
  <2>3. ASSUME NEW b \in BlockNumbers(file, here)
        PROVE  \/ LeftOut(here, b) \/ Due(file, here, b)
               \/ \A w \in ToSet(Words(file, here, b)) : UnitHas(x, here, w)
    <3>0. ~file.units[here].scanned
      BY <1>1, <1>2, <2>1, TypedPage
    <3>1. CASE kind(b) \in {"heading", "prose", "table"}
      BY <1>1, <1>2, <3>0, <3>1, NothingRead, PageHas DEF x, kind
    <3>2. CASE kind(b) = "picture of a table" /\ ~file.units[here].hidden
      <4>1. kind(b) \in Pictures /\ kind(b) # "picture"
        BY <3>2 DEF Pictures
      <4>2. OfKind(file, here, Pictures) # {}
        BY <4>1 DEF OfKind, kind
      <4>3. ~(SizeOf(NativeText(file, here)) < OCR_MIN_NATIVE_CHARS)
        BY <1>1, <1>2, <2>1, <4>2, TypedPage
      <4> QED
        BY <1>1, <1>2, <3>2, <4>1, <4>3, PictureDue DEF kind
    <3> QED
      BY <1>8, <2>1, <3>1, <3>2
  <2> QED
    BY <1>1, <1>2, <2>1, <2>2, <2>3, UnitKept
<1>10. CASE skips_page
  <2> DEFINE x == pdf_page(file, here, NotRead)
             doc == WithUnit(x)
             skipped == doc.ocr_skipped_pages \cup {here}
  <2>1. /\ x \in UnitRead /\ content' = [doc EXCEPT !.ocr_skipped_pages = skipped]
        /\ log' = log /\ dropped' = dropped /\ x.unit.index = here
    BY <1>1, <1>2, <1>10, NothingRead, PageIs, ReadUnit DEF skips_page, Reading
  <2> HIDE DEF x, skipped
  <2>2. UnitMore(doc, content, x) /\ doc \in Contents
    BY <1>1, <2>1, WithUnitHas, UnitAdded
  <2> HIDE DEF doc
  <2>3. UnitMore(content', content, x) /\ here \in content'.ocr_skipped_pages
    BY <2>1, <2>2 DEF UnitMore, Contents, skipped
  <2>4. \A b : Gone(here, b)'
    BY <2>3 DEF Gone, Recorded
  <2> QED
    BY <1>1, <1>2, <2>1, <2>3, <2>4, UnitKept
<1>11. CASE ocr_fails
  <2> DEFINE x == pdf_page(file, here, NotRead)
  <2>1. /\ x \in UnitRead /\ content' = WithUnit(x) /\ log' = log \cup {<<here, 0>>}
        /\ x.unit.index = here /\ dropped' = dropped
    BY <1>1, <1>2, <1>11, NothingRead, PageIs, ReadUnit DEF ocr_fails, Reading
  <2> HIDE DEF x
  <2>2. UnitMore(content', content, x) /\ log \subseteq log'
    BY <1>4, <2>1
  <2>3. \A b : Gone(here, b)'
    BY <2>1 DEF Gone, Recorded
  <2> QED
    BY <1>1, <1>2, <2>1, <2>2, <2>3, UnitKept
<1>13. CASE ocr_off
  <2> DEFINE x == pdf_page(file, here, NotRead)
  <2>1. /\ x \in UnitRead /\ content' = WithUnit(x) /\ log' = log
        /\ dropped' = dropped \cup Drawn(file, here)
        /\ file.mime = "pdf" /\ x.unit.index = here
    BY <1>1, <1>2, <1>13, NothingRead, PageIs, ReadUnit DEF ocr_off, Reading
  <2> HIDE DEF x
  <2>2. UnitMore(content', content, x)
    BY <1>4, <2>1
  <2>3. ASSUME NEW b \in BlockNumbers(file, here)
        PROVE  \/ LeftOut(here, b) \/ Gone(here, b)'
               \/ \A w \in ToSet(Words(file, here, b)) : UnitHas(x, here, w)
    <3>1. CASE file.units[here].scanned \/ kind(b) \in Pictures
      <4>1. b \in DOMAIN file.units[here].blocks
        BY <1>1, <1>2, UnitBlocks
      <4>2. <<here, b>> \in Drawn(file, here)
        BY <3>1, <4>1 DEF Drawn, kind
      <4> QED
        BY <2>1, <4>2 DEF Gone
    <3>2. CASE ~file.units[here].scanned /\ kind(b) \in {"heading", "prose", "table"}
      BY <1>1, <1>2, <3>2, NothingRead, PageHas DEF x, kind
    <3> QED
      BY <1>8, <2>1, <3>1, <3>2 DEF Pictures
  <2> QED
    BY <1>1, <1>2, <2>1, <2>2, <2>3, UnitKept
<1>12. CASE ocr_reads
  <2>0. PICK unsure \in SUBSET DOMAIN file.units[here].blocks, reads_tables \in BOOLEAN :
          LET read == _ocr_page(file, here, unsure, reads_tables)
              found == read.text # <<>>
          IN  content' = [WithUnit(pdf_page(file, here, read)) EXCEPT
                             !.ocr_unreadable_lines = @ \cup Unreadable(here, unsure),
                             !.ocr_pages = IF found THEN Append(@, here) ELSE @]
    BY <1>2, <1>12, Zenon DEF ocr_reads
  <2> DEFINE read == _ocr_page(file, here, unsure, reads_tables)
             x == pdf_page(file, here, read)
             doc == WithUnit(x)
             lines == doc.ocr_unreadable_lines \cup Unreadable(here, unsure)
             pages == IF read.text # <<>> THEN Append(doc.ocr_pages, here) ELSE doc.ocr_pages
  <2>1. content' = [doc EXCEPT !.ocr_unreadable_lines = lines, !.ocr_pages = pages]
    BY <2>0, Zenon
  <2>2. file.mime = "pdf" /\ log' = log /\ dropped' = dropped /\ read \in PageRead
    BY <1>1, <1>2, <1>12, OcrRead DEF ocr_reads, Reading
  <2> HIDE DEF read
  <2>3. x \in UnitRead /\ x.unit.index = here
    BY <1>1, <1>2, <2>2, PageIs, ReadUnit
  <2> HIDE DEF x
  <2>4. UnitMore(doc, content, x) /\ doc \in Contents
    BY <1>1, <2>3, WithUnitHas, UnitAdded
  <2> HIDE DEF doc, pages
  <2>5. /\ UnitMore(content', content, x)
        /\ Unreadable(here, unsure) \subseteq content'.ocr_unreadable_lines
    BY <2>1, <2>4 DEF UnitMore, Contents, lines
  <2> HIDE DEF lines
  <2>6. ASSUME NEW b \in BlockNumbers(file, here)
        PROVE  \/ LeftOut(here, b) \/ Gone(here, b)'
               \/ \A w \in ToSet(Words(file, here, b)) : UnitHas(x, here, w)
    <3>1. CASE b \in unsure
      <4>1. <<here, b>> \in content'.ocr_unreadable_lines
        BY <2>5, <3>1 DEF Unreadable
      <4> QED
        BY <4>1 DEF Gone, Recorded
    <3>2. CASE b \notin unsure /\ kind(b) \in Visible
      <4>1. ASSUME NEW w \in ToSet(Words(file, here, b)) PROVE UnitHas(x, here, w)
        <5>1. ReadHasWord(read, here, w)
          BY <1>1, <1>2, <3>2, OcrHas DEF read, kind
        <5> QED
          BY <1>1, <1>2, <2>2, <5>1, PageHas DEF x
      <4> QED
        BY <4>1
    <3> QED
      BY <1>8, <2>2, <3>1, <3>2 DEF Visible
  <2> QED
    BY <1>1, <1>2, <2>2, <2>3, <2>5, <2>6, UnitKept
<1> QED
  BY <1>5, <1>6, <1>7, <1>9, <1>10, <1>11, <1>12, <1>13

\* What was in a document still is, where its units stay and its tables and figures grow.
LEMMA DrawnMore ==
    ASSUME NEW doc, NEW new, new.units = doc.units,
           ToSet(doc.tables) \subseteq ToSet(new.tables),
           ToSet(doc.figures) \subseteq ToSet(new.figures),
           NEW w, InDoc(doc, 1, w)
    PROVE  InDoc(new, 1, w)
<1>1. InDrawn(doc, w.at[1], w) => InDrawn(new, w.at[1], w)
  BY DEF InDrawn
<1> QED
  BY <1>1 DEF InDoc, InUnit

\* Reading the pictures keeps every block: those read are in the document, and the others
\* in the log or dropped.
LEMMA PicturesKeep ==
    ASSUME KeptInv, TextInv', NEW warned, NEW silent, _read_pictures(warned, silent)
    PROVE  KeptInv'
<1>1. /\ file \in Files /\ file \in Document /\ content \in Contents /\ at \in Nat
      /\ step = "extract" /\ step' = "normalize" /\ file' = file /\ passages' = passages
      /\ at > Len(file.units) /\ Len(file.units) \in Nat
      /\ log' = log \cup warned /\ dropped' = dropped \cup silent
  BY LenProperties DEF KeptInv, TextInv, Document, _read_pictures
<1> DEFINE all == find_pictures(file)
           test(p) == p \notin warned \cup silent /\ ~tables_only(file, p)
           P == {p \in ToSet(all) : test(p)}
           read == Only(all, test)
<1>2. content' = merge_pictures(file, content, read)
  BY Zenon DEF _read_pictures
<1>3. read \in Seq(Places(file)) /\ ToSet(read) = ToSet(all) \cap P
  <2> DEFINE shown == [i \in DOMAIN all |-> IF test(all[i]) THEN <<all[i]>> ELSE <<>>]
  <2>1. read = FlattenSeq(shown)
    BY Zenon DEF Only
  <2>2. all \in Seq(Places(file))
    BY <1>1, PicturesFound
  <2> HIDE DEF all
  <2>3. \A i \in DOMAIN all : all[i] \in P <=> test(all[i])
    BY DEF ToSet
  <2> HIDE DEF test, P
  <2>4. shown = Passing(all, P)
    BY <2>3 DEF Passing
  <2> HIDE DEF shown, read
  <2> QED
    BY <2>1, <2>2, <2>4, KeptThose
<1> HIDE DEF read
<1>4. Merged(content', file, content, read)
  BY <1>1, <1>2, <1>3, MergedHas
<1>5. From = 1 /\ From' = 1
  BY <1>1 DEF From
<1>6. ASSUME NEW u \in 1 .. Len(file.units), NEW b \in BlockNumbers(file, u)
      PROVE  BlockKept(u, b)'
  <2>1. u \in Nat /\ ~(u >= at) /\ BlockKept(u, b)
    BY <1>1, <1>6, UnitBlocks DEF KeptInv
  <2>2. CASE HasUnit(content, u) /\ Due(file, u, b)
    <3> DEFINE p == <<u, b>>
    <3>1. p[1] = u /\ p[2] = b
      OBVIOUS
    <3>2. /\ p \in ToSet(all) /\ ~tables_only(file, p)
          /\ file.units[p[1]].blocks[p[2]].kind \in Pictures
      BY <2>2, <3>1 DEF Due
    <3>3. CASE p \in warned \cup silent
      <4>1. Gone(u, b)'
        BY <1>1, <3>3 DEF Gone, Recorded
      <4> QED
        BY <4>1 DEF BlockKept
    <3>4. CASE p \notin warned \cup silent
      <4>1. p \in ToSet(read)
        BY <1>3, <3>2, <3>4
      <4>2. ASSUME NEW w \in ToSet(Words(file, u, b)) PROVE InDoc(content', 1, w)
        <5>1. InDrawn(content', u, w)
          BY <1>4, <3>1, <3>2, <4>1, <4>2 DEF Merged
        <5>2. w.at[1] = u
          BY <1>1, <1>6, WordsOf
        <5>3. PICK k \in 1 .. Len(content.units) : content.units[k].index = u
          BY <2>2 DEF HasUnit
        <5>4. content'.units = content.units
          BY <1>4 DEF Merged
        <5>5. k >= 1
          OBVIOUS
        <5> QED
          BY <5>1, <5>2, <5>3, <5>4, <5>5 DEF InDoc, InUnit
      <4> QED
        BY <1>1, <1>5, <4>2 DEF BlockKept
    <3> QED
      BY <3>3, <3>4
  <2>3. CASE LeftOut(u, b) \/ Gone(u, b)
    <3>1. LeftOut(u, b)' \/ Gone(u, b)'
      BY <1>1, <1>4, <2>3 DEF LeftOut, Gone, Recorded, Merged
    <3> QED
      BY <3>1 DEF BlockKept
  <2>4. CASE \A w \in ToSet(Words(file, u, b)) : InDoc(content, 1, w) \/ Safe(passages, u, w)
    <3>1. \A w : InDoc(content, 1, w) => InDoc(content', 1, w)
      BY <1>4, DrawnMore DEF Merged
    <3> QED
      BY <1>1, <1>5, <2>4, <3>1 DEF BlockKept
  <2> QED
    BY <1>5, <2>1, <2>2, <2>3, <2>4 DEF BlockKept
<1>7. KeptInv'
  BY <1>1, <1>6 DEF KeptInv
<1> QED
  BY <1>7

\* Without a reader every picture that is to be read is dropped.
LEMMA PicturesPassed ==
    ASSUME KeptInv, TextInv', passes_pictures
    PROVE  KeptInv'
<1>1. /\ file \in Files /\ file \in Document /\ at \in Nat
      /\ step = "extract" /\ step' = "normalize" /\ UNCHANGED <<file, content, log, passages>>
      /\ at > Len(file.units) /\ Len(file.units) \in Nat
      /\ dropped' = dropped \cup ToSet(find_pictures(file))
  BY LenProperties DEF KeptInv, TextInv, Document, passes_pictures
<1>2. From = 1 /\ From' = 1
  BY <1>1 DEF From
<1>3. ASSUME NEW u \in 1 .. Len(file.units), NEW b \in BlockNumbers(file, u)
      PROVE  BlockKept(u, b)'
  <2>1. ~(u >= at) /\ BlockKept(u, b)
    BY <1>1, <1>3, UnitBlocks DEF KeptInv
  <2>2. CASE Due(file, u, b)
    <3>1. Gone(u, b)'
      BY <1>1, <2>2 DEF Due, Gone
    <3> QED
      BY <3>1 DEF BlockKept
  <2>3. CASE LeftOut(u, b) \/ Gone(u, b)
    <3>1. LeftOut(u, b)' \/ Gone(u, b)'
      BY <1>1, <2>3 DEF LeftOut, Gone, Recorded
    <3> QED
      BY <3>1 DEF BlockKept
  <2>4. CASE \A w \in ToSet(Words(file, u, b)) : InDoc(content, 1, w) \/ Safe(passages, u, w)
    BY <1>1, <1>2, <2>4 DEF BlockKept
  <2> QED
    BY <1>2, <2>1, <2>2, <2>3, <2>4 DEF BlockKept
<1>4. KeptInv'
  BY <1>1, <1>3 DEF KeptInv
<1> QED
  BY <1>4

\* Cleaning keeps every block but page furniture, which is left out.
LEMMA NormalizeKeeps ==
    ASSUME KeptInv, TextInv', normalize
    PROVE  KeptInv'
<1> DEFINE us == Cleaned(content.units)
<1>1. /\ file \in Files /\ file \in Document /\ content \in Contents
      /\ step = "normalize" /\ step' \in {"chunk", "failed"} /\ at' = 1
      /\ UNCHANGED <<file, passages, log, dropped>>
  BY DEF KeptInv, TextInv, normalize
<1>2. content' = [content EXCEPT !.units = us]
  BY Zenon DEF normalize
<1>3. CleanedOf(us, content.units)
  BY <1>1, ContentsParts, CleanedHas
<1> HIDE DEF us
<1>4. /\ content'.units = us
      /\ content'.tables = content.tables /\ content'.figures = content.figures
      /\ content'.ocr_skipped_pages = content.ocr_skipped_pages
      /\ content'.ocr_unreadable_lines = content.ocr_unreadable_lines
  BY <1>1, <1>2 DEF Contents
<1>5. From = 1 /\ From' = 1
  BY <1>1 DEF From
<1>6. ASSUME NEW w, w.kind # "furniture", InDoc(content, 1, w) PROVE InDoc(content', 1, w)
  <2>1. PICK k \in 1 .. Len(content.units) : k >= 1 /\ InUnit(content, k, w)
    BY <1>6 DEF InDoc
  <2>2. InDrawn(content, w.at[1], w) => InDrawn(content', w.at[1], w)
    BY <1>4 DEF InDrawn
  <2>3. InUnit(content', k, w) /\ k \in 1 .. Len(content'.units)
    BY <1>3, <1>4, <1>6, <2>1, <2>2 DEF InUnit, CleanedOf
  <2> QED
    BY <2>1, <2>3 DEF InDoc
<1>7. ASSUME NEW u \in 1 .. Len(file.units), NEW b \in BlockNumbers(file, u)
      PROVE  BlockKept(u, b)'
  <2>1. BlockKept(u, b)
    BY <1>7 DEF KeptInv
  <2>2. CASE LeftOut(u, b) \/ Gone(u, b)
    <3>1. LeftOut(u, b)' \/ Gone(u, b)'
      BY <1>1, <1>4, <2>2 DEF LeftOut, Gone, Recorded
    <3> QED
      BY <3>1 DEF BlockKept
  <2>3. CASE ~LeftOut(u, b) /\ \A w \in ToSet(Words(file, u, b)) :
                                  InDoc(content, 1, w) \/ Safe(passages, u, w)
    <3>1. file.units[u].blocks[b].kind # "furniture"
      BY <2>3 DEF LeftOut
    <3>2. \A w \in ToSet(Words(file, u, b)) : w.kind # "furniture"
      BY <1>1, <1>7, <3>1, WordsOf
    <3> QED
      BY <1>1, <1>5, <1>6, <2>3, <3>2 DEF BlockKept
  <2> QED
    BY <1>1, <1>5, <2>1, <2>2, <2>3 DEF BlockKept
<1>8. KeptInv'
  BY <1>1, <1>7 DEF KeptInv
<1> QED
  BY <1>8

\* Cutting up a unit keeps every block: what was with the unit is safe in passages.
LEMMA ChunkingKeeps ==
    ASSUME KeptInv, TextInv', chunks_unit
    PROVE  KeptInv'
<1>1. /\ file \in Files /\ file \in Document /\ content \in Contents /\ current_heading \in Heading
      /\ passages \in Seq(Passage) /\ at \in Nat
      /\ step = "chunk" /\ step' = step /\ at' = at + 1 /\ at <= Len(content.units) /\ at >= 1
      /\ UNCHANGED <<file, content, log, dropped>>
  BY DEF KeptInv, TextInv, chunks_unit
<1> DEFINE unit == content.units[at]
           cut == chunk_unit(content, unit, current_heading)
<1>2. passages' = passages \o cut.chunks
  BY Zenon DEF chunks_unit
<1>3. at \in 1 .. Len(content.units) /\ unit \in UnitText
  <2>1. content.units \in Seq(UnitText) /\ Len(content.units) \in Nat
    BY <1>1, ContentsParts, LenProperties
  <2> QED
    BY <1>1, <2>1, ElementOfSeq
<1>4. From = at /\ From' = at + 1
  BY <1>1 DEF From
<1>5. cut.chunks \in Seq(Passage)
  BY <1>1, <1>3, UnitFits
<1>6. ASSUME NEW w \in Word, InUnit(content, at, w) PROVE Safe(cut.chunks, w.at[1], w)
  <2> HIDE DEF unit
  <2>1. /\ unit.index = w.at[1]
        /\ \/ ~unit.text_is_table /\ w \in ToSet(unit.text)
           \/ \E x \in ToSet(content.tables) : x.unit_index = unit.index /\ w \in ToSet(x.rows)
           \/ \E x \in ToSet(content.figures) : x.unit_index = unit.index /\ w \in ToSet(x.text)
    BY <1>6 DEF InUnit, InDrawn, unit
  <2> QED
    BY <1>1, <1>3, <2>1, UnitTells
<1> HIDE DEF cut, unit
<1>7. ASSUME NEW w \in Word, NEW u \in Nat, Safe(passages, u, w) \/ Safe(cut.chunks, u, w)
      PROVE  Safe(passages', u, w)
  BY <1>1, <1>2, <1>5, <1>7, SafeMore
<1>8. ASSUME NEW u \in 1 .. Len(file.units), NEW b \in BlockNumbers(file, u)
      PROVE  BlockKept(u, b)'
  <2>1. BlockKept(u, b) /\ u \in Nat
    BY <1>1, <1>8, UnitBlocks DEF KeptInv
  <2>2. CASE LeftOut(u, b) \/ Gone(u, b)
    <3>1. LeftOut(u, b)' \/ Gone(u, b)'
      BY <1>1, <2>2 DEF LeftOut, Gone, Recorded
    <3> QED
      BY <3>1 DEF BlockKept
  <2>3. CASE \A w \in ToSet(Words(file, u, b)) : InDoc(content, at, w) \/ Safe(passages, u, w)
    <3>1. ASSUME NEW w \in ToSet(Words(file, u, b))
          PROVE  InDoc(content, at + 1, w) \/ Safe(passages', u, w)
      <4>1. w \in Word /\ w.at[1] = u
        BY <1>1, <1>8, <3>1, WordsOf
      <4>2. CASE Safe(passages, u, w)
        BY <1>7, <2>1, <4>1, <4>2
      <4>3. CASE InDoc(content, at, w)
        <5>1. PICK k \in 1 .. Len(content.units) : k >= at /\ InUnit(content, k, w)
          BY <4>3 DEF InDoc
        <5>2. CASE k = at
          BY <1>6, <1>7, <2>1, <4>1, <5>1, <5>2
        <5>3. CASE k # at
          <6>1. k >= at + 1
            BY <1>1, <5>1, <5>3
          <6> QED
            BY <5>1, <6>1 DEF InDoc
        <5> QED
          BY <5>2, <5>3
      <4> QED
        BY <2>3, <3>1, <4>2, <4>3
    <3> QED
      BY <1>1, <1>4, <3>1 DEF BlockKept
  <2> QED
    BY <1>1, <1>4, <2>1, <2>2, <2>3 DEF BlockKept
<1>9. KeptInv'
  BY <1>1, <1>8 DEF KeptInv
<1> QED
  BY <1>9

\* The last unit cut, and nothing done, lose nothing.
LEMMA RestKeeps ==
    ASSUME KeptInv, TextInv', chunked \/ UNCHANGED vars
    PROVE  KeptInv'
<1>1. /\ UNCHANGED <<file, content, at, log, dropped, passages>>
      /\ \/ step = "chunk" /\ step' \in {"done", "failed"} /\ at > Len(content.units)
         \/ step' = step
  BY DEF chunked, vars
<1>2. From' = From
  BY <1>1 DEF From
<1>3. ASSUME NEW u \in 1 .. Len(file.units), NEW b \in BlockNumbers(file, u)
      PROVE  BlockKept(u, b)'
  <2>1. BlockKept(u, b)
    BY <1>3 DEF KeptInv
  <2>2. /\ LeftOut(u, b) => LeftOut(u, b)'
        /\ Gone(u, b) => Gone(u, b)'
    BY <1>1 DEF LeftOut, Gone, Recorded
  <2> QED
    BY <1>1, <1>2, <2>1, <2>2 DEF BlockKept
<1>4. KeptInv'
  BY <1>1, <1>3 DEF KeptInv
<1> QED
  BY <1>4

\* Nothing is read at the start.
LEMMA KeptInit == Init => KeptInv
<1> SUFFICES ASSUME Init PROVE KeptInv
  OBVIOUS
<1>1. TextInv /\ file \in Files /\ at = 1 /\ step = "extract"
  BY TextInit DEF Init
<1>2. ASSUME NEW u \in 1 .. Len(file.units), NEW b \in BlockNumbers(file, u)
      PROVE  BlockKept(u, b)
  <2>1. u \in Nat /\ u >= at
    BY <1>1, <1>2, UnitBlocks DEF TextInv
  <2> QED
    BY <1>1, <2>1 DEF BlockKept
<1> QED
  BY <1>1, <1>2 DEF KeptInv

\* Every step keeps every block.
LEMMA KeptStep == KeptInv /\ [Next]_vars => KeptInv'
<1> SUFFICES ASSUME KeptInv, [Next]_vars PROVE KeptInv'
  OBVIOUS
<1>1. TextInv'
  BY TextStep DEF KeptInv
<1>2. CASE \/ reads_word_file \/ reads_slide \/ reads_sheet
           \/ reads_page \/ skips_page \/ ocr_off \/ ocr_fails \/ ocr_reads
  BY <1>1, <1>2, ReadingKeeps
<1>3. ASSUME NEW warned, NEW silent, _read_pictures(warned, silent) PROVE KeptInv'
  BY <1>1, <1>3, PicturesKeep
<1>4. CASE normalize
  BY <1>1, <1>4, NormalizeKeeps
<1>5. CASE chunks_unit
  BY <1>1, <1>5, ChunkingKeeps
<1>6. CASE chunked \/ UNCHANGED vars
  BY <1>1, <1>6, RestKeeps
<1>7. CASE passes_pictures
  BY <1>1, <1>7, PicturesPassed
<1> QED
  BY <1>2, <1>3, <1>4, <1>5, <1>6, <1>7 DEF Next

\* Whatever the files, the settings and what OCR makes of them, every part of a document
\* that gets passages is in them, left out on purpose, a recorded gap, or what its reader
\* (or the want of one) dropped without a word: reading, merging pictures, cleaning, sections,
\* packing, hard wrap and row groups lose nothing on the way.
THEOREM NothingLostHolds == Spec => []NothingLost
<1>1. KeptInv => NothingLost
  <2> SUFFICES ASSUME KeptInv, step = "done",
                      NEW u \in DOMAIN file.units, NEW b \in DOMAIN file.units[u].blocks
               PROVE  \/ \A w \in ToSet(Words(file, u, b)) : InPassages(w) \/ FiledUnder(w)
                      \/ LeftOut(u, b) \/ Gone(u, b)
    BY DEF NothingLost, Gone
  <2>1. /\ file \in Document /\ content \in Contents /\ passages \in Seq(Passage)
        /\ at > Len(content.units) /\ at \in Nat
    BY DEF KeptInv, TextInv
  <2>2. u \in 1 .. Len(file.units) /\ b \in BlockNumbers(file, u)
    <3>1. u \in 1 .. Len(file.units)
      BY <2>1, LenProperties DEF Document
    <3> QED
      BY <2>1, <3>1, UnitBlocks
  <2>3. \/ LeftOut(u, b) \/ Gone(u, b)
        \/ \A w \in ToSet(Words(file, u, b)) : InDoc(content, at, w) \/ Safe(passages, u, w)
    BY <2>2 DEF KeptInv, BlockKept, From
  <2>4. ASSUME NEW w PROVE ~InDoc(content, at, w)
    <3>1. Len(content.units) \in Nat
      BY <2>1, ContentsParts, LenProperties
    <3> QED
      BY <2>1, <3>1 DEF InDoc
  <2>5. ASSUME NEW w \in ToSet(Words(file, u, b)), Safe(passages, u, w)
        PROVE  InPassages(w) \/ FiledUnder(w)
    <3>1. w.at[1] = u
      BY <2>1, <2>2, WordsOf
    <3>2. CASE Tells(passages, w)
      <4> DEFINE share == [k \in DOMAIN passages |->
                   [w EXCEPT !.size = ShareOf(passages[k].head \o passages[k].text, w)]]
      <4>1. /\ FullTexts(passages) \in Seq(Text) /\ Len(FullTexts(passages)) = Len(passages)
            /\ \A k \in 1 .. Len(passages) :
                  FullTexts(passages)[k] = passages[k].head \o passages[k].text
        BY <2>1, FullTextsAre
      <4>2. /\ DOMAIN FullTexts(passages) = DOMAIN passages
            /\ DOMAIN passages = 1 .. Len(passages)
        BY <2>1, <4>1, LenProperties
      <4>3. Shares(FullTexts(passages), w) = share
        BY <4>1, <4>2 DEF Shares
      <4>4. SizeOf(share) >= w.size
        <5> HIDE DEF share
        <5> QED
          BY <3>2, <4>3 DEF Tells, Held
      <4>5. InPassages(w)
        BY <4>4, Zenon DEF InPassages
      <4> QED
        BY <4>5
    <3>3. CASE Filed(passages, u, w)
      BY <3>1, <3>3 DEF Filed, FiledUnder
    <3> QED
      BY <2>5, <3>2, <3>3 DEF Safe
  <2> QED
    BY <2>3, <2>4, <2>5
<1>2. Spec => []KeptInv
  BY KeptInit, KeptStep, PTL DEF Spec
<1> QED
  BY <1>1, <1>2, PTL
=============================================================================
