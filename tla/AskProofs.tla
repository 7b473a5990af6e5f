----------------------------- MODULE AskProofs ------------------------------
(***************************************************************************)
(* What is proved of searching and asking: nothing restricted is sent to   *)
(* the model and what it cites is what it was shown, whatever is           *)
(* reclassified, hidden or erased meanwhile; and lists never promise what  *)
(* a request then refuses.                                                 *)
(***************************************************************************)
EXTENDS Ask, SequenceLemmas

(***************************************************************************)
(* Who sees what.                                                          *)
(***************************************************************************)

\* Every row has its type, and a tombstone is hidden.
AccessInv ==
    /\ docs \in [Docs -> DocRow]
    /\ \A d \in Docs : docs[d].purged => docs[d].deleted

\* No request brings a tombstone back.
LEMMA AccessStep == AccessInv /\ [AccessNext]_accessVars => AccessInv'
<1> SUFFICES ASSUME AccessInv, [AccessNext]_accessVars PROVE AccessInv'
  OBVIOUS
<1> USE DEF AccessInv, DocRow
<1>1. ASSUME NEW d \in Docs, NEW why \in {"gone", "replaced", "deleted"}, soft_delete(d, why)
      PROVE  AccessInv'
  <2>1. PICK gone \in BOOLEAN, replaced \in BOOLEAN :
           docs' = [docs EXCEPT ![d] = [docs[d] EXCEPT !.deleted = TRUE, !.gone = gone,
                                                       !.replaced = replaced]]
    <3>1. (why = "gone") \in BOOLEAN /\ (why = "replaced") \in BOOLEAN
      OBVIOUS
    <3> QED
      BY <1>1, <3>1, Zenon DEF soft_delete, Changes
  <2> QED
    BY <2>1
<1>2. ASSUME NEW d \in Docs, NEW u \in Users, NEW t \in {"PUBLIC", "RESTRICTED"},
             reclassify_document(u, d, t)
      PROVE  AccessInv'
  BY <1>2 DEF reclassify_document, Changes
<1>3. ASSUME NEW d \in Docs, NEW u \in Users, restore_document(u, d) PROVE AccessInv'
  BY <1>3 DEF restore_document, restorable, Changes
<1>4. ASSUME NEW d \in Docs, NEW u \in Users, purge(u, d) PROVE AccessInv'
  BY <1>4 DEF purge, Tombstone
<1>5. CASE UNCHANGED accessVars
  BY <1>5 DEF accessVars
<1> QED
  BY <1>1, <1>2, <1>3, <1>4, <1>5 DEF AccessNext

\* A question leaves the documents alone.
LEMMA AskLeavesDocs == [Next]_vars => [AccessNext]_accessVars
  BY DEF Next, vars, ask, get_reranker, search, semantic_search, ask_tiers, refuses, send,
     completes, generation_fails, forgets, ApiStep

\* The rows of the documents table are ones the access rules expect, at all times.
LEMMA AccessInvariant == Spec => []AccessInv
<1>1. Init => AccessInv
  <2> SUFFICES ASSUME Init PROVE AccessInv
    OBVIOUS
  <2>1. \A t \in {"PUBLIC", "RESTRICTED", None} : NewRow(t) \in DocRow /\ ~NewRow(t).purged
    BY DEF NewRow, DocRow
  <2>2. docs \in [Docs -> {NewRow(t) : t \in {"PUBLIC", "RESTRICTED", None}}]
    BY DEF Init, AccessInit
  <2> QED
    BY <2>1, <2>2 DEF AccessInv
<1> QED
  BY <1>1, AccessStep, AskLeavesDocs, PTL DEF Spec

\* access.py's two forms of the tier rule agree on every row there can be, rows
\* without a tier or an owner among them.
THEOREM ListIsWhatOpensHolds == Spec => []ListIsWhatOpens
<1>1. AccessInv => ListIsWhatOpens
  <2> SUFFICES ASSUME AccessInv, NEW u \in Users, NEW d \in Docs
               PROVE  d \in list_paginated(u) <=> d \in fetched(u) /\ ~docs[d].deleted
    BY DEF ListIsWhatOpens, list_paginated, fetched
  <2>1. docs[d].tier \in {"PUBLIC", "RESTRICTED", None}
    BY DEF AccessInv, DocRow
  <2>2. can_view(u, d) <=> visible_documents_clause(u, d)
    BY <2>1, AccessAssumption DEF can_view, visible_documents_clause, Owns, is_admin
  <2> QED
    BY <2>2 DEF AccessInv, list_paginated, fetched
<1> QED
  BY <1>1, AccessInvariant, PTL

\* What GET /deleted and the answer to a refused re-upload offer for restoring,
\* POST /{document_id}/restore accepts from the same person.
THEOREM OfferIsKeptHolds == Spec => []OfferIsKept
<1>1. AccessInv => OfferIsKept
  <2> SUFFICES ASSUME AccessInv, NEW u \in Users, NEW d \in list_deleted(u)
               PROVE  _removed_from_drive(d) \/ restorable(u, d)
    BY DEF OfferIsKept, list_deleted_documents, restorable, can_restore, _duplicate_of
  <2>1. Owns(u, d) \/ is_admin(u)
    BY AccessAssumption DEF list_deleted, Owns
  <2> QED
    BY <2>1 DEF list_deleted, restorable, can_view, _may_change
<1> QED
  BY <1>1, AccessInvariant, PTL

(***************************************************************************)
(* Sequences: pages of a list, and the indices that cross the boundary.    *)
(***************************************************************************)

\* rows[:n] keeps what stands at each place up to n.
LEMMA UptoPage ==
    ASSUME NEW S, NEW s \in Seq(S), NEW n \in Nat
    PROVE  /\ Upto(s, n) \in Seq(S)
           /\ Len(Upto(s, n)) = Least(n, Len(s))
           /\ \A i \in 1 .. Least(n, Len(s)) : Upto(s, n)[i] = s[i]
<1>1. Least(n, Len(s)) \in Nat /\ Least(n, Len(s)) <= Len(s)
  BY DEF Least
<1>2. \A i \in 1 .. Least(n, Len(s)) : s[i] \in S
  BY <1>1, ElementOfSeq
<1> QED
  BY <1>1, <1>2, SubSeqProperties DEF Upto

\* The gateway keeps indices of passages whose tier crosses, and no others.
LEMMA KeptCross ==
    ASSUME NEW T, NEW tiers \in Seq(T), NEW all \in BOOLEAN
    PROVE  /\ Kept(tiers, all) \in Seq(1 .. Len(tiers))
           /\ \A k \in DOMAIN Kept(tiers, all) : Crosses(tiers[Kept(tiers, all)[k]], all)
<1> DEFINE crossing == {i \in DOMAIN tiers : Crosses(tiers[i], all)}
           Kth(k) == CHOOSE i \in crossing : Cardinality({j \in crossing : j < i}) = k - 1
<1>1. DOMAIN tiers = 1 .. Len(tiers) /\ Len(tiers) \in Nat
  BY LenProperties
<1>2. crossing \in SUBSET (1 .. Len(tiers)) /\ crossing \in SUBSET Nat
  BY <1>1
<1>3. IsFiniteSet(crossing) /\ Cardinality(crossing) \in Nat
  <2>1. IsFiniteSet(1 .. Len(tiers))
    BY <1>1, FS_Interval
  <2> HIDE DEF crossing
  <2> QED
    BY <1>2, <2>1, FS_Subset, FS_CardinalityType
<1>4. ASSUME NEW k \in 1 .. Cardinality(crossing) PROVE Kth(k) \in crossing
  <2> HIDE DEF crossing
  <2> QED
    BY <1>2, <1>3, KthExists
<1>5. Kept(tiers, all) = [k \in 1 .. Cardinality(crossing) |-> Kth(k)]
  BY DEF Kept
<1>6. Kept(tiers, all) \in [1 .. Cardinality(crossing) -> 1 .. Len(tiers)]
  BY <1>2, <1>4, <1>5
<1>7. Kept(tiers, all) \in Seq(1 .. Len(tiers))
  <2> HIDE DEF crossing, Kth
  <2> QED
    BY <1>3, <1>6, SeqDef
<1>8. \A k \in DOMAIN Kept(tiers, all) : Kept(tiers, all)[k] \in crossing
  <2> HIDE DEF crossing, Kth
  <2> QED
    BY <1>4, <1>5
<1> QED
  BY <1>7, <1>8

\* A page of a sequence that repeats nothing repeats nothing.
LEMMA UptoInjective ==
    ASSUME NEW S, NEW s \in Seq(S), NEW n \in Nat, IsInjective(s)
    PROVE  IsInjective(Upto(s, n)) /\ ToSet(Upto(s, n)) \subseteq ToSet(s)
<1> DEFINE m == Least(n, Len(s))
           page == Upto(s, n)
<1>1. DOMAIN s = 1 .. Len(s) /\ Len(s) \in Nat /\ m \in Nat /\ m <= Len(s)
  BY LenProperties DEF Least
<1>2. page \in Seq(S) /\ Len(page) = m /\ \A i \in 1 .. m : page[i] = s[i]
  BY UptoPage
<1>3. DOMAIN page = 1 .. m
  BY <1>2, LenProperties
<1> HIDE DEF page, m
<1>4. \A i \in 1 .. m : i \in DOMAIN s
  BY <1>1
<1>5. IsInjective(page)
  BY <1>2, <1>3, <1>4 DEF IsInjective
<1>6. ToSet(page) \subseteq ToSet(s)
  BY <1>2, <1>3, <1>4 DEF ToSet
<1> QED
  BY <1>5, <1>6 DEF page

\* A filter keeps only what passes, in a sequence.
LEMMA FilterPasses ==
    ASSUME NEW S, NEW ranked \in Seq(S), NEW allowed
    PROVE  Filtered(ranked, allowed) \in Seq(allowed)
<1> DEFINE passing == {i \in DOMAIN ranked : ranked[i] \in allowed}
           N == Cardinality(passing)
           kth == [k \in 1 .. N |->
                      CHOOSE i \in passing : Cardinality({j \in passing : j < i}) = k - 1]
<1>1. passing \in SUBSET Nat /\ IsFiniteSet(passing) /\ N \in Nat
  <2>1. DOMAIN ranked = 1 .. Len(ranked) /\ Len(ranked) \in Nat
    BY LenProperties
  <2>2. /\ passing \in SUBSET (1 .. Len(ranked)) /\ passing \in SUBSET Nat
        /\ IsFiniteSet(1 .. Len(ranked))
    BY <2>1, FS_Interval
  <2> HIDE DEF passing
  <2> QED
    BY <2>2, FS_Subset, FS_CardinalityType
<1>2. kth \in [1 .. N -> passing]
  <2> HIDE DEF passing
  <2> QED
    BY <1>1, KthsDiffer
<1>3. Filtered(ranked, allowed) = [k \in 1 .. N |-> ranked[kth[k]]]
  BY DEF Filtered
<1> HIDE DEF kth, N
<1>4. Filtered(ranked, allowed) \in [1 .. N -> allowed]
  BY <1>2, <1>3
<1> QED
  BY <1>1, <1>4, SeqDef

\* Of a list that repeats nothing, a filter keeps all that passes, each once.
LEMMA FilterKeeps ==
    ASSUME NEW S, NEW ranked \in Seq(S), IsInjective(ranked), NEW allowed
    PROVE  /\ Filtered(ranked, allowed) \in Seq(allowed)
           /\ IsInjective(Filtered(ranked, allowed))
           /\ ToSet(Filtered(ranked, allowed)) = allowed \cap ToSet(ranked)
<1> DEFINE passing == {i \in DOMAIN ranked : ranked[i] \in allowed}
           passed == allowed \cap ToSet(ranked)
           N == Cardinality(passing)
           kth == [k \in 1 .. N |->
                      CHOOSE i \in passing : Cardinality({j \in passing : j < i}) = k - 1]
           list == Filtered(ranked, allowed)
<1>1. DOMAIN ranked = 1 .. Len(ranked) /\ Len(ranked) \in Nat
  BY LenProperties
<1>2. passing \in SUBSET Nat /\ IsFiniteSet(passing) /\ N \in Nat
  <2>1. /\ passing \in SUBSET (1 .. Len(ranked)) /\ passing \in SUBSET Nat
        /\ IsFiniteSet(1 .. Len(ranked))
    BY <1>1, FS_Interval
  <2> HIDE DEF passing
  <2> QED
    BY <2>1, FS_Subset, FS_CardinalityType
<1>3. kth \in [1 .. N -> passing] /\ IsInjective(kth)
  <2> HIDE DEF passing
  <2> QED
    BY <1>2, KthsDiffer
<1>4. list = [k \in 1 .. N |-> ranked[kth[k]]]
  BY DEF Filtered
<1>5. IsFiniteSet(passed) /\ N = Cardinality(passed)
  <2> DEFINE at == [i \in passing |-> ranked[i]]
  <2>1. at \in [passing -> passed]
    BY DEF ToSet
  <2>2. at \in Injection(passing, passed)
    BY <2>1 DEF Injection, IsInjective
  <2>3. \A x \in passed : \E i \in passing : at[i] = x
    BY DEF ToSet
  <2>4. at \in Surjection(passing, passed)
    BY <2>1, <2>3 DEF Surjection
  <2> HIDE DEF at, passing, passed
  <2> QED
    BY <1>2, <2>2, <2>4, FS_Surjection
<1>6. list \in Seq(allowed)
  BY FilterPasses
<1>7. Len(list) = N /\ DOMAIN list = 1 .. N
  <2> HIDE DEF kth, N
  <2> QED
    BY <1>2, <1>4, <1>6, LenProperties
<1>8. IsInjective(list)
  <2> HIDE DEF N, kth, list
  <2>1. DOMAIN kth = 1 .. N /\ \A k \in 1 .. N : kth[k] \in DOMAIN ranked
    BY <1>3
  <2>2. \A k, l \in 1 .. N : ranked[kth[k]] = ranked[kth[l]] => k = l
    BY <1>3, <2>1 DEF IsInjective
  <2> QED
    BY <1>4, <2>2 DEF IsInjective
<1>9. ToSet(list) \in SUBSET passed
  <2> HIDE DEF N, kth
  <2>1. \A k \in 1 .. N : list[k] \in ToSet(ranked)
    BY <1>3, <1>4 DEF ToSet
  <2>2. \A k \in 1 .. N : list[k] \in allowed
    BY <1>6, <1>7, ElementOfSeq
  <2> QED
    BY <1>7, <2>1, <2>2 DEF ToSet
<1>10. ToSet(list) = passed
  <2> HIDE DEF passed, list, N
  <2>1. Cardinality(ToSet(list)) = Cardinality(passed)
    BY <1>5, <1>6, <1>7, <1>8, InjectiveSize
  <2> QED
    BY <1>5, <1>9, <2>1, FS_Subset
<1> QED
  BY <1>6, <1>8, <1>10

\* redact meets the values of every passage, and no others.
LEMMA MetAll ==
    ASSUME NEW n \in Nat, NEW texts \in [1 .. n -> Seq(Values)]
    PROVE  /\ Met(texts) \in Seq(Values)
           /\ ToSet(Met(texts)) = UNION {ToSet(texts[i]) : i \in 1 .. n}
<1> DEFINE back == [i \in DOMAIN texts |-> Reverse(texts[i])]
<1>1. ASSUME NEW s \in Seq(Values)
      PROVE  Reverse(s) \in Seq(Values) /\ ToSet(Reverse(s)) = ToSet(s)
  <2>1. DOMAIN s = 1 .. Len(s) /\ Len(s) \in Nat /\ \A i \in 1 .. Len(s) : s[i] \in Values
    BY LenProperties, ElementOfSeq
  <2>2. /\ Reverse(s) \in [1 .. Len(s) -> Values]
        /\ \A i \in 1 .. Len(s) : Reverse(s)[i] = s[(Len(s) - i) + 1]
    BY <2>1 DEF Reverse
  <2>3. \A i \in 1 .. Len(s) : (Len(s) - i) + 1 \in 1 .. Len(s)
    BY <2>1
  <2>4. ASSUME NEW i \in 1 .. Len(s) PROVE s[i] \in ToSet(Reverse(s))
    <3>1. PICK j \in 1 .. Len(s) : j = (Len(s) - i) + 1
      BY <2>3
    <3>2. (Len(s) - j) + 1 = i
      BY <2>1, <3>1
    <3> QED
      BY <2>2, <3>2 DEF ToSet
  <2>5. Reverse(s) \in Seq(Values)
    BY <2>1, <2>2, SeqDef
  <2> QED
    BY <2>1, <2>2, <2>3, <2>4, <2>5 DEF ToSet
<1>2. back \in [1 .. n -> Seq(Values)] /\ \A i \in 1 .. n : back[i] = Reverse(texts[i])
  BY <1>1
<1> HIDE DEF back
<1>3. back \in Seq(Seq(Values)) /\ Len(back) = n
  BY <1>2, SeqDef, LenProperties
<1>4. \A i \in 1 .. n : ToSet(back[i]) = ToSet(texts[i])
  BY <1>1, <1>2
<1>5. Met(texts) = FlattenSeq(back)
  BY Zenon DEF Met, back
<1>6. {ToSet(back[i]) : i \in 1 .. n} = {ToSet(texts[i]) : i \in 1 .. n}
  BY <1>4
<1> QED
  BY <1>3, <1>5, <1>6, Flattened

\* Two values that redact meets have one placeholder if they are one value: a value
\* first met later is after, in its label's numbers, all that were met before it.
LEMMA PlaceholdersDiffer ==
    ASSUME NEW met \in Seq(Values), NEW v \in ToSet(met), NEW w \in ToSet(met)
    PROVE  Placeholder(met, v) = Placeholder(met, w) <=> v = w
<1> DEFINE first(x) == CHOOSE i \in DOMAIN met : met[i] = x /\ \A j \in 1 .. i - 1 : met[j] # x
           Before(x) == {y \in ToSet(met) : LabelOf[y] = LabelOf[x] /\ first(y) < first(x)}
<1>1. DOMAIN met = 1 .. Len(met) /\ Len(met) \in Nat
  BY LenProperties
<1>2. ASSUME NEW x \in ToSet(met) PROVE first(x) \in 1 .. Len(met) /\ met[first(x)] = x
  <2> DEFINE S == {i \in 1 .. Len(met) : met[i] = x}
  <2>1. S \subseteq Nat /\ S # {}
    BY <1>1 DEF ToSet
  <2>2. PICK i \in S : \A y \in S : ~(<<y, i>> \in OpToRel(<, Nat))
    BY <2>1, NatLessThanWellFounded, WFMin
  <2>3. ASSUME NEW j \in 1 .. i - 1 PROVE met[j] # x
    <3> SUFFICES ASSUME met[j] = x PROVE FALSE
      OBVIOUS
    <3>1. j \in S /\ j \in Nat /\ i \in Nat /\ j < i
      BY <1>1
    <3>2. ~(<<j, i>> \in OpToRel(<, Nat))
      BY <2>2, <3>1
    <3> QED
      BY <3>1, <3>2 DEF OpToRel
  <2>4. \E k \in DOMAIN met : met[k] = x /\ \A j \in 1 .. k - 1 : met[j] # x
    BY <1>1, <2>3
  <2>5. first(x) \in DOMAIN met /\ met[first(x)] = x
    BY <2>4
  <2> HIDE DEF first
  <2> QED
    BY <1>1, <2>5
<1>3. IsFiniteSet(ToSet(met))
  <2>1. IsFiniteSet(1 .. Len(met))
    BY <1>1, FS_Interval
  <2>2. met \in Surjection(1 .. Len(met), ToSet(met))
    <3>1. met \in [1 .. Len(met) -> ToSet(met)]
      BY <1>1 DEF ToSet
    <3> QED
      BY <1>1, <3>1 DEF ToSet, Surjection
  <2> QED
    BY <2>1, <2>2, FS_Surjection
<1>4. Number(met, v) = 1 + Cardinality(Before(v)) /\ Number(met, w) = 1 + Cardinality(Before(w))
  BY Zenon DEF Number
<1> HIDE DEF first
<1>5. ASSUME NEW x \in ToSet(met), NEW y \in ToSet(met), LabelOf[x] = LabelOf[y],
             first(x) < first(y)
      PROVE  1 + Cardinality(Before(x)) # 1 + Cardinality(Before(y))
  <2>1. \A z \in ToSet(met) : first(z) \in Nat
    BY <1>1, <1>2
  <2>2. Before(x) \in SUBSET Before(y)
    BY <1>5, <2>1
  <2>3. x \in Before(y) /\ x \notin Before(x)
    BY <1>5, <2>1
  <2>4. Before(y) \in SUBSET ToSet(met)
    OBVIOUS
  <2> HIDE DEF Before
  <2>5. IsFiniteSet(Before(y))
    BY <1>3, <2>4, FS_Subset
  <2>6. /\ IsFiniteSet(Before(x)) /\ Cardinality(Before(x)) <= Cardinality(Before(y))
        /\ Cardinality(Before(y)) = Cardinality(Before(x)) => Before(y) = Before(x)
    BY <2>2, <2>5, FS_Subset
  <2>7. Cardinality(Before(x)) \in Nat /\ Cardinality(Before(y)) \in Nat
    BY <2>5, <2>6, FS_CardinalityType
  <2> QED
    BY <2>3, <2>6, <2>7
<1>6. ASSUME v # w, LabelOf[v] = LabelOf[w] PROVE Number(met, v) # Number(met, w)
  <2>1. first(v) < first(w) \/ first(w) < first(v)
    BY <1>1, <1>2, <1>6
  <2> HIDE DEF Before
  <2> QED
    BY <1>4, <1>5, <1>6, <2>1
<1> QED
  BY <1>6 DEF Placeholder

(***************************************************************************)
(* What a search returns.                                                  *)
(***************************************************************************)

\* Whatever the two arms, the fusion and the cross-encoder come to, a page is a
\* sequence of passages.
LEMMA PageOfPassages ==
    ASSUME NEW semantic, NEW lexical, NEW limit \in Nat, NEW rerank \in BOOLEAN,
           NEW page \in Pages(semantic, lexical, limit, rerank)
    PROVE  page \in Seq(Passages)
<1> DEFINE fetch == Fetch(limit, rerank)
<1>1. PICK fused \in Fused(semantic, lexical) :
         \E order \in Orders(Upto(fused, fetch), rerank) :
            page = _rerank(Upto(fused, fetch), order, limit)
  BY DEF Pages
<1>2. PICK order \in Orders(Upto(fused, fetch), rerank) :
         page = _rerank(Upto(fused, fetch), order, limit)
  BY <1>1
<1> DEFINE rows == Upto(fused, fetch)
<1>3. fused \in Seq(Passages)
  <2>1. Candidates(semantic, lexical) \in SUBSET Passages
    BY DEF Candidates
  <2>2. IsFiniteSet(Candidates(semantic, lexical))
    BY <2>1, RetrievalAssumption, FS_Subset
  <2>3. fused \in SetToSeqs(Candidates(semantic, lexical))
    BY DEF Fused
  <2> QED
    BY <2>1, <2>2, <2>3, OrderIsSeq
<1>4. fetch \in Nat
  BY RetrievalAssumption DEF Fetch, Most
<1>5. rows \in Seq(Passages)
  BY <1>3, <1>4, UptoPage
<1>6. order \in Seq(Passages)
  <2>1. ToSet(rows) \in SUBSET Passages
    BY <1>5, LenProperties, ElementOfSeq DEF ToSet
  <2>2. IsFiniteSet(ToSet(rows))
    BY <2>1, RetrievalAssumption, FS_Subset
  <2>3. CASE order = <<>>
    BY <2>3, EmptySeq
  <2>4. CASE order \in SetToSeqs(ToSet(rows))
    BY <2>1, <2>2, <2>4, OrderIsSeq
  <2> QED
    BY <2>3, <2>4 DEF Orders
<1> HIDE DEF rows
<1> QED
  BY <1>2, <1>5, <1>6, UptoPage DEF _rerank, rows

\* The lists that an index may find: passages, each once.
Lists == {found \in Seq(Passages) : IsInjective(found)}

\* What the scan of the vector index yields is such a list.
LEMMA ScannedIsList ==
    ASSUME NEW ranked \in Lists, NEW embedded \in SUBSET Passages, NEW reach \in Nat
    PROVE  Scanned(ranked, embedded, reach) \in Lists
<1>1. /\ Filtered(ranked, embedded) \in Seq(embedded)
      /\ IsInjective(Filtered(ranked, embedded))
  BY FilterKeeps DEF Lists
<1>2. Filtered(ranked, embedded) \in Seq(Passages)
  BY <1>1, SeqMonotonic
<1> QED
  BY <1>1, <1>2, UptoPage, UptoInjective DEF Scanned, Lists

\* An arm returns of what was found only what is allowed, and all of it unless it is
\* cut at `pool` passages: it filters before it cuts.
LEMMA ArmReturns ==
    ASSUME NEW found \in Lists, NEW allowed \in SUBSET Passages, NEW pool \in Nat
    PROVE  /\ Arm(found, allowed, pool) \in Seq(allowed)
           /\ ToSet(Arm(found, allowed, pool)) \subseteq allowed \cap ToSet(found)
           /\ \/ ToSet(Arm(found, allowed, pool)) = allowed \cap ToSet(found)
              \/ Cardinality(ToSet(Arm(found, allowed, pool))) = pool
<1> DEFINE list == Filtered(found, allowed)
           arm == Upto(list, pool)
<1>1. /\ list \in Seq(allowed) /\ IsInjective(list)
      /\ ToSet(list) = allowed \cap ToSet(found)
  BY FilterKeeps DEF Lists
<1> HIDE DEF list
<1>2. /\ arm \in Seq(allowed) /\ IsInjective(arm) /\ ToSet(arm) \subseteq ToSet(list)
      /\ Len(arm) = Least(pool, Len(list))
      /\ \A i \in 1 .. Least(pool, Len(list)) : arm[i] = list[i]
  BY <1>1, UptoPage, UptoInjective
<1> HIDE DEF arm
<1>3. CASE Len(list) <= pool
  <2>1. DOMAIN list = 1 .. Len(list) /\ DOMAIN arm = 1 .. Len(arm)
    BY <1>1, <1>2, LenProperties
  <2>2. Least(pool, Len(list)) = Len(list)
    <3>1. Len(list) \in Nat
      BY <1>1, LenProperties
    <3> QED
      BY <1>3, <3>1 DEF Least
  <2>3. DOMAIN arm = DOMAIN list /\ \A i \in DOMAIN list : arm[i] = list[i]
    BY <1>2, <2>1, <2>2
  <2>4. ToSet(arm) = ToSet(list)
    BY <2>3 DEF ToSet
  <2> QED
    BY <1>1, <1>2, <2>4 DEF Arm, arm, list
<1>4. CASE ~(Len(list) <= pool)
  <2>1. Len(list) \in Nat
    BY <1>1, LenProperties
  <2>2. Least(pool, Len(list)) = pool
    BY <1>4, <2>1 DEF Least
  <2>3. Cardinality(ToSet(arm)) = pool
    BY <1>2, <2>2, InjectiveSize
  <2> QED
    BY <1>1, <1>2, <2>3 DEF Arm, arm, list
<1> QED
  BY <1>3, <1>4

\* Whatever the indexes find and however the rows are reordered, a page holds as many
\* of the passages found and allowed as there are, up to the limit, each once: the arms
\* filter before they cut, and cut no shorter than the page.
LEMMA PageIsFull ==
    ASSUME NEW allowed \in SUBSET Passages, NEW scanned \in Lists, NEW words \in Lists,
           NEW limit \in 0 .. MAX_CANDIDATES, NEW rerank \in BOOLEAN,
           NEW pool, pool = candidate_pool(Fetch(limit, rerank)),
           NEW page \in Pages(Arm(scanned, allowed, pool), Arm(words, allowed, pool),
                              limit, rerank),
           NEW open, open = allowed \cap (ToSet(scanned) \cup ToSet(words))
    PROVE  /\ ToSet(page) \subseteq open
           /\ IsInjective(page)
           /\ Len(page) = Least(limit, Cardinality(open))
<1> DEFINE fetch == Fetch(limit, rerank)
           semantic == Arm(scanned, allowed, pool)
           lexical == Arm(words, allowed, pool)
           C == Candidates(semantic, lexical)
           size == Cardinality(open)
<1>1. /\ limit \in Nat /\ fetch \in Nat /\ limit <= fetch
      /\ pool \in Nat /\ limit <= pool
  <2>1. /\ limit \in Nat /\ limit <= MAX_CANDIDATES /\ MAX_CANDIDATES \in Nat
        /\ CANDIDATE_MULTIPLIER \in Nat /\ RERANK_CANDIDATES \in Nat
    BY RetrievalAssumption
  <2>2. fetch \in Nat /\ limit <= fetch
    BY <2>1 DEF Fetch, Most
  <2> DEFINE more == fetch * CANDIDATE_MULTIPLIER
  <2>3. more \in Nat
    BY <2>1, <2>2
  <2>4. pool = Least(MAX_CANDIDATES, Most(fetch, more))
    BY DEF candidate_pool
  <2> HIDE DEF fetch, more
  <2> QED
    BY <2>1, <2>2, <2>3, <2>4 DEF Least, Most
<1>2. IsFiniteSet(open) /\ size \in Nat
  <2>1. open \in SUBSET Passages
    OBVIOUS
  <2> QED
    BY <2>1, RetrievalAssumption, FS_Subset, FS_CardinalityType
<1>3. /\ semantic \in Seq(allowed) /\ ToSet(semantic) \subseteq allowed \cap ToSet(scanned)
      /\ \/ ToSet(semantic) = allowed \cap ToSet(scanned)
         \/ Cardinality(ToSet(semantic)) = pool
  BY <1>1, ArmReturns
<1>4. /\ lexical \in Seq(allowed) /\ ToSet(lexical) \subseteq allowed \cap ToSet(words)
      /\ \/ ToSet(lexical) = allowed \cap ToSet(words)
         \/ Cardinality(ToSet(lexical)) = pool
  BY <1>1, ArmReturns
<1> HIDE DEF semantic, lexical
<1>5. ASSUME NEW arm \in Seq(allowed), NEW p \in ToSet(arm) PROVE Rank(arm, p) # 0
  <2>1. Rank(arm, p) \in DOMAIN arm
    BY <1>5 DEF Rank, ToSet
  <2> QED
    BY <2>1, LenProperties
<1>6. C = ToSet(semantic) \cup ToSet(lexical)
  <2>1. ASSUME NEW p \in ToSet(semantic) \cup ToSet(lexical) PROVE p \in C
    BY <1>3, <1>4, <1>5 DEF Candidates
  <2> QED
    BY <2>1 DEF Candidates, Rank
<1>7. C \in SUBSET open
  BY <1>3, <1>4, <1>6
<1> HIDE DEF C
<1>8. /\ IsFiniteSet(C) /\ Cardinality(C) \in Nat
      /\ Least(pool, size) <= Cardinality(C) /\ Cardinality(C) <= size
  <2>1. IsFiniteSet(C) /\ Cardinality(C) <= size /\ Cardinality(C) \in Nat
    BY <1>2, <1>7, FS_Subset, FS_CardinalityType
  <2>2. ASSUME NEW A \in SUBSET C, Cardinality(A) = pool PROVE pool <= Cardinality(C)
    BY <2>1, <2>2, FS_Subset
  <2>3. C = open \/ pool <= Cardinality(C)
    BY <1>3, <1>4, <1>6, <2>2
  <2> HIDE DEF size
  <2>4. C = open => Cardinality(C) = size
    BY DEF size
  <2> QED
    BY <1>1, <1>2, <2>1, <2>3, <2>4 DEF Least
<1>9. PICK fused \in SetToSeqs(C) : \E order \in Orders(Upto(fused, fetch), rerank) :
         page = _rerank(Upto(fused, fetch), order, limit)
  BY DEF Pages, Fused, C, semantic, lexical
<1> DEFINE rows == Upto(fused, fetch)
<1>10. PICK order \in Orders(rows, rerank) : page = _rerank(rows, order, limit)
  BY <1>9
<1> HIDE DEF fetch
<1>11. fused \in Seq(open) /\ IsInjective(fused) /\ Len(fused) = Cardinality(C)
  <2>1. fused \in Seq(C) /\ IsInjective(fused) /\ Len(fused) = Cardinality(C)
    BY <1>8, OrderHasAll
  <2> QED
    BY <1>7, <2>1, SeqMonotonic
<1>12. rows \in Seq(open) /\ IsInjective(rows) /\ Len(rows) = Least(fetch, Cardinality(C))
  BY <1>1, <1>11, UptoPage, UptoInjective
<1> HIDE DEF rows
<1> DEFINE listed == IF order = <<>> THEN rows ELSE order
<1>13. /\ listed \in Seq(open) /\ IsInjective(listed)
       /\ Len(listed) = Least(fetch, Cardinality(C))
  <2>1. CASE order = <<>>
    BY <1>12, <2>1
  <2>2. CASE order \in SetToSeqs(ToSet(rows)) /\ order # <<>>
    <3>1. IsFiniteSet(ToSet(rows)) /\ Cardinality(ToSet(rows)) = Len(rows)
      BY <1>12, InjectiveSize
    <3>2. order \in Seq(ToSet(rows)) /\ IsInjective(order) /\ Len(order) = Len(rows)
      BY <2>2, <3>1, OrderHasAll
    <3>3. ToSet(rows) \subseteq open
      BY <1>12, LenProperties, ElementOfSeq DEF ToSet
    <3>4. order \in Seq(open)
      BY <3>2, <3>3, SeqMonotonic
    <3> QED
      BY <1>12, <2>2, <3>2, <3>4
  <2> QED
    BY <2>1, <2>2 DEF Orders
<1>14. page = Upto(listed, limit)
  BY <1>10 DEF _rerank
<1> HIDE DEF listed
<1>15. page \in Seq(open) /\ IsInjective(page) /\ Len(page) = Least(limit, Len(listed))
  BY <1>1, <1>13, <1>14, UptoPage, UptoInjective
<1>16. Least(limit, Len(listed)) = Least(limit, size)
  <2> HIDE DEF size
  <2> QED
    BY <1>1, <1>2, <1>8, <1>13 DEF Least
<1> QED
  BY <1>15, <1>16, LenProperties, ElementOfSeq DEF ToSet

(***************************************************************************)
(* A request.                                                              *)
(***************************************************************************)
Tiers == {"PUBLIC", "RESTRICTED", None}

\* What the steps of a request rely on: the fields are there, the page is a
\* sequence of passages, and nothing is in the prompt before the boundary.
RequestInv ==
    /\ DOMAIN req = DOMAIN NoRequest
    /\ req.limit \in Nat
    /\ req.results \in Seq(Passages)
    /\ req.pc \notin {"sent", "done"} => req.prompt = <<>>
    /\ req.pc # "done" => req.cited = {}

\* The tiers that the boundary decides by were read after the search, each from
\* its own passage's document.
TiersInv ==
    /\ At("found") => PublicNow \subseteq publicAt
    /\ At("tiers") =>
          /\ req.tiers \in Seq(Tiers)
          /\ Len(req.tiers) = Len(req.results)
          /\ \A i \in 1 .. Len(req.results) :
                req.tiers[i] = "PUBLIC" => DocOf[req.results[i]] \in publicAt

\* What the model reads at each number is the passage shown for that number.
ReadAsShown(n) ==
    LET read == req.bodies[n]
        shown == ValuesIn[req.prompt[n]]
    IN  /\ req.prompt[n] \in ToSet(req.results)
        /\ IF "redact" \in settings
               THEN [k \in DOMAIN read |-> read[k][1]] = [k \in DOMAIN shown |-> LabelOf[shown[k]]]
               ELSE read = shown

PromptInv ==
    /\ NothingRestrictedSent
    /\ \A n \in DOMAIN req.prompt : ReadAsShown(n)
    /\ \A c \in req.cited : \E n \in DOMAIN req.prompt : c = Cited(n)

AskInv == RequestInv /\ TiersInv /\ PromptInv

\* A reclassification in the middle leaves the request alone, and counts for it
\* until the tiers are read.
LEMMA ApiStepKeeps == AskInv /\ ApiStep => AskInv'
<1> SUFFICES ASSUME AskInv, ApiStep PROVE AskInv'
  OBVIOUS
<1>1. /\ UNCHANGED <<settings, req>>
      /\ publicAt \subseteq publicAt'
      /\ At("found") => PublicNow' \subseteq publicAt'
  BY DEF ApiStep, At
<1>2. RequestInv'
  BY <1>1 DEF AskInv, RequestInv, At
<1>3. TiersInv'
  BY <1>1 DEF AskInv, TiersInv, At
<1>4. PromptInv'
  BY <1>1 DEF AskInv, PromptInv, NothingRestrictedSent, ReadAsShown, Cited, Asked
<1> QED
  BY <1>2, <1>3, <1>4 DEF AskInv

\* What the one statement of a search finds: a page made from two arms over what the
\* caller may see, of lists that the two indexes found.
LEMMA SearchFinds ==
    search => \E scanned \in Lists, words \in Lists : \E allowed, pool, grounded :
                 /\ allowed = _visible(req.user, req.scope)
                 /\ seen' = allowed \cap (ToSet(scanned) \cup ToSet(words))
                 /\ pool = candidate_pool(Fetch(req.limit, reranker))
                 /\ \E results \in Pages(Arm(scanned, allowed, pool), Arm(words, allowed, pool),
                                         req.limit, reranker) :
                       req' = [req EXCEPT !.pc = "found", !.results = results,
                                          !.grounded = grounded]
<1> DEFINE allowed == _visible(req.user, req.scope)
           pool == candidate_pool(Fetch(req.limit, reranker))
           Found(scanned, words, semantic, lexical, near, literal) ==
               /\ seen' = allowed \cap (ToSet(scanned) \cup ToSet(words))
               /\ \E results \in Pages(semantic, lexical, req.limit, reranker) :
                     req' = [req EXCEPT !.pc = "found", !.results = results,
                                        !.grounded = assess(results, near, literal, lexical)]
           Goal(scanned, words, grounded) ==
               /\ seen' = allowed \cap (ToSet(scanned) \cup ToSet(words))
               /\ \E results \in Pages(Arm(scanned, allowed, pool), Arm(words, allowed, pool),
                                       req.limit, reranker) :
                     req' = [req EXCEPT !.pc = "found", !.results = results,
                                        !.grounded = grounded]
<1> SUFFICES ASSUME search
             PROVE  \E scanned \in Lists, words \in Lists : \E grounded :
                       Goal(scanned, words, grounded)
  OBVIOUS
<1>1. PICK ranked \in Semantic, embedded \in Embedded, reach \in Reaches, words \in Lexical,
           nearest \in 0 .. MAX_CANDIDATES, all \in BOOLEAN :
         Found(Scanned(ranked, embedded, reach), words,
               Arm(Scanned(ranked, embedded, reach), allowed, pool), Arm(words, allowed, pool),
               ToSet(Upto(Arm(Scanned(ranked, embedded, reach), allowed, pool), nearest)),
               IF all THEN ToSet(words) ELSE {})
  BY Zenon DEF search
<1>2. ASSUME NEW scanned, NEW lexical, NEW near, NEW literal,
             Found(scanned, lexical, Arm(scanned, allowed, pool), Arm(lexical, allowed, pool),
                   near, literal)
      PROVE  \E grounded : Goal(scanned, lexical, grounded)
  BY <1>2
<1> HIDE DEF Found, Goal
<1>3. PICK grounded : Goal(Scanned(ranked, embedded, reach), words, grounded)
  BY <1>1, <1>2
<1>4. /\ ranked \in Lists /\ words \in Lists
      /\ embedded \in SUBSET Passages /\ reach \in Nat
  BY AskAssumption DEF Lists
<1>5. Scanned(ranked, embedded, reach) \in Lists
  BY <1>4, ScannedIsList
<1> QED
  BY <1>3, <1>4, <1>5

\* The search takes PublicNow in the state in which it reads.
LEMMA SearchKeeps == AskInv /\ search => AskInv'
<1> SUFFICES ASSUME AskInv, search PROVE AskInv'
  OBVIOUS
<1>1. PICK semantic, lexical, grounded :
         \E results \in Pages(semantic, lexical, req.limit, reranker) :
            req' = [req EXCEPT !.pc = "found", !.results = results, !.grounded = grounded]
  BY SearchFinds
<1>2. PICK results :
         /\ results \in Seq(Passages)
         /\ req' = [req EXCEPT !.pc = "found", !.results = results, !.grounded = grounded]
  BY <1>1, PageOfPassages DEF AskInv, RequestInv, reranker
<1>3. /\ DOMAIN req' = DOMAIN req
      /\ req'.pc = "found" /\ req'.results = results /\ req'.limit = req.limit
      /\ req'.prompt = req.prompt /\ req'.cited = req.cited
  BY <1>2 DEF AskInv, RequestInv, NoRequest
<1>4. req.prompt = <<>> /\ req.cited = {}
  BY DEF search, At, AskInv, RequestInv
<1>5. RequestInv'
  BY <1>2, <1>3, <1>4 DEF AskInv, RequestInv
<1>6. TiersInv'
  BY <1>3 DEF search, TiersInv, At, PublicNow, accessVars
<1>7. PromptInv'
  BY <1>3, <1>4 DEF PromptInv, NothingRestrictedSent, Asked
<1> QED
  BY <1>5, <1>6, <1>7 DEF AskInv

\* A tier read as PUBLIC is that of a document that is PUBLIC now.
LEMMA TiersKeep == AccessInv /\ AskInv /\ ask_tiers => AskInv'
<1> SUFFICES ASSUME AccessInv, AskInv, ask_tiers PROVE AskInv'
  OBVIOUS
<1> DEFINE n == Len(req.results)
<1>1. req.results \in Seq(Passages) /\ n \in Nat /\ DOMAIN req.results = 1 .. n
  BY LenProperties DEF AskInv, RequestInv
<1>2. \A i \in 1 .. n : req.results[i] \in Passages /\ DocOf[req.results[i]] \in Docs
  BY <1>1, ElementOfSeq, AskAssumption
<1>3. _tiers_for \in [1 .. n -> Tiers]
  BY <1>1, <1>2 DEF _tiers_for, AccessInv, DocRow, Tiers
<1>4. _tiers_for \in Seq(Tiers) /\ Len(_tiers_for) = n
  BY <1>1, <1>3, SeqDef, LenProperties
<1>5. /\ DOMAIN req' = DOMAIN req
      /\ req'.pc = "tiers" /\ req'.results = req.results /\ req'.limit = req.limit
      /\ req'.prompt = req.prompt /\ req'.cited = req.cited /\ req'.tiers = _tiers_for
  BY DEF ask_tiers, AskInv, RequestInv, NoRequest
<1>6. req.prompt = <<>> /\ req.cited = {} /\ req.pc = "found"
  BY DEF ask_tiers, At, AskInv, RequestInv
<1>7. \A i \in 1 .. n : _tiers_for[i] = "PUBLIC" => DocOf[req.results[i]] \in publicAt
  BY <1>1, <1>2, <1>6 DEF _tiers_for, AskInv, TiersInv, At, PublicNow
<1>8. RequestInv'
  BY <1>5, <1>6 DEF AskInv, RequestInv
<1>9. TiersInv'
  BY <1>4, <1>5, <1>7 DEF ask_tiers, TiersInv, At
<1>10. PromptInv'
  BY <1>5, <1>6 DEF PromptInv, NothingRestrictedSent, Asked
<1> QED
  BY <1>8, <1>9, <1>10 DEF AskInv

\* The boundary's indices lead from the prompt back to the page, and the tier at
\* each of them is that of the passage sent.
LEMMA SentFromPage ==
    ASSUME AskInv, At("tiers")
    PROVE  /\ usable \in Seq(Passages)
           /\ kept \in Seq(1 .. Len(usable))
           /\ \A k \in DOMAIN kept :
                 /\ kept[k] \in 1 .. Len(req.results)
                 /\ usable[kept[k]] = req.results[kept[k]]
                 /\ usable[kept[k]] \in ToSet(req.results)
                 /\ Crosses(req.tiers[kept[k]], "include_restricted" \in settings)
<1>1. /\ req.results \in Seq(Passages) /\ req.tiers \in Seq(Tiers)
      /\ Len(req.tiers) = Len(req.results) /\ Len(req.results) \in Nat
  BY LenProperties DEF AskInv, RequestInv, TiersInv
<1>2. /\ usable \in Seq(Passages) /\ Len(usable) = Least(MaxPassages, Len(req.results))
      /\ \A i \in 1 .. Len(usable) : usable[i] = req.results[i]
  <2>1. MaxPassages \in Nat
    BY AskAssumption
  <2> QED
    BY <1>1, <2>1, UptoPage DEF usable
<1>3. Len(usable) \in Nat /\ Len(usable) <= Len(req.results)
  BY <1>1, <1>2, AskAssumption DEF Least
<1>4. /\ supplied \in Seq(Tiers) /\ Len(supplied) = Len(usable)
      /\ \A i \in 1 .. Len(usable) : supplied[i] = req.tiers[i]
  <2>1. Least(Len(usable), Len(req.tiers)) = Len(usable)
    BY <1>1, <1>3 DEF Least
  <2> QED
    BY <1>1, <1>3, <2>1, UptoPage DEF supplied
<1>5. /\ kept \in Seq(1 .. Len(usable))
      /\ \A k \in DOMAIN kept : Crosses(supplied[kept[k]], "include_restricted" \in settings)
  <2>1. ("include_restricted" \in settings) \in BOOLEAN
    OBVIOUS
  <2> QED
    BY <1>4, <2>1, KeptCross DEF kept
<1>6. \A k \in DOMAIN kept : kept[k] \in 1 .. Len(usable)
  BY <1>5, LenProperties, ElementOfSeq
<1>7. DOMAIN req.results = 1 .. Len(req.results)
  BY <1>1, LenProperties
<1>8. \A i \in 1 .. Len(req.results) : req.results[i] \in ToSet(req.results)
  BY <1>7 DEF ToSet
<1>9. ASSUME NEW k \in DOMAIN kept
      PROVE  /\ kept[k] \in 1 .. Len(req.results)
             /\ usable[kept[k]] = req.results[kept[k]]
             /\ usable[kept[k]] \in ToSet(req.results)
             /\ Crosses(req.tiers[kept[k]], "include_restricted" \in settings)
  <2>1. kept[k] \in 1 .. Len(usable) /\ kept[k] \in 1 .. Len(req.results)
    BY <1>1, <1>3, <1>6
  <2>2. Crosses(supplied[kept[k]], "include_restricted" \in settings)
    BY <1>5
  <2>3. supplied[kept[k]] = req.tiers[kept[k]]
    BY <1>4, <2>1
  <2> QED
    BY <1>2, <1>8, <2>1, <2>2, <2>3
<1> QED
  BY <1>2, <1>5, <1>9

\* The call: what goes out is PUBLIC, and reads under each number as it is shown.
LEMMA SendKeeps == AskInv /\ send => AskInv'
<1> SUFFICES ASSUME AskInv, send PROVE AskInv'
  OBVIOUS
<1> DEFINE texts == [i \in DOMAIN kept |-> ValuesIn[usable[kept[i]]]]
<1>1. At("tiers")
  BY DEF send
<1>2. /\ UNCHANGED <<settings, publicAt>>
      /\ DOMAIN req' = DOMAIN req /\ req'.pc = "sent" /\ req'.limit = req.limit
      /\ req'.results = req.results /\ req'.cited = req.cited
      /\ req'.prompt = Sent(kept)
      /\ req'.bodies = IF "redact" \in settings THEN redact(texts) ELSE texts
  BY DEF send, AskInv, RequestInv, NoRequest
<1>3. req.cited = {}
  BY <1>1 DEF AskInv, RequestInv, At
<1>4. Sent(kept) = [k \in DOMAIN kept |-> usable[kept[k]]]
  BY DEF Sent
<1>5. RequestInv'
  BY <1>2, <1>3 DEF AskInv, RequestInv
<1>6. TiersInv'
  BY <1>2 DEF TiersInv, At
<1>7. NothingRestrictedSent'
  <2> SUFFICES ASSUME "include_restricted" \notin settings, NEW p \in ToSet(Sent(kept))
               PROVE  DocOf[p] \in publicAt
    BY <1>2 DEF NothingRestrictedSent
  <2>1. PICK k \in DOMAIN kept : p = usable[kept[k]]
    BY <1>4 DEF ToSet
  <2>2. /\ kept[k] \in 1 .. Len(req.results) /\ p = req.results[kept[k]]
        /\ req.tiers[kept[k]] = "PUBLIC"
    BY <1>1, <2>1, SentFromPage DEF Crosses
  <2> QED
    BY <1>1, <2>2 DEF AskInv, TiersInv
<1>8. ASSUME NEW n \in DOMAIN req'.prompt PROVE ReadAsShown(n)'
  <2>1. n \in DOMAIN kept /\ req'.prompt[n] = usable[kept[n]]
    BY <1>2, <1>4
  <2>2. req'.prompt[n] \in ToSet(req'.results)
    BY <1>1, <1>2, <2>1, SentFromPage
  <2> DEFINE shown == ValuesIn[usable[kept[n]]]
  <2>3. DOMAIN texts = DOMAIN kept /\ texts[n] = shown
    BY <2>1
  <2>4. CASE "redact" \in settings
    <3>1. req'.bodies[n] = [k \in DOMAIN shown |-> Placeholder(Met(texts), shown[k])]
      <4> HIDE DEF texts, shown
      <4> QED
        BY <1>2, <2>1, <2>3, <2>4 DEF redact
    <3>2. \A v : Placeholder(Met(texts), v)[1] = LabelOf[v]
      BY DEF Placeholder
    <3>3. [k \in DOMAIN req'.bodies[n] |-> req'.bodies[n][k][1]]
             = [k \in DOMAIN shown |-> LabelOf[shown[k]]]
      <4> HIDE DEF texts, shown
      <4> QED
        BY <3>1, <3>2
    <3> QED
      BY <1>2, <2>1, <2>2, <2>4, <3>3 DEF ReadAsShown
  <2>5. CASE "redact" \notin settings
    <3>1. req'.bodies[n] = shown
      BY <1>2, <2>3, <2>5
    <3> QED
      BY <1>2, <2>1, <2>2, <2>5, <3>1 DEF ReadAsShown
  <2> QED
    BY <2>4, <2>5
<1>9. PromptInv'
  BY <1>2, <1>3, <1>7, <1>8 DEF PromptInv
<1> QED
  BY <1>5, <1>6, <1>9 DEF AskInv

\* The answer: a marker that names no passage of the prompt is no citation.
LEMMA CompletesKeeps == AskInv /\ completes => AskInv'
<1> SUFFICES ASSUME AskInv, completes PROVE AskInv'
  OBVIOUS
<1>1. PICK given, invalid :
         /\ given \in SUBSET DOMAIN req.prompt
         /\ req' = [req EXCEPT !.pc = "done", !.reply = req.prompt,
                               !.cited = {Cited(n) : n \in given}, !.invalid = invalid]
  BY DEF completes
<1>2. /\ UNCHANGED <<settings, publicAt>>
      /\ DOMAIN req' = DOMAIN req /\ req'.pc = "done" /\ req'.limit = req.limit
      /\ req'.results = req.results /\ req'.prompt = req.prompt /\ req'.bodies = req.bodies
      /\ req'.cited = {Cited(n) : n \in given}
  BY <1>1 DEF completes, AskInv, RequestInv, NoRequest
<1>3. RequestInv'
  BY <1>2 DEF AskInv, RequestInv
<1>4. TiersInv'
  BY <1>2 DEF TiersInv, At
<1>5. \A c \in req'.cited : \E n \in DOMAIN req'.prompt : c = Cited(n)'
  BY <1>1, <1>2 DEF Cited
<1>6. PromptInv'
  BY <1>2, <1>5 DEF AskInv, PromptInv, NothingRestrictedSent, Asked, ReadAsShown
<1> QED
  BY <1>3, <1>4, <1>6 DEF AskInv

\* The steps that only end a request, or begin one.
LEMMA OthersKeep ==
    ASSUME AskInv,
           \/ \E u \in Users, q \in Questions : ask(u, q[1], q[2])
           \/ get_reranker \/ semantic_search \/ refuses \/ generation_fails \/ forgets
           \/ UNCHANGED vars
    PROVE  AskInv'
<1>1. ASSUME NEW u \in Users, NEW q \in Questions, ask(u, q[1], q[2]) PROVE AskInv'
  <2>1. q[1] \in Nat
    BY AskAssumption
  <2>2. /\ DOMAIN req' = DOMAIN NoRequest /\ req'.pc = "search" /\ req'.limit = q[1]
        /\ req'.results = <<>> /\ req'.prompt = <<>> /\ req'.cited = {}
    BY <1>1 DEF ask, NoRequest
  <2> QED
    BY <2>1, <2>2, EmptySeq DEF AskInv, RequestInv, TiersInv, PromptInv, NothingRestrictedSent,
       Asked, At
<1>2. CASE get_reranker
  BY <1>2 DEF get_reranker, AskInv, RequestInv, TiersInv, PromptInv, NothingRestrictedSent, Asked,
     At, ReadAsShown, Cited
<1>3. CASE semantic_search \/ refuses \/ generation_fails
  <2>1. /\ UNCHANGED <<settings, publicAt>>
        /\ DOMAIN req' = DOMAIN req /\ req'.pc = "done" /\ req'.limit = req.limit
        /\ req'.results = req.results /\ req'.prompt = req.prompt /\ req'.bodies = req.bodies
        /\ req'.cited = req.cited
    BY <1>3 DEF semantic_search, refuses, generation_fails, AskInv, RequestInv, NoRequest
  <2> QED
    BY <2>1 DEF AskInv, RequestInv, TiersInv, PromptInv, NothingRestrictedSent, Asked, At,
       ReadAsShown, Cited
<1>4. CASE forgets
  BY <1>4, EmptySeq DEF forgets, NoRequest, AskInv, RequestInv, TiersInv, PromptInv,
     NothingRestrictedSent, Asked, At
<1>5. CASE UNCHANGED vars
  BY <1>5 DEF vars, accessVars, reqVars, AskInv, RequestInv, TiersInv, PromptInv,
     NothingRestrictedSent, Asked, At, PublicNow, ReadAsShown, Cited
<1> QED
  BY <1>1, <1>2, <1>3, <1>4, <1>5

\* What a request holds agrees with what it has read, at all times.
LEMMA AskInvariant == Spec => []AskInv
<1>1. Init => AskInv
  BY EmptySeq DEF Init, NoRequest, AskInv, RequestInv, TiersInv, PromptInv, NothingRestrictedSent,
     Asked, At
<1>2. AccessInv /\ AskInv /\ [Next]_vars => AskInv'
  BY ApiStepKeeps, SearchKeeps, TiersKeep, SendKeeps, CompletesKeeps, OthersKeep DEF Next
<1> QED
  BY <1>1, <1>2, AccessInvariant, PTL DEF Spec

\* Whatever is reclassified, hidden, restored or erased between the search and the
\* call, gateway/service.py sends no passage of a document that was not PUBLIC in
\* between, for any number of documents, passages and users, any ranking, any
\* limits and any deployment that does not send everything.
THEOREM NothingRestrictedSentHolds == Spec => []NothingRestrictedSent
<1>1. AskInv => NothingRestrictedSent
  BY DEF AskInv, PromptInv
<1> QED
  BY <1>1, AskInvariant, PTL

\* Whatever the boundary drops and the model marks, what generation/service.py
\* cites under a number is the passage the model read under it.
THEOREM CitationsCheckOutHolds == Spec => []CitationsCheckOut
<1>1. AskInv => CitationsCheckOut
  <2> SUFFICES ASSUME AskInv, NEW c \in req.cited
               PROVE  LET read == req.bodies[c.marker]
                          shown == ValuesIn[c.passage]
                      IN  /\ c.passage \in ToSet(req.results)
                          /\ IF "redact" \in settings
                                 THEN [k \in DOMAIN read |-> read[k][1]]
                                        = [k \in DOMAIN shown |-> LabelOf[shown[k]]]
                                 ELSE read = shown
    BY DEF CitationsCheckOut
  <2>1. PICK n \in DOMAIN req.prompt : c = Cited(n)
    BY DEF AskInv, PromptInv
  <2>2. c.marker = n /\ c.passage = req.prompt[n]
    BY <2>1 DEF Cited
  <2>3. ReadAsShown(n)
    BY DEF AskInv, PromptInv
  <2> QED
    BY <2>2, <2>3 DEF ReadAsShown
<1> QED
  BY <1>1, AskInvariant, PTL

(***************************************************************************)
(* The prompt and what is said of it.                                      *)
(***************************************************************************)

\* What the boundary hands over for kept passages: the texts, one for each index.
LEMMA TextsSent ==
    ASSUME AskInv, At("tiers"),
           NEW texts, texts = [i \in DOMAIN kept |-> ValuesIn[usable[kept[i]]]]
    PROVE  /\ Len(kept) \in Nat /\ DOMAIN kept = 1 .. Len(kept)
           /\ texts \in [1 .. Len(kept) -> Seq(Values)] /\ Len(texts) = Len(kept)
           /\ Sent(kept) \in [1 .. Len(kept) -> Passages] /\ Len(Sent(kept)) = Len(kept)
           /\ \A i \in 1 .. Len(kept) : texts[i] = ValuesIn[Sent(kept)[i]]
<1>1. DOMAIN kept = 1 .. Len(kept) /\ Len(kept) \in Nat
  BY SentFromPage, LenProperties
<1>2. \A i \in 1 .. Len(kept) : kept[i] \in 1 .. Len(usable)
  BY <1>1, SentFromPage, ElementOfSeq
<1>3. \A i \in 1 .. Len(kept) : usable[kept[i]] \in Passages
  BY <1>2, SentFromPage, ElementOfSeq
<1>4. \A i \in 1 .. Len(kept) : ValuesIn[usable[kept[i]]] \in Seq(Values)
  BY <1>3, AskAssumption
<1>5. texts \in [1 .. Len(kept) -> Seq(Values)]
  BY <1>1, <1>4
<1>6. Sent(kept) \in [1 .. Len(kept) -> Passages]
  BY <1>1, <1>3 DEF Sent
<1>7. \A i \in 1 .. Len(kept) : texts[i] = ValuesIn[Sent(kept)[i]]
  BY <1>1 DEF Sent
<1>8. Len(texts) = Len(kept) /\ Len(Sent(kept)) = Len(kept)
  <2>1. texts \in Seq(Seq(Values)) /\ Sent(kept) \in Seq(Passages)
    BY <1>1, <1>5, <1>6, SeqDef
  <2> QED
    BY <1>1, <1>5, <1>6, <2>1, LenProperties
<1> QED
  BY <1>1, <1>5, <1>6, <1>7, <1>8

\* What a step other than the call does to the prompt and its record: nothing, or
\* there is no prompt.
Unsent ==
    \/ req'.prompt = <<>>
    \/ /\ UNCHANGED settings
       /\ publicAt \subseteq publicAt'
       /\ req'.prompt = req.prompt /\ req'.bodies = req.bodies /\ req'.record = req.record

\* Only send writes a prompt.
LEMMA OnlySend == AskInv /\ [Next]_vars => send \/ Unsent
<1> SUFFICES ASSUME AskInv, [Next]_vars PROVE send \/ Unsent
  OBVIOUS
<1>1. ASSUME NEW u \in Users, NEW q \in Questions, ask(u, q[1], q[2]) PROVE Unsent
  BY <1>1 DEF ask, NoRequest, Unsent
<1>2. CASE get_reranker
  BY <1>2 DEF get_reranker, Unsent
<1>3. CASE search
  <2>1. req.prompt = <<>>
    BY <1>3 DEF search, At, AskInv, RequestInv
  <2>2. \E results, grounded :
           req' = [req EXCEPT !.pc = "found", !.results = results, !.grounded = grounded]
    BY <1>3, SearchFinds
  <2>3. req'.prompt = req.prompt
    BY <2>2 DEF AskInv, RequestInv, NoRequest
  <2> QED
    BY <2>1, <2>3 DEF Unsent
<1>4. CASE semantic_search \/ refuses \/ generation_fails
  BY <1>4 DEF semantic_search, refuses, generation_fails, Unsent, AskInv, RequestInv, NoRequest
<1>5. CASE ask_tiers
  BY <1>5 DEF ask_tiers, Unsent, AskInv, RequestInv, NoRequest
<1>6. CASE completes
  <2>1. PICK given, invalid :
           req' = [req EXCEPT !.pc = "done", !.reply = req.prompt,
                              !.cited = {Cited(n) : n \in given}, !.invalid = invalid]
    BY <1>6 DEF completes
  <2> QED
    BY <1>6, <2>1 DEF completes, Unsent, AskInv, RequestInv, NoRequest
<1>7. CASE forgets
  BY <1>7 DEF forgets, NoRequest, Unsent
<1>8. CASE ApiStep
  BY <1>8 DEF ApiStep, Unsent
<1>9. CASE UNCHANGED vars
  BY <1>9 DEF vars, reqVars, Unsent
<1> QED
  BY <1>1, <1>2, <1>3, <1>4, <1>5, <1>6, <1>7, <1>8, <1>9 DEF Next

HonestInv == SamePlaceholder /\ RecordIsHonest

\* What is not sent anew stays as it was described.
LEMMA UnsentStaysHonest == HonestInv /\ Unsent => HonestInv'
<1> SUFFICES ASSUME HonestInv, Unsent PROVE HonestInv'
  OBVIOUS
<1>1. CASE req'.prompt = <<>>
  BY <1>1 DEF HonestInv, SamePlaceholder, RecordIsHonest, Asked
<1>2. CASE /\ UNCHANGED settings
           /\ publicAt \subseteq publicAt'
           /\ req'.prompt = req.prompt /\ req'.bodies = req.bodies /\ req'.record = req.record
  <2>1. SamePlaceholder'
    BY <1>2 DEF HonestInv, SamePlaceholder, Asked
  <2>2. RecordIsHonest'
    BY <1>2 DEF HonestInv, RecordIsHonest, Asked
  <2> QED
    BY <2>1, <2>2 DEF HonestInv
<1> QED
  BY <1>1, <1>2 DEF Unsent

\* The call: numbering is shared across the passages, and the record is of them.
LEMMA SendIsHonest == AskInv /\ send => HonestInv'
<1> SUFFICES ASSUME AskInv, send PROVE HonestInv'
  OBVIOUS
<1> DEFINE texts == [i \in DOMAIN kept |-> ValuesIn[usable[kept[i]]]]
           n == Len(kept)
           redacts == "redact" \in settings
           tiers == [i \in DOMAIN kept |-> supplied[kept[i]]]
<1>1. At("tiers")
  BY DEF send
<1>2. /\ UNCHANGED <<settings, publicAt>>
      /\ req'.prompt = Sent(kept)
      /\ req'.bodies = IF redacts THEN redact(texts) ELSE texts
      /\ req'.record.tier = classify(tiers)
      /\ req'.record.considered = Len(usable)
      /\ req'.record.sent = Len(texts)
      /\ req'.record.withheld = Len(usable) - n
      /\ req'.record.masked = IF redacts THEN Masked(texts) ELSE <<>>
  BY DEF send, AskInv, RequestInv, NoRequest
<1>3. /\ n \in Nat /\ DOMAIN kept = 1 .. n
      /\ texts \in [1 .. n -> Seq(Values)] /\ Len(texts) = n
      /\ Sent(kept) \in [1 .. n -> Passages] /\ Len(Sent(kept)) = n
      /\ \A i \in 1 .. n : texts[i] = ValuesIn[Sent(kept)[i]]
  BY <1>1, TextsSent
<1> HIDE DEF texts
<1>4. /\ Met(texts) \in Seq(Values)
      /\ ToSet(Met(texts)) = UNION {ToSet(texts[i]) : i \in 1 .. n}
  BY <1>3, MetAll
<1>5. SamePlaceholder'
  <2> SUFFICES ASSUME redacts, NEW i \in 1 .. n, NEW j \in 1 .. n,
                      NEW k \in DOMAIN texts[i], NEW l \in DOMAIN texts[j]
               PROVE  req'.bodies[i][k] = req'.bodies[j][l] <=> texts[i][k] = texts[j][l]
    BY <1>2, <1>3 DEF SamePlaceholder
  <2>1. \A m \in 1 .. n : \A o \in DOMAIN texts[m] :
           req'.bodies[m][o] = Placeholder(Met(texts), texts[m][o])
    BY <1>2, <1>3 DEF redact
  <2>2. \A m \in 1 .. n : \A o \in DOMAIN texts[m] : texts[m][o] \in ToSet(Met(texts))
    <3>1. \A m \in 1 .. n : \A o \in DOMAIN texts[m] : texts[m][o] \in ToSet(texts[m])
      BY DEF ToSet
    <3> QED
      BY <1>4, <3>1
  <2> QED
    BY <1>4, <2>1, <2>2, PlaceholdersDiffer
<1>6. classify(tiers) = "PUBLIC" => {DocOf[p] : p \in ToSet(Sent(kept))} \subseteq publicAt
  <2> SUFFICES ASSUME \A i \in DOMAIN kept : supplied[kept[i]] = "PUBLIC",
                      NEW i \in DOMAIN kept
               PROVE  DocOf[usable[kept[i]]] \in publicAt
    BY DEF classify, Sent, ToSet
  <2>1. /\ kept[i] \in 1 .. Len(req.results)
        /\ usable[kept[i]] = req.results[kept[i]]
    BY <1>1, SentFromPage
  <2>2. req.tiers[kept[i]] = "PUBLIC"
    <3>1. kept[i] \in 1 .. Len(usable) /\ Len(usable) \in Nat
      BY <1>1, SentFromPage, ElementOfSeq, LenProperties
    <3>2. req.tiers \in Seq(Tiers)
      BY <1>1 DEF AskInv, TiersInv
    <3>3. supplied[kept[i]] = req.tiers[kept[i]]
      <4>1. kept[i] <= Len(req.tiers) /\ Len(req.tiers) \in Nat
        BY <1>1, <2>1, <3>2, LenProperties DEF AskInv, RequestInv, TiersInv
      <4>2. kept[i] \in 1 .. Least(Len(usable), Len(req.tiers))
        BY <3>1, <4>1 DEF Least
      <4> QED
        BY <3>1, <3>2, <4>2, UptoPage DEF supplied
    <3> QED
      BY <3>3
  <2> QED
    BY <1>1, <2>1, <2>2 DEF AskInv, TiersInv
<1>7. ASSUME redacts
      PROVE  LET gone == UNION {ToSet(ValuesIn[p]) : p \in ToSet(Sent(kept))}
             IN  \A label \in {LabelOf[v] : v \in gone} :
                     Masked(texts)[label] = Cardinality({v \in gone : LabelOf[v] = label})
  <2> DEFINE gone == UNION {ToSet(ValuesIn[p]) : p \in ToSet(Sent(kept))}
  <2>1. gone = ToSet(Met(texts))
    <3>1. ToSet(Sent(kept)) = {Sent(kept)[i] : i \in 1 .. n}
      BY <1>3 DEF ToSet
    <3>2. gone = UNION {ToSet(texts[i]) : i \in 1 .. n}
      BY <1>3, <3>1
    <3> QED
      BY <1>4, <3>2
  <2> HIDE DEF gone
  <2>2. \A label \in {LabelOf[v] : v \in gone} :
           Masked(texts)[label] = Cardinality({v \in gone : LabelOf[v] = label})
    BY <2>1 DEF Masked
  <2> QED
    BY <2>2 DEF gone
<1>8. RecordIsHonest'
  <2>1. Len(usable) \in Nat
    BY <1>1, SentFromPage, LenProperties
  <2>2. req'.record.considered = req'.record.sent + req'.record.withheld
    BY <1>2, <1>3, <2>1
  <2>3. req'.record.sent = Len(req'.prompt)
    BY <1>2, <1>3
  <2> HIDE DEF tiers
  <2> QED
    BY <1>2, <1>6, <1>7, <2>2, <2>3 DEF RecordIsHonest
<1> QED
  BY <1>5, <1>8 DEF HonestInv

\* The prompt and what is said of it stay true to each other, at all times.
LEMMA HonestInvariant == Spec => []HonestInv
<1>1. Init => HonestInv
  BY DEF Init, NoRequest, HonestInv, SamePlaceholder, RecordIsHonest, Asked
<1>2. AskInv /\ HonestInv /\ [Next]_vars => HonestInv'
  BY OnlySend, UnsentStaysHonest, SendIsHonest
<1> QED
  BY <1>1, <1>2, AskInvariant, PTL DEF Spec

\* Wherever two values stand in what gateway/service.py redacts, "<PHONE_1> in all
\* three", they have one placeholder if and only if they are one value: for any values,
\* any labels and any passages.
THEOREM SamePlaceholderHolds == Spec => []SamePlaceholder
<1>1. HonestInv => SamePlaceholder
  BY DEF HonestInv
<1> QED
  BY <1>1, HonestInvariant, PTL

\* What the reader is told of the boundary (BoundaryDecision) is what happened at it:
\* its tier, its counts of passages and its counts of masked values.
THEOREM RecordIsHonestHolds == Spec => []RecordIsHonest
<1>1. HonestInv => RecordIsHonest
  BY DEF HonestInv
<1> QED
  BY <1>1, HonestInvariant, PTL

(***************************************************************************)
(* The page.                                                               *)
(***************************************************************************)

\* A page is full from the search on, and no question asks for more than an arm
\* may return.
PageInv == FullPage /\ req.limit <= MAX_CANDIDATES

\* The search: what its caller may see is read in the same statement.
LEMMA SearchFills == AskInv /\ PageInv /\ search => PageInv'
<1> SUFFICES ASSUME AskInv, PageInv, search PROVE PageInv'
  OBVIOUS
<1>1. PICK scanned \in Lists, words \in Lists : \E allowed, pool, grounded :
         /\ allowed = _visible(req.user, req.scope)
         /\ seen' = allowed \cap (ToSet(scanned) \cup ToSet(words))
         /\ pool = candidate_pool(Fetch(req.limit, reranker))
         /\ \E results \in Pages(Arm(scanned, allowed, pool), Arm(words, allowed, pool),
                                 req.limit, reranker) :
               req' = [req EXCEPT !.pc = "found", !.results = results, !.grounded = grounded]
  BY SearchFinds
<1>2. PICK allowed, pool, grounded :
         /\ allowed = _visible(req.user, req.scope)
         /\ seen' = allowed \cap (ToSet(scanned) \cup ToSet(words))
         /\ pool = candidate_pool(Fetch(req.limit, reranker))
         /\ \E results \in Pages(Arm(scanned, allowed, pool), Arm(words, allowed, pool),
                                 req.limit, reranker) :
               req' = [req EXCEPT !.pc = "found", !.results = results, !.grounded = grounded]
  BY <1>1
<1>3. PICK results \in Pages(Arm(scanned, allowed, pool), Arm(words, allowed, pool),
                             req.limit, reranker) :
         req' = [req EXCEPT !.pc = "found", !.results = results, !.grounded = grounded]
  BY <1>2
<1>4. allowed \in SUBSET Passages
  BY <1>2 DEF _visible
<1>5. req.limit \in 0 .. MAX_CANDIDATES /\ reranker \in BOOLEAN
  BY RetrievalAssumption DEF AskInv, RequestInv, PageInv, reranker
<1>6. /\ ToSet(results) \subseteq seen'
      /\ IsInjective(results)
      /\ Len(results) = Least(req.limit, Cardinality(seen'))
  <2> DEFINE limit == req.limit
             rerank == reranker
             open == seen'
  <2>1. /\ limit \in 0 .. MAX_CANDIDATES /\ rerank \in BOOLEAN
        /\ pool = candidate_pool(Fetch(limit, rerank))
        /\ results \in Pages(Arm(scanned, allowed, pool), Arm(words, allowed, pool), limit, rerank)
        /\ open = allowed \cap (ToSet(scanned) \cup ToSet(words))
    BY <1>2, <1>3, <1>5
  <2> HIDE DEF limit, rerank, open
  <2>2. /\ ToSet(results) \subseteq open
        /\ IsInjective(results)
        /\ Len(results) = Least(limit, Cardinality(open))
    BY <1>4, <2>1, PageIsFull
  <2> QED
    BY <2>2 DEF limit, open
<1>7. req'.results = results /\ req'.limit = req.limit
  BY <1>3 DEF AskInv, RequestInv, NoRequest
<1> QED
  BY <1>6, <1>7 DEF PageInv, FullPage

\* No later step touches the page, or what its caller might see when it was made.
LEMMA PageStays == AskInv /\ PageInv /\ [Next]_vars => PageInv'
<1> SUFFICES ASSUME AskInv, PageInv, [Next]_vars PROVE PageInv'
  OBVIOUS
<1>1. CASE \E u \in Users, q \in Questions : ask(u, q[1], q[2])
  <2>1. \A q \in Questions : q[1] <= MAX_CANDIDATES
    BY AskAssumption, RetrievalAssumption
  <2> QED
    BY <1>1, <2>1 DEF ask, NoRequest, PageInv, FullPage
<1>2. CASE forgets
  <2>1. 0 <= MAX_CANDIDATES
    BY RetrievalAssumption
  <2> QED
    BY <1>2, <2>1 DEF forgets, NoRequest, PageInv, FullPage
<1>3. CASE get_reranker \/ ApiStep \/ UNCHANGED vars
  BY <1>3 DEF get_reranker, ApiStep, vars, reqVars, PageInv, FullPage
<1>4. CASE semantic_search \/ ask_tiers \/ refuses \/ send \/ completes \/ generation_fails
  <2>1. req'.results = req.results /\ req'.limit = req.limit /\ seen' = seen
    BY <1>4 DEF semantic_search, ask_tiers, refuses, send, completes, generation_fails, AskInv,
       RequestInv, NoRequest
  <2>2. req.pc \notin {"none", "search"}
    BY <1>4 DEF semantic_search, ask_tiers, refuses, send, completes, generation_fails, At
  <2> QED
    BY <2>1, <2>2 DEF PageInv, FullPage
<1> QED
  BY <1>1, <1>2, <1>3, <1>4, SearchFills DEF Next

\* What a caller may not see never costs a place on the page ("limit=5 returns four
\* results", retrieval/service.py), for any passages, with vectors or without, any
\* ranking by meaning or by words, any end of the index's scan, any limit the routes
\* accept, with the cross-encoder or without.
THEOREM FullPageHolds == Spec => []FullPage
<1>1. Init => PageInv
  <2>1. 0 <= MAX_CANDIDATES
    BY RetrievalAssumption
  <2> QED
    BY <2>1 DEF Init, NoRequest, PageInv, FullPage
<1>2. Spec => []PageInv
  BY <1>1, PageStays, AskInvariant, PTL DEF Spec
<1>3. PageInv => FullPage
  BY DEF PageInv
<1> QED
  BY <1>2, <1>3, PTL
=============================================================================
