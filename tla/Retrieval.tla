------------------------------ MODULE Retrieval -----------------------------
(***************************************************************************)
(* Hybrid search (retrieval/service.py): two arms rank the passages the    *)
(* caller may see, reciprocal ranks are added up, and a cross-encoder, if  *)
(* there is one, reorders the candidates.  Operators only; Ask uses them.  *)
(* What an index or a model finds nearest is the caller's to choose: a     *)
(* sequence of passages, best first.                                       *)
(***************************************************************************)
EXTENDS Naturals, FiniteSets, Sequences, SequencesExt

CONSTANTS
    Passages,               \* chunk_ids, numbers for their order
    RRF_K,
    CANDIDATE_MULTIPLIER,
    MAX_CANDIDATES,
    RERANK_CANDIDATES

ASSUME RetrievalAssumption ==
    /\ Passages \subseteq Nat /\ IsFiniteSet(Passages)
    /\ {RRF_K, CANDIDATE_MULTIPLIER, MAX_CANDIDATES, RERANK_CANDIDATES} \subseteq Nat \ {0}

Least(a, b) == IF a < b THEN a ELSE b
Most(a, b) == IF a < b THEN b ELSE a

\* The first n of a list, rows[:n].
Upto(rows, n) == SubSeq(rows, 1, Least(n, Len(rows)))

candidate_pool(limit) == Least(MAX_CANDIDATES, Most(limit, limit * CANDIDATE_MULTIPLIER))

\* How many rows to fetch for a page of `limit`.
Fetch(limit, reranker) == IF reranker THEN Most(limit, RERANK_CANDIDATES) ELSE limit

\* The rows of a list that pass a filter, in its order: the k-th has k - 1 before it.
Filtered(ranked, allowed) ==
    LET passing == {i \in DOMAIN ranked : ranked[i] \in allowed}
    IN  [k \in 1 .. Cardinality(passing) |->
            ranked[CHOOSE i \in passing : Cardinality({j \in passing : j < i}) = k - 1]]

\* What the vector index yields, nearest first: only passages that have a vector, and
\* no more of them than its scan reads before it stops at its memory budget.
Scanned(ranked, embedded, reach) == Upto(Filtered(ranked, embedded), reach)

\* Mutant: rank first, then drop what the caller may not see.
Arm_FilteredAfter(ranked, allowed, pool) == Filtered(Upto(ranked, pool), allowed)

\* An arm: permission, deletion and scope are in its WHERE clause, then LIMIT pool.
Arm(ranked, allowed, pool) == Upto(Filtered(ranked, allowed), pool)

\* The rank an arm gives a passage, or 0 where it did not return it.
Rank(arm, p) == IF p \in ToSet(arm) THEN CHOOSE i \in DOMAIN arm : arm[i] = p ELSE 0

\* 1 / (RRF_K + rank), as a multiple of 1 / AllRanks.
AllRanks == ProductSet({RRF_K + i : i \in 1 .. Cardinality(Passages)})

rrf_score(rank) == IF rank = 0 THEN 0 ELSE AllRanks \div (RRF_K + rank)

Score(semantic, lexical, p) == rrf_score(Rank(semantic, p)) + rrf_score(Rank(lexical, p))

\* A full outer join: found by one arm is enough.
Candidates(semantic, lexical) ==
    {p \in Passages : Rank(semantic, p) # 0 \/ Rank(lexical, p) # 0}

\* Their order, of which there is one: score descending, and chunk_id where it ties.
Fused(semantic, lexical) ==
    LET score == [p \in Passages |-> Score(semantic, lexical, p)]
        before(p, q) == score[p] > score[q] \/ (score[p] = score[q] /\ p < q)
    IN  {fused \in SetToSeqs(Candidates(semantic, lexical)) :
            \A i, j \in DOMAIN fused : i < j => before(fused[i], fused[j])}

\* The page: reordered by a cross-encoder that scored every row, or else (none,
\* or it failed, or it returned another number of scores) in fused order.
_rerank(rows, order, limit) == Upto(IF order = <<>> THEN rows ELSE order, limit)

\* The orders a reranker may come to; <<>> when it came to none.
Orders(rows, reranker) == {<<>>} \cup (IF reranker THEN SetToSeqs(ToSet(rows)) ELSE {})

\* The pages of `limit` passages that two arms may come to.
Pages(semantic, lexical, limit, reranker) ==
    LET rows(fused) == Upto(fused, Fetch(limit, reranker))
    IN  UNION {{_rerank(rows(fused), order, limit) : order \in Orders(rows(fused), reranker)} :
                  fused \in Fused(semantic, lexical)}

\* assess: something is near enough, or a lexical hit has every word of the question.
assess(results, near, literal, lexical) ==
    \/ ToSet(results) \cap near # {}
    \/ ToSet(results) \cap ToSet(lexical) \cap literal # {}
=============================================================================
