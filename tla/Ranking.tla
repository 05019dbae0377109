------------------------------- MODULE Ranking -------------------------------
(***************************************************************************)
(* One hybrid retrieval: the rankings of the dense and of the sparse       *)
(* search are fused by reciprocal ranks, and the fused list is ranked again *)
(* by the words it has in common with the query. Scores are kept exactly,  *)
(* as numerators over one common denominator.                              *)
(***************************************************************************)
EXTENDS Lists, SequencesExt

CONSTANTS
  Chunks,         \* the chunks of the tenant that asks
  RankConstant,   \* ReciprocalRankFusion._rank_constant
  Overlaps,       \* how many words of the query a chunk may contain
  Limits          \* the limits a retrieval may have

VARIABLES
  retrieval,   \* the searches' rankings, the limit and the chunks' overlap
  ranked       \* what retrieve returned

rankingVars == <<retrieval, ranked>>

ASSUME RankingAssumption ==
  /\ IsFiniteSet(Chunks)
  /\ RankConstant \in Nat \ {0}
  /\ Limits \subseteq Nat \ {0}
  /\ Overlaps \subseteq Nat

NoRetrieval == [dense |-> <<>>, sparse |-> <<>>, limit |-> 0, overlap |-> [c \in Chunks |-> 0]]

\* A search ranks some of the chunks, at most as many as the limit.
Rankings(limit) == {s \in BoundedSeq(Chunks, limit) : IsInjective(s)}

RankIn(list, c) == CHOOSE i \in DOMAIN list : list[i] = c

\* 1 / (rank_constant + rank), over the product of all these denominators.
Reciprocal(rank) ==
  Product([r \in 1..Cardinality(Chunks) |-> IF r = rank THEN 1 ELSE RankConstant + r])

\* Mutant of FusedScore: the score of the last list that has the chunk, not the sum.
FusedScoreOfLast(lists, c) ==
  LET last == {l \in DOMAIN lists : \A k \in DOMAIN lists : c \in ToSet(lists[k]) => k <= l}
  IN Total([l \in DOMAIN lists |-> IF l \in last /\ c \in ToSet(lists[l])
                                  THEN Reciprocal(RankIn(lists[l], c)) ELSE 0])

FusedScore(lists, c) ==
  Total([l \in DOMAIN lists |-> IF c \in ToSet(lists[l])
                               THEN Reciprocal(RankIn(lists[l], c)) ELSE 0])

\* The keys of best_results: each chunk where it was first met.
FirstMet(lists) ==
  LET all == Joined(lists)
  IN Kept(all, {i \in DOMAIN all : \A j \in 1..(i - 1) : all[j] # all[i]})

Top(s, limit) == SubSeq(s, 1, IF Len(s) < limit THEN Len(s) ELSE limit)

\* ReciprocalRankFusion.fuse
Fuse(lists, limit) ==
  LET met == FirstMet(lists)
  IN Top(Descending(met, [i \in DOMAIN met |-> FusedScore(lists, met[i])]), limit)

(***************************************************************************)
(* LexicalReranker.rerank: log1p(overlap) + 0.01 * score. A fused score is *)
(* at most 2 / (rank_constant + 1), so that its share decides only between *)
(* chunks with one overlap.                                                *)
(***************************************************************************)
Decisive(lists) == 1 + Len(lists) * Reciprocal(1)

Rerank(fused, lists, overlap, limit) ==
  LET decisive == Decisive(lists)
      key == [i \in DOMAIN fused |->
                overlap[fused[i]] * decisive + FusedScore(lists, fused[i])]
  IN Top(Descending(fused, key), limit)

RankingInit == retrieval = NoRetrieval /\ ranked = <<>>

\* QdrantHybridRetriever.retrieve. Without a reranker its result is that of a
\* reranker that finds no overlap anywhere.
Retrieve(dense, sparse, overlap, limit) ==
  LET lists == <<dense, sparse>> IN
  /\ retrieval' = [dense |-> dense, sparse |-> sparse, limit |-> limit, overlap |-> overlap]
  /\ ranked' = Rerank(Fuse(lists, limit), lists, overlap, limit)

RankingNext ==
  /\ retrieval = NoRetrieval
  /\ \E limit \in Limits, overlap \in [Chunks -> Overlaps] :
       \E dense, sparse \in Rankings(limit) : Retrieve(dense, sparse, overlap, limit)

(***************************************************************************)
(* Properties                                                              *)
(***************************************************************************)
\* Chunk a is ahead of chunk b in a list.
AheadIn(list, a, b) ==
  /\ a \in ToSet(list)
  /\ b \in ToSet(list) => RankIn(list, a) < RankIn(list, b)

\* Whatever both searches and the words of the query prefer, the result prefers:
\* a chunk that is ahead of another wherever that one was found, and has no
\* fewer words of the query, is never behind it, nor cut off in its favour; and
\* the result is as long as the limit and what was found allow (fusion.py,
\* reranking.py, retriever.py).
RankingIsUnanimous ==
  LET found == ToSet(retrieval.dense) \cup ToSet(retrieval.sparse)
      lists == {retrieval.dense, retrieval.sparse}
  IN
  /\ IsInjective(ranked)
  /\ ToSet(ranked) \subseteq found
  /\ Len(ranked) = Min({retrieval.limit, Cardinality(found)})
  /\ \A a, b \in found :
       ( /\ retrieval.overlap[a] >= retrieval.overlap[b]
         /\ \A list \in lists : b \in ToSet(list) => AheadIn(list, a, b)
         /\ a # b )
       => AheadIn(ranked, a, b) \/ b \notin ToSet(ranked)
==============================================================================
