-------------------------- MODULE SequentialProofs --------------------------
(***************************************************************************)
(* The sequential parts, for any documents, chunks, terms, tools, tenants  *)
(* and calls: the merged and reranked search results, the local index and  *)
(* the audited tool executor, and with PipelineProofs the evidence         *)
(* pipeline. They are proved about in the behaviours that they share, each *)
(* of a single part.                                                       *)
(***************************************************************************)
EXTENDS SequentialParts, PipelineProofs

\* A step is one of the part's, or leaves the part alone.
LEMMA PartsStep ==
  ASSUME [PartsNext]_partsVars
  PROVE  /\ PipelineNext \/ UNCHANGED pipelineVars
         /\ RankingNext \/ UNCHANGED rankingVars
         /\ SecurityNext \/ UNCHANGED securityVars
         /\ SparseIndexNext \/ UNCHANGED indexVars
BY DEF PartsNext, partsVars

-----------------------------------------------------------------------------
\* The evidence pipeline: PipelineInv is inductive.
LEMMA PipelineHolds == PartsSpec => []PipelineInv
<1>1. PartsInit => PipelineInv
  BY PipelineStart DEF PartsInit
<1>2. PipelineInv /\ [PartsNext]_partsVars => PipelineInv'
  BY PartsStep, PipelineStep
<1> QED BY <1>1, <1>2, PTL DEF PartsSpec

(***************************************************************************)
(* For any documents, any limit and words of any length, the chunks hold   *)
(* all the words of the document in order and with their pages, fit the    *)
(* limit and are filled as far as they go (ChunksCoverDocument): the       *)
(* parsers and ChunkingService.chunk_blocks.                               *)
(***************************************************************************)
THEOREM NothingIsLostInChunks == PartsSpec => []ChunksCoverDocument
BY PipelineHolds, CoverageFromInv, PTL

(***************************************************************************)
(* For any batch size, any hash of the tokens, any order of the chunks in  *)
(* their table and any answers of the embedding API, every chunk has one   *)
(* point. It has its own dense vector as long as the API answers every     *)
(* text once, labelled or in order; and the weights of its own tokens,     *)
(* each id once and in order, if no two of them have one id                *)
(* (PointsCarryTheirText): OpenAICompatibleEmbeddingProvider.embed,        *)
(* SparseVectorizer, _embed_and_index and upsert_chunks. Documents of more *)
(* than MaxListed chunks are not read back, for any bound MaxListed.       *)
(***************************************************************************)
THEOREM PointsAreOfTheirChunks == PartsSpec => []PointsCarryTheirText
BY PipelineHolds, PointsFromInv, PTL

-----------------------------------------------------------------------------
(***************************************************************************)
(* The fused scores.                                                       *)
(***************************************************************************)
\* A ranking: what a search returns, without repetitions.
IsRanking(list) == list \in Seq(Chunks) /\ \A i, j \in 1..Len(list) : list[i] = list[j] => i = j

LEMMA RankingPlaces ==
  ASSUME NEW list, IsRanking(list)
  PROVE  /\ Len(list) \in Nat /\ Len(list) <= Cardinality(Chunks)
         /\ \A c : c \in ToSet(list) <=> \E i \in 1..Len(list) : list[i] = c
         /\ \A i \in 1..Len(list) : RankIn(list, list[i]) = i
<1>1. list \in Seq(Chunks) /\ Len(list) \in Nat /\ DOMAIN list = 1..Len(list)
  BY DEF IsRanking
<1>2. list \in Injection(1..Len(list), Chunks)
  BY <1>1 DEF IsRanking, Injection, IsInjective
<1>3. Cardinality(1..Len(list)) <= Cardinality(Chunks)
  BY <1>2, FS_Injection, RankingAssumption
<1>4. Cardinality(1..Len(list)) = Len(list)
  BY <1>1, Places
<1>5. \A c : c \in ToSet(list) <=> \E i \in 1..Len(list) : list[i] = c
  BY <1>1 DEF ToSet
<1>6. \A i \in 1..Len(list) : RankIn(list, list[i]) = i
  BY <1>1 DEF RankIn, IsRanking
<1> QED BY <1>1, <1>3, <1>4, <1>5, <1>6

\* The better rank has the larger reciprocal.
LEMMA ReciprocalType ==
  ASSUME NEW rank \in 1..Cardinality(Chunks) PROVE Reciprocal(rank) \in Nat \ {0}
<1> DEFINE n == Cardinality(Chunks)
           t == [r \in 1..n |-> IF r = rank THEN 1 ELSE RankConstant + r]
<1>1. n \in Nat /\ RankConstant \in Nat \ {0}
  BY RankingAssumption, FS_CardinalityType
<1>2. t \in Seq(Nat \ {0})
  <2>1. t \in [1..n -> Nat \ {0}]
    BY <1>1
  <2> HIDE DEF t
  <2> QED BY <1>1, <2>1, SeqDef
<1> QED BY <1>2, ProductIsPositive DEF Reciprocal

LEMMA ReciprocalDecreases ==
  ASSUME NEW a \in 1..Cardinality(Chunks), NEW b \in 1..Cardinality(Chunks), a < b
  PROVE  Reciprocal(a) > Reciprocal(b)
<1> DEFINE n == Cardinality(Chunks)
           s == [r \in 1..n |-> RankConstant + r]
           without(rank) == [r \in 1..n |-> IF r = rank THEN 1 ELSE RankConstant + r]
<1>1. n \in Nat /\ RankConstant \in Nat \ {0}
  BY RankingAssumption, FS_CardinalityType
<1>2. s \in Seq(Nat) /\ Len(s) = n /\ \A r \in 1..n : s[r] = RankConstant + r
  <2>1. s \in [1..n -> Nat]
    BY <1>1
  <2>2. \A r \in 1..n : s[r] = RankConstant + r
    OBVIOUS
  <2> HIDE DEF s
  <2> QED BY <1>1, <2>1, <2>2, SeqDef
<1> HIDE DEF s
<1>3. ASSUME NEW rank \in 1..n
      PROVE  Reciprocal(rank) \in Nat /\ Reciprocal(rank) * (RankConstant + rank) = Product(s)
  <2> DEFINE t == without(rank)
  <2>1. /\ t \in Seq(Nat) /\ Len(t) = n /\ t[rank] = 1
        /\ \A r \in 1..n : r # rank => t[r] = RankConstant + r
    <3>1. t \in [1..n -> Nat] /\ t[rank] = 1 /\ \A r \in 1..n : r # rank => t[r] = RankConstant + r
      BY <1>1
    <3> HIDE DEF t
    <3> QED BY <1>1, <3>1, SeqDef
  <2>2. Reciprocal(rank) = Product(t)
    BY DEF Reciprocal
  <2> HIDE DEF t
  <2>3. Product(t) \in Nat /\ Product(t) * s[rank] = Product(s)
    BY <1>2, <2>1, ProductWithout
  <2> QED BY <1>2, <2>2, <2>3
<1> DEFINE x == Reciprocal(a)
           y == Reciprocal(b)
<1>4. x \in Nat \ {0} /\ y \in Nat \ {0} /\ a \in Nat /\ b \in Nat
  BY <1>1, ReciprocalType
<1>5. x * (RankConstant + a) = y * (RankConstant + b)
  BY <1>3
<1> HIDE DEF x, y
<1>6. ASSUME x <= y PROVE FALSE
  <2>1. \A u, v, k, l \in Nat : u <= v /\ v # 0 /\ k < l => u * k < v * l
    OBVIOUS
  <2>2. RankConstant + a \in Nat /\ RankConstant + b \in Nat /\ RankConstant + a < RankConstant + b
    BY <1>1, <1>4
  <2>3. x * (RankConstant + a) < y * (RankConstant + b)
    BY <1>4, <1>6, <2>1, <2>2
  <2>4. x * (RankConstant + a) \in Nat
    BY <1>4, <2>2
  <2> QED BY <1>5, <2>3, <2>4
<1> QED BY <1>4, <1>6 DEF x, y

\* What one ranking adds to the score of a chunk.
Share(list, c) == IF c \in ToSet(list) THEN Reciprocal(RankIn(list, c)) ELSE 0

LEMMA ShareType ==
  ASSUME NEW list, IsRanking(list), NEW c
  PROVE  /\ Share(list, c) \in Nat
         /\ c \in ToSet(list) => RankIn(list, c) \in 1..Cardinality(Chunks)
<1>1. /\ Len(list) \in Nat /\ Len(list) <= Cardinality(Chunks)
      /\ \A d : d \in ToSet(list) <=> \E i \in 1..Len(list) : list[i] = d
      /\ \A i \in 1..Len(list) : RankIn(list, list[i]) = i
  BY RankingPlaces
<1>2. c \in ToSet(list) => RankIn(list, c) \in 1..Cardinality(Chunks)
  <2> SUFFICES ASSUME c \in ToSet(list) PROVE RankIn(list, c) \in 1..Cardinality(Chunks)
    OBVIOUS
  <2>1. PICK i \in 1..Len(list) : list[i] = c
    BY <1>1
  <2>2. RankIn(list, c) = i
    BY <1>1, <2>1
  <2>3. Cardinality(Chunks) \in Nat
    BY RankingAssumption, FS_CardinalityType
  <2> QED BY <1>1, <2>2, <2>3
<1> QED BY <1>2, ReciprocalType DEF Share

LEMMA FusedScoreIs ==
  ASSUME NEW x, NEW y, IsRanking(x), IsRanking(y), NEW c
  PROVE  FusedScore(<<x, y>>, c) = Share(x, c) + Share(y, c)
<1> DEFINE lists == <<x, y>>
           shares == [l \in DOMAIN lists |-> IF c \in ToSet(lists[l])
                               THEN Reciprocal(RankIn(lists[l], c)) ELSE 0]
<1>1. DOMAIN lists = 1..2 /\ lists[1] = x /\ lists[2] = y
  OBVIOUS
<1>2. FusedScore(lists, c) = Total(shares)
  BY DEF FusedScore
<1> HIDE DEF lists
<1>3. shares = [l \in 1..2 |-> Share(lists[l], c)]
  BY <1>1 DEF Share
<1>4. shares = <<Share(x, c), Share(y, c)>>
  BY <1>1, <1>3
<1>5. Share(x, c) \in Nat /\ Share(y, c) \in Nat
  BY ShareType
<1>6. Total(shares) = Share(x, c) + Share(y, c)
  BY <1>4, <1>5, TotalTwo
<1> QED BY <1>2, <1>6 DEF lists

\* A chunk that is ahead of another wherever that one was found has more shares.
LEMMA AheadScoresMore ==
  ASSUME NEW list, IsRanking(list), NEW a, NEW b, b \in ToSet(list) => AheadIn(list, a, b)
  PROVE  /\ Share(list, a) >= Share(list, b)
         /\ b \in ToSet(list) => Share(list, a) > Share(list, b)
<1>1. CASE b \in ToSet(list)
  <2>1. a \in ToSet(list) /\ RankIn(list, a) < RankIn(list, b)
    BY <1>1 DEF AheadIn
  <2>2. RankIn(list, a) \in 1..Cardinality(Chunks) /\ RankIn(list, b) \in 1..Cardinality(Chunks)
    BY <1>1, <2>1, ShareType
  <2>3. Reciprocal(RankIn(list, a)) > Reciprocal(RankIn(list, b))
    BY <2>1, <2>2, ReciprocalDecreases
  <2>4. Share(list, a) = Reciprocal(RankIn(list, a)) /\ Share(list, b) = Reciprocal(RankIn(list, b))
    BY <1>1, <2>1 DEF Share
  <2>5. Share(list, a) \in Nat /\ Share(list, b) \in Nat
    BY ShareType
  <2> QED BY <2>3, <2>4, <2>5
<1>2. CASE b \notin ToSet(list)
  <2>1. Share(list, b) = 0 /\ Share(list, a) \in Nat
    BY <1>2, ShareType DEF Share
  <2> QED BY <1>2, <2>1
<1> QED BY <1>1, <1>2

-----------------------------------------------------------------------------
(***************************************************************************)
(* Fusing and ranking again.                                               *)
(***************************************************************************)
LEMMA FirstMetIs ==
  ASSUME NEW x, NEW y, IsRanking(x), IsRanking(y)
  PROVE  /\ IsRanking(FirstMet(<<x, y>>))
         /\ ToSet(FirstMet(<<x, y>>)) = ToSet(x) \cup ToSet(y)
<1> DEFINE all == x \o y
           first == {i \in DOMAIN all : \A j \in 1..(i - 1) : all[j] # all[i]}
           met == Kept(all, first)
<1>1. x \in Seq(Chunks) /\ y \in Seq(Chunks)
  BY DEF IsRanking
<1>2. FirstMet(<<x, y>>) = met
  <2>1. Joined(<<x, y>>) = all
    BY <1>1, JoinedTwo
  <2> QED BY <2>1 DEF FirstMet
<1>3. /\ all \in Seq(Chunks) /\ DOMAIN all = 1..Len(all) /\ Len(all) \in Nat
      /\ Len(all) = Len(x) + Len(y)
      /\ \A i \in 1..Len(x) : all[i] = x[i]
      /\ \A i \in 1..Len(y) : all[Len(x) + i] = y[i]
  BY <1>1
<1> HIDE DEF all
<1>4. ToSet(all) = ToSet(x) \cup ToSet(y)
  <2>1. DOMAIN x = 1..Len(x) /\ DOMAIN y = 1..Len(y) /\ Len(x) \in Nat /\ Len(y) \in Nat
    BY <1>1
  <2>2. ASSUME NEW i \in 1..Len(all) PROVE all[i] \in ToSet(x) \cup ToSet(y)
    <3>1. CASE i \in 1..Len(x)
      BY <1>3, <2>1, <3>1 DEF ToSet
    <3>2. CASE i \notin 1..Len(x)
      <4>1. i - Len(x) \in 1..Len(y) /\ Len(x) + (i - Len(x)) = i
        BY <1>3, <2>1, <3>2
      <4>2. all[i] = y[i - Len(x)]
        BY <1>3, <4>1
      <4> QED BY <2>1, <4>1, <4>2 DEF ToSet
    <3> QED BY <3>1, <3>2
  <2>3. ASSUME NEW i \in 1..Len(x) PROVE x[i] \in ToSet(all)
    <3>1. i \in 1..Len(all)
      BY <1>3, <2>1
    <3> QED BY <1>3, <3>1 DEF ToSet
  <2>4. ASSUME NEW i \in 1..Len(y) PROVE y[i] \in ToSet(all)
    <3>1. Len(x) + i \in 1..Len(all)
      BY <1>3, <2>1
    <3> QED BY <1>3, <3>1 DEF ToSet
  <2>5. ToSet(all) \subseteq ToSet(x) \cup ToSet(y)
    BY <1>3, <2>2 DEF ToSet
  <2>6. ToSet(x) \subseteq ToSet(all)
    BY <2>1, <2>3 DEF ToSet
  <2>7. ToSet(y) \subseteq ToSet(all)
    BY <2>1, <2>4 DEF ToSet
  <2> QED BY <2>5, <2>6, <2>7
<1>5. met \in Seq(Chunks) /\ \E pos : KeptFrom(met, all, first, pos)
  BY <1>3, KeptIs
<1>6. PICK pos : KeptFrom(met, all, first, pos)
  BY <1>5
<1> HIDE DEF met
<1>7. /\ pos \in [1..Len(met) -> 1..Len(all)]
      /\ \A p, q \in 1..Len(met) : p < q => pos[p] < pos[q]
      /\ \A p \in 1..Len(met) : pos[p] \in first /\ met[p] = all[pos[p]]
      /\ \A i \in 1..Len(all) : i \in first => \E p \in 1..Len(met) : pos[p] = i
  BY <1>6 DEF KeptFrom
<1>8. \A p, q \in 1..Len(met) : met[p] = met[q] => p = q
  <2>1. ASSUME NEW p \in 1..Len(met), NEW q \in 1..Len(met), p < q PROVE met[p] # met[q]
    <3>1. pos[p] \in 1..(pos[q] - 1)
      <4>1. pos[p] \in 1..Len(all) /\ pos[q] \in 1..Len(all) /\ pos[p] < pos[q]
        BY <1>7, <2>1
      <4> QED BY <1>3, <4>1
    <3>2. all[pos[p]] # all[pos[q]]
      <4>1. pos[q] \in first
        BY <1>7
      <4> QED BY <3>1, <4>1
    <3> QED BY <1>7, <3>2
  <2>2. Len(met) \in Nat
    BY <1>5
  <2> QED BY <2>1, <2>2
<1>9. \A i \in 1..Len(all) : \E p \in 1..Len(met) : met[p] = all[i]
  <2> TAKE i \in 1..Len(all)
  <2> DEFINE same == {j \in 1..Len(all) : all[j] = all[i]}
  <2>1. PICK j \in same : \A k \in same : j <= k
    <3>1. same \in SUBSET Nat /\ same # {}
      BY <1>3
    <3> QED BY <3>1, LeastNatural
  <2>2. j \in first
    <3>1. \A k \in 1..(j - 1) : k \in 1..Len(all) /\ ~(j <= k)
      BY <1>3, <2>1
    <3>2. \A k \in 1..(j - 1) : all[k] # all[i]
      BY <2>1, <3>1
    <3> QED BY <1>3, <2>1, <3>2
  <2>3. PICK p \in 1..Len(met) : pos[p] = j
    BY <1>7, <2>1, <2>2
  <2> QED BY <1>7, <2>1, <2>3
<1>10. ToSet(met) = ToSet(all)
  <2>1. DOMAIN met = 1..Len(met)
    BY <1>5
  <2>2. \A p \in 1..Len(met) : pos[p] \in 1..Len(all) /\ met[p] = all[pos[p]]
    BY <1>7
  <2>3. ToSet(met) \subseteq ToSet(all)
    BY <1>3, <2>1, <2>2 DEF ToSet
  <2>4. ASSUME NEW i \in 1..Len(all) PROVE all[i] \in ToSet(met)
    <3>1. PICK p \in 1..Len(met) : met[p] = all[i]
      BY <1>9
    <3> QED BY <2>1, <3>1 DEF ToSet
  <2>5. ToSet(all) \subseteq ToSet(met)
    BY <1>3, <2>4 DEF ToSet
  <2> QED BY <2>3, <2>5
<1>11. IsRanking(met)
  BY <1>5, <1>8 DEF IsRanking
<1> QED BY <1>2, <1>4, <1>10, <1>11

\* The order of a ranked list is that of its scores, and its end is cut off.
Follows(list, worth) ==
  \A i, j \in 1..Len(list) : i < j => worth[list[i]] >= worth[list[j]]

RankedBy(list, worth) == Descending(list, [i \in DOMAIN list |-> worth[list[i]]])

LEMMA SortedRanking ==
  ASSUME NEW list, IsRanking(list), NEW worth \in [Chunks -> Int]
  PROVE  /\ IsRanking(RankedBy(list, worth))
         /\ ToSet(RankedBy(list, worth)) = ToSet(list)
         /\ Len(RankedBy(list, worth)) = Len(list)
         /\ Follows(RankedBy(list, worth), worth)
<1> DEFINE key == [i \in DOMAIN list |-> worth[list[i]]]
           t == RankedBy(list, worth)
<1>1. list \in Seq(Chunks) /\ \A i, j \in 1..Len(list) : list[i] = list[j] => i = j
  BY DEF IsRanking
<1>2. t = Descending(list, key)
  BY DEF RankedBy
<1> HIDE DEF key, t
<1>3. key = [i \in DOMAIN list |-> worth[list[i]]]
  BY DEF key
<1>4. t \in Seq(Chunks) /\ IsDescending(t, list, worth)
  BY <1>1, <1>2, <1>3, DescendingIs
<1>5. Len(t) = Len(list)
  BY <1>4 DEF IsDescending
<1>6. \A p, q \in 1..Len(t) : t[p] = t[q] => p = q
  BY <1>4 DEF IsDescending
<1>7. \A i \in 1..Len(list) : \E p \in 1..Len(t) : t[p] = list[i]
  BY <1>4, Zenon DEF IsDescending
<1>8. \A p \in 1..Len(t) : \E i \in 1..Len(list) : t[p] = list[i]
  BY <1>4, Zenon DEF IsDescending
<1>9. \A p, q \in 1..Len(t) : p < q => worth[t[p]] >= worth[t[q]]
  BY <1>4 DEF IsDescending
<1>10. DOMAIN t = 1..Len(t) /\ DOMAIN list = 1..Len(list)
  BY <1>1, <1>4
<1>11. ToSet(t) \subseteq ToSet(list)
  BY <1>8, <1>10 DEF ToSet
<1>12. ToSet(list) \subseteq ToSet(t)
  BY <1>7, <1>10 DEF ToSet
<1> QED BY <1>4, <1>5, <1>6, <1>9, <1>11, <1>12 DEF IsRanking, Follows, t

LEMMA TopIs ==
  ASSUME NEW list, IsRanking(list), NEW limit \in Nat
  PROVE  /\ IsRanking(Top(list, limit))
         /\ Len(Top(list, limit)) = IF Len(list) < limit THEN Len(list) ELSE limit
         /\ \A i \in 1..Len(Top(list, limit)) : i \in 1..Len(list) /\ Top(list, limit)[i] = list[i]
<1> DEFINE n == IF Len(list) < limit THEN Len(list) ELSE limit
           t == SubSeq(list, 1, n)
<1>1. list \in Seq(Chunks) /\ Len(list) \in Nat
  BY DEF IsRanking
<1>2. n \in Nat /\ n <= Len(list)
  BY <1>1
<1> HIDE DEF n
<1>3. t \in Seq(Chunks) /\ Len(t) = n /\ \A i \in 1..n : t[i] = list[i]
  BY <1>1, <1>2, SubSeqProperties
<1>4. \A i \in 1..n : i \in 1..Len(list)
  BY <1>1, <1>2
<1> HIDE DEF t
<1>5. IsRanking(t)
  BY <1>3, <1>4 DEF IsRanking
<1>6. Top(list, limit) = t
  BY DEF Top, t, n
<1> QED BY <1>3, <1>4, <1>5, <1>6 DEF n

\* What is worth more is further ahead, and left in when what is worth less is.
LEMMA AheadInTop ==
  ASSUME NEW list, IsRanking(list), NEW worth \in [Chunks -> Int], Follows(list, worth),
         NEW limit \in Nat, NEW a \in ToSet(list), NEW b \in ToSet(Top(list, limit)),
         worth[a] > worth[b]
  PROVE  AheadIn(Top(list, limit), a, b)
<1> DEFINE t == Top(list, limit)
<1>1. /\ IsRanking(t) /\ \A i \in 1..Len(t) : i \in 1..Len(list) /\ t[i] = list[i]
      /\ Len(t) = IF Len(list) < limit THEN Len(list) ELSE limit
  BY TopIs
<1> HIDE DEF t
<1>2. list \in Seq(Chunks) /\ Len(list) \in Nat
  BY DEF IsRanking
<1>3. PICK i \in 1..Len(list) : list[i] = a
  BY RankingPlaces
<1>4. PICK j \in 1..Len(t) : t[j] = b
  BY <1>1, RankingPlaces DEF t
<1>5. j \in 1..Len(list) /\ list[j] = b
  BY <1>1, <1>4
<1>6. a \in Chunks /\ b \in Chunks
  BY <1>2, <1>3, <1>5
<1>7. i < j
  <2>1. worth[a] \in Int /\ worth[b] \in Int
    BY <1>6
  <2>2. i # j
    BY <1>3, <1>5, <2>1
  <2>3. ~(j < i)
    BY <1>3, <1>5, <2>1 DEF Follows
  <2> QED BY <1>2, <2>2, <2>3
<1>8. i \in 1..Len(t)
  BY <1>1, <1>2, <1>7
<1>9. RankIn(t, a) = i /\ RankIn(t, b) = j /\ a \in ToSet(t)
  <2>1. t[i] = a
    BY <1>1, <1>3, <1>8
  <2> QED BY <1>1, <1>4, <1>8, <2>1, RankingPlaces
<1> QED BY <1>7, <1>9 DEF AheadIn, t

LEMMA FuseIs ==
  ASSUME NEW x, NEW y, IsRanking(x), IsRanking(y), NEW limit \in Nat,
         NEW score, score = [c \in Chunks |-> FusedScore(<<x, y>>, c)]
  PROVE  \E t : /\ IsRanking(t) /\ ToSet(t) = ToSet(x) \cup ToSet(y) /\ Follows(t, score)
                /\ Fuse(<<x, y>>, limit) = Top(t, limit)
<1> DEFINE lists == <<x, y>>
           met == FirstMet(lists)
           t == RankedBy(met, score)
<1>1. IsRanking(met) /\ ToSet(met) = ToSet(x) \cup ToSet(y)
  BY FirstMetIs
<1>2. score \in [Chunks -> Int]
  <2>1. \A c \in Chunks : FusedScore(<<x, y>>, c) \in Int
    BY FusedScoreIs, ShareType
  <2> QED BY <2>1
<1>3. IsRanking(t) /\ ToSet(t) = ToSet(met) /\ Follows(t, score)
  <2>1. IsRanking(met)
    BY <1>1
  <2> HIDE DEF met
  <2> QED BY <1>2, <2>1, SortedRanking
<1>4. Fuse(lists, limit) = Top(t, limit)
  <2>1. \A i \in DOMAIN met : score[met[i]] = FusedScore(lists, met[i])
    BY <1>1 DEF IsRanking
  <2>2. [i \in DOMAIN met |-> score[met[i]]] = [i \in DOMAIN met |-> FusedScore(lists, met[i])]
    BY <2>1
  <2> QED BY <2>2, Zenon DEF Fuse, RankedBy
<1> QED BY <1>1, <1>3, <1>4

LEMMA RerankIs ==
  ASSUME NEW fused, IsRanking(fused), NEW lists, NEW overlap, NEW limit \in Nat,
         NEW worth \in [Chunks -> Int],
         \A c \in Chunks : worth[c] = overlap[c] * Decisive(lists) + FusedScore(lists, c)
  PROVE  \E t : /\ IsRanking(t) /\ ToSet(t) = ToSet(fused) /\ Len(t) = Len(fused)
                /\ Follows(t, worth)
                /\ Rerank(fused, lists, overlap, limit) = Top(t, limit)
<1> DEFINE key == [i \in DOMAIN fused |->
                     overlap[fused[i]] * Decisive(lists) + FusedScore(lists, fused[i])]
           t == RankedBy(fused, worth)
<1>1. IsRanking(t) /\ ToSet(t) = ToSet(fused) /\ Len(t) = Len(fused) /\ Follows(t, worth)
  BY SortedRanking
<1>2. Rerank(fused, lists, overlap, limit) = Top(t, limit)
  <2>1. \A i \in DOMAIN fused : fused[i] \in Chunks
    BY DEF IsRanking
  <2>2. \A i \in DOMAIN fused :
          worth[fused[i]] = overlap[fused[i]] * Decisive(lists) + FusedScore(lists, fused[i])
    BY <2>1
  <2>3. [i \in DOMAIN fused |-> worth[fused[i]]] = key
    BY <2>2
  <2>4. Rerank(fused, lists, overlap, limit) = Top(Descending(fused, key), limit)
    BY DEF Rerank
  <2> QED BY <2>3, <2>4 DEF RankedBy
<1> QED BY <1>1, <1>2

\* What RankingIsUnanimous says of one retrieval.
Unanimous(result, x, y, overlap, limit) ==
  LET found == ToSet(x) \cup ToSet(y) IN
  /\ IsInjective(result)
  /\ ToSet(result) \subseteq found
  /\ Len(result) = Min({limit, Cardinality(found)})
  /\ \A a, b \in found :
       ( /\ overlap[a] >= overlap[b]
         /\ \A list \in {x, y} : b \in ToSet(list) => AheadIn(list, a, b)
         /\ a # b )
       => AheadIn(result, a, b) \/ b \notin ToSet(result)

LEMMA RankingSize ==
  ASSUME NEW list, IsRanking(list) PROVE Cardinality(ToSet(list)) = Len(list)
<1>1. list \in Seq(Chunks) /\ DOMAIN list = 1..Len(list) /\ Len(list) \in Nat
  BY DEF IsRanking
<1>2. list \in Surjection(1..Len(list), ToSet(list))
  BY <1>1 DEF Surjection, ToSet
<1>3. list \in Injection(1..Len(list), ToSet(list))
  BY <1>1 DEF Injection, ToSet, IsRanking, IsInjective
<1>4. IsFiniteSet(1..Len(list)) /\ Cardinality(1..Len(list)) = Len(list)
  BY <1>1, Places
<1>5. Cardinality(ToSet(list)) = Cardinality(1..Len(list))
  BY <1>2, <1>3, <1>4, FS_Surjection
<1> QED BY <1>4, <1>5

LEMMA RetrievalIsUnanimous ==
  ASSUME NEW x, NEW y, IsRanking(x), IsRanking(y), NEW limit \in Nat,
         NEW overlap \in [Chunks -> Nat]
  PROVE  Unanimous(Rerank(Fuse(<<x, y>>, limit), <<x, y>>, overlap, limit), x, y, overlap, limit)
<1> DEFINE lists == <<x, y>>
           found == ToSet(x) \cup ToSet(y)
           score == [c \in Chunks |-> FusedScore(lists, c)]
           worth == [c \in Chunks |-> overlap[c] * Decisive(lists) + FusedScore(lists, c)]
           fused == Fuse(lists, limit)
           result == Rerank(fused, lists, overlap, limit)
<1>1. \A c : FusedScore(lists, c) = Share(x, c) + Share(y, c) /\ FusedScore(lists, c) \in Nat
  BY FusedScoreIs, ShareType
<1>2. Decisive(lists) \in Nat
  <2>1. Len(lists) = 2
    OBVIOUS
  <2>2. CASE Cardinality(Chunks) = 0
    <3>1. Reciprocal(1) = Product(<<>>)
      BY <2>2 DEF Reciprocal
    <3>2. <<>> \in Seq(Nat \ {0})
      OBVIOUS
    <3>3. Reciprocal(1) \in Nat
      BY <3>1, <3>2, ProductIsPositive
    <3> QED BY <2>1, <3>3 DEF Decisive
  <2>3. CASE Cardinality(Chunks) # 0
    <3>1. 1 \in 1..Cardinality(Chunks)
      BY <2>3, RankingAssumption, FS_CardinalityType
    <3>2. Reciprocal(1) \in Nat
      BY <3>1, ReciprocalType
    <3> QED BY <2>1, <3>2 DEF Decisive
  <2> QED BY <2>2, <2>3
<1>3. score \in [Chunks -> Int]
  BY <1>1
<1>4. worth \in [Chunks -> Int]
  <2>1. \A c \in Chunks : overlap[c] * Decisive(lists) + FusedScore(lists, c) \in Int
    BY <1>1, <1>2
  <2> QED BY <2>1
<1>5. PICK t : /\ IsRanking(t) /\ ToSet(t) = found /\ Follows(t, score)
               /\ fused = Top(t, limit)
  BY FuseIs
<1>6. /\ IsRanking(fused) /\ Len(fused) = IF Len(t) < limit THEN Len(t) ELSE limit
      /\ \A i \in 1..Len(fused) : i \in 1..Len(t) /\ fused[i] = t[i]
  BY <1>5, TopIs
<1> HIDE DEF fused
<1>7. \A c \in Chunks : worth[c] = overlap[c] * Decisive(lists) + FusedScore(lists, c)
  OBVIOUS
<1>8. PICK u : /\ IsRanking(u) /\ ToSet(u) = ToSet(fused) /\ Len(u) = Len(fused)
               /\ Follows(u, worth) /\ result = Top(u, limit)
  <2> HIDE DEF worth, lists
  <2> QED BY <1>4, <1>6, <1>7, RerankIs, SMTT(30)
<1>9. /\ IsRanking(result) /\ Len(result) = IF Len(u) < limit THEN Len(u) ELSE limit
      /\ \A i \in 1..Len(result) : i \in 1..Len(u) /\ result[i] = u[i]
  BY <1>8, TopIs
<1> HIDE DEF result
<1>10. ToSet(fused) \subseteq found
  BY <1>5, <1>6, RankingPlaces
<1>11. ToSet(result) \subseteq ToSet(fused)
  BY <1>8, <1>9, RankingPlaces
<1>12. Len(result) = Min({limit, Cardinality(found)})
  <2>1. Len(t) = Cardinality(found) /\ Len(t) \in Nat
    BY <1>5, RankingSize, RankingPlaces
  <2>2. Len(result) = IF Len(t) < limit THEN Len(t) ELSE limit
    BY <1>6, <1>8, <1>9, <2>1
  <2>3. Min({limit, Len(t)}) = IF Len(t) < limit THEN Len(t) ELSE limit
    <3>1. limit \in Int /\ Len(t) \in Int
      BY <2>1
    <3>2. /\ Min({limit, Len(t)}) \in {limit, Len(t)}
          /\ Min({limit, Len(t)}) <= limit /\ Min({limit, Len(t)}) <= Len(t)
      BY <3>1, MinOfTwo, Zenon
    <3> QED BY <3>1, <3>2
  <2> QED BY <2>1, <2>2, <2>3
<1>13. IsInjective(result)
  BY <1>9, SMTT(30) DEF IsRanking, IsInjective
<1>14. ASSUME NEW a \in found, NEW b \in found, overlap[a] >= overlap[b], a # b,
              \A list \in {x, y} : b \in ToSet(list) => AheadIn(list, a, b),
              b \in ToSet(result)
       PROVE  AheadIn(result, a, b)
  <2>1. a \in Chunks /\ b \in Chunks
    <3>1. x \in Seq(Chunks) /\ y \in Seq(Chunks)
      BY DEF IsRanking
    <3> QED BY <3>1 DEF ToSet
  <2>2. FusedScore(lists, a) > FusedScore(lists, b)
    <3>1. Share(x, a) >= Share(x, b) /\ (b \in ToSet(x) => Share(x, a) > Share(x, b))
      BY <1>14, AheadScoresMore
    <3>2. Share(y, a) >= Share(y, b) /\ (b \in ToSet(y) => Share(y, a) > Share(y, b))
      BY <1>14, AheadScoresMore
    <3>3. b \in ToSet(x) \/ b \in ToSet(y)
      OBVIOUS
    <3>4. Share(x, a) \in Nat /\ Share(x, b) \in Nat /\ Share(y, a) \in Nat /\ Share(y, b) \in Nat
      BY ShareType
    <3> HIDE DEF lists
    <3> QED BY <1>1, <3>1, <3>2, <3>3, <3>4
  <2>3. score[a] > score[b]
    BY <2>1, <2>2
  <2>4. worth[a] > worth[b]
    <3>1. overlap[a] * Decisive(lists) >= overlap[b] * Decisive(lists)
      <4>1. \A k, m, d \in Nat : k >= m => k * d >= m * d
        OBVIOUS
      <4>2. overlap[a] \in Nat /\ overlap[b] \in Nat
        BY <2>1
      <4> HIDE DEF lists
      <4> QED BY <1>2, <1>14, <4>1, <4>2
    <3>2. overlap[a] * Decisive(lists) \in Nat /\ overlap[b] * Decisive(lists) \in Nat
      BY <1>2, <2>1
    <3>3. FusedScore(lists, a) \in Nat /\ FusedScore(lists, b) \in Nat
      BY <1>1
    <3>4. \A k, m, p, q \in Nat : k >= m /\ p > q => k + p > m + q
      OBVIOUS
    <3> HIDE DEF lists
    <3>5. overlap[a] * Decisive(lists) + FusedScore(lists, a)
            > overlap[b] * Decisive(lists) + FusedScore(lists, b)
      BY <2>2, <3>1, <3>2, <3>3, <3>4
    <3> QED BY <2>1, <3>5
  <2> HIDE DEF score, worth
  <2>5. b \in ToSet(Top(t, limit))
    BY <1>5, <1>11, <1>14
  <2>6. AheadIn(Top(t, limit), a, b)
    BY <1>3, <1>5, <2>3, <2>5, AheadInTop
  <2>7. a \in ToSet(u) /\ b \in ToSet(Top(u, limit))
    BY <1>5, <1>8, <1>14, <2>6 DEF AheadIn
  <2>8. AheadIn(Top(u, limit), a, b)
    BY <1>4, <1>8, <2>4, <2>7, AheadInTop
  <2> QED BY <1>8, <2>8
<1> QED BY <1>10, <1>11, <1>12, <1>13, <1>14 DEF Unanimous, result, fused

LEMMA RankingsAreRankings ==
  ASSUME NEW limit \in Limits, NEW s \in Rankings(limit) PROVE IsRanking(s)
<1>1. limit \in Nat
  BY RankingAssumption
<1>2. s \in BoundedSeq(Chunks, limit) /\ IsInjective(s)
  BY DEF Rankings
<1>3. PICK n \in 0..limit : s \in [1..n -> Chunks]
  BY <1>2 DEF BoundedSeq, SeqOf
<1>4. n \in Nat
  BY <1>1
<1>5. s \in Seq(Chunks)
  BY <1>3, <1>4, SeqDef
<1> QED BY <1>2, <1>5 DEF IsRanking, IsInjective

LEMMA RankingStart == RankingInit => RankingIsUnanimous
<1> SUFFICES ASSUME RankingInit PROVE RankingIsUnanimous
  BY Zenon
<1>1. /\ retrieval.dense = <<>> /\ retrieval.sparse = <<>> /\ retrieval.limit = 0
      /\ ranked = <<>>
  BY DEF RankingInit, NoRetrieval
<1>2. ToSet(<<>>) = {} /\ IsInjective(<<>>) /\ Len(<<>>) = 0
  BY DEF ToSet, IsInjective
<1>3. Cardinality({}) = 0
  BY FS_EmptySet
<1>4. Min({0, 0}) = 0
  BY DEF Min
<1> QED BY <1>1, <1>2, <1>3, <1>4 DEF RankingIsUnanimous

LEMMA RankingStep ==
  ASSUME RankingIsUnanimous, RankingNext \/ UNCHANGED rankingVars
  PROVE  RankingIsUnanimous'
<1>1. CASE UNCHANGED rankingVars
  <2>1. retrieval' = retrieval /\ ranked' = ranked
    BY <1>1 DEF rankingVars
  <2>2. Unanimous(ranked, retrieval.dense, retrieval.sparse, retrieval.overlap, retrieval.limit)
    BY Zenon DEF RankingIsUnanimous, Unanimous
  <2>3. Unanimous(ranked', retrieval'.dense, retrieval'.sparse, retrieval'.overlap,
                  retrieval'.limit)
    BY <2>1, <2>2
  <2> QED BY <2>3, Zenon DEF RankingIsUnanimous, Unanimous
<1>2. CASE RankingNext
  <2>1. PICK limit \in Limits, overlap \in [Chunks -> Overlaps] :
          \E x, y \in Rankings(limit) : Retrieve(x, y, overlap, limit)
    BY <1>2 DEF RankingNext
  <2>2. PICK x \in Rankings(limit), y \in Rankings(limit) : Retrieve(x, y, overlap, limit)
    BY <2>1
  <2>3. /\ retrieval' = [dense |-> x, sparse |-> y, limit |-> limit, overlap |-> overlap]
        /\ ranked' = Rerank(Fuse(<<x, y>>, limit), <<x, y>>, overlap, limit)
    BY <2>2 DEF Retrieve
  <2>4. limit \in Nat /\ overlap \in [Chunks -> Nat]
    BY RankingAssumption
  <2>5. Unanimous(ranked', x, y, overlap, limit)
    BY <2>3, <2>4, RankingsAreRankings, RetrievalIsUnanimous
  <2>6. retrieval'.dense = x /\ retrieval'.sparse = y
    BY <2>3
  <2>7. retrieval'.limit = limit /\ retrieval'.overlap = overlap
    BY <2>3
  <2> QED BY <2>5, <2>6, <2>7 DEF RankingIsUnanimous, Unanimous
<1> QED BY <1>1, <1>2

(***************************************************************************)
(* For any chunks, rank constant, limits and overlaps, what both searches  *)
(* and the words of the query prefer, the result prefers, and it is as     *)
(* long as it may be (RankingIsUnanimous): ReciprocalRankFusion.fuse and   *)
(* LexicalReranker.rerank in QdrantHybridRetriever.retrieve.               *)
(***************************************************************************)
THEOREM RankingsAgree == PartsSpec => []RankingIsUnanimous
<1>1. PartsInit => RankingIsUnanimous
  BY RankingStart DEF PartsInit
<1>2. RankingIsUnanimous /\ [PartsNext]_partsVars => RankingIsUnanimous'
  BY PartsStep, RankingStep
<1> QED BY <1>1, <1>2, PTL DEF PartsSpec

-----------------------------------------------------------------------------
Reasons == {"none", "not_allowlisted", "approval_missing"}
AuditEvent == [of : Invocations, allowed : BOOLEAN, reason : Reasons]
Invocation == [tool : Tools \cup {NoTool}, approved : BOOLEAN, outcome : Outcomes]

\* The events of a call, and what they have to tell of it.
EventsOf(i) == {trail[n] : n \in {m \in DOMAIN trail : trail[m].of = i}}

Told(i) ==
  /\ invocation[i].outcome = "returned" =>
       \E e \in EventsOf(i) : e.allowed /\ e.reason = "none"
  /\ invocation[i].outcome \in {"not_allowed", "approval_required"} =>
       \E e \in EventsOf(i) : e.reason # "none"
  /\ invocation[i].outcome = "pending" => EventsOf(i) = {}

OneEventEach == \A m, n \in DOMAIN trail : trail[m].of = trail[n].of => m = n

\* What is true of the executor and its trail together.
AuditInv ==
  /\ invocation \in [Invocations -> Invocation]
  /\ trail \in Seq(AuditEvent)
  /\ OneEventEach
  /\ \A i \in Invocations : Told(i)

LEMMA AuditFromInv == AuditInv => AuditTellsOutcome
BY DEF AuditInv, OneEventEach, Told, AuditTellsOutcome, EventsOf

LEMMA EventType ==
  ASSUME NEW i \in Invocations, NEW tool \in Tools, NEW approved \in BOOLEAN
  PROVE  /\ Event(i, tool, approved) \in AuditEvent
         /\ Event(i, tool, approved).of = i
         /\ Event(i, tool, approved).reason = Reason(tool, approved)
         /\ Event(i, tool, approved).allowed = Allows(tool)
         /\ Verdict(tool, approved) \in Outcomes \ {"pending", "audit_error"}
<1>1. Reason(tool, approved) \in Reasons
  BY DEF Reason, Reasons
<1>2. Allows(tool) \in BOOLEAN
  BY DEF Allows
<1>3. PICK r \in Reasons : r = Reason(tool, approved)
  BY <1>1
<1>4. PICK a \in BOOLEAN : a = Allows(tool)
  BY <1>2
<1>5. Event(i, tool, approved) = [of |-> i, allowed |-> a, reason |-> r]
  BY <1>3, <1>4 DEF Event
<1>6. Verdict(tool, approved) \in Outcomes \ {"pending", "audit_error"}
  BY DEF Verdict, Outcomes
<1>7. [of |-> i, allowed |-> a, reason |-> r] \in AuditEvent
  BY DEF AuditEvent
<1> HIDE DEF Event
<1> QED BY <1>3, <1>4, <1>5, <1>6, <1>7

LEMMA AuditInit == SecurityInit => AuditInv
<1> SUFFICES ASSUME SecurityInit PROVE AuditInv
  BY Zenon
<1>1. trail = <<>> /\ trail \in Seq(AuditEvent) /\ DOMAIN trail = {}
  BY DEF SecurityInit
<1>2. [tool |-> NoTool, approved |-> FALSE, outcome |-> "pending"] \in Invocation
  BY DEF Invocation, Outcomes
<1>3. /\ invocation \in [Invocations -> Invocation]
      /\ \A i \in Invocations : invocation[i].outcome = "pending"
  BY <1>2 DEF SecurityInit
<1>4. \A i \in Invocations : EventsOf(i) = {}
  BY <1>1 DEF EventsOf
<1>5. OneEventEach /\ \A i \in Invocations : Told(i)
  BY <1>1, <1>3, <1>4 DEF OneEventEach, Told
<1> QED BY <1>1, <1>3, <1>5 DEF AuditInv

\* What a conclusion says of the calls.
LEMMA ConcludedCalls ==
  ASSUME invocation \in [Invocations -> Invocation],
         NEW i \in Invocations, NEW tool \in Tools, NEW approved \in BOOLEAN,
         NEW outcome \in Outcomes, Concluded(i, tool, approved, outcome)
  PROVE  /\ invocation' \in [Invocations -> Invocation]
         /\ invocation[i].outcome = "pending"
         /\ invocation'[i].outcome = outcome
         /\ \A j \in Invocations \ {i} : invocation'[j] = invocation[j]
<1>1. PICK v : v = [tool |-> tool, approved |-> approved, outcome |-> outcome]
  OBVIOUS
<1>2. v \in Invocation /\ v.outcome = outcome
  BY <1>1 DEF Invocation
<1>3. invocation' = [invocation EXCEPT ![i] = v] /\ invocation[i].outcome = "pending"
  BY <1>1 DEF Concluded
<1> QED BY <1>2, <1>3

\* An error of the audit concludes a call without an event.
LEMMA SilentStep ==
  ASSUME AuditInv, NEW i \in Invocations, NEW tool \in Tools, NEW approved \in BOOLEAN,
         Concluded(i, tool, approved, "audit_error"), UNCHANGED trail
  PROVE  AuditInv'
<1>1. "audit_error" \in Outcomes
  BY DEF Outcomes
<1>2. /\ invocation' \in [Invocations -> Invocation]
      /\ invocation'[i].outcome = "audit_error"
      /\ \A j \in Invocations \ {i} : invocation'[j] = invocation[j]
  BY <1>1, ConcludedCalls DEF AuditInv
<1>3. \A j \in Invocations : EventsOf(j)' = EventsOf(j)
  BY DEF EventsOf
<1>4. ASSUME NEW j \in Invocations PROVE Told(j)'
  <2>1. CASE j = i
    BY <1>2, <2>1 DEF Told
  <2>2. CASE j # i
    <3>1. invocation'[j] = invocation[j] /\ EventsOf(j)' = EventsOf(j) /\ Told(j)
      BY <1>2, <1>3, <2>2 DEF AuditInv
    <3> QED BY <3>1 DEF Told
  <2> QED BY <2>1, <2>2
<1>5. OneEventEach'
  BY DEF AuditInv, OneEventEach
<1> QED BY <1>2, <1>4, <1>5 DEF AuditInv

\* An event is appended for a call that had none. The outcome is the verdict
\* of which the event gives the reason, or the error of a lost reply.
LEMMA ToldStep ==
  ASSUME AuditInv, NEW i \in Invocations, NEW tool \in Tools, NEW approved \in BOOLEAN,
         NEW outcome \in {Verdict(tool, approved), "audit_error"},
         Concluded(i, tool, approved, outcome),
         trail' = Append(trail, Event(i, tool, approved))
  PROVE  AuditInv'
<1>1. PICK e \in AuditEvent :
        /\ e = Event(i, tool, approved)
        /\ e.of = i /\ e.reason = Reason(tool, approved) /\ e.allowed = Allows(tool)
  BY EventType
<1>2. outcome \in Outcomes \ {"pending"}
  BY EventType DEF Outcomes
<1>3. /\ invocation' \in [Invocations -> Invocation]
      /\ invocation[i].outcome = "pending"
      /\ invocation'[i].outcome = outcome
      /\ \A j \in Invocations \ {i} : invocation'[j] = invocation[j]
  BY <1>2, ConcludedCalls DEF AuditInv
<1>4. /\ trail' \in Seq(AuditEvent)
      /\ DOMAIN trail' = DOMAIN trail \cup {Len(trail) + 1}
      /\ Len(trail) + 1 \notin DOMAIN trail
      /\ \A n \in DOMAIN trail : trail'[n] = trail[n]
      /\ trail'[Len(trail) + 1] = e
  BY <1>1 DEF AuditInv
<1>5. EventsOf(i) = {}
  BY <1>3 DEF AuditInv, Told
<1>6. \A n \in DOMAIN trail : trail[n].of # i
  BY <1>5 DEF EventsOf
<1>7. EventsOf(i)' = {e}
  BY <1>1, <1>4, <1>6 DEF EventsOf
<1>8. \A j \in Invocations \ {i} : EventsOf(j)' = EventsOf(j)
  BY <1>1, <1>4 DEF EventsOf
<1>9. OneEventEach'
  BY <1>1, <1>4, <1>6 DEF AuditInv, OneEventEach
<1>10. ASSUME NEW j \in Invocations PROVE Told(j)'
  <2>1. CASE j # i
    <3>1. invocation'[j] = invocation[j] /\ EventsOf(j)' = EventsOf(j) /\ Told(j)
      BY <1>3, <1>8, <2>1 DEF AuditInv
    <3> QED BY <3>1 DEF Told
  <2>2. CASE j = i
    <3>1. Verdict(tool, approved) = "returned" => e.allowed /\ e.reason = "none"
      BY <1>1 DEF Verdict, Reason
    <3>2. Verdict(tool, approved) \in {"not_allowed", "approval_required"} => e.reason # "none"
      BY <1>1 DEF Verdict, Reason
    <3> QED BY <1>2, <1>3, <1>7, <2>2, <3>1, <3>2 DEF Told
  <2> QED BY <2>1, <2>2
<1> QED BY <1>3, <1>4, <1>9, <1>10 DEF AuditInv

LEMMA AuditStep == AuditInv /\ [PartsNext]_partsVars => AuditInv'
<1> SUFFICES ASSUME AuditInv, [PartsNext]_partsVars PROVE AuditInv'
  OBVIOUS
<1>1. CASE UNCHANGED securityVars
  <2>1. UNCHANGED <<invocation, trail>>
    BY <1>1 DEF securityVars
  <2> QED BY <2>1 DEF AuditInv, OneEventEach, Told, EventsOf
<1>2. ASSUME NEW i \in Invocations, NEW tool \in Tools, NEW approved \in BOOLEAN
      PROVE  /\ Execute(i, tool, approved) => AuditInv'
             /\ AuditFails(i, tool, approved) => AuditInv'
             /\ AuditReplyLost(i, tool, approved) => AuditInv'
             /\ SessionRefuses(i, tool, approved) => AuditInv'
  BY SilentStep, ToldStep DEF Execute, AuditFails, AuditReplyLost, SessionRefuses
<1> QED BY <1>1, <1>2, PartsStep DEF SecurityNext

(***************************************************************************)
(* The audit trail and the callers agree (AuditTellsOutcome), whichever    *)
(* writes and replies fail and although a failed session stays unusable:   *)
(* AuthorizedToolExecutor.execute over PostgresAuditSink.write.            *)
(***************************************************************************)
THEOREM AuditIsTruthful == PartsSpec => []AuditTellsOutcome
<1>1. PartsInit => AuditInv
  BY AuditInit DEF PartsInit
<1> QED BY <1>1, AuditStep, AuditFromInv, PTL DEF PartsSpec

-----------------------------------------------------------------------------
Matching ==
  {c \in DOMAIN documents :
     TenantOf[c] = search.tenant /\ documents[c] \cap search.terms # {}}

\* The counts are those of the documents as they are, so that none exceeds
\* the number of documents, which is what makes a score positive.
IndexInv ==
  /\ DOMAIN documents \subseteq ChunkIds
  /\ \A c \in DOMAIN documents : documents[c] \subseteq Terms
  /\ frequency = DocumentFrequency(documents)
  /\ search.limit \in Nat
  /\ hits \subseteq Matching
  /\ Cardinality(hits) < search.limit => hits = Matching

LEMMA IndexFromInv == IndexInv => SearchIsCurrent
BY DEF IndexInv, SearchIsCurrent, Matching

\* However the documents are replaced, a count is at most their number.
LEMMA FrequencyBounded ==
  ASSUME IndexInv, NEW t \in Terms
  PROVE  frequency[t] <= Cardinality(DOMAIN documents)
<1> DEFINE having == {c \in DOMAIN documents : t \in documents[c]}
<1>1. IsFiniteSet(DOMAIN documents)
  BY FS_Subset, SparseIndexAssumption DEF IndexInv
<1>2. having \in SUBSET DOMAIN documents
  OBVIOUS
<1>3. Cardinality(having) <= Cardinality(DOMAIN documents)
  BY <1>1, <1>2, FS_Subset
<1>4. frequency[t] = Cardinality(having)
  BY DEF IndexInv, DocumentFrequency
<1> QED BY <1>3, <1>4

LEMMA IndexInit == SparseIndexInit => IndexInv
<1> SUFFICES ASSUME SparseIndexInit PROVE IndexInv
  BY Zenon
<1>1. DOMAIN documents = {} /\ search.limit = 0 /\ hits = {}
  BY DEF SparseIndexInit, NoSearch
<1>2. frequency = DocumentFrequency(documents)
  <2>1. ASSUME NEW t \in Terms
        PROVE  Cardinality({c \in DOMAIN documents : t \in documents[c]}) = 0
    <3>1. {c \in DOMAIN documents : t \in documents[c]} = {}
      BY <1>1
    <3> QED BY <3>1, FS_EmptySet
  <2> QED BY <2>1 DEF SparseIndexInit, DocumentFrequency
<1>3. ~(Cardinality(hits) < search.limit)
  BY <1>1, FS_EmptySet
<1> QED BY <1>1, <1>2, <1>3 DEF IndexInv

\* Adding forgets the last search, of which nothing is left to say.
LEMMA AddStep ==
  ASSUME IndexInv, NEW added \in SUBSET ChunkIds, NEW batch \in [added -> SUBSET Terms],
         Add(batch)
  PROVE  IndexInv'
<1>1. PICK merged : merged = With(batch)
  OBVIOUS
<1>2. DOMAIN merged = added \cup DOMAIN documents
  BY <1>1 DEF With
<1>3. \A c \in DOMAIN merged : merged[c] = IF c \in added THEN batch[c] ELSE documents[c]
  BY <1>1 DEF With
<1>4. documents' = merged /\ frequency' = DocumentFrequency(merged)
  BY <1>1 DEF Add
<1>5. search'.limit = 0 /\ hits' = {}
  BY DEF Add, NoSearch
<1>6. ~(Cardinality(hits') < search'.limit)
  BY <1>5, FS_EmptySet
<1>7. \A c \in DOMAIN documents' : documents'[c] \subseteq Terms
  BY <1>2, <1>3, <1>4 DEF IndexInv
<1>8. DOMAIN documents' \subseteq ChunkIds
  BY <1>2, <1>4 DEF IndexInv
<1>9. (frequency = DocumentFrequency(documents))'
  BY <1>4 DEF DocumentFrequency
<1> QED BY <1>5, <1>6, <1>7, <1>8, <1>9 DEF IndexInv

\* The chunks with a positive score are those with a term of the query.
LEMMA SearchStep ==
  ASSUME IndexInv, NEW terms \in SUBSET Terms, NEW tenant \in Tenants,
         NEW limit \in SearchLimits, Search(terms, tenant, limit)
  PROVE  IndexInv'
<1>1. PICK best \in SUBSET Scored(terms, tenant) :
        /\ Cardinality(best) = IF Cardinality(Scored(terms, tenant)) < limit
                               THEN Cardinality(Scored(terms, tenant)) ELSE limit
        /\ hits' = best
  BY DEF Search
<1>2. PICK v : v = [terms |-> terms, tenant |-> tenant, limit |-> limit]
  OBVIOUS
<1>3. v.terms = terms /\ v.tenant = tenant /\ v.limit = limit
  BY <1>2
<1>4. search' = v /\ UNCHANGED <<documents, frequency>>
  BY <1>2 DEF Search
<1>5. Scored(terms, tenant) = Matching'
  <2>1. \A c \in DOMAIN documents :
          ScoresPositive(c, terms) <=> documents[c] \cap terms # {}
    <3>1. \A c \in DOMAIN documents : \A t \in terms \cap documents[c] :
            frequency[t] <= Cardinality(DOMAIN documents)
      BY FrequencyBounded
    <3> QED BY <3>1 DEF ScoresPositive
  <2> QED BY <1>3, <1>4, <2>1 DEF Scored, Matching
<1>6. limit \in Nat
  BY SparseIndexAssumption
<1>7. IsFiniteSet(Scored(terms, tenant))
  <2>1. Scored(terms, tenant) \in SUBSET ChunkIds
    BY DEF Scored, IndexInv
  <2> QED BY <2>1, FS_Subset, SparseIndexAssumption
<1>8. Cardinality(best) < limit => best = Scored(terms, tenant)
  <2>1. Cardinality(Scored(terms, tenant)) \in Nat
    BY <1>7, FS_CardinalityType
  <2>2. Cardinality(best) < limit => Cardinality(best) = Cardinality(Scored(terms, tenant))
    BY <1>1, <1>6, <2>1
  <2>3. Cardinality(Scored(terms, tenant)) = Cardinality(best) => Scored(terms, tenant) = best
    BY <1>7, FS_Subset
  <2> QED BY <2>2, <2>3
<1>9. (frequency = DocumentFrequency(documents))'
  BY <1>4 DEF IndexInv, DocumentFrequency
<1>10. /\ (DOMAIN documents \subseteq ChunkIds)'
       /\ (\A c \in DOMAIN documents : documents[c] \subseteq Terms)'
  BY <1>4 DEF IndexInv
<1> QED BY <1>1, <1>3, <1>4, <1>5, <1>6, <1>8, <1>9, <1>10 DEF IndexInv

LEMMA IndexStep == IndexInv /\ [PartsNext]_partsVars => IndexInv'
<1> SUFFICES ASSUME IndexInv, [PartsNext]_partsVars PROVE IndexInv'
  OBVIOUS
<1>1. CASE UNCHANGED indexVars
  <2>1. UNCHANGED <<documents, frequency, search, hits>>
    BY <1>1 DEF indexVars
  <2> QED BY <2>1 DEF IndexInv, Matching, DocumentFrequency
<1>2. CASE SparseIndexNext
  BY <1>2, AddStep, SearchStep DEF SparseIndexNext
<1> QED BY <1>1, <1>2, PartsStep

(***************************************************************************)
(* A search of the local index finds the chunks of its tenant that have a  *)
(* term of the query as they are now (SearchIsCurrent), however often      *)
(* chunks were added and replaced since: Bm25Index.search over the counts  *)
(* of _rebuild_document_frequency.                                         *)
(***************************************************************************)
THEOREM SearchFindsWhatIsIndexed == PartsSpec => []SearchIsCurrent
<1>1. PartsInit => IndexInv
  BY IndexInit DEF PartsInit
<1> QED BY <1>1, IndexStep, IndexFromInv, PTL DEF PartsSpec
=============================================================================
