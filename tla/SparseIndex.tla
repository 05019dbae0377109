----------------------------- MODULE SparseIndex -----------------------------
(***************************************************************************)
(* Bm25Index, the in-memory sparse index for local retrieval: one index    *)
(* for all tenants, whose chunks are replaced and whose term statistics    *)
(* are rebuilt as chunks are added. Of a score the module keeps whether it *)
(* is positive, which is what decides who is found.                        *)
(***************************************************************************)
EXTENDS Integers, FiniteSets

CONSTANTS
  ChunkIds, Terms, Tenants,
  TenantOf,     \* the tenant of each chunk
  SearchLimits

VARIABLES
  documents,   \* _documents: the terms of each chunk that was added
  frequency,   \* _document_frequency
  search,      \* the last search
  hits         \* the chunks it returned

indexVars == <<documents, frequency, search, hits>>

ASSUME SparseIndexAssumption ==
  /\ IsFiniteSet(ChunkIds)
  /\ TenantOf \in [ChunkIds -> Tenants]
  /\ SearchLimits \subseteq Nat \ {0}

NoSearch == [terms |-> {}, tenant |-> CHOOSE t \in Tenants : TRUE, limit |-> 0]

SparseIndexInit ==
  /\ documents = [c \in {} |-> {}]
  /\ frequency = [t \in Terms |-> 0]
  /\ search = NoSearch
  /\ hits = {}

\* Mutant of DocumentFrequency: the counts are not cleared before counting anew.
DocumentFrequencyAdded(docs) ==
  [t \in Terms |-> frequency[t] + Cardinality({c \in DOMAIN docs : t \in docs[c]})]

\* _rebuild_document_frequency: cleared, then counted anew.
DocumentFrequency(docs) ==
  [t \in Terms |-> Cardinality({c \in DOMAIN docs : t \in docs[c]})]

\* A chunk that is added again is replaced.
With(batch) ==
  [c \in DOMAIN documents \cup DOMAIN batch |->
     IF c \in DOMAIN batch THEN batch[c] ELSE documents[c]]

Add(batch) ==
  /\ documents' = With(batch)
  /\ frequency' = DocumentFrequency(With(batch))
  /\ search' = NoSearch
  /\ hits' = {}

\* _score: log(1 + (total - df + 0.5) / (df + 0.5)) of a term the chunk has is
\* positive as long as no more chunks than there are count as having it.
ScoresPositive(c, terms) ==
  \E t \in terms \cap documents[c] : frequency[t] <= Cardinality(DOMAIN documents)

Scored(terms, tenant) ==
  {c \in DOMAIN documents : TenantOf[c] = tenant /\ ScoresPositive(c, terms)}

\* search: the best of those with a positive score. Which are best, among more
\* than the limit, is left open.
Search(terms, tenant, limit) ==
  LET scored == Scored(terms, tenant) IN
  /\ \E best \in SUBSET scored :
       /\ Cardinality(best) = IF Cardinality(scored) < limit THEN Cardinality(scored) ELSE limit
       /\ hits' = best
  /\ search' = [terms |-> terms, tenant |-> tenant, limit |-> limit]
  /\ UNCHANGED <<documents, frequency>>

SparseIndexNext ==
  \/ \E added \in SUBSET ChunkIds \ {{}} :
       \E batch \in [added -> SUBSET Terms] : Add(batch)
  \/ \E terms \in SUBSET Terms, tenant \in Tenants, limit \in SearchLimits :
       Search(terms, tenant, limit)

\* A search finds its tenant's chunks that have a term of the query now, and no
\* others, up to the limit, however often chunks of any tenant were added and
\* replaced since (sparse_retrieval.py, add and search).
SearchIsCurrent ==
  LET matching == {c \in DOMAIN documents :
                     TenantOf[c] = search.tenant /\ documents[c] \cap search.terms # {}}
  IN /\ hits \subseteq matching
     /\ Cardinality(hits) < search.limit => hits = matching
==============================================================================
