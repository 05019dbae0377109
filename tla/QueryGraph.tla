----------------------------- MODULE QueryGraph -----------------------------
(***************************************************************************)
(* One execution of the orchestration graph per query: route, retrieve     *)
(* and/or run SQL, then answer through the answer cache. Executions are    *)
(* coroutines of one API process that share the Qdrant index and the Redis *)
(* cache; each await is a step.                                            *)
(*                                                                         *)
(* Left out because the compiled graph cannot reach them: the result with  *)
(* an error (the query is always given, and iterations is 1) and an edge   *)
(* without a route. An answer is abstracted to the chunks it cites and the *)
(* rows it counts; a query's text to what QueryRouter and CacheKey read.   *)
(***************************************************************************)
EXTENDS Integers, FiniteSets

CONSTANTS
  Queries,         \* queries, each asked once
  Tenants,
  TenantOf,        \* the authorized tenant of a query
  Texts,
  TextOf,          \* the text of a query
  Folded,          \* text.strip().lower()
  RouteOf,         \* QueryRouter.route of a text
  Chunks,          \* chunks that may be indexed
  OwnerOf,         \* the tenant of a chunk
  RetrievalLimit,  \* retrieval_limit of the graph (8 in the code)
  MaxRows,         \* SqlSafetyPolicy.max_rows
  GraphFaults      \* steps whose provider or store may fail

Route == {"unstructured", "structured", "hybrid"}

\* The router lower-cases and splits the text, so folding keeps the route.
ASSUME QueryAssumption ==
  /\ TenantOf \in [Queries -> Tenants]
  /\ TextOf \in [Queries -> Texts]
  /\ Folded \in [Texts -> Texts]
  /\ RouteOf \in [Texts -> Route]
  /\ \A t \in Texts : RouteOf[Folded[t]] = RouteOf[t]
  /\ OwnerOf \in [Chunks -> Tenants]
  /\ RetrievalLimit \in Nat \ {0}
  /\ MaxRows \in Nat \ {0}

VARIABLES
  index,   \* chunks with a point in Qdrant
  cache,   \* the answer cache, NoAnswer where it has no entry
  run      \* the graph execution of each query

sharedVars == <<index, cache>>

Answer == [citations : SUBSET Chunks, rows : 0..MaxRows]
NoAnswer == [citations |-> {}, rows |-> -1]
Citing(s) == [citations |-> s, rows |-> 0]
Counting(n) == [citations |-> {}, rows |-> n]

\* Mutants of Key: without the tenant, without the text.
KeyOfText(q) == <<CHOOSE t \in Tenants : TRUE, Folded[TextOf[q]]>>
KeyOfTenant(q) == <<TenantOf[q], CHOOSE t \in Texts : TRUE>>

\* CacheKey.value: filters, model and index_version are the same for all.
Key(q) == <<TenantOf[q], Folded[TextOf[q]]>>

GraphPc == {"idle", "route", "dense", "sparse", "sql", "lookup", "generate", "store",
            "answered", "failed", "cancelled"}
GraphSteps == {"dense", "sparse", "sql", "lookup", "generate", "store"}

Run == [pc : GraphPc, dense : SUBSET Chunks, evidence : SUBSET Chunks,
        rows : 0..MaxRows, answer : Answer \cup {NoAnswer}]

NewRun == [pc |-> "idle", dense |-> {}, evidence |-> {}, rows |-> 0, answer |-> NoAnswer]

GraphTypeOK ==
  /\ index \subseteq Chunks
  /\ cache \in [Tenants \X Texts -> Answer \cup {NoAnswer}]
  /\ run \in [Queries -> Run]

GraphInit ==
  /\ index = {}
  /\ cache = [k \in Tenants \X Texts |-> NoAnswer]
  /\ run = [q \in Queries |-> NewRun]

RouteIs(q, route) == RouteOf[TextOf[q]] = route
AtNode(q, pc) == run[q].pc = pc
Set(q, r) == run' = [run EXCEPT ![q] = r]

-----------------------------------------------------------------------------
\* The embed_chunks task adds points; nothing removes them.
IndexChunk(c) ==
  /\ c \notin index
  /\ index' = index \cup {c}
  /\ UNCHANGED <<cache, run>>

\* The TTL of a cache entry runs out.
Expire(k) ==
  /\ cache[k] # NoAnswer
  /\ cache' = [cache EXCEPT ![k] = NoAnswer]
  /\ UNCHANGED <<index, run>>

RouteQuery(q) ==
  /\ AtNode(q, "route")
  /\ Set(q, [run[q] EXCEPT !.pc = IF RouteIs(q, "structured") THEN "sql" ELSE "dense"])
  /\ UNCHANGED sharedVars

\* Mutant of Found: a search without the tenant's filter.
FoundByAnyone(q) == index

\* The points a search may return: _build_filter demands the tenant.
Found(q) == {c \in index : OwnerOf[c] = TenantOf[q]}

\* The nearest vectors always exist, if the tenant has any point at all.
SearchDense(q) ==
  /\ AtNode(q, "dense")
  /\ \E dense \in SUBSET Found(q) :
       /\ Cardinality(dense) <= RetrievalLimit
       /\ dense = {} => Found(q) = {}
       /\ Set(q, [run[q] EXCEPT !.pc = "sparse", !.dense = dense])
  /\ UNCHANGED sharedVars

\* The sparse search sees points indexed since; fusion and reranking keep
\* the best RetrievalLimit of both results.
SearchSparse(q) ==
  /\ AtNode(q, "sparse")
  /\ \E sparse \in SUBSET Found(q) :
       LET both == run[q].dense \cup sparse IN
       \E best \in SUBSET both :
         /\ Cardinality(sparse) <= RetrievalLimit
         /\ Cardinality(best) <= RetrievalLimit
         /\ best # both => Cardinality(best) = RetrievalLimit
         /\ Set(q, [run[q] EXCEPT !.evidence = best, !.dense = {},
                      !.pc = IF RouteIs(q, "hybrid") THEN "sql" ELSE "lookup"])
  /\ UNCHANGED sharedVars

\* Mutant of ExecuteSql: one row over the limit.
ExecuteSqlMore(q) ==
  /\ AtNode(q, "sql")
  /\ \E n \in 0..(MaxRows + 1) : Set(q, [run[q] EXCEPT !.pc = "lookup", !.rows = n])
  /\ UNCHANGED sharedVars

\* The safety policy caps the rows of the statement.
ExecuteSql(q) ==
  /\ AtNode(q, "sql")
  /\ \E n \in 0..MaxRows : Set(q, [run[q] EXCEPT !.pc = "lookup", !.rows = n])
  /\ UNCHANGED sharedVars

-----------------------------------------------------------------------------
\* AnswerServiceAdapter.answer: rows without evidence replace the answer.
Adapted(q, answer) ==
  IF run[q].rows > 0 /\ run[q].evidence = {} THEN Counting(run[q].rows) ELSE answer

Finish(q, answer) ==
  Set(q, [run[q] EXCEPT !.pc = "answered", !.answer = Adapted(q, answer)])

\* AnswerService.answer: a hit ends the execution.
Lookup(q) ==
  /\ AtNode(q, "lookup")
  /\ IF cache[Key(q)] # NoAnswer
       THEN Finish(q, cache[Key(q)])
       ELSE Set(q, [run[q] EXCEPT !.pc = "generate"])
  /\ UNCHANGED sharedVars

\* Either generator: no evidence, no citation; otherwise it cites some of the
\* evidence (an answer that cites none is an error).
Generate(q) ==
  /\ AtNode(q, "generate")
  /\ \E s \in SUBSET run[q].evidence :
       /\ s = {} => run[q].evidence = {}
       /\ Set(q, [run[q] EXCEPT !.pc = "store", !.answer = Citing(s)])
  /\ UNCHANGED sharedVars

\* Mutant of Store: the adapted answer is cached.
StoreAdapted(q) ==
  /\ AtNode(q, "store")
  /\ cache' = [cache EXCEPT ![Key(q)] = Adapted(q, run[q].answer)]
  /\ Finish(q, run[q].answer)
  /\ UNCHANGED index

\* The generated answer is cached; if Redis fails to say so, it is lost to
\* this execution all the same.
Store(q) ==
  /\ AtNode(q, "store")
  /\ cache' = [cache EXCEPT ![Key(q)] = run[q].answer]
  /\ \/ Finish(q, run[q].answer)
     \/ "store" \in GraphFaults /\ Set(q, [run[q] EXCEPT !.pc = "failed", !.answer = NoAnswer])
  /\ UNCHANGED index

\* A provider, Qdrant, the database or Redis raises before the effect.
GraphFails(q) ==
  /\ run[q].pc \in GraphFaults \cap GraphSteps
  /\ Set(q, [run[q] EXCEPT !.pc = "failed", !.answer = NoAnswer])
  /\ UNCHANGED sharedVars

GraphStep(q) ==
  \/ RouteQuery(q) \/ SearchDense(q) \/ SearchSparse(q) \/ ExecuteSql(q)
  \/ Lookup(q) \/ Generate(q) \/ Store(q) \/ GraphFails(q)

Environment == (\E c \in Chunks : IndexChunk(c)) \/ (\E k \in Tenants \X Texts : Expire(k))

\* compiled.ainvoke: the query is handed to the graph.
Ask(q) == run' = [run EXCEPT ![q].pc = "route"]

\* The graph by itself, whoever asks.
GraphNext ==
  \/ \E q \in Queries : \/ AtNode(q, "idle") /\ Ask(q) /\ UNCHANGED sharedVars
                        \/ GraphStep(q)
  \/ Environment

GraphSpec == GraphInit /\ [][GraphNext]_<<sharedVars, run>>

-----------------------------------------------------------------------------
\* A cached answer cites only chunks of the tenant in its key.
CacheScoped == \A k \in DOMAIN cache : \A c \in cache[k].citations : OwnerOf[c] = k[1]

\* The chunks an execution holds.
InRun(q) == run[q].dense \cup run[q].evidence \cup run[q].answer.citations

\* No chunk of another tenant is cached or held by an execution: the search
\* filter (qdrant_index.py, _build_filter) and the tenant in the cache key
\* (semantic_cache.py, CacheKey.value) scope the shared stores together.
GraphScoped ==
  CacheScoped /\ \A q \in Queries : \A c \in InRun(q) : OwnerOf[c] = TenantOf[q]

\* A row count is always that of the SQL this very execution ran: the count
\* replaces the answer after the cache write (graph_adapters.py, answer), so
\* no count is ever served from the cache.
RowCountsAreFresh ==
  \A q \in Queries : run[q].answer.rows > 0 =>
    run[q].answer.rows = run[q].rows /\ run[q].evidence = {}

\* A structured query is never answered with citations, although hits come
\* from other executions: equal keys mean equal routes, because the router
\* and the key fold the text alike (orchestration.py, QueryRouter.route).
StructuredHasNoCitation ==
  \A q \in Queries : RouteIs(q, "structured") => run[q].answer.citations = {}
=============================================================================
