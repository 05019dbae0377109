---------------------------- MODULE QueryProofs ----------------------------
(***************************************************************************)
(* For any queries, tenants, texts, chunks, faults and crashes: every      *)
(* variable keeps its type, and what is cached, held, sent or shown is     *)
(* scoped to one tenant.                                                   *)
(***************************************************************************)
EXTENDS QueryStream, SequenceTheorems, TLAPS

LEMMA KeyType ==
  ASSUME NEW q \in Queries
  PROVE  /\ Key(q) \in Tenants \X Texts
         /\ Key(q)[1] = TenantOf[q]
BY QueryAssumption DEF Key

LEMMA AnswerTypes ==
  /\ NoAnswer \notin Answer
  /\ \A s \in SUBSET Chunks : Citing(s) \in Answer
  /\ \A n \in 0..MaxRows : Counting(n) \in Answer
<1>1. NoAnswer.rows = -1
  BY DEF NoAnswer
<1>2. \A a \in Answer : a.rows \in 0..MaxRows
  BY DEF Answer
<1>3. -1 \notin 0..MaxRows
  BY QueryAssumption
<1>4. 0 \in 0..MaxRows
  BY QueryAssumption
<1> QED BY <1>1, <1>2, <1>3, <1>4 DEF Answer, Citing, Counting

LEMMA AdaptedType ==
  ASSUME NEW q \in Queries, GraphTypeOK, NEW a \in Answer \cup {NoAnswer}
  PROVE  Adapted(q, a) \in Answer \cup {NoAnswer}
BY AnswerTypes DEF Adapted, GraphTypeOK, Run

LEMMA NewRunType == NewRun \in Run
<1>1. 0 \in 0..MaxRows
  BY QueryAssumption
<1> QED BY <1>1 DEF NewRun, Run, GraphPc

LEMMA EventTypes ==
  /\ RouteEvent \in Event /\ AnswerEvent \in Event
  /\ CompleteEvent \in Event /\ Errors \subseteq Event
  /\ \A c \in Chunks : CitationEvent(c) \in Event
BY DEF Event

\* A step of the graph keeps its types.
LEMMA GraphStepType ==
  ASSUME GraphTypeOK, NEW q \in Queries, GraphStep(q)
  PROVE  GraphTypeOK'
<1> USE DEF GraphTypeOK, sharedVars
<1> DEFINE Keeps == index' = index /\ cache' = cache
<1>0. ASSUME NEW r \in Run, Set(q, r)
      PROVE  run' \in [Queries -> Run]
  BY <1>0 DEF Set
<1>1. CASE RouteQuery(q)
  <2>1. [run[q] EXCEPT !.pc = IF RouteIs(q, "structured") THEN "sql" ELSE "dense"] \in Run
    BY DEF Run, GraphPc
  <2> QED BY <1>0, <1>1, <2>1 DEF RouteQuery
<1>2. CASE SearchDense(q)
  <2>1. PICK dense \in SUBSET Found(q) : Set(q, [run[q] EXCEPT !.pc = "sparse", !.dense = dense])
    BY <1>2 DEF SearchDense
  <2>2. dense \subseteq Chunks
    BY DEF Found
  <2>3. [run[q] EXCEPT !.pc = "sparse", !.dense = dense] \in Run
    BY <2>2 DEF Run, GraphPc
  <2> QED BY <1>0, <1>2, <2>1, <2>3 DEF SearchDense
<1>3. CASE SearchSparse(q)
  <2>1. PICK sparse \in SUBSET Found(q) :
          \E best \in SUBSET (run[q].dense \cup sparse) :
            Set(q, [run[q] EXCEPT !.evidence = best, !.dense = {},
                      !.pc = IF RouteIs(q, "hybrid") THEN "sql" ELSE "lookup"])
    BY <1>3 DEF SearchSparse
  <2> PICK best \in SUBSET (run[q].dense \cup sparse) :
        Set(q, [run[q] EXCEPT !.evidence = best, !.dense = {},
                  !.pc = IF RouteIs(q, "hybrid") THEN "sql" ELSE "lookup"])
    BY <2>1
  <2>2. best \subseteq Chunks
    BY DEF Found, Run
  <2>3. [run[q] EXCEPT !.evidence = best, !.dense = {},
           !.pc = IF RouteIs(q, "hybrid") THEN "sql" ELSE "lookup"] \in Run
    BY <2>2 DEF Run, GraphPc
  <2> QED BY <1>0, <1>3, <2>1, <2>3 DEF SearchSparse
<1>4. CASE ExecuteSql(q)
  <2>1. PICK n \in 0..MaxRows : Set(q, [run[q] EXCEPT !.pc = "lookup", !.rows = n])
    BY <1>4 DEF ExecuteSql
  <2>2. [run[q] EXCEPT !.pc = "lookup", !.rows = n] \in Run
    BY DEF Run, GraphPc
  <2> QED BY <1>0, <1>4, <2>1, <2>2 DEF ExecuteSql
<1>5. ASSUME NEW a \in Answer \cup {NoAnswer}, Finish(q, a)
      PROVE  run' \in [Queries -> Run]
  <2>1. [run[q] EXCEPT !.pc = "answered", !.answer = Adapted(q, a)] \in Run
    BY AdaptedType DEF Run, GraphPc
  <2> QED BY <1>0, <1>5, <2>1 DEF Finish
<1>6. CASE Lookup(q)
  <2>1. CASE cache[Key(q)] # NoAnswer
    <3>1. cache[Key(q)] \in Answer
      BY <2>1, KeyType
    <3> QED BY <1>5, <1>6, <2>1, <3>1 DEF Lookup
  <2>2. CASE cache[Key(q)] = NoAnswer
    <3>1. [run[q] EXCEPT !.pc = "generate"] \in Run
      BY DEF Run, GraphPc
    <3> QED BY <1>0, <1>6, <2>2, <3>1 DEF Lookup
  <2> QED BY <2>1, <2>2
<1>7. CASE Generate(q)
  <2>1. PICK s \in SUBSET run[q].evidence :
          Set(q, [run[q] EXCEPT !.pc = "store", !.answer = Citing(s)])
    BY <1>7 DEF Generate
  <2>2. Citing(s) \in Answer
    BY AnswerTypes DEF Run
  <2>3. [run[q] EXCEPT !.pc = "store", !.answer = Citing(s)] \in Run
    BY <2>2 DEF Run, GraphPc
  <2> QED BY <1>0, <1>7, <2>1, <2>3 DEF Generate
<1>8. [run[q] EXCEPT !.pc = "failed", !.answer = NoAnswer] \in Run
  BY DEF Run, GraphPc
<1>9. CASE Store(q)
  <2>1. cache' \in [Tenants \X Texts -> Answer \cup {NoAnswer}]
    BY <1>9, KeyType DEF Store, Run
  <2>2. run[q].answer \in Answer \cup {NoAnswer}
    BY DEF Run
  <2> QED BY <1>0, <1>5, <1>8, <1>9, <2>1, <2>2 DEF Store
<1>10. CASE GraphFails(q)
  BY <1>0, <1>8, <1>10 DEF GraphFails
<1> QED BY <1>1, <1>2, <1>3, <1>4, <1>6, <1>7, <1>9, <1>10 DEF GraphStep

LEMMA CitedType ==
  ASSUME NEW e \in Event, e.type = "citation"
  PROVE  e.chunk \in Chunks
<1>1. e \notin {RouteEvent, AnswerEvent, CompleteEvent} \cup Errors
  BY DEF RouteEvent, AnswerEvent, CompleteEvent, Errors, ErrorEvent, Plain
<1>2. PICK c \in Chunks : e = CitationEvent(c)
  BY <1>1 DEF Event
<1> QED BY <1>2 DEF CitationEvent, Plain

LEMMA ViewUpdate ==
  ASSUME NEW v \in View, NEW n \in Nat, NEW r \in BOOLEAN, NEW a \in BOOLEAN,
         NEW s \in SUBSET Chunks, NEW x \in BOOLEAN, NEW l \in BOOLEAN
  PROVE  [v EXCEPT !.read = n, !.route = r, !.answer = a, !.citations = s,
                   !.error = x, !.loading = l] \in View
BY DEF View

LEMMA ShownType ==
  ASSUME NEW v \in View, NEW e, e.type = "citation" => e.chunk \in Chunks
  PROVE  Shown(v, e) \in View
<1> DEFINE n == v.read + 1
           r == v.route \/ e.type = "route"
           a == v.answer \/ e.type = "token"
           s == IF e.type = "citation" THEN v.citations \cup {e.chunk} ELSE v.citations
           x == e.type = "error" /\ ~e.blank
           l == e.type # "error"
<1>1. n \in Nat /\ s \in SUBSET Chunks
  BY DEF View
<1>2. r \in BOOLEAN /\ a \in BOOLEAN /\ x \in BOOLEAN /\ l \in BOOLEAN
  OBVIOUS
<1>3. Shown(v, e) = [v EXCEPT !.read = n, !.route = r, !.answer = a, !.citations = s,
                              !.error = x, !.loading = l]
  BY Zenon DEF Shown
<1> HIDE DEF n, r, a, s, x, l
<1>4. [v EXCEPT !.read = n, !.route = r, !.answer = a, !.citations = s,
                !.error = x, !.loading = l] \in View
  BY ZenonT(40), <1>1, <1>2, ViewUpdate
<1> QED BY <1>3, <1>4, Zenon

LEMMA ViewTypes ==
  /\ \A q \in Queries \cup {NoQuery} : Fresh(q) \in View
  /\ \A q \in Queries : [Fresh(q) EXCEPT !.loading = FALSE, !.error = TRUE] \in View
  /\ [Fresh(NoQuery) EXCEPT !.loading = FALSE] \in View
  /\ \A v \in View : /\ [v EXCEPT !.loading = FALSE] \in View
                     /\ [v EXCEPT !.loading = FALSE, !.error = TRUE] \in View
                     /\ [v EXCEPT !.loading = FALSE, !.stopped = TRUE] \in View
BY DEF Fresh, View

LEMMA YieldType ==
  ASSUME TypeOK, NEW q \in Queries, NEW e \in Event, NEW pc \in StreamPc, Yield(q, e, pc)
  PROVE  /\ events' \in [Queries -> Seq(Event)]
         /\ stream' \in [Queries -> StreamPc]
<1>1. Append(events[q], e) \in Seq(Event)
  BY DEF TypeOK
<1> QED BY <1>1 DEF TypeOK, Yield

LEMMA InitType == Init => TypeOK
<1> SUFFICES ASSUME Init PROVE TypeOK
  OBVIOUS
<1>1. GraphTypeOK
  BY NewRunType DEF Init, GraphInit, GraphTypeOK
<1>2. view \in [Clients -> View]
  BY ViewTypes DEF Init
<1>3. crashes \in 0..MaxCrashes
  BY StreamAssumption DEF Init
<1>4. <<>> \in Seq(Event)
  OBVIOUS
<1> QED BY <1>1, <1>2, <1>3, <1>4 DEF Init, TypeOK, StreamPc

\* What the API process does for a query keeps every type.
LEMMA ServeType ==
  ASSUME TypeOK, NEW q \in Queries, Serve(q)
  PROVE  TypeOK'
<1> USE DEF StreamPc
<1>0. ASSUME Quiet
      PROVE  /\ GraphTypeOK'
             /\ view' \in [Clients -> View]
             /\ crashes' \in 0..MaxCrashes
  BY <1>0 DEF TypeOK, Quiet, sharedVars, GraphTypeOK
<1>1. CASE RunGraph(q)
  <2>1. GraphTypeOK'
    BY <1>1, GraphStepType DEF RunGraph, TypeOK
  <2> QED BY <1>1, <2>1 DEF RunGraph, TypeOK, streamVars
<1>2. CASE YieldRoute(q)
  BY <1>0, <1>2, YieldType, EventTypes DEF YieldRoute, TypeOK
<1>3. CASE YieldAnswer(q)
  BY <1>0, <1>3, YieldType, EventTypes DEF YieldAnswer, TypeOK
<1>4. CASE YieldCitation(q)
  <2>1. PICK c \in run[q].answer.citations : Yield(q, CitationEvent(c), "citations")
    BY <1>4 DEF YieldCitation
  <2>2. run[q].answer \in Answer \cup {NoAnswer}
    BY DEF TypeOK, GraphTypeOK, Run
  <2>3. c \in Chunks
    BY <2>1, <2>2 DEF Answer, NoAnswer
  <2> QED BY <1>0, <1>4, <2>1, <2>3, YieldType, EventTypes DEF YieldCitation, TypeOK
<1>5. CASE YieldComplete(q)
  BY <1>0, <1>5, YieldType, EventTypes DEF YieldComplete, TypeOK
<1>6. CASE CloseStream(q)
  BY <1>0, <1>6 DEF CloseStream, TypeOK
<1>7. CASE YieldError(q)
  BY <1>0, <1>7, YieldType, EventTypes DEF YieldError, TypeOK
<1> QED BY <1>1, <1>2, <1>3, <1>4, <1>5, <1>6, <1>7 DEF Serve

\* The client, the network and the process keep every type.
LEMMA NextType == TypeOK /\ [Next]_vars => TypeOK'
<1> SUFFICES ASSUME TypeOK, [Next]_vars PROVE TypeOK'
  OBVIOUS
<1> USE StreamAssumption DEF StreamPc
<1>1. ASSUME NEW q \in Queries, Submit(q) PROVE TypeOK'
  <2>0. run[q] \in Run
    BY DEF TypeOK, GraphTypeOK
  <2>1. [run[q] EXCEPT !.pc = "route"] \in Run
    BY <2>0 DEF Run, GraphPc
  <2>2. run' \in [Queries -> Run]
    BY <1>1, <2>1 DEF Submit, Ask, TypeOK, GraphTypeOK
  <2> QED BY <1>1, <2>2, ViewTypes DEF Submit, Ask, TypeOK, GraphTypeOK, sharedVars
<1>2. ASSUME NEW q \in Queries, SubmitInVain(q) PROVE TypeOK'
  BY <1>2, ViewTypes DEF SubmitInVain, TypeOK, GraphTypeOK, sharedVars
<1>3. ASSUME NEW q \in Queries, Serve(q) PROVE TypeOK'
  BY <1>3, ServeType
<1>4. ASSUME NEW q \in Queries, Read(q) PROVE TypeOK'
  <2> DEFINE v == view[ClientOf[q]]
             e == events[q][v.read + 1]
  <2>1. v \in View
    BY DEF TypeOK
  <2>2. e \in Event
    <3>1. v.read \in Nat /\ v.read < Len(events[q])
      BY <1>4, <2>1 DEF Read, View
    <3>2. events[q] \in Seq(Event)
      BY DEF TypeOK
    <3>3. v.read + 1 \in 1..Len(events[q])
      BY <3>1, <3>2
    <3> QED BY <3>2, <3>3
  <2>3. e.type = "citation" => e.chunk \in Chunks
    BY <2>2, CitedType
  <2>4. Shown(v, e) \in View
    BY <2>1, <2>3, ShownType
  <2>5. view' = [view EXCEPT ![ClientOf[q]] = Shown(v, e)]
    BY <1>4 DEF Read
  <2> QED BY <1>4, <2>4, <2>5 DEF Read, TypeOK, GraphTypeOK, sharedVars, streamVars
<1>5. ASSUME NEW q \in Queries, ReadEnd(q) PROVE TypeOK'
  <2> DEFINE v == view[ClientOf[q]]
  <2>1. v \in View
    BY DEF TypeOK
  <2>2. PICK w \in View : view' = [view EXCEPT ![ClientOf[q]] = w]
    <3>1. \/ view' = [view EXCEPT ![ClientOf[q]] = [v EXCEPT !.loading = FALSE]]
          \/ view' = [view EXCEPT ![ClientOf[q]] = [v EXCEPT !.loading = FALSE, !.error = TRUE]]
      BY <1>5 DEF ReadEnd
    <3> QED BY <2>1, <3>1, ViewTypes
  <2> QED BY <1>5, <2>2 DEF ReadEnd, TypeOK, GraphTypeOK, sharedVars, streamVars
<1>6. ASSUME NEW q \in Queries, Stop(q) PROVE TypeOK'
  BY <1>6, ViewTypes DEF Stop, TypeOK, GraphTypeOK, sharedVars, streamVars
<1>7. ASSUME NEW q \in Queries
      PROVE  [run[q] EXCEPT !.pc = "cancelled", !.answer = NoAnswer] \in Run
  <2>1. run[q] \in Run
    BY <1>7 DEF TypeOK, GraphTypeOK
  <2> QED BY <2>1 DEF Run, GraphPc
<1>8. ASSUME NEW q \in Queries, NoticeStop(q) PROVE TypeOK'
  <2>1. run' \in [Queries -> Run]
    BY <1>7, <1>8 DEF NoticeStop, TypeOK, GraphTypeOK
  <2>2. cache' \in [Tenants \X Texts -> Answer \cup {NoAnswer}]
    <3>1. run[q].answer \in Answer \cup {NoAnswer}
      BY <1>8 DEF TypeOK, GraphTypeOK, Run
    <3>2. Key(q) \in Tenants \X Texts
      BY <1>8, KeyType
    <3> QED BY <1>8, <3>1, <3>2 DEF NoticeStop, TypeOK, GraphTypeOK
  <2> QED BY <1>8, <2>1, <2>2 DEF NoticeStop, TypeOK, GraphTypeOK
<1>9. CASE Environment /\ UNCHANGED <<streamVars, view, crashes>>
  BY <1>9 DEF Environment, IndexChunk, Expire, TypeOK, GraphTypeOK, streamVars
<1>10. CASE ApiCrash
  <2>1. run' \in [Queries -> Run]
    BY <1>7, <1>10 DEF ApiCrash, TypeOK, GraphTypeOK
  <2>2. stream' \in [Queries -> StreamPc]
    BY <1>10 DEF ApiCrash, TypeOK
  <2>3. crashes' \in 0..MaxCrashes
    <3>1. crashes < MaxCrashes /\ crashes' = crashes + 1 /\ crashes \in 0..MaxCrashes
      BY <1>10 DEF ApiCrash, TypeOK
    <3> QED BY <3>1
  <2>4. trace' \in [Queries -> {"none", "started", "completed", "failed"}]
    BY <1>10 DEF ApiCrash
  <2> QED BY <1>10, <2>1, <2>2, <2>3, <2>4 DEF ApiCrash, TypeOK, GraphTypeOK, sharedVars
<1>11. CASE UNCHANGED vars
  BY <1>11 DEF vars, TypeOK, GraphTypeOK, sharedVars, streamVars
<1> QED BY <1>1, <1>2, <1>3, <1>4, <1>5, <1>6, <1>8, <1>9, <1>10, <1>11 DEF Next

\* Every variable of the query path keeps its type: a page is only ever given
\* whole citations, and a cache entry is always an answer.
THEOREM QueryTypeCorrect == Spec => []TypeOK
BY InitType, NextType, PTL DEF Spec

-----------------------------------------------------------------------------
\* TenantScoped is inductive once the types are known.
LEMMA InitScoped == Init => TenantScoped
<1> SUFFICES ASSUME Init PROVE TenantScoped
  OBVIOUS
<1>1. \A q \in Queries : Held(q) = {}
  BY DEF Init, GraphInit, Held, InRun, Cited, NewRun, NoAnswer
<1> QED BY <1>1 DEF Init, GraphInit, TenantScoped, CacheScoped, NoAnswer, Fresh

\* What an execution holds is enough for the whole: a step that leaves the
\* cache, the other executions and the pages alone keeps the scope.
LEMMA ScopedByHeld ==
  ASSUME TenantScoped, UNCHANGED <<cache, view>>,
         NEW q \in Queries,
         \A p \in Queries \ {q} : Held(p)' = Held(p),
         \A c \in Held(q)' : OwnerOf[c] = TenantOf[q]
  PROVE  TenantScoped'
BY DEF TenantScoped, CacheScoped

\* A step of the graph: the only chunks that enter are found by the search,
\* whose filter demands the tenant, or cached under the tenant's own key.
LEMMA GraphStepScoped ==
  ASSUME TypeOK, TenantScoped, NEW q \in Queries, RunGraph(q)
  PROVE  TenantScoped'
<1> USE DEF TypeOK, GraphTypeOK
<1>1. UNCHANGED <<events, view>>
  BY DEF RunGraph, streamVars
<1>2. Cited(q)' = Cited(q) /\ \A p \in Queries : Cited(p)' = Cited(p)
  BY <1>1 DEF Cited
<1>3. \A c \in Held(q) : OwnerOf[c] = TenantOf[q]
  BY DEF TenantScoped, CacheScoped
<1>4. ASSUME UNCHANGED cache,
             NEW r, Set(q, r),
             \A c \in r.dense \cup r.evidence \cup r.answer.citations : OwnerOf[c] = TenantOf[q]
      PROVE  TenantScoped'
  <2>1. run'[q] = r /\ \A p \in Queries \ {q} : run'[p] = run[p]
    BY <1>4 DEF Set
  <2>2. \A p \in Queries \ {q} : Held(p)' = Held(p)
    BY <1>2, <2>1 DEF Held, InRun
  <2>3. Held(q)' = r.dense \cup r.evidence \cup r.answer.citations \cup Cited(q)
    BY <1>2, <2>1 DEF Held, InRun
  <2>4. \A c \in Held(q)' : OwnerOf[c] = TenantOf[q]
    BY <1>3, <1>4, <2>3 DEF Held, InRun
  <2> QED BY <1>1, <1>4, <2>2, <2>4, ScopedByHeld
<1>5. run[q] \in Run
  OBVIOUS
<1>6. /\ \A c \in run[q].dense \cup run[q].evidence \cup run[q].answer.citations :
            OwnerOf[c] = TenantOf[q]
      /\ NoAnswer.citations = {}
  BY <1>3 DEF Held, InRun, NoAnswer
<1>7. CASE RouteQuery(q)
  <2> DEFINE r == [run[q] EXCEPT !.pc = IF RouteIs(q, "structured") THEN "sql" ELSE "dense"]
  <2>1. \A c \in r.dense \cup r.evidence \cup r.answer.citations : OwnerOf[c] = TenantOf[q]
    BY <1>5, <1>6 DEF Run
  <2>2. Set(q, r) /\ UNCHANGED cache
    BY <1>7 DEF RouteQuery, sharedVars
  <2> HIDE DEF r
  <2> QED BY <1>4, <2>1, <2>2
<1>8. CASE SearchDense(q)
  <2>1. PICK dense \in SUBSET Found(q) : Set(q, [run[q] EXCEPT !.pc = "sparse", !.dense = dense])
    BY <1>8 DEF SearchDense
  <2> DEFINE r == [run[q] EXCEPT !.pc = "sparse", !.dense = dense]
  <2>2. \A c \in dense : OwnerOf[c] = TenantOf[q]
    BY DEF Found
  <2>3. \A c \in r.dense \cup r.evidence \cup r.answer.citations : OwnerOf[c] = TenantOf[q]
    BY <1>5, <1>6, <2>2 DEF Run
  <2> QED BY <1>4, <1>8, <2>1, <2>3 DEF SearchDense, sharedVars
<1>9. CASE SearchSparse(q)
  <2>1. PICK sparse \in SUBSET Found(q) :
          \E best \in SUBSET (run[q].dense \cup sparse) :
            Set(q, [run[q] EXCEPT !.evidence = best, !.dense = {},
                      !.pc = IF RouteIs(q, "hybrid") THEN "sql" ELSE "lookup"])
    BY <1>9 DEF SearchSparse
  <2> PICK best \in SUBSET (run[q].dense \cup sparse) :
        Set(q, [run[q] EXCEPT !.evidence = best, !.dense = {},
                  !.pc = IF RouteIs(q, "hybrid") THEN "sql" ELSE "lookup"])
    BY <2>1
  <2> DEFINE r == [run[q] EXCEPT !.evidence = best, !.dense = {},
                     !.pc = IF RouteIs(q, "hybrid") THEN "sql" ELSE "lookup"]
  <2>2. \A c \in best : OwnerOf[c] = TenantOf[q]
    BY <1>6 DEF Found
  <2>3. \A c \in r.dense \cup r.evidence \cup r.answer.citations : OwnerOf[c] = TenantOf[q]
    BY <1>5, <1>6, <2>2 DEF Run
  <2>4. Set(q, r) /\ UNCHANGED cache
    BY <1>9 DEF SearchSparse, sharedVars
  <2> HIDE DEF r
  <2> QED BY <1>4, <2>3, <2>4
<1>10. CASE ExecuteSql(q)
  <2>1. PICK n \in 0..MaxRows : Set(q, [run[q] EXCEPT !.pc = "lookup", !.rows = n])
    BY <1>10 DEF ExecuteSql
  <2> DEFINE r == [run[q] EXCEPT !.pc = "lookup", !.rows = n]
  <2>2. \A c \in r.dense \cup r.evidence \cup r.answer.citations : OwnerOf[c] = TenantOf[q]
    BY <1>5, <1>6 DEF Run
  <2> QED BY <1>4, <1>10, <2>1, <2>2 DEF ExecuteSql, sharedVars
<1>11. ASSUME NEW a, \A c \in a.citations : OwnerOf[c] = TenantOf[q], Finish(q, a), UNCHANGED cache
       PROVE  TenantScoped'
  <2> DEFINE r == [run[q] EXCEPT !.pc = "answered", !.answer = Adapted(q, a)]
  <2>1. \A c \in Adapted(q, a).citations : OwnerOf[c] = TenantOf[q]
    BY <1>11 DEF Adapted, Counting
  <2>2. \A c \in r.dense \cup r.evidence \cup r.answer.citations : OwnerOf[c] = TenantOf[q]
    BY <1>5, <1>6, <2>1 DEF Run
  <2> QED BY <1>4, <1>11, <2>2 DEF Finish
<1>12. CASE Lookup(q)
  <2>1. CASE cache[Key(q)] # NoAnswer
    <3>1. \A c \in cache[Key(q)].citations : OwnerOf[c] = TenantOf[q]
      BY KeyType DEF TenantScoped, CacheScoped
    <3> QED BY <1>11, <1>12, <2>1, <3>1 DEF Lookup, sharedVars
  <2>2. CASE cache[Key(q)] = NoAnswer
    <3> DEFINE r == [run[q] EXCEPT !.pc = "generate"]
    <3>1. \A c \in r.dense \cup r.evidence \cup r.answer.citations : OwnerOf[c] = TenantOf[q]
      BY <1>5, <1>6 DEF Run
    <3> QED BY <1>4, <1>12, <2>2, <3>1 DEF Lookup, sharedVars
  <2> QED BY <2>1, <2>2
<1>13. CASE Generate(q)
  <2>1. PICK s \in SUBSET run[q].evidence :
          Set(q, [run[q] EXCEPT !.pc = "store", !.answer = Citing(s)])
    BY <1>13 DEF Generate
  <2> DEFINE r == [run[q] EXCEPT !.pc = "store", !.answer = Citing(s)]
  <2>2. \A c \in r.dense \cup r.evidence \cup r.answer.citations : OwnerOf[c] = TenantOf[q]
    BY <1>5, <1>6 DEF Run, Citing
  <2> QED BY <1>4, <1>13, <2>1, <2>2 DEF Generate, sharedVars
<1>14. CASE GraphFails(q)
  <2> DEFINE r == [run[q] EXCEPT !.pc = "failed", !.answer = NoAnswer]
  <2>1. \A c \in r.dense \cup r.evidence \cup r.answer.citations : OwnerOf[c] = TenantOf[q]
    BY <1>5, <1>6 DEF Run
  <2> QED BY <1>4, <1>14, <2>1 DEF GraphFails, sharedVars
<1>15. CASE Store(q)
  <2>1. cache' = [cache EXCEPT ![Key(q)] = run[q].answer]
    BY <1>15 DEF Store
  <2>2. \A k \in DOMAIN cache' : \A c \in cache'[k].citations : OwnerOf[c] = k[1]
    BY <1>6, <2>1, KeyType DEF TenantScoped, CacheScoped
  <2>3. \A p \in Queries : \A c \in Held(p)' : OwnerOf[c] = TenantOf[p]
    <3>1. PICK r : /\ run' = [run EXCEPT ![q] = r]
                   /\ r \in {[run[q] EXCEPT !.pc = "answered",
                                           !.answer = Adapted(q, run[q].answer)],
                             [run[q] EXCEPT !.pc = "failed", !.answer = NoAnswer]}
      BY <1>15 DEF Store, Finish, Set
    <3>2. \A c \in Adapted(q, run[q].answer).citations : OwnerOf[c] = TenantOf[q]
      BY <1>6 DEF Adapted, Counting
    <3>3. \A c \in r.dense \cup r.evidence \cup r.answer.citations : OwnerOf[c] = TenantOf[q]
      BY <1>5, <1>6, <3>1, <3>2 DEF Run
    <3>4. ASSUME NEW p \in Queries \ {q} PROVE Held(p)' = Held(p)
      BY <1>2, <3>1 DEF Held, InRun
    <3>5. Held(q)' = r.dense \cup r.evidence \cup r.answer.citations \cup Cited(q)
      BY <1>2, <3>1 DEF Held, InRun
    <3>6. \A c \in Held(q)' : OwnerOf[c] = TenantOf[q]
      BY <1>3, <3>3, <3>5 DEF Held, InRun
    <3>7. ASSUME NEW p \in Queries \ {q} PROVE \A c \in Held(p)' : OwnerOf[c] = TenantOf[p]
      BY <3>4 DEF TenantScoped, CacheScoped
    <3> QED BY <3>6, <3>7
  <2> QED BY <1>1, <2>2, <2>3 DEF TenantScoped, CacheScoped
<1> QED BY <1>7, <1>8, <1>9, <1>10, <1>12, <1>13, <1>14, <1>15 DEF RunGraph, GraphStep

\* What events() yields is what the answer cites.
LEMMA YieldScoped ==
  ASSUME TypeOK, TenantScoped, NEW q \in Queries, NEW e, NEW pc, Yield(q, e, pc), Quiet,
         \/ e.chunk = NoChunk
         \/ e.chunk \in run[q].answer.citations
  PROVE  TenantScoped'
<1>1. events'[q] = Append(events[q], e) /\ \A p \in Queries \ {q} : events'[p] = events[p]
  BY DEF Yield, TypeOK
<1>2. \A p \in Queries \ {q} : Held(p)' = Held(p)
  BY <1>1 DEF Held, InRun, Cited, Quiet
<1>3. Cited(q)' \subseteq Cited(q) \cup run[q].answer.citations
  <2>1. events[q] \in Seq(Event)
    BY DEF TypeOK
  <2>2. /\ DOMAIN Append(events[q], e) = DOMAIN events[q] \cup {Len(events[q]) + 1}
        /\ \A i \in DOMAIN events[q] : Append(events[q], e)[i] = events[q][i]
        /\ Append(events[q], e)[Len(events[q]) + 1] = e
    BY <2>1
  <2> QED BY <1>1, <2>2 DEF Cited
<1>4. \A c \in Held(q)' : OwnerOf[c] = TenantOf[q]
  BY <1>3 DEF Held, InRun, Quiet, TenantScoped, CacheScoped
<1> QED BY <1>2, <1>4, ScopedByHeld DEF Quiet, sharedVars

LEMMA ServeScoped ==
  ASSUME TypeOK, TenantScoped, NEW q \in Queries, Serve(q)
  PROVE  TenantScoped'
<1>1. CASE RunGraph(q)
  BY <1>1, GraphStepScoped
<1>2. CASE YieldRoute(q)
  BY <1>2, YieldScoped DEF YieldRoute, RouteEvent, Plain
<1>3. CASE YieldAnswer(q)
  BY <1>3, YieldScoped DEF YieldAnswer, AnswerEvent, Plain
<1>4. CASE YieldCitation(q)
  BY <1>4, YieldScoped DEF YieldCitation, CitationEvent, Plain
<1>5. CASE YieldComplete(q)
  BY <1>5, YieldScoped DEF YieldComplete, CompleteEvent, Plain
<1>6. CASE CloseStream(q)
  BY <1>6 DEF CloseStream, Quiet, TenantScoped, CacheScoped, Held, InRun, Cited, sharedVars
<1>7. CASE YieldError(q)
  BY <1>7, YieldScoped DEF YieldError, Errors, ErrorEvent, Plain
<1> QED BY <1>1, <1>2, <1>3, <1>4, <1>5, <1>6, <1>7 DEF Serve

\* A page changes: what it cites stays scoped to the query it shows.
LEMMA PageScoped ==
  ASSUME TypeOK, TenantScoped, UNCHANGED <<cache, events>>,
         \A q \in Queries : Held(q)' \subseteq Held(q),
         NEW cl \in Clients, NEW w, view' = [view EXCEPT ![cl] = w],
         \A c \in w.citations : w.query \in Queries /\ OwnerOf[c] = TenantOf[w.query]
  PROVE  TenantScoped'
<1>1. view'[cl] = w /\ \A d \in Clients \ {cl} : view'[d] = view[d]
  BY DEF TypeOK
<1> QED BY <1>1 DEF TenantScoped, CacheScoped

LEMMA NextScoped == TypeOK /\ TenantScoped /\ [Next]_vars => TenantScoped'
<1> SUFFICES ASSUME TypeOK, TenantScoped, [Next]_vars PROVE TenantScoped'
  OBVIOUS
<1>1. ASSUME NEW q \in Queries, Submit(q) PROVE TenantScoped'
  <2>1. \A p \in Queries : Held(p)' = Held(p)
    BY <1>1 DEF Submit, Ask, Held, InRun, Cited, TypeOK, GraphTypeOK, Run
  <2>2. Fresh(q).citations = {} /\ ClientOf[q] \in Clients
    BY StreamAssumption DEF Fresh
  <2> QED BY <1>1, <2>1, <2>2, PageScoped DEF Submit, Ask, sharedVars
<1>2. ASSUME NEW q \in Queries, SubmitInVain(q) PROVE TenantScoped'
  <2>1. \A p \in Queries : Held(p)' = Held(p)
    BY <1>2 DEF SubmitInVain, Held, InRun, Cited
  <2>2. /\ [Fresh(q) EXCEPT !.loading = FALSE, !.error = TRUE].citations = {}
        /\ ClientOf[q] \in Clients
    BY StreamAssumption DEF Fresh
  <2> QED BY <1>2, <2>1, <2>2, PageScoped DEF SubmitInVain, sharedVars
<1>3. ASSUME NEW q \in Queries, Serve(q) PROVE TenantScoped'
  BY <1>3, ServeScoped
<1>4. ASSUME NEW q \in Queries, Read(q) PROVE TenantScoped'
  <2> DEFINE v == view[ClientOf[q]]
             e == events[q][v.read + 1]
  <2>1. \A p \in Queries : Held(p)' = Held(p)
    BY <1>4 DEF Read, Held, InRun, Cited, streamVars
  <2>2. v \in View /\ v.query = q /\ ClientOf[q] \in Clients
    BY <1>4, StreamAssumption DEF Read, Shows, TypeOK
  <2>3. v.read + 1 \in DOMAIN events[q] /\ e \in Event
    <3>1. v.read \in Nat /\ v.read < Len(events[q])
      BY <1>4, <2>2 DEF Read, View
    <3>2. events[q] \in Seq(Event)
      BY DEF TypeOK
    <3>3. v.read + 1 \in 1..Len(events[q]) /\ DOMAIN events[q] = 1..Len(events[q])
      BY <3>1, <3>2
    <3> QED BY <3>2, <3>3
  <2>4. e.type = "citation" => OwnerOf[e.chunk] = TenantOf[q]
    <3> SUFFICES ASSUME e.type = "citation" PROVE OwnerOf[e.chunk] = TenantOf[q]
      OBVIOUS
    <3>1. e.chunk # NoChunk
      BY <2>3, CitedType, StreamAssumption
    <3>2. e.chunk \in Held(q)
      BY <2>3, <3>1 DEF Cited, Held, InRun
    <3> QED BY <3>2 DEF TenantScoped, CacheScoped
  <2>5. Shown(v, e).query = q
    BY <2>2 DEF Shown, View
  <2>6. Shown(v, e).citations \subseteq v.citations \cup {e.chunk}
    BY <2>2 DEF Shown, View
  <2>7. e.type # "citation" => Shown(v, e).citations = v.citations
    BY <2>2 DEF Shown, View
  <2>8. \A c \in Shown(v, e).citations : OwnerOf[c] = TenantOf[q]
    BY <2>2, <2>4, <2>6, <2>7 DEF TenantScoped, CacheScoped
  <2>9. view' = [view EXCEPT ![ClientOf[q]] = Shown(v, e)]
    BY <1>4 DEF Read
  <2>10. UNCHANGED <<cache, events>>
    BY <1>4 DEF Read, sharedVars, streamVars
  <2> HIDE DEF v, e
  <2> QED BY ZenonT(40), <2>1, <2>2, <2>5, <2>8, <2>9, <2>10, PageScoped
<1>5. ASSUME NEW q \in Queries, ReadEnd(q) \/ Stop(q) PROVE TenantScoped'
  <2> DEFINE v == view[ClientOf[q]]
  <2>1. \A p \in Queries : Held(p)' = Held(p)
    BY <1>5 DEF ReadEnd, Stop, Held, InRun, Cited, streamVars
  <2>2. v \in View /\ ClientOf[q] \in Clients
    BY StreamAssumption DEF TypeOK
  <2>3. PICK w : /\ view' = [view EXCEPT ![ClientOf[q]] = w]
                 /\ w.query = v.query /\ w.citations = v.citations
    <3>1. \/ view' = [view EXCEPT ![ClientOf[q]] = [v EXCEPT !.loading = FALSE]]
          \/ view' = [view EXCEPT ![ClientOf[q]] = [v EXCEPT !.loading = FALSE, !.error = TRUE]]
          \/ view' = [view EXCEPT ![ClientOf[q]] = [v EXCEPT !.loading = FALSE, !.stopped = TRUE]]
      BY <1>5 DEF ReadEnd, Stop
    <3> QED BY ZenonT(40), <2>2, <3>1 DEF View
  <2>4. \A c \in w.citations : w.query \in Queries /\ OwnerOf[c] = TenantOf[w.query]
    BY <2>2, <2>3 DEF TenantScoped, CacheScoped
  <2> QED BY <1>5, <2>1, <2>2, <2>3, <2>4, PageScoped DEF ReadEnd, Stop, sharedVars, streamVars
<1>6. ASSUME NEW q \in Queries
      PROVE  [run[q] EXCEPT !.pc = "cancelled", !.answer = NoAnswer].answer.citations = {}
  BY <1>6 DEF NoAnswer, TypeOK, GraphTypeOK, Run
<1>7. ASSUME NEW q \in Queries, NoticeStop(q) PROVE TenantScoped'
  <2>1. \A p \in Queries : Held(p)' \subseteq Held(p)
    BY <1>7, <1>6 DEF NoticeStop, Held, InRun, Cited, TypeOK, GraphTypeOK, Run
  <2>2. \A k \in DOMAIN cache' : \A c \in cache'[k].citations : OwnerOf[c] = k[1]
    <3>1. \A c \in run[q].answer.citations : OwnerOf[c] = TenantOf[q]
      BY DEF TenantScoped, CacheScoped, Held, InRun
    <3>2. Key(q) \in DOMAIN cache /\ Key(q)[1] = TenantOf[q]
      BY KeyType DEF TypeOK, GraphTypeOK
    <3>3. CASE cache' = cache
      BY <3>3 DEF TenantScoped, CacheScoped
    <3>4. CASE cache' = [cache EXCEPT ![Key(q)] = run[q].answer]
      BY <3>1, <3>2, <3>4 DEF TenantScoped, CacheScoped
    <3> QED BY <1>7, <3>3, <3>4 DEF NoticeStop
  <2> QED BY <1>7, <2>1, <2>2 DEF NoticeStop, TenantScoped, CacheScoped
<1>8. CASE Environment /\ UNCHANGED <<streamVars, view, crashes>>
  <2>1. \A p \in Queries : Held(p)' = Held(p)
    BY <1>8 DEF Environment, IndexChunk, Expire, Held, InRun, Cited, streamVars
  <2>2. \A k \in DOMAIN cache' : \A c \in cache'[k].citations : OwnerOf[c] = k[1]
    <3>1. CASE cache' = cache
      BY <3>1 DEF TenantScoped, CacheScoped
    <3>2. CASE \E k \in Tenants \X Texts : Expire(k)
      <4>1. PICK k \in Tenants \X Texts : cache' = [cache EXCEPT ![k] = NoAnswer]
        BY <3>2 DEF Expire
      <4>2. NoAnswer.citations = {}
        BY DEF NoAnswer
      <4> QED BY <4>1, <4>2 DEF TenantScoped, CacheScoped
    <3> QED BY <1>8, <3>1, <3>2 DEF Environment, IndexChunk
  <2> QED BY <1>8, <2>1, <2>2 DEF TenantScoped, CacheScoped
<1>9. CASE ApiCrash
  <2>1. \A p \in Queries : Held(p)' \subseteq Held(p)
    <3>1. UNCHANGED events /\ \A p \in Queries : Cited(p)' = Cited(p)
      BY <1>9 DEF ApiCrash, Cited
    <3>2. ASSUME NEW p \in Queries
          PROVE  \/ run'[p] = run[p]
                 \/ run'[p] = [run[p] EXCEPT !.pc = "cancelled", !.answer = NoAnswer]
      BY <1>9 DEF ApiCrash
    <3>3. ASSUME NEW p \in Queries
          PROVE  /\ run'[p].dense = run[p].dense /\ run'[p].evidence = run[p].evidence
                 /\ run'[p].answer.citations \subseteq run[p].answer.citations
      <4>1. run[p] \in Run
        BY DEF TypeOK, GraphTypeOK
      <4> QED BY <1>6, <3>2, <4>1 DEF Run
    <3> QED BY <3>1, <3>3 DEF Held, InRun
  <2> QED BY <1>9, <2>1 DEF ApiCrash, TenantScoped, CacheScoped, sharedVars
<1>10. CASE UNCHANGED vars
  <2>1. \A p \in Queries : Held(p)' = Held(p)
    BY <1>10 DEF vars, Held, InRun, Cited, streamVars
  <2> QED BY <1>10, <2>1 DEF vars, TenantScoped, CacheScoped, sharedVars
<1> QED BY <1>1, <1>2, <1>3, <1>4, <1>5, <1>7, <1>8, <1>9, <1>10 DEF Next

\* No chunk of another tenant is ever cached, held by an execution, sent or
\* shown, whatever queries interleave, fail, stop, hit or miss the cache.
THEOREM QueriesAreScoped == Spec => []TenantScoped
<1>1. Init => TypeOK /\ TenantScoped
  BY InitType, InitScoped
<1>2. TypeOK /\ TenantScoped /\ [Next]_vars => (TypeOK /\ TenantScoped)'
  BY NextType, NextScoped
<1> QED BY <1>1, <1>2, PTL DEF Spec

-----------------------------------------------------------------------------
(***************************************************************************)
(* The graph by itself. What an execution has found, answered and counted, *)
(* by where it stands; and what the cache holds under a key: an answer for *)
(* the key's tenant and route, and never a count of rows.                  *)
(***************************************************************************)
BeforeAnswer == {"idle", "route", "dense", "sparse", "sql", "lookup", "generate"}

RunSound(q, r) ==
  /\ \A c \in r.dense \cup r.evidence \cup r.answer.citations : OwnerOf[c] = TenantOf[q]
  /\ r.answer.rows > 0 => r.answer.rows = r.rows /\ r.evidence = {}
  /\ RouteIs(q, "structured") =>
       /\ r.dense = {} /\ r.evidence = {} /\ r.answer.citations = {}
       /\ r.pc \notin {"dense", "sparse"}
  /\ r.pc = "store" => r.answer.rows = 0
  /\ r.pc \in BeforeAnswer => r.answer = NoAnswer

EntrySound(k, a) ==
  /\ \A c \in a.citations : OwnerOf[c] = k[1]
  /\ a.rows <= 0
  /\ RouteOf[k[2]] = "structured" => a.citations = {}

GraphInv ==
  /\ GraphTypeOK
  /\ \A k \in Tenants \X Texts : EntrySound(k, cache[k])
  /\ \A q \in Queries : RunSound(q, run[q])

LEMMA NoAnswerFields == NoAnswer.citations = {} /\ NoAnswer.rows = -1
BY DEF NoAnswer

LEMMA GraphFromInv ==
  GraphInv => GraphScoped /\ RowCountsAreFresh /\ StructuredHasNoCitation
BY DEF GraphInv, GraphTypeOK, RunSound, EntrySound,
       GraphScoped, CacheScoped, InRun, RowCountsAreFresh, StructuredHasNoCitation

LEMMA GraphInitSound == GraphInit => GraphInv
<1> SUFFICES ASSUME GraphInit PROVE GraphInv
  OBVIOUS
<1>1. GraphTypeOK
  BY NewRunType DEF GraphInit, GraphTypeOK
<1>2. PICK r : r = NewRun
  OBVIOUS
<1>3. r.dense = {} /\ r.evidence = {} /\ r.answer = NoAnswer /\ r.pc = "idle"
  BY <1>2 DEF NewRun
<1>4. \A q \in Queries : run[q] = r
  BY <1>2 DEF GraphInit
<1>5. \A q \in Queries : RunSound(q, run[q])
  BY <1>3, <1>4, NoAnswerFields DEF RunSound
<1>6. \A k \in Tenants \X Texts : EntrySound(k, cache[k])
  BY NoAnswerFields DEF GraphInit, EntrySound
<1> QED BY <1>1, <1>5, <1>6 DEF GraphInv

\* The key of a query has its tenant and its route.
LEMMA KeySound ==
  ASSUME NEW q \in Queries
  PROVE  /\ Key(q) \in Tenants \X Texts
         /\ Key(q)[1] = TenantOf[q]
         /\ RouteOf[Key(q)[2]] = RouteOf[TextOf[q]]
BY QueryAssumption DEF Key

\* A sound answer that an execution may hold under its key.
LEMMA AdaptedSound ==
  ASSUME GraphInv, NEW q \in Queries, NEW a \in Answer \cup {NoAnswer}, EntrySound(Key(q), a)
  PROVE  /\ \A c \in Adapted(q, a).citations : OwnerOf[c] = TenantOf[q]
         /\ Adapted(q, a).rows > 0 => Adapted(q, a).rows = run[q].rows /\ run[q].evidence = {}
         /\ RouteIs(q, "structured") => Adapted(q, a).citations = {}
<1>1. CASE run[q].rows > 0 /\ run[q].evidence = {}
  <2>1. PICK b : b = Counting(run[q].rows)
    OBVIOUS
  <2>2. b.citations = {} /\ b.rows = run[q].rows
    BY <2>1 DEF Counting
  <2>3. Adapted(q, a) = b
    BY <1>1, <2>1 DEF Adapted
  <2> QED BY <1>1, <2>2, <2>3
<1>2. CASE ~(run[q].rows > 0 /\ run[q].evidence = {})
  <2>1. Adapted(q, a) = a
    BY <1>2 DEF Adapted
  <2>2. a.rows <= 0 => ~(a.rows > 0)
    BY NoAnswerFields, QueryAssumption DEF Answer
  <2> QED BY <2>1, <2>2, KeySound DEF EntrySound, RouteIs
<1> QED BY <1>1, <1>2

LEMMA GraphStepSound ==
  ASSUME GraphInv, NEW q \in Queries, GraphStep(q)
  PROVE  GraphInv'
<1>1. GraphTypeOK'
  BY GraphStepType DEF GraphInv
<1>2. run[q] \in Run /\ RunSound(q, run[q])
  BY DEF GraphInv, GraphTypeOK
<1>3. PICK r0 \in Run : r0 = run[q]
  BY <1>2
<1>4. RunSound(q, r0)
  BY <1>2, <1>3
<1>5. ASSUME NEW r, Set(q, r), RunSound(q, r),
             \A k \in Tenants \X Texts : EntrySound(k, cache'[k])
      PROVE  GraphInv'
  <2>1. run'[q] = r /\ \A p \in Queries \ {q} : run'[p] = run[p]
    BY <1>5 DEF Set, GraphInv, GraphTypeOK
  <2>2. \A p \in Queries : RunSound(p, run'[p])
    BY <1>5, <2>1 DEF GraphInv
  <2> QED BY <1>1, <1>5, <2>2 DEF GraphInv, RunSound, EntrySound, RouteIs
<1>6. ASSUME UNCHANGED cache PROVE \A k \in Tenants \X Texts : EntrySound(k, cache'[k])
  BY <1>6 DEF GraphInv
<1>7. CASE RouteQuery(q)
  <2>1. PICK pc : pc = IF RouteIs(q, "structured") THEN "sql" ELSE "dense"
    OBVIOUS
  <2>2. PICK r : r = [r0 EXCEPT !.pc = pc]
    OBVIOUS
  <2>3. r.pc = pc /\ r.dense = r0.dense /\ r.evidence = r0.evidence /\ r.answer = r0.answer
        /\ r.rows = r0.rows
    BY <2>2 DEF Run
  <2>4. r0.pc = "route" /\ Set(q, r) /\ UNCHANGED cache
    BY <1>3, <1>7, <2>1, <2>2 DEF RouteQuery, AtNode, sharedVars
  <2>5. RunSound(q, r)
    BY <1>4, <2>1, <2>3, <2>4 DEF RunSound, BeforeAnswer
  <2> QED BY <1>5, <1>6, <2>4, <2>5
<1>8. CASE SearchDense(q)
  <2>1. PICK dense \in SUBSET Found(q) : Set(q, [r0 EXCEPT !.pc = "sparse", !.dense = dense])
    BY <1>3, <1>8 DEF SearchDense
  <2>2. PICK r : r = [r0 EXCEPT !.pc = "sparse", !.dense = dense]
    OBVIOUS
  <2>3. r.pc = "sparse" /\ r.dense = dense /\ r.evidence = r0.evidence /\ r.answer = r0.answer
        /\ r.rows = r0.rows
    BY <2>2 DEF Run
  <2>4. r0.pc = "dense" /\ UNCHANGED cache
    BY <1>3, <1>8 DEF SearchDense, AtNode, sharedVars
  <2>5. \A c \in dense : OwnerOf[c] = TenantOf[q]
    BY DEF Found
  <2>6. RunSound(q, r)
    BY <1>4, <2>3, <2>4, <2>5 DEF RunSound, BeforeAnswer
  <2> QED BY <1>5, <1>6, <2>1, <2>2, <2>4, <2>6
<1>9. CASE SearchSparse(q)
  <2>0. PICK sparse \in SUBSET Found(q) :
          \E best \in SUBSET (r0.dense \cup sparse) :
            Set(q, [r0 EXCEPT !.evidence = best, !.dense = {},
                      !.pc = IF RouteIs(q, "hybrid") THEN "sql" ELSE "lookup"])
    BY <1>3, <1>9 DEF SearchSparse
  <2>1. PICK best \in SUBSET (r0.dense \cup sparse) :
          Set(q, [r0 EXCEPT !.evidence = best, !.dense = {},
                    !.pc = IF RouteIs(q, "hybrid") THEN "sql" ELSE "lookup"])
    BY <2>0
  <2>2. PICK pc \in {"sql", "lookup"} : pc = IF RouteIs(q, "hybrid") THEN "sql" ELSE "lookup"
    OBVIOUS
  <2>3. PICK r : r = [r0 EXCEPT !.evidence = best, !.dense = {}, !.pc = pc]
    OBVIOUS
  <2>4. r.pc = pc /\ r.dense = {} /\ r.evidence = best /\ r.answer = r0.answer
        /\ r.rows = r0.rows
    BY <2>3 DEF Run
  <2>5. r0.pc = "sparse" /\ UNCHANGED cache
    BY <1>3, <1>9 DEF SearchSparse, AtNode, sharedVars
  <2>6. r0.answer = NoAnswer /\ ~RouteIs(q, "structured")
    BY <1>4, <2>5 DEF RunSound, BeforeAnswer
  <2>7. \A c \in best : OwnerOf[c] = TenantOf[q]
    BY <1>4 DEF RunSound, Found
  <2>8. RunSound(q, r)
    BY <2>2, <2>4, <2>6, <2>7, NoAnswerFields DEF RunSound
  <2> QED BY <1>5, <1>6, <2>1, <2>2, <2>3, <2>5, <2>8
<1>10. CASE ExecuteSql(q)
  <2>1. PICK n \in 0..MaxRows : Set(q, [r0 EXCEPT !.pc = "lookup", !.rows = n])
    BY <1>3, <1>10 DEF ExecuteSql
  <2>2. PICK r : r = [r0 EXCEPT !.pc = "lookup", !.rows = n]
    OBVIOUS
  <2>3. r.pc = "lookup" /\ r.dense = r0.dense /\ r.evidence = r0.evidence /\ r.answer = r0.answer
    BY <2>2 DEF Run
  <2>4. r0.pc = "sql" /\ UNCHANGED cache
    BY <1>3, <1>10 DEF ExecuteSql, AtNode, sharedVars
  <2>5. r0.answer = NoAnswer
    BY <1>4, <2>4 DEF RunSound, BeforeAnswer
  <2>6. RunSound(q, r)
    BY <1>4, <2>3, <2>5, NoAnswerFields DEF RunSound
  <2> QED BY <1>5, <1>6, <2>1, <2>2, <2>4, <2>6
<1>11. ASSUME NEW a \in Answer \cup {NoAnswer}, EntrySound(Key(q), a), Finish(q, a)
       PROVE  \E r : Set(q, r) /\ RunSound(q, r)
  <2>1. PICK b : b = Adapted(q, a)
    OBVIOUS
  <2>2. /\ \A c \in b.citations : OwnerOf[c] = TenantOf[q]
        /\ b.rows > 0 => b.rows = r0.rows /\ r0.evidence = {}
        /\ RouteIs(q, "structured") => b.citations = {}
    BY <1>3, <1>11, <2>1, AdaptedSound
  <2>3. PICK r : r = [r0 EXCEPT !.pc = "answered", !.answer = b]
    OBVIOUS
  <2>4. r.pc = "answered" /\ r.dense = r0.dense /\ r.evidence = r0.evidence /\ r.answer = b
        /\ r.rows = r0.rows
    BY <2>3 DEF Run
  <2>5. RunSound(q, r)
    BY <1>4, <2>2, <2>4 DEF RunSound, BeforeAnswer
  <2>6. Set(q, r)
    BY <1>3, <1>11, <2>1, <2>3 DEF Finish
  <2> QED BY <2>5, <2>6
<1>12. PICK broken : /\ broken = [r0 EXCEPT !.pc = "failed", !.answer = NoAnswer]
                     /\ RunSound(q, broken)
  <2>1. PICK r : r = [r0 EXCEPT !.pc = "failed", !.answer = NoAnswer]
    OBVIOUS
  <2>2. r.pc = "failed" /\ r.dense = r0.dense /\ r.evidence = r0.evidence /\ r.answer = NoAnswer
    BY <2>1 DEF Run
  <2>3. RunSound(q, r)
    BY <1>4, <2>2, NoAnswerFields DEF RunSound, BeforeAnswer
  <2> QED BY <2>1, <2>3
<1>13. CASE Lookup(q)
  <2>1. UNCHANGED cache
    BY <1>13 DEF Lookup, sharedVars
  <2>2. CASE cache[Key(q)] # NoAnswer
    <3>1. Finish(q, cache[Key(q)])
      BY <1>13, <2>2 DEF Lookup
    <3>2. cache[Key(q)] \in Answer \cup {NoAnswer} /\ EntrySound(Key(q), cache[Key(q)])
      BY KeySound DEF GraphInv, GraphTypeOK
    <3> QED BY <1>5, <1>6, <1>11, <2>1, <3>1, <3>2
  <2>3. CASE cache[Key(q)] = NoAnswer
    <3>1. PICK r : r = [r0 EXCEPT !.pc = "generate"]
      OBVIOUS
    <3>2. r.pc = "generate" /\ r.dense = r0.dense /\ r.evidence = r0.evidence
          /\ r.answer = r0.answer /\ r.rows = r0.rows
      BY <3>1 DEF Run
    <3>3. r0.pc = "lookup" /\ Set(q, r)
      BY <1>3, <1>13, <2>3, <3>1 DEF Lookup, AtNode
    <3>4. RunSound(q, r)
      BY <1>4, <3>2, <3>3 DEF RunSound, BeforeAnswer
    <3> QED BY <1>5, <1>6, <2>1, <3>3, <3>4
  <2> QED BY <2>2, <2>3
<1>14. CASE Generate(q)
  <2>1. PICK s \in SUBSET r0.evidence : Set(q, [r0 EXCEPT !.pc = "store", !.answer = Citing(s)])
    BY <1>3, <1>14 DEF Generate
  <2>2. PICK a : a = Citing(s)
    OBVIOUS
  <2>3. a.citations = s /\ a.rows = 0
    BY <2>2 DEF Citing
  <2>4. PICK r : r = [r0 EXCEPT !.pc = "store", !.answer = a]
    OBVIOUS
  <2>5. r.pc = "store" /\ r.dense = r0.dense /\ r.evidence = r0.evidence /\ r.answer = a
    BY <2>4 DEF Run
  <2>6. RunSound(q, r)
    BY <1>4, <2>3, <2>5 DEF RunSound, BeforeAnswer
  <2>7. UNCHANGED cache
    BY <1>14 DEF Generate, sharedVars
  <2> QED BY <1>5, <1>6, <2>1, <2>2, <2>4, <2>6, <2>7
<1>15. CASE Store(q)
  <2>1. r0.pc = "store" /\ cache' = [cache EXCEPT ![Key(q)] = r0.answer]
    BY <1>3, <1>15 DEF Store, AtNode
  <2>2. EntrySound(Key(q), r0.answer)
    BY <1>4, <2>1, KeySound DEF RunSound, EntrySound, RouteIs
  <2>3. \A k \in Tenants \X Texts : EntrySound(k, cache'[k])
    BY <2>1, <2>2 DEF GraphInv, GraphTypeOK
  <2>4. r0.answer \in Answer \cup {NoAnswer}
    BY DEF Run
  <2>5. CASE Finish(q, run[q].answer)
    <3>1. Finish(q, r0.answer)
      BY <1>3, <2>5
    <3>2. PICK r : Set(q, r) /\ RunSound(q, r)
      BY <1>11, <2>2, <2>4, <3>1
    <3> QED BY <1>5, <2>3, <3>2
  <2>6. CASE Set(q, [run[q] EXCEPT !.pc = "failed", !.answer = NoAnswer])
    <3>1. Set(q, broken)
      BY <1>3, <1>12, <2>6
    <3> QED BY <1>5, <1>12, <2>3, <3>1
  <2> QED BY <1>15, <2>5, <2>6 DEF Store
<1>16. CASE GraphFails(q)
  BY <1>3, <1>5, <1>6, <1>12, <1>16 DEF GraphFails, sharedVars
<1> QED BY <1>7, <1>8, <1>9, <1>10, <1>13, <1>14, <1>15, <1>16 DEF GraphStep

\* Asking hands an execution that holds nothing to the router.
LEMMA AskSound ==
  ASSUME GraphInv, NEW q \in Queries, AtNode(q, "idle"), Ask(q), UNCHANGED cache,
         index' \subseteq Chunks
  PROVE  GraphInv'
<1>1. PICK r0 \in Run : r0 = run[q]
  BY DEF GraphInv, GraphTypeOK
<1>2. PICK r : r = [r0 EXCEPT !.pc = "route"]
  OBVIOUS
<1>3. r.pc = "route" /\ r.dense = r0.dense /\ r.evidence = r0.evidence
      /\ r.answer = r0.answer /\ r.rows = r0.rows /\ r \in Run
  BY <1>2 DEF Run, GraphPc
<1>4. RunSound(q, r0) /\ r0.pc = "idle"
  BY <1>1 DEF GraphInv, AtNode
<1>5. RunSound(q, r)
  BY <1>3, <1>4 DEF RunSound, BeforeAnswer
<1>6. run' = [run EXCEPT ![q] = r]
  BY <1>1, <1>2 DEF Ask
<1>7. run'[q] = r /\ run' \in [Queries -> Run] /\ \A p \in Queries \ {q} : run'[p] = run[p]
  BY <1>3, <1>6 DEF GraphInv, GraphTypeOK
<1>8. \A p \in Queries : RunSound(p, run'[p])
  BY <1>5, <1>7 DEF GraphInv
<1> QED BY <1>7, <1>8 DEF GraphInv, GraphTypeOK, RunSound, EntrySound, RouteIs

\* A point is added to the index, or a cache entry runs out.
LEMMA EnvironmentSound ==
  ASSUME GraphInv, Environment
  PROVE  GraphInv'
<1>1. run' = run /\ index' \subseteq Chunks
  BY DEF Environment, IndexChunk, Expire, GraphInv, GraphTypeOK
<1>2. \/ cache' = cache
      \/ \E k \in Tenants \X Texts : cache' = [cache EXCEPT ![k] = NoAnswer]
  BY DEF Environment, IndexChunk, Expire
<1>3. \A k : EntrySound(k, NoAnswer)
  BY NoAnswerFields DEF EntrySound
<1>4. /\ cache' \in [Tenants \X Texts -> Answer \cup {NoAnswer}]
      /\ \A k \in Tenants \X Texts : EntrySound(k, cache'[k])
  BY <1>2, <1>3 DEF GraphInv, GraphTypeOK
<1> QED BY <1>1, <1>4 DEF GraphInv, GraphTypeOK, RunSound, EntrySound, RouteIs

LEMMA GraphNextSound == GraphInv /\ [GraphNext]_<<sharedVars, run>> => GraphInv'
<1> SUFFICES ASSUME GraphInv, [GraphNext]_<<sharedVars, run>> PROVE GraphInv'
  OBVIOUS
<1>1. ASSUME NEW q \in Queries, AtNode(q, "idle"), Ask(q), UNCHANGED sharedVars
      PROVE  GraphInv'
  <2>1. UNCHANGED cache /\ index' \subseteq Chunks
    BY <1>1 DEF sharedVars, GraphInv, GraphTypeOK
  <2> QED BY <1>1, <2>1, AskSound
<1>2. CASE UNCHANGED <<sharedVars, run>>
  <2>1. UNCHANGED <<index, cache, run>>
    BY <1>2 DEF sharedVars
  <2> QED BY <2>1 DEF GraphInv, GraphTypeOK, RunSound, EntrySound, RouteIs
<1> QED BY <1>1, <1>2, GraphStepSound, EnvironmentSound DEF GraphNext

(***************************************************************************)
(* What executions hold and the cache keeps is of the right tenant, of the *)
(* right route and, where it counts rows, of the execution's own SQL       *)
(* (GraphInv): the argument for the three theorems below, over every       *)
(* interleaving of the graph's nodes with the cache.                       *)
(***************************************************************************)
THEOREM GraphIsSound == GraphSpec => []GraphInv
BY GraphInitSound, GraphNextSound, PTL DEF GraphSpec

(***************************************************************************)
(* No chunk of another tenant is cached or held by an execution            *)
(* (GraphScoped): the filter of the search and the tenant in the cache key *)
(* scope the shared stores together.                                       *)
(***************************************************************************)
THEOREM GraphIsScoped == GraphSpec => []GraphScoped
BY GraphIsSound, GraphFromInv, PTL

(***************************************************************************)
(* A count of rows is that of the SQL the same execution ran, and never    *)
(* one from the cache (RowCountsAreFresh): AnswerServiceAdapter replaces   *)
(* the answer after it was cached.                                         *)
(***************************************************************************)
THEOREM CountsAreFresh == GraphSpec => []RowCountsAreFresh
BY GraphIsSound, GraphFromInv, PTL

(***************************************************************************)
(* A structured query is never answered with citations, even from the      *)
(* cache (StructuredHasNoCitation): QueryRouter and CacheKey fold the text *)
(* alike, so equal keys have equal routes.                                 *)
(***************************************************************************)
THEOREM StructuredCitesNothing == GraphSpec => []StructuredHasNoCitation
BY GraphIsSound, GraphFromInv, PTL

-----------------------------------------------------------------------------
(***************************************************************************)
(* The stream. What events() has yielded by the time it stands where it    *)
(* stands, for an answer that cites the chunks cites.                      *)
(***************************************************************************)
CitedIn(s) == {s[i].chunk : i \in DOMAIN s} \ {NoChunk}

InOrder(s) ==
  \A i \in DOMAIN s :
    /\ (s[i] = RouteEvent <=> i = 1)
    /\ (s[i] = AnswerEvent <=> i = 2)
    /\ s[i] \notin Errors
    /\ s[i] = CompleteEvent => i = Len(s)
    /\ \A j \in 1..(i - 1) : s[j] # s[i]

Complete(s, cites) ==
  Len(s) >= 3 /\ InOrder(s) /\ s[Len(s)] = CompleteEvent /\ CitedIn(s) = cites

Ordered(s, pc, cites) ==
  /\ (OnlyError(s) /\ pc = "closed") \/ InOrder(s)
  /\ pc \in {"idle", "graph"} => s = <<>>
  /\ pc = "answer" => Len(s) = 1 /\ InOrder(s)
  /\ pc = "citations" =>
       /\ Len(s) >= 2 /\ InOrder(s)
       /\ CitedIn(s) \subseteq cites
       /\ \A i \in DOMAIN s : s[i] # CompleteEvent
  /\ pc = "complete" => Complete(s, cites)
  /\ pc = "closed" => OnlyError(s) \/ Complete(s, cites)

StreamInv == \A q \in Queries : Ordered(events[q], stream[q], run[q].answer.citations)

LEMMA EventsDiffer ==
  /\ RouteEvent # AnswerEvent /\ RouteEvent # CompleteEvent /\ AnswerEvent # CompleteEvent
  /\ \A e \in {RouteEvent, AnswerEvent, CompleteEvent} : e \notin Errors
  /\ \A c : CitationEvent(c) \notin {RouteEvent, AnswerEvent, CompleteEvent} \cup Errors
  /\ \A e \in {RouteEvent, AnswerEvent, CompleteEvent} \cup Errors : e.chunk = NoChunk
  /\ \A c : CitationEvent(c).chunk = c
<1>1. \A e \in Errors : e.type = "error" /\ e.chunk = NoChunk
  BY DEF Errors, ErrorEvent, Plain
<1>2. /\ RouteEvent.type = "complete" /\ RouteEvent.id = "route" /\ RouteEvent.chunk = NoChunk
      /\ AnswerEvent.type = "token" /\ AnswerEvent.chunk = NoChunk
      /\ CompleteEvent.type = "complete" /\ CompleteEvent.id = "complete"
      /\ CompleteEvent.chunk = NoChunk
  BY DEF RouteEvent, AnswerEvent, CompleteEvent, Plain
<1>3. ASSUME NEW c PROVE CitationEvent(c).type = "citation" /\ CitationEvent(c).chunk = c
  BY DEF CitationEvent, Plain
<1>4. \A c : CitationEvent(c) \notin {RouteEvent, AnswerEvent, CompleteEvent} \cup Errors
  BY <1>1, <1>2, <1>3
<1>5. \A e \in {RouteEvent, AnswerEvent, CompleteEvent} : e \notin Errors
  BY <1>1, <1>2
<1>6. RouteEvent # AnswerEvent /\ RouteEvent # CompleteEvent /\ AnswerEvent # CompleteEvent
  BY <1>2
<1> QED BY <1>1, <1>2, <1>3, <1>4, <1>5, <1>6

\* An event's type, its chunk and its data tell which it is.
LEMMA EventKinds ==
  ASSUME NEW e \in Event
  PROVE  /\ e.type = "token" <=> e = AnswerEvent
         /\ e.type = "error" <=> e \in Errors
         /\ e.type = "error" => e = ErrorEvent(TRUE) \/ ~e.blank
         /\ e.type = "citation" <=> e.chunk # NoChunk
<1>1. CASE e \in {RouteEvent, AnswerEvent, CompleteEvent}
  BY <1>1 DEF RouteEvent, AnswerEvent, CompleteEvent, Errors, ErrorEvent, Plain
<1>2. CASE e \in Errors
  BY <1>2 DEF AnswerEvent, Errors, ErrorEvent, Plain
<1>3. ASSUME NEW c \in Chunks, e = CitationEvent(c)
      PROVE  /\ e.type = "token" <=> e = AnswerEvent
             /\ e.type = "error" <=> e \in Errors
             /\ e.type = "error" => e = ErrorEvent(TRUE) \/ ~e.blank
             /\ e.type = "citation" <=> e.chunk # NoChunk
  <2>1. e.type = "citation" /\ e.chunk = c
    BY <1>3 DEF CitationEvent, Plain
  <2>2. c # NoChunk
    BY StreamAssumption
  <2>3. e # AnswerEvent /\ e \notin Errors
    BY <1>3, EventsDiffer
  <2> QED BY <2>1, <2>2, <2>3
<1> QED BY <1>1, <1>2, <1>3 DEF Event

\* Events in order are not those of a failure.
LEMMA OrderHasNoError ==
  ASSUME NEW s, OnlyError(s)
  PROVE  ~InOrder(s) /\ Len(s) = 1
<1>1. PICK e \in Errors : s = <<e>>
  BY DEF OnlyError
<1> QED BY <1>1 DEF InOrder

LEMMA Appended ==
  ASSUME NEW s \in Seq(Event), NEW e \in Event
  PROVE  /\ Append(s, e) \in Seq(Event)
         /\ Len(Append(s, e)) = Len(s) + 1
         /\ DOMAIN Append(s, e) = DOMAIN s \cup {Len(s) + 1}
         /\ Append(s, e)[Len(s) + 1] = e
         /\ \A i \in DOMAIN s : Append(s, e)[i] = s[i]
         /\ CitedIn(Append(s, e)) = CitedIn(s) \cup ({e.chunk} \ {NoChunk})
<1>1. /\ Append(s, e) \in Seq(Event)
      /\ Len(Append(s, e)) = Len(s) + 1
      /\ DOMAIN Append(s, e) = DOMAIN s \cup {Len(s) + 1}
      /\ Append(s, e)[Len(s) + 1] = e
      /\ \A i \in DOMAIN s : Append(s, e)[i] = s[i]
  OBVIOUS
<1> QED BY <1>1 DEF CitedIn

\* What may follow events that are in order.
LEMMA AppendInOrder ==
  ASSUME NEW s \in Seq(Event), NEW e \in Event, InOrder(s),
         (e = RouteEvent <=> Len(s) = 0), (e = AnswerEvent <=> Len(s) = 1), e \notin Errors,
         \A i \in DOMAIN s : s[i] # CompleteEvent /\ s[i] # e
  PROVE  InOrder(Append(s, e))
<1>1. PICK t \in Seq(Event) :
        /\ t = Append(s, e) /\ Len(t) = Len(s) + 1
        /\ DOMAIN t = DOMAIN s \cup {Len(s) + 1}
        /\ t[Len(s) + 1] = e /\ \A i \in DOMAIN s : t[i] = s[i]
  <2>1. PICK t : t = Append(s, e)
    OBVIOUS
  <2>2. t \in Seq(Event)
    BY <2>1, Appended, Zenon
  <2>3. Len(t) = Len(s) + 1 /\ DOMAIN t = DOMAIN s \cup {Len(s) + 1}
    BY <2>1, Appended
  <2>4. t[Len(s) + 1] = e /\ \A i \in DOMAIN s : t[i] = s[i]
    BY <2>1, Appended
  <2> QED BY <2>1, <2>2, <2>3, <2>4, Zenon
<1>2. DOMAIN s = 1..Len(s) /\ Len(s) \in Nat
  OBVIOUS
<1>3. ASSUME NEW i \in DOMAIN s
      PROVE  /\ (t[i] = RouteEvent <=> i = 1)
             /\ (t[i] = AnswerEvent <=> i = 2)
             /\ t[i] \notin Errors
             /\ t[i] = CompleteEvent => i = Len(t)
             /\ \A j \in 1..(i - 1) : t[j] # t[i]
  <2>1. \A j \in 1..(i - 1) : j \in DOMAIN s
    BY <1>2
  <2> QED BY <1>1, <2>1 DEF InOrder
<1>4. /\ (t[Len(t)] = RouteEvent <=> Len(t) = 1)
      /\ (t[Len(t)] = AnswerEvent <=> Len(t) = 2)
      /\ t[Len(t)] \notin Errors
      /\ \A j \in 1..(Len(t) - 1) : t[j] # t[Len(t)]
  BY <1>1, <1>2
<1>5. InOrder(t)
  BY <1>1, <1>3, <1>4 DEF InOrder
<1> QED BY <1>1, <1>5

LEMMA OrderedYield ==
  ASSUME NEW s \in Seq(Event), NEW cites \in SUBSET Chunks
  PROVE  /\ Ordered(s, "graph", cites) =>
              /\ Ordered(Append(s, RouteEvent), "answer", cites)
              /\ \A e \in Errors : Ordered(Append(s, e), "closed", cites)
         /\ Ordered(s, "answer", cites) => Ordered(Append(s, AnswerEvent), "citations", cites)
         /\ \A c \in cites \ CitedIn(s) :
              Ordered(s, "citations", cites) =>
                Ordered(Append(s, CitationEvent(c)), "citations", cites)
         /\ Ordered(s, "citations", cites) /\ cites \subseteq CitedIn(s) =>
              Ordered(Append(s, CompleteEvent), "complete", cites)
<1> USE EventTypes
<1>1. DOMAIN s = 1..Len(s) /\ Len(s) \in Nat
  OBVIOUS
<1>2. ASSUME Ordered(s, "graph", cites)
      PROVE  /\ Ordered(Append(s, RouteEvent), "answer", cites)
             /\ \A e \in Errors : Ordered(Append(s, e), "closed", cites)
  <2>1. s = <<>> /\ InOrder(s) /\ Len(s) = 0 /\ DOMAIN s = {}
    BY <1>2 DEF Ordered, InOrder
  <2>2. InOrder(Append(s, RouteEvent))
    <3>1. RouteEvent # AnswerEvent /\ RouteEvent \notin Errors
      BY EventsDiffer
    <3>2. (RouteEvent = RouteEvent <=> Len(s) = 0) /\ (RouteEvent = AnswerEvent <=> Len(s) = 1)
      BY <2>1, <3>1
    <3>3. \A i \in DOMAIN s : s[i] # CompleteEvent /\ s[i] # RouteEvent
      BY <2>1
    <3> QED BY <2>1, <3>1, <3>2, <3>3, AppendInOrder, Zenon
  <2>3. Len(Append(s, RouteEvent)) = 1
    BY <2>1, Appended
  <2>4. \A e \in Errors : OnlyError(Append(s, e))
    BY <2>1 DEF OnlyError
  <2> QED BY <2>2, <2>3, <2>4 DEF Ordered
<1>3. ASSUME Ordered(s, "answer", cites)
      PROVE  Ordered(Append(s, AnswerEvent), "citations", cites)
  <2>1. InOrder(s) /\ Len(s) = 1 /\ DOMAIN s = {1}
    <3>1. InOrder(s) /\ Len(s) = 1
      BY <1>3 DEF Ordered
    <3> QED BY <1>1, <3>1
  <2>2. s[1] = RouteEvent
    BY <2>1 DEF InOrder
  <2>3. InOrder(Append(s, AnswerEvent))
    <3>1. /\ AnswerEvent # RouteEvent /\ AnswerEvent \notin Errors
          /\ \A i \in DOMAIN s : s[i] # CompleteEvent /\ s[i] # AnswerEvent
      BY <2>1, <2>2, EventsDiffer
    <3>2. (AnswerEvent = RouteEvent <=> Len(s) = 0) /\ (AnswerEvent = AnswerEvent <=> Len(s) = 1)
      BY <2>1, <3>1
    <3> QED BY <2>1, <3>1, <3>2, AppendInOrder, Zenon
  <2>4. CitedIn(s) = {}
    BY <2>1, <2>2, EventsDiffer DEF CitedIn
  <2>5. CitedIn(Append(s, AnswerEvent)) = {} /\ Len(Append(s, AnswerEvent)) = 2
    BY <2>1, <2>4, Appended, EventsDiffer
  <2>6. \A i \in DOMAIN Append(s, AnswerEvent) : Append(s, AnswerEvent)[i] # CompleteEvent
    BY <2>1, <2>2, Appended, EventsDiffer
  <2> QED BY <2>3, <2>5, <2>6 DEF Ordered
<1>4. ASSUME NEW c \in cites \ CitedIn(s), Ordered(s, "citations", cites)
      PROVE  Ordered(Append(s, CitationEvent(c)), "citations", cites)
  <2>1. /\ Len(s) >= 2 /\ InOrder(s) /\ CitedIn(s) \subseteq cites
        /\ \A i \in DOMAIN s : s[i] # CompleteEvent
    BY <1>4 DEF Ordered
  <2>2. c \in Chunks /\ c # NoChunk
    BY StreamAssumption
  <2>3. \A i \in DOMAIN s : s[i] # CitationEvent(c)
    BY <2>2, EventsDiffer DEF CitedIn
  <2>4. InOrder(Append(s, CitationEvent(c)))
    <3>1. PICK e \in Event : e = CitationEvent(c)
      BY <2>2
    <3>2. e # RouteEvent /\ e # AnswerEvent /\ e \notin Errors
      BY <3>1, EventsDiffer
    <3>3. (e = RouteEvent <=> Len(s) = 0) /\ (e = AnswerEvent <=> Len(s) = 1)
      BY <1>1, <2>1, <3>2
    <3>4. \A i \in DOMAIN s : s[i] # CompleteEvent /\ s[i] # e
      BY <2>1, <2>3, <3>1
    <3> QED BY <2>1, <3>1, <3>2, <3>3, <3>4, AppendInOrder, Zenon
  <2>5. /\ CitedIn(Append(s, CitationEvent(c))) \subseteq cites
        /\ Len(Append(s, CitationEvent(c))) >= 2
    BY <1>1, <2>1, <2>2, Appended, EventsDiffer
  <2>6. \A i \in DOMAIN Append(s, CitationEvent(c)) : Append(s, CitationEvent(c))[i] # CompleteEvent
    BY <2>1, <2>2, Appended, EventsDiffer
  <2> QED BY <2>4, <2>5, <2>6 DEF Ordered
<1>5. ASSUME Ordered(s, "citations", cites), cites \subseteq CitedIn(s)
      PROVE  Ordered(Append(s, CompleteEvent), "complete", cites)
  <2>1. /\ Len(s) >= 2 /\ InOrder(s) /\ CitedIn(s) = cites
        /\ \A i \in DOMAIN s : s[i] # CompleteEvent
    BY <1>5 DEF Ordered
  <2>2. InOrder(Append(s, CompleteEvent))
    <3>1. CompleteEvent # RouteEvent /\ CompleteEvent # AnswerEvent /\ CompleteEvent \notin Errors
      BY EventsDiffer
    <3>2. /\ (CompleteEvent = RouteEvent <=> Len(s) = 0)
          /\ (CompleteEvent = AnswerEvent <=> Len(s) = 1)
      BY <1>1, <2>1, <3>1
    <3>3. \A i \in DOMAIN s : s[i] # CompleteEvent /\ s[i] # CompleteEvent
      BY <2>1
    <3> QED BY <2>1, <3>1, <3>2, <3>3, AppendInOrder, Zenon
  <2>3. /\ CitedIn(Append(s, CompleteEvent)) = CitedIn(s) \cup ({CompleteEvent.chunk} \ {NoChunk})
        /\ Len(Append(s, CompleteEvent)) = Len(s) + 1
        /\ Append(s, CompleteEvent)[Len(s) + 1] = CompleteEvent
    BY Appended, Zenon
  <2>4. CitedIn(Append(s, CompleteEvent)) = cites
    BY <2>1, <2>3, EventsDiffer
  <2> QED BY <1>1, <2>1, <2>2, <2>3, <2>4 DEF Ordered, Complete
<1> QED BY <1>2, <1>3, <1>4, <1>5

LEMMA StreamInitOrdered == Init => StreamInv
<1> SUFFICES ASSUME Init, NEW q \in Queries
             PROVE  Ordered(events[q], stream[q], run[q].answer.citations)
  BY DEF StreamInv
<1>1. events[q] = <<>> /\ stream[q] = "idle"
  BY DEF Init
<1>2. InOrder(events[q])
  BY <1>1 DEF InOrder
<1> QED BY <1>1, <1>2 DEF Ordered

LEMMA OrderFromInv == TypeOK /\ StreamInv => StreamInOrder
<1> SUFFICES ASSUME TypeOK, StreamInv, NEW q \in Queries
             PROVE  LET s == events[q] IN
                    \/ OnlyError(s)
                    \/ /\ \A i \in DOMAIN s :
                            /\ (s[i] = RouteEvent) = (i = 1)
                            /\ (s[i] = AnswerEvent) = (i = 2)
                            /\ s[i] \notin Errors
                            /\ s[i] = CompleteEvent => i = Len(s)
                            /\ \A j \in 1..(i - 1) : s[j] # s[i]
                       /\ stream[q] = "closed" =>
                            /\ s # <<>> /\ s[Len(s)] = CompleteEvent
                            /\ Cited(q) = run[q].answer.citations
  BY DEF StreamInOrder
<1>1. PICK s : s = events[q]
  OBVIOUS
<1>2. Ordered(s, stream[q], run[q].answer.citations)
  BY <1>1 DEF StreamInv
<1>3. OnlyError(s) \/ InOrder(s)
  BY <1>2 DEF Ordered
<1>4. InOrder(s) => \A i \in DOMAIN s :
        /\ (s[i] = RouteEvent) = (i = 1)
        /\ (s[i] = AnswerEvent) = (i = 2)
        /\ s[i] \notin Errors
        /\ s[i] = CompleteEvent => i = Len(s)
        /\ \A j \in 1..(i - 1) : s[j] # s[i]
  BY Zenon DEF InOrder
<1>5. stream[q] = "closed" =>
        OnlyError(s) \/ (s # <<>> /\ s[Len(s)] = CompleteEvent
                          /\ CitedIn(s) = run[q].answer.citations)
  BY <1>2 DEF Ordered, Complete
<1>6. Cited(q) = CitedIn(s)
  BY <1>1 DEF Cited, CitedIn
<1> QED BY <1>1, <1>3, <1>4, <1>5, <1>6, Zenon

\* A step moves the stream of one query at most, and an execution only while
\* its stream waits for it or gives it up.
StreamKept(q) == UNCHANGED <<events[q], stream[q], trace[q]>>
AnswerKept(q) == run'[q].answer = run[q].answer

Yielded(q, e, pc) ==
  /\ events'[q] = Append(events[q], e)
  /\ stream'[q] = pc
  /\ AnswerKept(q)

Begun(q) == stream[q] = "idle" /\ stream'[q] = "graph" /\ UNCHANGED events[q]
Waits(q) == stream[q] = "graph" /\ StreamKept(q)
GivenUp(q) == stream'[q] = "cut" /\ stream[q] # "closed" /\ UNCHANGED events[q]

Moves(q) ==
  \/ StreamKept(q) /\ AnswerKept(q)
  \/ Begun(q) /\ trace'[q] = "started"
  \/ Waits(q)
  \/ stream[q] = "graph" /\ Yielded(q, RouteEvent, "answer") /\ UNCHANGED trace[q]
  \/ /\ stream[q] = "graph" /\ trace'[q] = "failed"
     /\ \E e \in Errors : Yielded(q, e, "closed")
  \/ stream[q] = "answer" /\ Yielded(q, AnswerEvent, "citations") /\ UNCHANGED trace[q]
  \/ /\ stream[q] = "citations" /\ UNCHANGED trace[q]
     /\ \E c \in run[q].answer.citations \ Cited(q) : Yielded(q, CitationEvent(c), "citations")
  \/ /\ stream[q] = "citations" /\ UNCHANGED trace[q]
     /\ run[q].answer.citations \subseteq Cited(q) /\ Yielded(q, CompleteEvent, "complete")
  \/ /\ stream[q] = "complete" /\ stream'[q] = "closed" /\ UNCHANGED events[q]
     /\ AnswerKept(q) /\ trace'[q] = "completed"
  \/ GivenUp(q) /\ trace'[q] \in {trace[q], "none"}
  \/ /\ UNCHANGED <<events[q], stream[q]>> /\ AnswerKept(q)
     /\ trace'[q] = "none" /\ crashes' = crashes + 1

\* The other queries see nothing of a step for one.
LEMMA OthersKept ==
  ASSUME TypeOK, NEW p \in Queries, NEW q \in Queries \ {p},
         run' = run \/ \E r : run' = [run EXCEPT ![p] = r],
         events' = events \/ \E s : events' = [events EXCEPT ![p] = s],
         stream' = stream \/ \E pc : stream' = [stream EXCEPT ![p] = pc],
         trace' = trace \/ \E t : trace' = [trace EXCEPT ![p] = t]
  PROVE  StreamKept(q) /\ AnswerKept(q)
BY DEF StreamKept, AnswerKept, TypeOK, GraphTypeOK

LEMMA GraphSets ==
  ASSUME NEW q \in Queries, GraphStep(q)
  PROVE  \E r : run' = [run EXCEPT ![q] = r]
BY DEF GraphStep, RouteQuery, SearchDense, SearchSparse, ExecuteSql, Lookup, Generate, Store,
       GraphFails, Finish, Set

LEMMA MovesOfServe ==
  ASSUME TypeOK, NEW p \in Queries, Serve(p), NEW q \in Queries
  PROVE  Moves(q)
<1>1. ASSUME NEW e, NEW pc, Yield(p, e, pc), Quiet
      PROVE  /\ Yielded(p, e, pc)
             /\ run' = run
             /\ \E s : events' = [events EXCEPT ![p] = s]
             /\ \E t : stream' = [stream EXCEPT ![p] = t]
  BY <1>1 DEF Yield, Yielded, Quiet, AnswerKept, TypeOK
<1>2. ASSUME NEW t, trace' = [trace EXCEPT ![p] = t] PROVE trace'[p] = t
  BY <1>2 DEF TypeOK
<1>3. CASE RunGraph(p)
  <2>1. UNCHANGED <<stream, events, trace>> /\ stream[p] = "graph"
    BY <1>3 DEF RunGraph, streamVars
  <2>2. \E r : run' = [run EXCEPT ![p] = r]
    BY <1>3, GraphSets DEF RunGraph
  <2>3. CASE q = p
    BY <2>1, <2>3 DEF Moves, Waits, StreamKept
  <2> QED BY <2>1, <2>2, <2>3, OthersKept DEF Moves
<1>4. CASE YieldRoute(p)
  <2>1. stream[p] = "graph" /\ UNCHANGED trace /\ Yield(p, RouteEvent, "answer") /\ Quiet
    BY <1>4 DEF YieldRoute
  <2>2. CASE q = p
    BY <1>1, <2>1, <2>2 DEF Moves
  <2> QED BY <1>1, <2>1, <2>2, OthersKept DEF Moves
<1>5. CASE YieldAnswer(p)
  <2>1. stream[p] = "answer" /\ UNCHANGED trace /\ Yield(p, AnswerEvent, "citations") /\ Quiet
    BY <1>5 DEF YieldAnswer
  <2>2. CASE q = p
    BY <1>1, <2>1, <2>2 DEF Moves
  <2> QED BY <1>1, <2>1, <2>2, OthersKept DEF Moves
<1>6. CASE YieldCitation(p)
  <2>1. PICK c \in run[p].answer.citations \ Cited(p) :
          /\ stream[p] = "citations" /\ UNCHANGED trace
          /\ Yield(p, CitationEvent(c), "citations") /\ Quiet
    BY <1>6 DEF YieldCitation
  <2>2. CASE q = p
    BY <1>1, <2>1, <2>2 DEF Moves
  <2> QED BY <1>1, <2>1, <2>2, OthersKept DEF Moves
<1>7. CASE YieldComplete(p)
  <2>1. /\ stream[p] = "citations" /\ run[p].answer.citations \subseteq Cited(p)
        /\ UNCHANGED trace /\ Yield(p, CompleteEvent, "complete") /\ Quiet
    BY <1>7 DEF YieldComplete
  <2>2. CASE q = p
    BY <1>1, <2>1, <2>2 DEF Moves
  <2> QED BY <1>1, <2>1, <2>2, OthersKept DEF Moves
<1>8. CASE CloseStream(p)
  <2>1. /\ stream[p] = "complete" /\ stream' = [stream EXCEPT ![p] = "closed"]
        /\ trace' = [trace EXCEPT ![p] = "completed"] /\ UNCHANGED <<events, run>>
    BY <1>8 DEF CloseStream, Quiet
  <2>2. CASE q = p
    BY <2>1, <2>2 DEF Moves, AnswerKept, TypeOK
  <2> QED BY <2>1, <2>2, OthersKept DEF Moves
<1>9. CASE YieldError(p)
  <2>1. PICK e \in Errors :
          /\ stream[p] = "graph" /\ trace' = [trace EXCEPT ![p] = "failed"]
          /\ Yield(p, e, "closed") /\ Quiet
    BY <1>9 DEF YieldError
  <2>2. CASE q = p
    BY <1>1, <1>2, <2>1, <2>2 DEF Moves
  <2> QED BY <1>1, <2>1, <2>2, OthersKept DEF Moves
<1> QED BY <1>3, <1>4, <1>5, <1>6, <1>7, <1>8, <1>9 DEF Serve

LEMMA MovesStep ==
  ASSUME TypeOK, [Next]_vars, NEW q \in Queries
  PROVE  Moves(q) /\ (crashes' = crashes \/ crashes' = crashes + 1)
<1>1. ASSUME UNCHANGED <<run, stream, events, trace, crashes>>
      PROVE  Moves(q) /\ crashes' = crashes
  BY <1>1 DEF Moves, StreamKept, AnswerKept
<1>2. ASSUME NEW p \in Queries, Submit(p) PROVE Moves(q) /\ crashes' = crashes
  <2>1. /\ stream[p] = "idle" /\ stream' = [stream EXCEPT ![p] = "graph"]
        /\ trace' = [trace EXCEPT ![p] = "started"] /\ UNCHANGED <<events, crashes>>
    BY <1>2 DEF Submit
  <2>2. \E r : run' = [run EXCEPT ![p] = r]
    BY <1>2 DEF Submit, Ask
  <2>3. CASE q = p
    BY <2>1, <2>3 DEF Moves, Begun, TypeOK
  <2> QED BY <2>1, <2>2, <2>3, OthersKept DEF Moves
<1>3. ASSUME NEW p \in Queries, SubmitInVain(p) PROVE Moves(q) /\ crashes' = crashes
  <2>1. /\ stream[p] = "idle" /\ stream' = [stream EXCEPT ![p] = "cut"]
        /\ UNCHANGED <<run, events, trace, crashes>>
    BY <1>3 DEF SubmitInVain
  <2>2. CASE q = p
    BY <2>1, <2>2 DEF Moves, GivenUp, TypeOK
  <2> QED BY <2>1, <2>2, OthersKept DEF Moves
<1>4. ASSUME NEW p \in Queries, Serve(p) PROVE Moves(q) /\ crashes' = crashes
  <2>1. UNCHANGED crashes
    BY <1>4 DEF Serve, RunGraph, YieldRoute, YieldAnswer, YieldCitation, YieldComplete,
                CloseStream, YieldError, Quiet
  <2> QED BY <1>4, <2>1, MovesOfServe
<1>5. ASSUME NEW p \in Queries, Read(p) \/ ReadEnd(p) \/ Stop(p)
      PROVE  Moves(q) /\ crashes' = crashes
  BY <1>1, <1>5 DEF Read, ReadEnd, Stop, streamVars
<1>6. ASSUME NEW p \in Queries, NoticeStop(p) PROVE Moves(q) /\ crashes' = crashes
  <2>1. /\ stream[p] # "closed" /\ stream' = [stream EXCEPT ![p] = "cut"]
        /\ UNCHANGED <<events, trace, crashes>>
    BY <1>6 DEF NoticeStop, Open
  <2>2. \E r : run' = [run EXCEPT ![p] = r]
    BY <1>6 DEF NoticeStop
  <2>3. CASE q = p
    BY <2>1, <2>3 DEF Moves, GivenUp, TypeOK
  <2> QED BY <2>1, <2>2, <2>3, OthersKept DEF Moves
<1>7. CASE Environment /\ UNCHANGED <<streamVars, view, crashes>>
  BY <1>1, <1>7 DEF Environment, IndexChunk, Expire, streamVars
<1>8. CASE ApiCrash
  <2>1. /\ crashes' = crashes + 1 /\ UNCHANGED events /\ trace'[q] = "none"
        /\ Open(q) => stream'[q] = "cut"
        /\ ~Open(q) => stream'[q] = stream[q] /\ run'[q] = run[q]
    BY <1>8 DEF ApiCrash
  <2> QED BY <2>1 DEF Moves, GivenUp, AnswerKept, Open
<1>9. CASE UNCHANGED vars
  BY <1>1, <1>9 DEF vars, streamVars
<1> QED BY <1>2, <1>3, <1>4, <1>5, <1>6, <1>7, <1>8, <1>9 DEF Next

LEMMA StreamStep == TypeOK /\ StreamInv /\ [Next]_vars => StreamInv'
<1> SUFFICES ASSUME TypeOK, StreamInv, [Next]_vars, NEW q \in Queries
             PROVE  Ordered(events'[q], stream'[q], run'[q].answer.citations)
  BY DEF StreamInv
<1>1. Moves(q)
  BY MovesStep
<1>2. PICK s \in Seq(Event), cites \in SUBSET Chunks :
        s = events[q] /\ cites = run[q].answer.citations
  <2>1. run[q].answer \in Answer \cup {NoAnswer}
    BY DEF TypeOK, GraphTypeOK, Run
  <2>2. run[q].answer.citations \in SUBSET Chunks
    BY <2>1, NoAnswerFields DEF Answer
  <2> QED BY <2>2 DEF TypeOK
<1>3. Ordered(s, stream[q], cites) /\ Cited(q) = CitedIn(s)
  BY <1>2 DEF StreamInv, Cited, CitedIn
<1>4. AnswerKept(q) => run'[q].answer.citations = cites
  BY <1>2 DEF AnswerKept
<1>5. CASE StreamKept(q) /\ AnswerKept(q)
  BY <1>2, <1>3, <1>4, <1>5 DEF StreamKept
<1>6. CASE Begun(q) \/ Waits(q)
  <2>1. stream'[q] = "graph" /\ events'[q] = s /\ s = <<>>
    BY <1>2, <1>3, <1>6 DEF Begun, Waits, StreamKept, Ordered
  <2>2. InOrder(s)
    BY <2>1 DEF InOrder
  <2> QED BY <2>1, <2>2 DEF Ordered
<1>7. CASE GivenUp(q)
  BY <1>2, <1>3, <1>7 DEF GivenUp, Ordered
<1>8. CASE stream[q] = "graph" /\ Yielded(q, RouteEvent, "answer")
  BY <1>2, <1>3, <1>4, <1>8, OrderedYield DEF Yielded
<1>9. CASE stream[q] = "graph" /\ \E e \in Errors : Yielded(q, e, "closed")
  BY <1>2, <1>3, <1>4, <1>9, OrderedYield DEF Yielded
<1>10. CASE stream[q] = "answer" /\ Yielded(q, AnswerEvent, "citations")
  BY <1>2, <1>3, <1>4, <1>10, OrderedYield DEF Yielded
<1>11. CASE /\ stream[q] = "citations"
            /\ \E c \in run[q].answer.citations \ Cited(q) :
                 Yielded(q, CitationEvent(c), "citations")
  <2>1. PICK c \in cites \ CitedIn(s) : Yielded(q, CitationEvent(c), "citations")
    BY <1>2, <1>3, <1>11
  <2>2. Ordered(Append(s, CitationEvent(c)), "citations", cites)
    BY <1>3, <1>11, OrderedYield
  <2> QED BY <1>2, <1>4, <2>1, <2>2 DEF Yielded
<1>12. CASE /\ stream[q] = "citations" /\ run[q].answer.citations \subseteq Cited(q)
            /\ Yielded(q, CompleteEvent, "complete")
  BY <1>2, <1>3, <1>4, <1>12, OrderedYield DEF Yielded
<1>13. CASE stream[q] = "complete" /\ stream'[q] = "closed" /\ UNCHANGED events[q] /\ AnswerKept(q)
  <2>1. Complete(s, cites)
    BY <1>3, <1>13 DEF Ordered
  <2>2. Ordered(s, "closed", cites)
    BY <2>1 DEF Ordered, Complete
  <2> QED BY <1>2, <1>4, <1>13, <2>2
<1>14. CASE UNCHANGED <<events[q], stream[q]>> /\ AnswerKept(q)
  BY <1>2, <1>3, <1>4, <1>14
<1> QED BY <1>1, <1>5, <1>6, <1>7, <1>8, <1>9, <1>10, <1>11, <1>12, <1>13, <1>14 DEF Moves

(***************************************************************************)
(* events() yields one error, or the route, the answer, distinct citations *)
(* and the completion in this order; and a response that ended without an  *)
(* error holds every citation of the answer (StreamInOrder), whatever      *)
(* fails, stops or dies.                                                   *)
(***************************************************************************)
THEOREM EventsAreInOrder == Spec => []StreamInOrder
<1>1. Init => TypeOK /\ StreamInv
  BY InitType, StreamInitOrdered
<1>2. TypeOK /\ StreamInv /\ [Next]_vars => (TypeOK /\ StreamInv)'
  BY NextType, StreamStep
<1> QED BY <1>1, <1>2, OrderFromInv, PTL DEF Spec

-----------------------------------------------------------------------------
\* Of one query, what its trace tells.
Told(q) ==
  /\ trace[q] \in {"completed", "failed"} => stream[q] = "closed"
  /\ stream[q] = "closed" =>
       \/ trace[q] = IF OnlyError(events[q]) THEN "failed" ELSE "completed"
       \/ trace[q] = "none" /\ crashes > 0

LEMMA TraceInit == Init => TraceTellsOutcome
BY DEF Init, TraceTellsOutcome

LEMMA TraceStep == TypeOK /\ StreamInv /\ TraceTellsOutcome /\ [Next]_vars => TraceTellsOutcome'
<1> SUFFICES ASSUME TypeOK, StreamInv, TraceTellsOutcome, [Next]_vars, NEW q \in Queries
             PROVE  Told(q)'
  BY DEF TraceTellsOutcome, Told
<1>1. Moves(q) /\ (crashes' = crashes \/ crashes' = crashes + 1)
  BY MovesStep
<1>2. Told(q) /\ crashes \in Nat
  BY DEF TraceTellsOutcome, Told, TypeOK
<1>3. crashes > 0 => crashes' > 0
  BY <1>1, <1>2
<1>4. CASE StreamKept(q)
  BY <1>2, <1>3, <1>4 DEF StreamKept, Told
<1>5. CASE trace'[q] \notin {"completed", "failed"} /\ stream'[q] # "closed"
  BY <1>5 DEF Told
<1>6. trace[q] \in {"completed", "failed"} => stream[q] = "closed"
  BY <1>2 DEF Told
<1>7. CASE Begun(q) /\ trace'[q] = "started"
  BY <1>5, <1>7 DEF Begun
<1>8. CASE GivenUp(q) /\ trace'[q] \in {trace[q], "none"}
  BY <1>5, <1>6, <1>8 DEF GivenUp
<1>9. ASSUME NEW e, NEW pc, Yielded(q, e, pc), stream[q] # "closed", pc # "closed",
             UNCHANGED trace[q]
      PROVE  Told(q)'
  BY <1>5, <1>6, <1>9 DEF Yielded
<1>10. CASE /\ stream[q] = "graph" /\ trace'[q] = "failed"
            /\ \E e \in Errors : Yielded(q, e, "closed")
  <2>1. events[q] = <<>>
    BY <1>10 DEF StreamInv, Ordered
  <2>2. OnlyError(events'[q])
    BY <1>10, <2>1 DEF Yielded, OnlyError
  <2>3. stream'[q] = "closed" /\ trace'[q] = "failed"
    BY <1>10 DEF Yielded
  <2> QED BY <2>2, <2>3 DEF Told
<1>11. CASE /\ stream[q] = "complete" /\ stream'[q] = "closed" /\ UNCHANGED events[q]
            /\ trace'[q] = "completed"
  <2>1. PICK s \in Seq(Event) : s = events[q]
    BY DEF TypeOK
  <2>2. Complete(s, run[q].answer.citations)
    BY <1>11, <2>1 DEF StreamInv, Ordered
  <2>3. ~OnlyError(s)
    BY <2>2, OrderHasNoError DEF Complete
  <2>4. ~OnlyError(events'[q])
    BY <1>11, <2>1, <2>3
  <2> QED BY <1>11, <2>4 DEF Told
<1>12. CASE /\ UNCHANGED <<events[q], stream[q]>> /\ trace'[q] = "none"
            /\ crashes' = crashes + 1
  <2>1. crashes' > 0
    BY <1>2, <1>12
  <2> QED BY <1>12, <2>1 DEF Told
<1> QED BY <1>1, <1>4, <1>7, <1>8, <1>9, <1>10, <1>11, <1>12 DEF Moves, Waits

(***************************************************************************)
(* A trace ends only with its response and tells how it ended, unless the  *)
(* process that kept it died (TraceTellsOutcome): the finish and fail of   *)
(* the trace store as events() calls them.                                 *)
(***************************************************************************)
THEOREM TracesAreTruthful == Spec => []TraceTellsOutcome
<1>1. Init => TypeOK /\ StreamInv /\ TraceTellsOutcome
  BY InitType, StreamInitOrdered, TraceInit
<1>2. TypeOK /\ StreamInv /\ TraceTellsOutcome /\ [Next]_vars
        => (TypeOK /\ StreamInv /\ TraceTellsOutcome)'
  BY NextType, StreamStep, TraceStep
<1> QED BY <1>1, <1>2, PTL DEF Spec

-----------------------------------------------------------------------------
(***************************************************************************)
(* The page. While it waits it shows what it has read of the events, none  *)
(* of them an error; when it is done with nothing to excuse it, either the *)
(* response had ended and the page shows the whole answer, or all it read  *)
(* is an error without a message.                                          *)
(***************************************************************************)
ShowsRead(v, s) ==
  /\ v.citations = {s[i].chunk : i \in 1..v.read} \ {NoChunk}
  /\ v.answer <=> \E i \in 1..v.read : s[i] = AnswerEvent
  /\ \A i \in 1..v.read : s[i] \notin Errors

Finished(v, s, cites) ==
  \/ v.answer /\ v.citations = cites
  \/ ShowsNothing(v) /\ s = <<ErrorEvent(TRUE)>>

Page(v, s, pc, cites) ==
  /\ pc # "idle"
  /\ v.read <= Len(s)
  /\ v.loading => ShowsRead(v, s)
  /\ ~v.loading /\ ~v.error /\ ~v.stopped => pc = "closed" /\ Finished(v, s, cites)

PageOf(cl) ==
  LET q == view[cl].query IN
    q # NoQuery =>
      ClientOf[q] = cl /\ Page(view[cl], events[q], stream[q], run[q].answer.citations)

PageInv == \A cl \in Clients : PageOf(cl)

LEMMA WholeFromInv == PageInv => NeverAPartOfAnAnswer
BY DEF PageInv, PageOf, Page, Finished, NeverAPartOfAnAnswer, Unmarked, Done, ShowsAnswer

LEMMA PageInit == Init => PageInv
<1> SUFFICES ASSUME Init, NEW cl \in Clients PROVE view[cl].query = NoQuery
  BY DEF PageInv, PageOf
<1>1. view[cl] = [Fresh(NoQuery) EXCEPT !.loading = FALSE]
  BY DEF Init
<1> QED BY <1>1 DEF Fresh

\* Events only grow, and nothing moves once the response has ended.
LEMMA Grows ==
  ASSUME NEW q \in Queries, Moves(q)
  PROVE  /\ events'[q] = events[q] \/ \E e : events'[q] = Append(events[q], e)
         /\ stream[q] # "idle" => stream'[q] # "idle"
         /\ stream[q] = "closed" =>
              stream'[q] = "closed" /\ AnswerKept(q) /\ UNCHANGED events[q]
BY DEF Moves, StreamKept, Begun, Waits, GivenUp, Yielded

LEMMA PageKept ==
  ASSUME TypeOK, NEW q \in Queries, Moves(q), NEW v \in View,
         Page(v, events[q], stream[q], run[q].answer.citations)
  PROVE  Page(v, events'[q], stream'[q], run'[q].answer.citations)
<1>1. PICK s \in Seq(Event) : s = events[q]
  BY DEF TypeOK
<1>2. PICK n \in Nat : n = v.read
  BY DEF View
<1>3. n <= Len(s)
  BY <1>1, <1>2 DEF Page
<1>4. PICK t : t = events'[q]
  OBVIOUS
<1>5. Len(s) <= Len(t) /\ \A i \in 1..Len(s) : t[i] = s[i]
  <2>1. t = s \/ \E e : t = Append(s, e)
    BY <1>1, <1>4, Grows
  <2> QED BY <2>1
<1>6. n <= Len(t) /\ \A i \in 1..n : t[i] = s[i]
  <2>1. t = s \/ \E e : t = Append(s, e)
    BY <1>1, <1>4, Grows
  <2>2. Len(t) \in Nat
    BY <2>1
  <2> QED BY <1>3, <1>5, <2>2
<1>7. {t[i].chunk : i \in 1..n} = {s[i].chunk : i \in 1..n}
  BY <1>6
<1>8. v.loading => ShowsRead(v, t)
  BY <1>1, <1>2, <1>6, <1>7 DEF Page, ShowsRead
<1>9. stream'[q] # "idle"
  BY Grows DEF Page
<1>10. ~v.loading /\ ~v.error /\ ~v.stopped =>
         stream'[q] = "closed" /\ Finished(v, t, run'[q].answer.citations)
  <2>1. CASE v.loading \/ v.error \/ v.stopped
    BY <2>1
  <2>2. CASE ~v.loading /\ ~v.error /\ ~v.stopped
    <3>1. stream[q] = "closed" /\ Finished(v, s, run[q].answer.citations)
      BY <1>1, <2>2 DEF Page
    <3>2. stream'[q] = "closed" /\ AnswerKept(q) /\ t = s
      BY <1>1, <1>4, <3>1, Grows
    <3> QED BY <3>1, <3>2 DEF AnswerKept
  <2> QED BY <2>1, <2>2
<1> QED BY <1>2, <1>4, <1>6, <1>8, <1>9, <1>10 DEF Page

\* A page that is replaced, while the others stay.
LEMMA PageReplaced ==
  ASSUME TypeOK, PageInv, [Next]_vars, NEW q \in Queries, NEW w,
         view' = [view EXCEPT ![ClientOf[q]] = w], w.query = q,
         Page(w, events'[q], stream'[q], run'[q].answer.citations)
  PROVE  PageInv'
<1> SUFFICES ASSUME NEW cl \in Clients PROVE PageOf(cl)'
  BY DEF PageInv
<1>1. ClientOf[q] \in Clients
  BY StreamAssumption
<1>2. CASE cl = ClientOf[q]
  <2>1. view'[cl] = w
    BY <1>1, <1>2 DEF TypeOK
  <2> QED BY <1>2, <2>1 DEF PageOf
<1>3. CASE cl # ClientOf[q]
  <2>1. view'[cl] = view[cl]
    BY <1>1, <1>3 DEF TypeOK
  <2>2. CASE view[cl].query = NoQuery
    BY <2>1, <2>2 DEF PageOf
  <2>3. CASE view[cl].query # NoQuery
    <3>1. PICK p \in Queries : p = view[cl].query
      BY <2>3 DEF TypeOK, View
    <3>2. ClientOf[p] = cl /\ Page(view[cl], events[p], stream[p], run[p].answer.citations)
      BY <2>3, <3>1 DEF PageInv, PageOf
    <3>3. Moves(p) /\ view[cl] \in View
      BY MovesStep DEF TypeOK
    <3>4. Page(view[cl], events'[p], stream'[p], run'[p].answer.citations)
      BY <3>2, <3>3, PageKept
    <3> QED BY <2>1, <3>1, <3>2, <3>4 DEF PageOf
  <2> QED BY <2>2, <2>3
<1> QED BY <1>2, <1>3

LEMMA PagesKept ==
  ASSUME TypeOK, PageInv, [Next]_vars, UNCHANGED view
  PROVE  PageInv'
<1> SUFFICES ASSUME NEW cl \in Clients PROVE PageOf(cl)'
  BY DEF PageInv
<1>1. view'[cl] = view[cl]
  OBVIOUS
<1>2. CASE view[cl].query = NoQuery
  BY <1>1, <1>2 DEF PageOf
<1>3. CASE view[cl].query # NoQuery
  <2>1. PICK p \in Queries : p = view[cl].query
    BY <1>3 DEF TypeOK, View
  <2>2. ClientOf[p] = cl /\ Page(view[cl], events[p], stream[p], run[p].answer.citations)
    BY <1>3, <2>1 DEF PageInv, PageOf
  <2>3. Moves(p) /\ view[cl] \in View
    BY MovesStep DEF TypeOK
  <2>4. Page(view[cl], events'[p], stream'[p], run'[p].answer.citations)
    BY <2>2, <2>3, PageKept
  <2> QED BY <1>1, <2>1, <2>2, <2>4 DEF PageOf
<1> QED BY <1>2, <1>3

\* What a page that waits for query q knows.
LEMMA Awaited ==
  ASSUME TypeOK, PageInv, NEW q \in Queries, Shows(q)
  PROVE  /\ view[ClientOf[q]] \in View /\ view[ClientOf[q]].loading
         /\ view[ClientOf[q]].query = q
         /\ Page(view[ClientOf[q]], events[q], stream[q], run[q].answer.citations)
<1>1. ClientOf[q] \in Clients /\ q # NoQuery
  BY StreamAssumption
<1> QED BY <1>1 DEF TypeOK, PageInv, PageOf, Shows

LEMMA ReadStep ==
  ASSUME TypeOK, StreamInv, PageInv, [Next]_vars, NEW q \in Queries, Read(q)
  PROVE  PageInv'
<1>1. PICK v \in View : v = view[ClientOf[q]]
  BY Awaited DEF Read
<1>2. v.loading /\ v.query = q /\ Page(v, events[q], stream[q], run[q].answer.citations)
  BY <1>1, Awaited DEF Read
<1>3. PICK s \in Seq(Event) : s = events[q]
  BY DEF TypeOK
<1>4. PICK n \in Nat : n = v.read
  BY DEF View
<1>5. n < Len(s) /\ n + 1 \in DOMAIN s
  <2>1. n < Len(s)
    BY <1>1, <1>3, <1>4 DEF Read
  <2> QED BY <2>1
<1>6. PICK e \in Event : e = s[n + 1]
  BY <1>5
<1>7. PICK w : w = Shown(v, e)
  OBVIOUS
<1>8. view' = [view EXCEPT ![ClientOf[q]] = w]
  BY <1>1, <1>3, <1>4, <1>6, <1>7 DEF Read
<1>9. UNCHANGED <<run, events, stream>>
  BY DEF Read, streamVars
<1>10. /\ w.query = q /\ w.read = n + 1
       /\ w.answer <=> v.answer \/ e.type = "token"
       /\ w.citations = IF e.type = "citation" THEN v.citations \cup {e.chunk} ELSE v.citations
       /\ w.error <=> e.type = "error" /\ ~e.blank
       /\ w.loading <=> e.type # "error"
  BY <1>2, <1>4, <1>7 DEF Shown, View
<1>11. /\ stream[q] # "idle"
       /\ v.citations = {s[i].chunk : i \in 1..n} \ {NoChunk}
       /\ v.answer <=> \E i \in 1..n : s[i] = AnswerEvent
       /\ \A i \in 1..n : s[i] \notin Errors
  BY <1>2, <1>3, <1>4 DEF Page, ShowsRead
<1>12. ASSUME e.type # "error" PROVE Page(w, s, stream[q], run[q].answer.citations)
  <2>1. \A i : i \in 1..(n + 1) <=> i \in 1..n \/ i = n + 1
    OBVIOUS
  <2>2. e \notin Errors /\ (e.type = "token" <=> e = AnswerEvent)
    BY <1>12, EventKinds
  <2>3. w.answer <=> \E i \in 1..(n + 1) : s[i] = AnswerEvent
    BY <1>6, <1>10, <1>11, <2>1, <2>2
  <2>4. \A i \in 1..(n + 1) : s[i] \notin Errors
    BY <1>6, <1>11, <2>1, <2>2
  <2>5. w.loading /\ w.read <= Len(s)
    BY <1>5, <1>10, <1>12
  <2>6. w.citations = {s[i].chunk : i \in 1..w.read} \ {NoChunk}
    <3>1. {s[i].chunk : i \in 1..(n + 1)} = {s[i].chunk : i \in 1..n} \cup {e.chunk}
      BY <1>6, <2>1
    <3>2. e.type = "citation" <=> e.chunk # NoChunk
      BY EventKinds
    <3> QED BY <1>10, <1>11, <3>1, <3>2
  <2>7. ShowsRead(w, s)
    BY <1>10, <2>3, <2>4, <2>6 DEF ShowsRead
  <2> QED BY <1>11, <2>5, <2>7 DEF Page
<1>13. ASSUME e.type = "error" PROVE Page(w, s, stream[q], run[q].answer.citations)
  <2>1. e \in Errors /\ (e = ErrorEvent(TRUE) \/ ~e.blank)
    BY <1>13, EventKinds
  <2>2. ~InOrder(s)
    BY <1>5, <1>6, <2>1 DEF InOrder
  <2>3. stream[q] = "closed" /\ OnlyError(s)
    BY <1>3, <2>2 DEF StreamInv, Ordered
  <2>4. PICK e0 \in Errors : s = <<e0>>
    BY <2>3 DEF OnlyError
  <2>5. s = <<e>> /\ n = 0
    BY <1>4, <1>5, <1>6, <2>4
  <2>6. 1..n = {}
    BY <2>5
  <2>7. ~v.answer /\ v.citations = {}
    BY <1>11, <2>6
  <2>8. e.type # "token" /\ e.type # "citation"
    BY <1>13
  <2>9. ShowsNothing(w)
    BY <1>10, <2>7, <2>8 DEF ShowsNothing
  <2>10. ~w.loading /\ w.read <= Len(s)
    BY <1>5, <1>10, <1>13
  <2>11. ~w.error => s = <<ErrorEvent(TRUE)>>
    BY <1>10, <1>13, <2>1, <2>5
  <2>12. ~w.error => Finished(w, s, run[q].answer.citations)
    BY <2>9, <2>11 DEF Finished
  <2> QED BY <2>3, <2>10, <2>12 DEF Page
<1>14. Page(w, s, stream[q], run[q].answer.citations)
  BY <1>12, <1>13
<1> QED BY <1>3, <1>8, <1>9, <1>10, <1>14, PageReplaced

LEMMA ReadEndStep ==
  ASSUME TypeOK, StreamInv, PageInv, [Next]_vars, NEW q \in Queries, ReadEnd(q)
  PROVE  PageInv'
<1>1. PICK v \in View : v = view[ClientOf[q]]
  BY Awaited DEF ReadEnd
<1>2. v.loading /\ v.query = q /\ Page(v, events[q], stream[q], run[q].answer.citations)
  BY <1>1, Awaited DEF ReadEnd
<1>3. PICK s \in Seq(Event) : s = events[q]
  BY DEF TypeOK
<1>4. UNCHANGED <<run, events, stream>>
  BY DEF ReadEnd, streamVars
<1>5. CASE /\ stream[q] = "closed" /\ view[ClientOf[q]].read = Len(events[q])
           /\ view' = [view EXCEPT ![ClientOf[q]].loading = FALSE]
  <2>1. PICK w : w = [v EXCEPT !.loading = FALSE]
    OBVIOUS
  <2>2. /\ w.query = q /\ w.read = v.read /\ ~w.loading /\ w.error = v.error
        /\ w.citations = v.citations /\ w.answer = v.answer /\ w.stopped = v.stopped
    BY <1>2, <2>1 DEF View
  <2>3. view' = [view EXCEPT ![ClientOf[q]] = w]
    BY <1>1, <1>5, <2>1
  <2>4. v.read = Len(s) /\ DOMAIN s = 1..Len(s)
    BY <1>1, <1>3, <1>5
  <2>5. /\ v.citations = CitedIn(s)
        /\ v.answer <=> \E i \in DOMAIN s : s[i] = AnswerEvent
        /\ \A i \in DOMAIN s : s[i] \notin Errors
    BY <1>2, <1>3, <2>4 DEF Page, ShowsRead, CitedIn
  <2>6. ~OnlyError(s)
    BY <2>5 DEF OnlyError
  <2>7. Complete(s, run[q].answer.citations)
    BY <1>3, <1>5, <2>6 DEF StreamInv, Ordered
  <2>8. s[2] = AnswerEvent /\ 2 \in DOMAIN s
    <3>1. Len(s) >= 3 /\ InOrder(s)
      BY <2>7 DEF Complete
    <3>2. 2 \in DOMAIN s
      BY <3>1
    <3> QED BY <3>1, <3>2 DEF InOrder
  <2>9. v.answer /\ v.citations = run[q].answer.citations
    BY <2>5, <2>7, <2>8 DEF Complete
  <2>10. Page(w, s, stream[q], run[q].answer.citations)
    BY <1>2, <1>3, <1>5, <2>2, <2>9 DEF Page, Finished
  <2> QED BY <1>3, <1>4, <2>2, <2>3, <2>10, PageReplaced
<1>6. CASE /\ stream[q] = "cut"
           /\ view' = [view EXCEPT ![ClientOf[q]] = [@ EXCEPT !.loading = FALSE, !.error = TRUE]]
  <2>1. PICK w : w = [v EXCEPT !.loading = FALSE, !.error = TRUE]
    OBVIOUS
  <2>2. w.query = q /\ w.read = v.read /\ ~w.loading /\ w.error
    BY <1>2, <2>1 DEF View
  <2>3. view' = [view EXCEPT ![ClientOf[q]] = w]
    BY <1>1, <1>6, <2>1
  <2>4. Page(w, s, stream[q], run[q].answer.citations)
    BY <1>2, <1>3, <2>2 DEF Page
  <2> QED BY <1>3, <1>4, <2>2, <2>3, <2>4, PageReplaced
<1> QED BY <1>5, <1>6 DEF ReadEnd

LEMMA StopStep ==
  ASSUME TypeOK, PageInv, [Next]_vars, NEW q \in Queries, Stop(q)
  PROVE  PageInv'
<1>1. PICK v \in View : v = view[ClientOf[q]]
  BY Awaited DEF Stop
<1>2. v.query = q /\ Page(v, events[q], stream[q], run[q].answer.citations)
  BY <1>1, Awaited DEF Stop
<1>3. PICK w : w = [v EXCEPT !.loading = FALSE, !.stopped = TRUE]
  OBVIOUS
<1>4. w.query = q /\ w.read = v.read /\ ~w.loading /\ w.stopped
  BY <1>2, <1>3 DEF View
<1>5. view' = [view EXCEPT ![ClientOf[q]] = w]
  BY <1>1, <1>3 DEF Stop
<1>6. UNCHANGED <<run, events, stream>>
  BY DEF Stop, streamVars
<1>7. Page(w, events[q], stream[q], run[q].answer.citations)
  BY <1>2, <1>4 DEF Page
<1> QED BY <1>4, <1>5, <1>6, <1>7, PageReplaced

\* A page that asks starts with nothing read; if it asked in vain it is in
\* error at once.
LEMMA SubmitStep ==
  ASSUME TypeOK, PageInv, [Next]_vars, NEW q \in Queries, Submit(q) \/ SubmitInVain(q)
  PROVE  PageInv'
<1>1. events'[q] \in Seq(Event)
  BY NextType DEF TypeOK
<1>2. PICK s \in Seq(Event) : s = events'[q]
  BY <1>1
<1>3. 0 <= Len(s)
  OBVIOUS
<1>4. CASE Submit(q)
  <2>1. PICK w : w = Fresh(q)
    OBVIOUS
  <2>2. w.query = q /\ w.read = 0 /\ w.loading /\ ~w.answer /\ w.citations = {}
    BY <2>1 DEF Fresh
  <2>3. view' = [view EXCEPT ![ClientOf[q]] = w] /\ stream'[q] = "graph"
    BY <1>4, <2>1 DEF Submit, TypeOK
  <2>4. Page(w, s, stream'[q], run'[q].answer.citations)
    BY <1>3, <2>2, <2>3 DEF Page, ShowsRead
  <2> QED BY <1>2, <2>2, <2>3, <2>4, PageReplaced
<1>5. CASE SubmitInVain(q)
  <2>1. PICK w : w = [Fresh(q) EXCEPT !.loading = FALSE, !.error = TRUE]
    OBVIOUS
  <2>2. w.query = q /\ w.read = 0 /\ ~w.loading /\ w.error
    BY <2>1 DEF Fresh
  <2>3. view' = [view EXCEPT ![ClientOf[q]] = w] /\ stream'[q] = "cut"
    BY <1>5, <2>1 DEF SubmitInVain, TypeOK
  <2>4. Page(w, s, stream'[q], run'[q].answer.citations)
    BY <1>3, <2>2, <2>3 DEF Page
  <2> QED BY <1>2, <2>2, <2>3, <2>4, PageReplaced
<1> QED BY <1>4, <1>5

LEMMA PageStep == TypeOK /\ StreamInv /\ PageInv /\ [Next]_vars => PageInv'
<1> SUFFICES ASSUME TypeOK, StreamInv, PageInv, [Next]_vars PROVE PageInv'
  OBVIOUS
<1>1. CASE UNCHANGED view
  BY <1>1, PagesKept
<1>2. \/ UNCHANGED view
      \/ \E q \in Queries : \/ Submit(q) \/ SubmitInVain(q) \/ Read(q) \/ ReadEnd(q) \/ Stop(q)
  <2>1. ASSUME NEW q \in Queries, Serve(q) PROVE UNCHANGED view
    BY <2>1 DEF Serve, RunGraph, YieldRoute, YieldAnswer, YieldCitation, YieldComplete,
                CloseStream, YieldError, Quiet
  <2>2. ASSUME NEW q \in Queries, NoticeStop(q) PROVE UNCHANGED view
    BY <2>2 DEF NoticeStop
  <2>3. CASE Environment /\ UNCHANGED <<streamVars, view, crashes>>
    BY <2>3
  <2>4. CASE ApiCrash
    BY <2>4 DEF ApiCrash
  <2>5. CASE UNCHANGED vars
    BY <2>5 DEF vars
  <2> QED BY <2>1, <2>2, <2>3, <2>4, <2>5 DEF Next
<1> QED BY <1>1, <1>2, SubmitStep, ReadStep, ReadEndStep, StopStep

(***************************************************************************)
(* A page that is done, renders no error and was not stopped shows the     *)
(* whole answer with exactly its citations, or nothing at all and that     *)
(* only after a failure without a message (NeverAPartOfAnAnswer), although *)
(* the client never looks for the completion event: submit() of            *)
(* query-client.tsx over the events of query.py.                           *)
(***************************************************************************)
THEOREM PagesShowNoPart == Spec => []NeverAPartOfAnAnswer
<1>1. Init => TypeOK /\ StreamInv /\ PageInv
  BY InitType, StreamInitOrdered, PageInit
<1>2. TypeOK /\ StreamInv /\ PageInv /\ [Next]_vars => (TypeOK /\ StreamInv /\ PageInv)'
  BY NextType, StreamStep, PageStep
<1> QED BY <1>1, <1>2, WholeFromInv, PTL DEF Spec

-----------------------------------------------------------------------------
(***************************************************************************)
(* The graph within the stream: what holds of the graph by itself holds    *)
(* when clients stop and the process dies in the middle of an execution,   *)
(* because a cancelled execution leaves at most the answer it was storing. *)
(***************************************************************************)
Asked == \A q \in Queries : stream[q] = "idle" => AtNode(q, "idle")

\* A cancelled execution holds its evidence, and no answer.
LEMMA CancelledSound ==
  ASSUME NEW q \in Queries, NEW r0 \in Run, RunSound(q, r0),
         NEW r, r = [r0 EXCEPT !.pc = "cancelled", !.answer = NoAnswer]
  PROVE  r.pc = "cancelled" /\ RunSound(q, r)
<1>1. r.pc = "cancelled" /\ r.dense = r0.dense /\ r.evidence = r0.evidence /\ r.answer = NoAnswer
  BY DEF Run
<1> QED BY <1>1, NoAnswerFields DEF RunSound, BeforeAnswer

LEMMA NoticeStopSound ==
  ASSUME GraphInv, GraphTypeOK', NEW q \in Queries, NoticeStop(q)
  PROVE  GraphInv'
<1>1. PICK r0 \in Run : r0 = run[q]
  BY DEF GraphInv, GraphTypeOK
<1>2. PICK r : r = [r0 EXCEPT !.pc = "cancelled", !.answer = NoAnswer]
  OBVIOUS
<1>3. run' = [run EXCEPT ![q] = r]
  BY <1>1, <1>2 DEF NoticeStop
<1>4. run'[q] = r /\ \A p \in Queries \ {q} : run'[p] = run[p]
  BY <1>3 DEF GraphInv, GraphTypeOK
<1>5. RunSound(q, r0)
  BY <1>1 DEF GraphInv
<1>6. \A p \in Queries : RunSound(p, run'[p])
  <2>1. RunSound(q, r)
    BY <1>2, <1>5, CancelledSound
  <2>2. \A p \in Queries : RunSound(p, run[p])
    BY DEF GraphInv
  <2> QED BY <1>4, <2>1, <2>2
<1>7. \A k \in Tenants \X Texts : EntrySound(k, cache'[k])
  <2>1. CASE UNCHANGED cache
    BY <2>1 DEF GraphInv
  <2>2. CASE AtNode(q, "store") /\ cache' = [cache EXCEPT ![Key(q)] = run[q].answer]
    <3>1. EntrySound(Key(q), r0.answer)
      BY <1>1, <1>5, <2>2, KeySound DEF RunSound, EntrySound, RouteIs, AtNode
    <3> QED BY <1>1, <2>2, <3>1 DEF GraphInv, GraphTypeOK
  <2> QED BY <2>1, <2>2 DEF NoticeStop
<1> QED BY <1>6, <1>7 DEF GraphInv, RunSound, EntrySound, RouteIs

LEMMA ApiCrashSound ==
  ASSUME GraphInv, GraphTypeOK', ApiCrash
  PROVE  GraphInv'
<1>1. UNCHANGED cache
  BY DEF ApiCrash, sharedVars
<1>2. ASSUME NEW q \in Queries PROVE RunSound(q, run'[q])
  <2>1. PICK r0 \in Run : r0 = run[q]
    BY DEF GraphInv, GraphTypeOK
  <2>2. PICK r : r = [r0 EXCEPT !.pc = "cancelled", !.answer = NoAnswer]
    OBVIOUS
  <2>3. run'[q] = r \/ run'[q] = r0
    BY <2>1, <2>2 DEF ApiCrash
  <2> QED BY <2>1, <2>2, <2>3, CancelledSound DEF GraphInv
<1> QED BY <1>1, <1>2 DEF GraphInv, RunSound, EntrySound, RouteIs

LEMMA GraphUntouched ==
  ASSUME GraphInv, UNCHANGED <<sharedVars, run>>
  PROVE  GraphInv'
<1>1. UNCHANGED <<index, cache, run>>
  BY DEF sharedVars
<1> QED BY <1>1 DEF GraphInv, GraphTypeOK, RunSound, EntrySound, RouteIs

LEMMA GraphInStream ==
  TypeOK /\ GraphInv /\ Asked /\ [Next]_vars => (GraphInv /\ Asked)'
<1> SUFFICES ASSUME TypeOK, GraphInv, Asked, [Next]_vars PROVE (GraphInv /\ Asked)'
  OBVIOUS
<1>1. GraphTypeOK'
  BY NextType DEF TypeOK
<1>2. ASSUME UNCHANGED <<sharedVars, run>>,
             \A q \in Queries : stream'[q] = "idle" => stream[q] = "idle"
      PROVE  (GraphInv /\ Asked)'
  BY <1>2, GraphUntouched DEF Asked, AtNode
<1>3. ASSUME NEW q \in Queries, stream'[q] # "idle", GraphInv',
             \A p \in Queries \ {q} : stream'[p] = stream[p] /\ run'[p] = run[p]
      PROVE  (GraphInv /\ Asked)'
  BY <1>3 DEF Asked, AtNode
<1>4. ASSUME NEW q \in Queries, Submit(q) PROVE (GraphInv /\ Asked)'
  <2>1. AtNode(q, "idle") /\ Ask(q) /\ UNCHANGED sharedVars
    BY <1>4 DEF Submit, Asked
  <2>2. GraphInv'
    BY <2>1, AskSound DEF sharedVars, GraphInv, GraphTypeOK
  <2>3. stream'[q] = "graph" /\ \A p \in Queries \ {q} : stream'[p] = stream[p]
    BY <1>4 DEF Submit, TypeOK
  <2>4. \A p \in Queries \ {q} : run'[p] = run[p]
    BY <2>1 DEF Ask, GraphInv, GraphTypeOK
  <2> QED BY <1>3, <2>2, <2>3, <2>4
<1>5. ASSUME NEW q \in Queries, SubmitInVain(q) PROVE (GraphInv /\ Asked)'
  <2>1. \A p \in Queries : stream'[p] \in {stream[p], "cut"}
    BY <1>5 DEF SubmitInVain, TypeOK
  <2> QED BY <1>2, <1>5, <2>1 DEF SubmitInVain
<1>6. ASSUME NEW q \in Queries, Serve(q) PROVE (GraphInv /\ Asked)'
  <2>1. CASE RunGraph(q)
    <3>1. GraphStep(q) /\ stream[q] = "graph" /\ UNCHANGED stream
      BY <2>1 DEF RunGraph, streamVars
    <3>2. GraphInv'
      BY <3>1, GraphStepSound
    <3>3. \A p \in Queries \ {q} : run'[p] = run[p]
      BY <3>1, GraphSets DEF GraphInv, GraphTypeOK, Set
    <3> QED BY <1>3, <3>1, <3>2, <3>3
  <2>2. ASSUME NEW e, NEW pc \in StreamPc \ {"idle"}, Yield(q, e, pc), Quiet
        PROVE  (GraphInv /\ Asked)'
    <3>1. \A p \in Queries : stream'[p] \in {stream[p], pc}
      BY <2>2 DEF Yield, TypeOK
    <3> QED BY <1>2, <2>2, <3>1 DEF Quiet
  <2>3. CASE CloseStream(q)
    <3>1. \A p \in Queries : stream'[p] \in {stream[p], "closed"}
      BY <2>3 DEF CloseStream, TypeOK
    <3> QED BY <1>2, <2>3, <3>1 DEF CloseStream, Quiet
  <2>4. CASE YieldRoute(q)
    BY <2>2, <2>4 DEF YieldRoute, StreamPc
  <2>5. CASE YieldAnswer(q)
    BY <2>2, <2>5 DEF YieldAnswer, StreamPc
  <2>6. CASE YieldCitation(q)
    BY <2>2, <2>6 DEF YieldCitation, StreamPc
  <2>7. CASE YieldComplete(q)
    BY <2>2, <2>7 DEF YieldComplete, StreamPc
  <2>8. CASE YieldError(q)
    BY <2>2, <2>8 DEF YieldError, StreamPc
  <2> QED BY <1>6, <2>1, <2>3, <2>4, <2>5, <2>6, <2>7, <2>8 DEF Serve
<1>7. ASSUME NEW q \in Queries, Read(q) \/ ReadEnd(q) \/ Stop(q) PROVE (GraphInv /\ Asked)'
  BY <1>2, <1>7 DEF Read, ReadEnd, Stop, streamVars
<1>8. ASSUME NEW q \in Queries, NoticeStop(q) PROVE (GraphInv /\ Asked)'
  <2>1. stream'[q] = "cut" /\ \A p \in Queries \ {q} : stream'[p] = stream[p]
    BY <1>8 DEF NoticeStop, TypeOK
  <2>2. \A p \in Queries \ {q} : run'[p] = run[p]
    BY <1>8 DEF NoticeStop, GraphInv, GraphTypeOK
  <2> QED BY <1>1, <1>3, <1>8, <2>1, <2>2, NoticeStopSound
<1>9. CASE Environment /\ UNCHANGED <<streamVars, view, crashes>>
  <2>1. GraphInv'
    BY <1>9, EnvironmentSound
  <2>2. UNCHANGED run
    BY <1>9 DEF Environment, IndexChunk, Expire
  <2> QED BY <1>9, <2>1, <2>2 DEF Asked, AtNode, streamVars
<1>10. CASE ApiCrash
  <2>1. GraphInv'
    BY <1>1, <1>10, ApiCrashSound
  <2>2. ASSUME NEW q \in Queries, stream'[q] = "idle" PROVE run'[q].pc = "idle"
    <3>1. stream[q] = "idle" /\ ~Open(q)
      BY <1>10, <2>2 DEF ApiCrash, Open
    <3> QED BY <1>10, <3>1 DEF ApiCrash, Asked, AtNode
  <2> QED BY <2>1, <2>2 DEF Asked, AtNode
<1>11. CASE UNCHANGED vars
  BY <1>2, <1>11 DEF vars, streamVars
<1> QED BY <1>4, <1>5, <1>6, <1>7, <1>8, <1>9, <1>10, <1>11 DEF Next

LEMMA AskedInit == Init => GraphInv /\ Asked
<1> SUFFICES ASSUME Init PROVE GraphInv /\ Asked
  OBVIOUS
<1>1. PICK r : r = NewRun
  OBVIOUS
<1>2. r.pc = "idle" /\ \A q \in Queries : run[q] = r
  BY <1>1 DEF NewRun, Init, GraphInit
<1> QED BY <1>2, GraphInitSound DEF Init, Asked, AtNode

(***************************************************************************)
(* Counts are fresh and structured answers cite nothing also where clients *)
(* stop, responses are cancelled in the middle of a cache write, and the   *)
(* process dies: RowCountsAreFresh and StructuredHasNoCitation of the      *)
(* graph as events() of query.py runs it.                                  *)
(***************************************************************************)
THEOREM StreamedAnswersAreSound == Spec => [](RowCountsAreFresh /\ StructuredHasNoCitation)
<1>1. Init => TypeOK /\ GraphInv /\ Asked
  BY InitType, AskedInit
<1>2. TypeOK /\ GraphInv /\ Asked /\ [Next]_vars => (TypeOK /\ GraphInv /\ Asked)'
  BY NextType, GraphInStream
<1>3. GraphInv => RowCountsAreFresh /\ StructuredHasNoCitation
  BY GraphFromInv
<1> QED BY <1>1, <1>2, <1>3, PTL DEF Spec
=============================================================================
