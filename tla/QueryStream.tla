---------------------------- MODULE QueryStream ----------------------------
(***************************************************************************)
(* From the question box to the answer on screen: the web client submits a *)
(* query, POST /api/v1/query/stream runs the orchestration graph and turns *)
(* its result into server-sent events, one at a time, and the client shows *)
(* them as they arrive. Clients may stop, and the API process may die, at  *)
(* any time. A yield of events() is a step, and so is each event the       *)
(* client takes off the stream.                                            *)
(***************************************************************************)
EXTENDS QueryGraph, Sequences

CONSTANTS
  Clients,
  ClientOf,    \* the client that asks a query
  MaxCrashes   \* bound: deaths of the API process in a behaviour

NoChunk == "none"   \* the chunk of an event that is no citation
NoQuery == "none"   \* the query of a page that has asked nothing

ASSUME StreamAssumption ==
  /\ ClientOf \in [Queries -> Clients]
  /\ MaxCrashes \in Nat
  /\ NoChunk \notin Chunks
  /\ NoQuery \notin Queries

VARIABLES
  stream,   \* where events() stands for each query
  events,   \* the events it has yielded, in order
  trace,    \* the last status recorded for the query's trace
  view,     \* what each client's page shows
  crashes   \* deaths of the API process so far

streamVars == <<stream, events, trace>>
vars == <<sharedVars, run, streamVars, view, crashes>>

\* id is event_id, type is event_type: the name the client sees; blank, that
\* the data is the empty string. The route travels under the type COMPLETE.
Plain(id, type) == [id |-> id, type |-> type, chunk |-> NoChunk, blank |-> FALSE]
RouteEvent == Plain("route", "complete")
AnswerEvent == Plain("answer", "token")
CitationEvent(c) == [Plain("citation", "citation") EXCEPT !.chunk = c]
CompleteEvent == Plain("complete", "complete")

\* Its data is str(exc), which is empty for many exceptions: a TimeoutError has
\* no message.
ErrorEvent(blank) == [Plain("error", "error") EXCEPT !.blank = blank]
Errors == {ErrorEvent(blank) : blank \in BOOLEAN}

Event == {RouteEvent, AnswerEvent, CompleteEvent} \cup Errors \cup {CitationEvent(c) : c \in Chunks}

\* "closed": the response has ended; "cut": the connection is gone.
StreamPc == {"idle", "graph", "answer", "citations", "complete", "closed", "cut"}
Open(q) == stream[q] \in {"graph", "answer", "citations", "complete"}

View == [query : Queries \cup {NoQuery}, loading : BOOLEAN, read : Nat, route : BOOLEAN,
         answer : BOOLEAN, citations : SUBSET Chunks, error : BOOLEAN, stopped : BOOLEAN]
Fresh(q) == [query |-> q, loading |-> TRUE, read |-> 0, route |-> FALSE,
             answer |-> FALSE, citations |-> {}, error |-> FALSE, stopped |-> FALSE]

TypeOK ==
  /\ GraphTypeOK
  /\ stream \in [Queries -> StreamPc]
  /\ events \in [Queries -> Seq(Event)]
  /\ trace \in [Queries -> {"none", "started", "completed", "failed"}]
  /\ view \in [Clients -> View]
  /\ crashes \in 0..MaxCrashes

Init ==
  /\ GraphInit
  /\ stream = [q \in Queries |-> "idle"]
  /\ events = [q \in Queries |-> <<>>]
  /\ trace = [q \in Queries |-> "none"]
  /\ view = [c \in Clients |-> [Fresh(NoQuery) EXCEPT !.loading = FALSE]]
  /\ crashes = 0

Yield(q, event, pc) ==
  /\ events' = [events EXCEPT ![q] = Append(@, event)]
  /\ stream' = [stream EXCEPT ![q] = pc]

-----------------------------------------------------------------------------
\* submit() clears the page; events() starts the trace and the graph.
Submit(q) ==
  /\ stream[q] = "idle"
  /\ ~view[ClientOf[q]].loading
  /\ view' = [view EXCEPT ![ClientOf[q]] = Fresh(q)]
  /\ stream' = [stream EXCEPT ![q] = "graph"]
  /\ trace' = [trace EXCEPT ![q] = "started"]
  /\ Ask(q)
  /\ UNCHANGED <<sharedVars, events, crashes>>

\* The API refuses the request (401, 403, 503) or cannot be reached.
SubmitInVain(q) ==
  /\ stream[q] = "idle"
  /\ ~view[ClientOf[q]].loading
  /\ view' = [view EXCEPT ![ClientOf[q]] =
                [Fresh(q) EXCEPT !.loading = FALSE, !.error = TRUE]]
  /\ stream' = [stream EXCEPT ![q] = "cut"]
  /\ UNCHANGED <<sharedVars, run, events, trace, crashes>>

RunGraph(q) ==
  /\ stream[q] = "graph"
  /\ GraphStep(q)
  /\ UNCHANGED <<streamVars, view, crashes>>

Quiet == UNCHANGED <<sharedVars, run, view, crashes>>

YieldRoute(q) ==
  /\ stream[q] = "graph" /\ AtNode(q, "answered")
  /\ Yield(q, RouteEvent, "answer")
  /\ UNCHANGED trace /\ Quiet

YieldAnswer(q) ==
  /\ stream[q] = "answer"
  /\ Yield(q, AnswerEvent, "citations")
  /\ UNCHANGED trace /\ Quiet

Cited(q) == {events[q][i].chunk : i \in DOMAIN events[q]} \ {NoChunk}

YieldCitation(q) ==
  /\ stream[q] = "citations"
  /\ \E c \in run[q].answer.citations \ Cited(q) : Yield(q, CitationEvent(c), "citations")
  /\ UNCHANGED trace /\ Quiet

\* Mutant of YieldComplete: it does not wait for the citations.
YieldCompleteEarly(q) ==
  /\ stream[q] = "citations"
  /\ Yield(q, CompleteEvent, "complete")
  /\ UNCHANGED trace /\ Quiet

YieldComplete(q) ==
  /\ stream[q] = "citations"
  /\ run[q].answer.citations \subseteq Cited(q)
  /\ Yield(q, CompleteEvent, "complete")
  /\ UNCHANGED trace /\ Quiet

\* After the last yield the trace is completed, and the response ends.
CloseStream(q) ==
  /\ stream[q] = "complete"
  /\ stream' = [stream EXCEPT ![q] = "closed"]
  /\ trace' = [trace EXCEPT ![q] = "completed"]
  /\ UNCHANGED events /\ Quiet

\* Mutant of YieldError: an error event without an end of the trace.
YieldErrorOnly(q) ==
  /\ stream[q] = "graph" /\ AtNode(q, "failed")
  /\ \E e \in Errors : Yield(q, e, "closed")
  /\ UNCHANGED trace /\ Quiet

\* The graph raised: the handler records the failure and yields the error.
YieldError(q) ==
  /\ stream[q] = "graph" /\ AtNode(q, "failed")
  /\ \E e \in Errors : Yield(q, e, "closed")
  /\ trace' = [trace EXCEPT ![q] = "failed"]
  /\ Quiet

-----------------------------------------------------------------------------
\* Whether a query's answer is still awaited by the page that asked it.
Shows(q) == view[ClientOf[q]].query = q /\ view[ClientOf[q]].loading

\* readSse and the loop over it. An error event is thrown; the page keeps its
\* message, and renders it unless it is empty. error: that an error is rendered.
Shown(v, e) ==
  [v EXCEPT !.read = @ + 1,
            !.route = @ \/ e.type = "route",
            !.answer = @ \/ e.type = "token",
            !.citations = IF e.type = "citation" THEN @ \cup {e.chunk} ELSE @,
            !.error = e.type = "error" /\ ~e.blank,
            !.loading = e.type # "error"]

Read(q) ==
  /\ Shows(q)
  /\ LET v == view[ClientOf[q]] IN
       /\ v.read < Len(events[q])
       /\ view' = [view EXCEPT ![ClientOf[q]] = Shown(v, events[q][v.read + 1])]
  /\ UNCHANGED <<sharedVars, run, streamVars, crashes>>

\* Mutant of ReadEnd: a connection that breaks is not noticed.
ReadEndOfClosed(q) ==
  /\ Shows(q)
  /\ stream[q] = "closed"
  /\ view[ClientOf[q]].read = Len(events[q])
  /\ view' = [view EXCEPT ![ClientOf[q]].loading = FALSE]
  /\ UNCHANGED <<sharedVars, run, streamVars, crashes>>

\* Mutant of ReadEnd: a connection that breaks looks like the end.
ReadEndOfAny(q) ==
  /\ Shows(q)
  /\ \/ stream[q] = "closed" /\ view[ClientOf[q]].read = Len(events[q])
     \/ stream[q] = "cut"
  /\ view' = [view EXCEPT ![ClientOf[q]].loading = FALSE]
  /\ UNCHANGED <<sharedVars, run, streamVars, crashes>>

\* The response ends after its last event, or read() rejects: the connection
\* is gone, with or without events that were under way.
ReadEnd(q) ==
  /\ Shows(q)
  /\ \/ /\ stream[q] = "closed"
        /\ view[ClientOf[q]].read = Len(events[q])
        /\ view' = [view EXCEPT ![ClientOf[q]].loading = FALSE]
     \/ /\ stream[q] = "cut"
        /\ view' = [view EXCEPT ![ClientOf[q]] = [@ EXCEPT !.loading = FALSE, !.error = TRUE]]
  /\ UNCHANGED <<sharedVars, run, streamVars, crashes>>

\* The stop button aborts the request: no error is shown.
Stop(q) ==
  /\ Shows(q)
  /\ view' = [view EXCEPT ![ClientOf[q]] = [@ EXCEPT !.loading = FALSE, !.stopped = TRUE]]
  /\ UNCHANGED <<sharedVars, run, streamVars, crashes>>

\* The server notices that the client is gone and cancels the response. A
\* cancelled cache write may have reached Redis; the trace stays started.
NoticeStop(q) ==
  /\ Open(q) /\ ~Shows(q)
  /\ stream' = [stream EXCEPT ![q] = "cut"]
  /\ run' = [run EXCEPT ![q] = [@ EXCEPT !.pc = "cancelled", !.answer = NoAnswer]]
  /\ \/ UNCHANGED cache
     \/ AtNode(q, "store") /\ cache' = [cache EXCEPT ![Key(q)] = run[q].answer]
  /\ UNCHANGED <<index, events, trace, view, crashes>>

\* The API process dies and restarts, with no memory of its traces.
ApiCrash ==
  /\ crashes < MaxCrashes
  /\ crashes' = crashes + 1
  /\ stream' = [q \in Queries |-> IF Open(q) THEN "cut" ELSE stream[q]]
  /\ run' = [q \in Queries |->
       IF Open(q) THEN [run[q] EXCEPT !.pc = "cancelled", !.answer = NoAnswer] ELSE run[q]]
  /\ trace' = [q \in Queries |-> "none"]
  /\ UNCHANGED <<sharedVars, events, view>>

\* What the API process does for a query.
Serve(q) ==
  \/ RunGraph(q)
  \/ YieldRoute(q) \/ YieldAnswer(q) \/ YieldCitation(q) \/ YieldComplete(q)
  \/ CloseStream(q) \/ YieldError(q)

Next ==
  \/ \E q \in Queries : \/ Submit(q) \/ SubmitInVain(q)
                        \/ Serve(q)
                        \/ Read(q) \/ ReadEnd(q) \/ Stop(q) \/ NoticeStop(q)
  \/ Environment /\ UNCHANGED <<streamVars, view, crashes>>
  \/ ApiCrash

Spec == Init /\ [][Next]_vars

(***************************************************************************)
(* Providers and stores answer or fail (the HTTP clients and the SQL       *)
(* executor have timeouts; the databases are taken to answer or drop the   *)
(* connection), the server keeps sending while the client reads, and the   *)
(* client keeps reading.                                                   *)
(***************************************************************************)
Fairness == \A q \in Queries : WF_vars(Serve(q)) /\ WF_vars(Read(q)) /\ WF_vars(ReadEnd(q))

FairSpec == Spec /\ Fairness

-----------------------------------------------------------------------------
Held(q) == InRun(q) \cup Cited(q)

\* Every chunk that is cached, held by an execution, sent or shown belongs to
\* the tenant that asked: the search filter (qdrant_index.py, _build_filter)
\* and the cache key (semantic_cache.py, CacheKey.value) scope it together.
TenantScoped ==
  /\ CacheScoped
  /\ \A q \in Queries : \A c \in Held(q) : OwnerOf[c] = TenantOf[q]
  /\ \A cl \in Clients : \A c \in view[cl].citations :
       view[cl].query \in Queries /\ OwnerOf[c] = TenantOf[view[cl].query]

OnlyError(s) == \E e \in Errors : s = <<e>>

\* What events() has yielded: one error, or the route, the answer, distinct
\* citations and the completion, in this order; and a response that ended
\* without an error holds every citation (query.py, events).
StreamInOrder ==
  \A q \in Queries :
    LET s == events[q] IN
    \/ OnlyError(s)
    \/ /\ \A i \in DOMAIN s :
            /\ (s[i] = RouteEvent) = (i = 1)
            /\ (s[i] = AnswerEvent) = (i = 2)
            /\ s[i] \notin Errors
            /\ s[i] = CompleteEvent => i = Len(s)
            /\ \A j \in 1..(i - 1) : s[j] # s[i]
       /\ stream[q] = "closed" =>
            /\ s # <<>> /\ s[Len(s)] = CompleteEvent
            /\ Cited(q) = run[q].answer.citations

\* A trace ends only with its response, and tells how it ended; only the
\* death of the process loses it (query.py, events; observability.py).
TraceTellsOutcome ==
  \A q \in Queries :
    /\ trace[q] \in {"completed", "failed"} => stream[q] = "closed"
    /\ stream[q] = "closed" =>
         \/ trace[q] = IF OnlyError(events[q]) THEN "failed" ELSE "completed"
         \/ trace[q] = "none" /\ crashes > 0

\* A page that is done, with nothing on it that says why it might lack a part.
Done(cl) == view[cl].query # NoQuery /\ ~view[cl].loading
Unmarked(cl) == Done(cl) /\ ~view[cl].error /\ ~view[cl].stopped

ShowsAnswer(v) == v.answer /\ v.citations = run[v.query].answer.citations
ShowsNothing(v) == ~v.answer /\ v.citations = {}

\* A page that is done, renders no error and was not stopped never shows a part
\* of an answer: it shows the whole text with exactly its citations, or nothing
\* at all, and that only where the query failed with an empty message. The
\* client never looks for the completion event (query-client.tsx, submit): it
\* relies on a broken connection being an error.
NeverAPartOfAnAnswer ==
  \A cl \in Clients :
    Unmarked(cl) =>
      \/ ShowsAnswer(view[cl])
      \/ ShowsNothing(view[cl]) /\ events[view[cl].query] = <<ErrorEvent(TRUE)>>

\* A page stops loading in the end, whatever fails or dies meanwhile
\* (query-client.tsx, submit's finally).
LoadingEnds == \A cl \in Clients : view[cl].loading ~> ~view[cl].loading
=============================================================================
