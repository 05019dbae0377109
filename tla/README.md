# A verification project for AxiomRAG

TLA+ modules of AxiomRAG's ingestion pipeline, query path, tool runner, tenant
memberships and the algorithms between them, the TLC runs that check them on
small instances, and theorems about them that the TLA+ proof system (TLAPS)
checks for every value of the constants. Paths such as
`apps/worker/tasks.py:190` are relative to the repository root (`src/` here).

## 1. The system

AxiomRAG answers questions from uploaded documents and a database. A FastAPI
process (`apps/api`) takes uploads and queries; Celery workers (`apps/worker`)
turn uploads into indexed chunks; a Next.js page (`apps/web`) asks questions and
shows the streamed answer. They share a document store, PostgreSQL, Redis
(broker and answer cache) and Qdrant.

| Component | State it keeps | Operations | Talks to | What makes it hard | What makes it correct |
|---|---|---|---|---|---|
| Upload endpoint: `routes/documents.py`, `ingestion_service.py`, `storage.py`, `document_repository.py` | file, document row, job row, first message | validate, save, create document, create job, dispatch | store, PostgreSQL, broker | four effects, no recovery code; concurrent uploads of the same bytes; the API may die | nothing refers to something missing; a rejected upload leaves nothing; a 202 is durable |
| Ingestion tasks: `tasks.py`, `celery_app.py`, `job_lifecycle.py` and the job, chunk and asset repositories | job row, chunk and asset rows, asset files, points | `parse_document`, `embed_chunks`, `index_to_qdrant`, retry, chain | broker, store, PostgreSQL, embedder, Qdrant | early acknowledgement, redelivery, lost replies, crashes, read-then-write without a lock | a completed job is an indexed document; no stale point; completed is final; uploads settle |
| Vector index: `qdrant_index.py` | collection, points | ensure, upsert, search | Qdrant | look up, then create | one collection; a search sees its tenant's points only |
| Embedding, parsers, chunking: `embedding.py`, `parser.py`, `docling_parser.py`, `chunking.py` | none | pure, or one call that fails | provider | boundaries of windows and batches | coverage, order, limits |
| Circuit breaker and tool runner: `tool_resilience.py` | failure count, opening time, each call's attempt and delay | run, retry, sleep | any operation | calls share the breaker and are interrupted at every await | open only after failures in a row; refused for a reason; every call ends |
| Orchestration graph: `orchestration.py`, `graph_adapters.py`, `retriever.py` and what they call | one execution's state | route, retrieve, SQL, answer | index, database, model, cache | executions interleave over one index and one cache | scope by tenant; an answer fits its route; counts are fresh |
| Answer service and cache: `answer_service.py`, `semantic_cache.py`, `redis_cache.py` | cached answers | get, put, expire | Redis | a hit is an answer another execution made, from evidence that was | equal keys mean equal tenant and route |
| Query stream and traces: `routes/query.py`, `observability.py` | events yielded, trace records | yield, end, record | graph, client | disconnects, failures and crashes between two yields | order and completeness of the events; a trace that tells the outcome |
| Web client: `query-client.tsx` | the page | submit, read, stop | API | partial streams | never passes a part off as an answer, and stops loading |
| Membership, admin and status endpoint: `auth.py`, `membership.py`, `membership_repository.py`, `routes/admin.py`, `documents.py` | the membership table, each request's selected row | authenticate, authorize, grant, deactivate, read a status | PostgreSQL | authorized once, then select, then insert or update what differs; no locks | only members are let in, and administrators to changes; each column is what some call asked for; a deactivation holds |
| Tool security: `tool_security.py`, `audit_repository.py` | the audit trail, the sink's session | authorize, record | its caller, PostgreSQL | the event is committed before the caller knows; a commit fails or loses its reply | no tool runs unapproved; the trail tells what the caller was told |
| SQL safety: `sql_execution.py`, `sql_generator.py`, `text_to_sql.py` | none | validate, cap, execute | database | sqlglot's parse trees | a read-only, capped statement |
| Fusion, reranking, sparse vectors: `fusion.py`, `reranking.py`, `sparse_vector.py` | none | pure | - | ties, duplicates, hash collisions | what both searches prefer is preferred; ids unique and weights right where no hashes collide |
| Local sparse retrieval: `sparse_retrieval.py` | chunks and term statistics | add or replace, search | - | one index for all tenants, statistics that must follow each replacement | a search finds its tenant's matching chunks |
| Configuration, contracts, evaluation metrics, deployment files | none that changes | - | - | - | - |

`PROJECT.json` lists every component with its status, and under "hazards" the
places where this code can go wrong in ways a test would hardly reach.

## 2. The modules

```
IngestionStore            files, document and job rows, queue: what both sides share
 |- DocumentUpload        POST /documents              (MCDocumentUpload)
 `- IngestionTasks        the three tasks, Celery, Redis delivery
     \_ Ingestion         both, and the properties of the pipeline
         |- implements IngestionLifecycle (the abstract job)
         `- IngestionInvariant                          (MCIngestion)
             `- IngestionTypeProofs, IngestionProofs   (the upload endpoint, too)
ToolResilience            runner and breaker             (MCToolResilience, ToolResilienceProofs)
QueryGraph                graph, index and cache         (MCQueryGraph)
 `- QueryStream           events, traces, page           (MCQueryStream, QueryProofs)
MembershipCalls           calls, and who is entitled to them
 |- TenantDirectory       the abstract directory of atomic columns
 `- Membership            implements it: admin routes and status endpoint
                            (MCMembership, MembershipProofs)
Lists                     what loops over lists and sorted() compute
 |- ListProofs            their lemmas, for any lists
 `- EvidencePipeline      from a document to its points  (PipelineProofs)
    and Ranking           fusion and reranking
EvidencePipeline, Ranking, SparseIndex, ToolSecurity
 `- SequentialParts       one behaviour is one of a single part
                            (MCSequentialParts, SequentialProofs)
```

A step is what happens between two awaits (of the API or a worker), or in one
run of a JavaScript event handler. Ids are uuid4 and never collide, so a model
value is an id. Operators next to an action whose comment starts "Mutant of" are
plausible bugs used to show that a property notices them; no action uses them.

**Upload (`DocumentUpload`).** `request[u]` is the handler of upload `u`: its
program counter, what is wrong with the request, and the response. `Receive` is
the handler up to `_validate_upload`; `Checks` lists its checks in their order.
`SaveFile`, `CreateDocument`, `CreateJob` and `Dispatch` are the four awaits
with an effect. `UploadFaults` says which may raise before the effect and
`UploadAckLoss` which may take effect and raise all the same; both end in a 500,
because the handler catches nothing but the validation error. `Duplicate` is the
constraint `UNIQUE (tenant_id, sha256)`.

**Tasks (`IngestionTasks`).** `exec[w]` is the task worker `w` runs, with what
its code holds in memory: the row `update_status` selected (`row`), the parse it
produced (`parse`), the rows a DELETE or SELECT saw (`seen`). Chunks and assets
get fresh ids at every parse, so rows are named by the number of their parse.
`update_status` is two steps, `SelectJob` and `CommitJob`; the commit writes only
the columns that differ from the selected row, as SQLAlchemy does.
`replace_for_document` is a DELETE, which removes what was committed when it ran,
and a commit. `StepFails` is the `except` clause: it leads to the status "failed"
and then to `RetryOrRaise`. A handler whose own write fails ends the task without
a retry. Celery acknowledges a message when its task starts (`Start`);
`WorkerCrash` loses the running task, the chain behind it, and the worker's memory
of what it had fetched; `Redeliver` is the visibility timeout, which puts an
unacknowledged message back into the queue: that of a dead worker, or, counted by
`MaxRedeliveries`, one that a live worker still holds.

**Tool runner (`ToolResilience`).** `failures`, `openFor` and `call[c]` are the
breaker's and a call's fields; `outcomes` and `quietFor` are history. Time is
kept as differences: the seconds since the circuit opened, capped at the
recovery time, and the seconds a sleep still has to last. A call is interrupted
only at the operation and at the sleep; `Cancel` is an `asyncio` cancellation.

**Query path (`QueryGraph`, `QueryStream`).** `run[q]` is the state of one graph
execution. An answer is the chunks it cites and the rows it counts. `Key` is
`CacheKey.value`: tenant and folded text, the other fields being the same for
all queries. `Found` is the filter of a search. `Adapted` is the row count with
which `AnswerServiceAdapter` replaces an answer. In `QueryStream`, each yield of
`events()` is an action; `view[c]` is the page, `Read` and `ReadEnd` its reader.
`NoticeStop` is the cancellation Starlette performs when a client has gone;
`ApiCrash` cuts every response and forgets the in-memory traces.

**Memberships (`MembershipCalls`, `Membership`).** `request[r]` is the handler of
a request: authenticated (`Arrive`), authorized (`Authorize`, the SELECT of
`get_roles` and the checks up to the next await), then for a change the SELECT of
the row (`SelectForGrant`, `SelectForDeactivation`) and the commit (`Commit`,
`Collide`). Rows of `member` are never deleted. `Committed` writes what
SQLAlchemy writes: an INSERT where the SELECT found nothing, which the primary
key refuses if a row exists by now, and otherwise the columns that differ from
the selected row. The identity a token or the headers yield is part of the call;
whether the signature is right is its `credential`. `undisputed` is history: the
deactivations that no grant of the same membership overlaps or follows.

**The sequential parts.** Their difficulty is in what they compute, so they have
one nondeterministic step per input. `EvidencePipeline` takes a document through
`ParseAndChunk`, `ListChunks` (the order the chunk table gives back), one
`EmbedBatch` per request to the API, and `BuildPoints`. A word is its length and
its place, a text its sequence of words, and the vector of a text the text
itself, so that a vector on the wrong chunk shows. `Ranking` computes reciprocal
ranks exactly, over a common denominator. `LexicalReranker` adds 0.01 of the
fused score to `log1p` of the overlap: the share decides only among equal
overlaps as long as a query has fewer than some 3000 words, so `Rerank` orders by
overlap first. `SparseIndex` keeps of a BM25 score whether it is positive,
which decides who is found: the length normalizer is always positive, the
logarithm as long as no term is counted in more chunks than there are.
`ToolSecurity` has the executor with the PostgreSQL sink; a session whose flush
failed refuses to work until a rollback that nobody issues (`SessionRefuses`).
`SequentialParts` is their sum, with a variable that says which part a behaviour
is one of.

A loop over a list is written, in `Lists`, as a function of how many elements it
has been through (`KeptTo`, `JoinedTo`, `TotalTo`; `PackedTo` in
`EvidencePipeline`), so that a proof can follow it step by step. Python's stable
`sorted` puts an element where the number of those that go before it says
(`Order`); equal keys keep their order, with `reverse=True` as well.

**Abstract specifications.** `IngestionLifecycle` is what whoever polls a job may
expect: queued once, processing and failed in turn while attempts are made, the
work going from stored to parsed to indexed and never back, and completed
reported once, last, and only of an indexed document. Where the commit of a job
row may lose its reply (`MayRecall`), `index_to_qdrant` may write "failed" over
the "completed" it does not know of; it then raises (`tasks.py:284`), which ends
the task without a retry. So completed may be taken back, but only of a document
that is indexed and stays so. The refinement mapping
(`Stage` in `Ingestion`) takes what the returned tasks claim and checks it
against the tables and the index; a task that returned without its effect in
place maps to "broken", which the lifecycle does not allow.

`TenantDirectory` is what administrators and members may expect: each column of
a membership is an atomic register; a call is admitted at one moment after it
was made, by the membership of that moment; it then writes each column it is
about once; it is answered with success only when all are written, and may be
answered with an error although they are. It promises nothing about two columns
together, and the code keeps no more: a grant that found its roles in place
writes the activity alone. The mapping (`WrittenBy`) therefore counts a column
whose selected value is the one asked for as written by the SELECT, and every
other as written by the commit.

## 3. The runs

| Run | Instance | What it shows |
|---|---|---|
| `upload` | 3 uploads, 2 of the same bytes; every defect, two pairs of them; a fault and a lost reply at every effect | the rows and files a request leaves, and what its response promises |
| `single` | 1 upload, 2 workers, 3 retries, 2 crashes; a fault at every step, a lost reply of every effect but the job update | type correctness, `IInv` and the safety of the tables under single delivery; the pipeline implements the lifecycle; completed is final |
| `redelivery` | 1 upload, 2 workers, 1 retry, 1 redelivery; a fault at every step | what survives two overlapping attempts at one job |
| `live` | 1 upload, 2 workers, 2 retries; faults in every task body, lost replies of every effect, the job update among them | every accepted upload settles; a document once reported completed stays indexed, whatever its status becomes |
| `race` | 2 uploads, 2 workers, 1 retry, no fault | the race to create the collection is survived by one retry |
| `breaker` | 3 calls, 2 attempts each, threshold 3, recovery after 2 s | the breaker's and the calls' safety; every call ends |
| `query_graph` | 4 queries: two of one tenant that differ in case, one of another tenant with the same text, one structured; a chunk of each tenant; SQL and cache writes may fail | scope by tenant, freshness of counts, no citation in a structured answer |
| `query_stream` | 2 queries of one page with one cache key, faults at three nodes with or without a message, 1 crash | order and completeness of the events, traces, the page |
| `membership` | 3 requests, each one of 10 calls; 4 tables; 3 authentication modes; a fault at every statement, a lost reply of the commit | who is let in, that a deactivation holds, the refinement of `TenantDirectory` |
| `parts` | see below | the results of the sequential parts for every input of the instance |
| `atomic_job_update`, `atomic_replace` | smallest instance that shows it | a doc or docstring the code disagrees with, see section 6 |

**Why the bounds are enough.** Nothing couples two uploads but the collection,
the queue, the workers and the uniqueness constraint: one upload is enough for
the tables of a document, two for the collection and the queue, three (two of
the same bytes and a bystander) for the constraint. Two workers are what an
overlap takes; a crash takes one and leaves one. Two crashes strike both the
fetched and the running message of a job. Retries are at the code's value, 3,
where the last one matters (`single`), and fewer where the number of attempts
only repeats it. Two attempts and three calls let the failures of different
calls add up to a threshold no call reaches by itself, and a recovery of two
seconds outlasts the one-second sleep, so that a retry may run into a circuit
that is open, about to recover, or recovered. Two
queries with one key are what a hit takes, and an expired entry brings a second
generation; a second tenant with the same text is the only way to confuse keys.
One chunk per tenant with limit 1 makes every search either complete or cut off.
A page asks twice, so that it may show what it left over from the first time.
Three requests are what a stale grant takes: one that read the row, one that
changed it, one that deactivates in between. The ten calls are grants with and
without roles, deactivations both ways, an actor who claims a role the table
does not give, a foreign tenant, a foreign document and bad credentials; the
tables hold the second actor as unknown, former member without or with roles, and
administrator. Documents have up to two items or sections, with words of the
lengths 1, 2 and 4 at a limit of 3, so that words fit exactly, do not fit
because of the space, or exceed the limit alone; a batch of two makes up to two
requests; two lengths share an id. A document of up to three chunks is read
back, in any order (longer ones stop there, by `MaxListed`); its first batch
then is full and may be answered in the wrong order. An answer of the API has as
many items as there are texts or one less, each with the label 0, 1 or none
(`Indices`), the vector of any text of the batch, valid or not. Four chunks let
the reciprocal ranks of two lists outweigh each other; limits of 2 and 3 cut.
Two tenants, three chunks and two terms show who is counted for whom; two tool
calls follow a failed one. Every
bound is a constant: `MaxRetries` (`max_retries=3` in the code), `MaxCrashes`,
`MaxRedeliveries`, `MaxRows`, `RetrievalLimit`, `MaxAttempts`, `MaxCharacters`,
`BatchSize`, `MaxListed`, `Indices`, `Limits`, `SearchLimits`. Deadlock is not
checked: every model ends when all requests, tasks or calls have ended.

**Fairness.** `Ingestion`: a worker that lives goes on with its task, fetches
and starts messages (weak fairness of each); every step of a task comes to an end
in its effect or its exception: the HTTP clients have timeouts (`embedding.py:65`
and Qdrant's default), and PostgreSQL, Redis and the file system are assumed to
answer or to break the connection, since the code sets them no limit. No fairness
for uploads, faults, crashes or redeliveries. `live` sets
the crashes to 0 and lets the job table and the broker accept what is written:
Celery's early acknowledgement loses a task with its worker, so an upload does
not settle otherwise. `ToolResilience`: time passes, an operation answers or
raises (an assumption about the operation: `run` sets it no timeout), and the
event loop resumes a sleeper; neither outcome is favoured, and cancellation is
never required. `QueryStream`: the API process goes on with each
query (models time out after 30 or 60 s, SQL after 5 s), and the page's reader
goes on reading; no fairness for faults, stops,
crashes or the environment.

## 4. What is proved

| Theorem | Property | From |
|---|---|---|
| **Upload** `IngestionProofs!MessagesAreStored`, `ReferencesResolve`, `FingerprintsAreUnique`, `ResponsesAreTrue` | `PublishedIsStored`, `NoDanglingReference`, `OneDocumentPerFingerprint`, `ResponseTellsOutcome` | |
| **Ingestion** `IngestionTypeProofs!TypeCorrect` | `TypeOK` | |
| `IngestionProofs!ExecutedIsJustified`, `CompletedJobIsSearchable` | `RunningIsJustified`, `CompletedIsSearchable` | |
| `HoldsUntilDuplicate`, `LifecycleUntilDuplicate`, `IndexedUntilDuplicate` | `IInv`, the steps of `IngestionLifecycle`, and a completed document that stays indexed, while `redeliveries = 0` | |
| `FinalUntilDuplicate` | completed is final, while `redeliveries = 0` | no lost reply of the job update |
| `InvariantHolds`, `TasksNeverOverlap`, `CompletedJobIsIndexed`, `NoPointIsStale`, `RowsAreConsistent`, `PipelineImplementsLifecycle`, `CompletedDocumentStaysIndexed` | `IInv`, `OneToken`, `CompletedIsIndexed`, `NoStalePoint`, `ErrorIffFailed`, `ImplementsLifecycle`, `CompletedStaysIndexed` | single delivery |
| `CompletedJobIsFinal` | `CompletedIsFinal` | single delivery, no lost reply of the job update |
| **Tool runner** `ToolResilienceProofs!TypeCorrect`, `BreakerCounts`, `CircuitOpensForFailures`, `RefusalsHaveAReason`, `EndsAreJustified` | `TypeOK`, `BreakerInv`, `OpenMeansFailing`, `RefusedForAReason`, `EndIsJustified` | |
| **Query path** `QueryProofs!QueryTypeCorrect`, `QueriesAreScoped` | `TypeOK`, `TenantScoped` | |
| `GraphIsSound`, `GraphIsScoped`, `CountsAreFresh`, `StructuredCitesNothing`, `StreamedAnswersAreSound` | `GraphInv`, `GraphScoped`, `RowCountsAreFresh`, `StructuredHasNoCitation`; the last two again within the stream | |
| `EventsAreInOrder`, `TracesAreTruthful`, `PagesShowNoPart` | `StreamInOrder`, `TraceTellsOutcome`, `NeverAPartOfAnAnswer` | |
| **Memberships** `MembershipProofs!MembershipTypeCorrect`, `RevocationHolds`, `MembershipImplementsDirectory` | `TypeOK`, `RevokedStaysOut`, `ImplementsDirectory` | |
| **Sequential parts** `SequentialProofs!NothingIsLostInChunks`, `PointsAreOfTheirChunks` | `ChunksCoverDocument`, `PointsCarryTheirText` | |
| `RankingsAgree` | `RankingIsUnanimous` | |
| `AuditIsTruthful`, `SearchFindsWhatIsIndexed` | `AuditTellsOutcome`, `SearchIsCurrent` | |

All of them assume what the modules assume of their constants. They hold for
every set of uploads, workers, calls, queries, tenants, requests and chunks, for
every placement of faults and lost replies and any number of crashes; of the
sequential parts, for every document, limit, batch size, hash and rank constant. "Single
delivery" is `MaxRedeliveries = 0`: no message is delivered to a second worker
while a live one holds it. It is a precondition the code does not secure, and
the theorems in its row need it: with a redelivery the runs `atomic_job_update`
and `atomic_replace` show two of the consequences broken.

*Upload.* `UploadInvariant` says how far the effects of a handler have come by
the time it stands where it stands (`Progress`), and that every row and message
refers to what was stored before it (`Grounded`), also when its handler died or
raised. A step changes nothing of another upload but for the fingerprint it may
take (`OnlyOf`), and that is the constraint's to refuse.

*Ingestion.* None of the properties is inductive: that a completed job is
indexed depends on what a task remembers while it runs. `IInv` says that a job
has one token (a message in the queue, a fetched message or a running task);
that a token for a task is carried only when the request is over, the records
exist and exactly the earlier tasks of the chain have returned (`TokenInv`); that
what a task holds in memory is what the tables hold (`MemoryInv`), which is where
the single token is needed, since nobody else may have written in between; and
what the tables and the index hold once each task has returned (`DocInv`). The
proof has a lemma for every action, and in it a step for every part of `IInv` it
disturbs; steps that publish nothing and touch one document share two lemmas.
`IInv` is lost only at the step that counts a redelivery, so it holds until
then whatever `MaxRedeliveries` is (`HoldsUntilDuplicate`).

*Completed, and the lifecycle.* `LifecycleStep` takes every step of the pipeline
to a step of `IngestionLifecycle` or to a stutter: the status column changes at
`CreateJob` and `CommitJob` alone, the stage at `Return` alone, and by `DocInv`
the tables bear out what the returned tasks claim, so that no stage is ever
"broken". Where no commit of the job row loses its reply, `FinalInv` adds that a
completed job has nothing left to run but the return of its last task
(`NothingLeft`), so that nothing follows completed. Where one may, the
handler of `index_to_qdrant` writes "failed" over it; the lifecycle then has
`MayRecall`, and `IndexedUntilDuplicate` says that nothing a client was told of
the document is taken back: whatever the status becomes, it stays indexed. The
theorems with `UntilDuplicate` in their name say all this of every step before
the first duplicated delivery, whatever `MaxRedeliveries` is, and those without
are their corollaries when there is none.

*Redelivery.* `DuplicatesInv` is what is left of `IInv` when tasks of one job
overlap, and it is of another kind: it never says that what a task holds is
current, only that what was there stays (`Kept`). Files, rows, returned tasks and
points are never taken away, and a replacement of chunks that commits leaves
some of the document's, its own or those of the other parse.

*Tool runner.* `BreakerInv` counts: the last `failures` outcomes are failures,
and the cooldown began with the last of them. A refusal is a step from a state
with an open circuit, so it inherits the reason. `CallsInv` relates a call's
attempt number to the number of its failures in the history, by cardinality.

*Query path.* `TenantScoped` covers the cache, the executions, the events and
the pages at once, and is inductive with the types: a search returns chunks of
the tenant that asks, a hit has a key with that tenant, an answer cites evidence.
`GraphInv` is what an execution holds by where it stands (`RunSound`) and what an
entry of the cache may be under its key (`EntrySound`): never a count of rows,
because an execution's count replaces its answer after the write, and nothing
cited under a key whose route is structured, because key and router fold the
text alike. A cancelled execution leaves at most the answer it was storing, so
the same invariant holds within the stream.

*Stream, traces and page.* `Moves` classifies what any step does to one query:
nothing, a yield of a certain event at a certain place, the end, or the loss of
the connection; the three proofs are then about that list, not about `Next`.
`Ordered` is the shape of the events yielded by the time `events()` stands
where it stands; the trace follows it. `PageInv` adds that a page has shown the
events it has read and no other: at the end of a response that was closed it has
read them all, among them every citation of the answer, or the one error event
of a query that failed. That an error is rendered is not among its claims: the
page may have been sent an empty message (section 6).

*Memberships.* `CallInv` keeps what was checked before an await true after it: a
handler past authentication has a valid credential, one past the checks names
its own tenant, one that is about to deactivate has found a row. For
`RevokedStaysOut`, `RevocationInv` says of a deactivation nobody disputes that no
grant of the same membership is under way and that the row, once it was seen or
written inactive, stays so; another deactivation that holds an older row writes
only the columns that differ. The refinement has a lemma per action; a commit
writes the columns whose selected value was not the one asked for, one by one
atomic registers but together only a set of them (`WrittenBy`).

*Lists.* Induction takes the form of a set: one that has 0, and i whenever it has
i - 1, has all places up to n (`UpTo`, from the well-foundedness of < on the
naturals). So a loop has a function that takes all its steps (`LoopRuns`), and
the recursive definition denotes one (`KeptUnfolds`, `JoinedUnfolds` and their
like). With them
`JoinedConcat`, `KeptIs` and `ProductWithout` hold for any lists. A stable sort is a
bijection that puts smaller keys first (`SortedIs`), and the only one that does
so where keys differ (`IncreasingIsIdentity`).

*Chunks.* The invariant of the loop in `_chunk_block` (`PackedStep`) says that
the pieces and the current piece are the words so far, in order; that each piece
but the current one is not empty, fits or is a single word, and could not have
taken the next word; and that the length counted is the length of the current
text. Over the blocks, `ChunkedStep` adds that chunks of different blocks start
with words of different sources. What the parsers keep is what is not blank, and
blank texts have no words to lose (`SourceIsCovered`).

*Points.* `PipelineInv` says at each stage what has been computed: the chunks
cover the document, and what is read back is the same chunks in some order. As
long as every accepted answer of the embedding API was as the API promises
(`Conforms`, remembered in the auxiliary `conforming`), the vectors received so
far are those of the first texts in that order. A batch keeps this because an
answer that is labelled has one index per text, so that sorting by index is the
inverse of the order it came in, and one that is not labelled is left in place by
the stable sort. The code does not check the promise, and without it nothing is
claimed of the dense vectors. In a sparse vector each token has the entry of its
first occurrence, and entries are sorted by id; if no two tokens of the text have
one id (`HasNoCollision`), the words of an id are those of its one token, so each
id comes once and weighs them all (`SparseVectorWeighs`).

*Ranking.* A chunk's reciprocal rank is its share in a list (`Share`), and a
better rank is a larger share (`ReciprocalDecreases`). Hence a chunk that is ahead
wherever the other was found scores more (`AheadScoresMore`), the sort puts it
before the other, and a cut at the limit keeps it if it keeps the other
(`AheadInTop`); the same holds of the reranker's key, in which one more word of
the query outweighs any two shares.

*The rest of the sequential parts.* `AuditInv`: a call has one event at most, and the event tells
what its caller was told. `IndexInv`: the counts are those of the documents as
they are, hence no greater than their number, hence every score of a matching
chunk is positive.

## 5. What is only model-checked, and what is left out

Every invariant, action property and refinement that a passing run checks is
proved. What remains with TLC, on the instances of section 3:

- Liveness (`AcceptedSettles`, `AcceptedCompletes`, `EveryCallEnds`,
  `LoadingEnds`): it takes fairness and ENABLED, which this prover does not reason
  about.
- The two disagreements of section 6, which are counterexamples.

`CompletedIsFinal` does not hold where the commit of a job row may lose its reply
(section 4); `single` leaves that reply out as the theorem does, and `live` has
it. `ImplementsLifecycle` is checked by `single` without that reply, and proved
with and without it.

Abstracted: characters, vectors, real-valued scores and the payload's metadata;
the wording of errors, though not whether a message is empty where the page
looks at it (a job's error column counts as written also when `str(exc)` is empty);
malformed UUIDs (422) on the membership routes; what a
parser finds, in `Ingestion` (a document has chunks or not, assets or not).
Assumed: uuid4 ids do not collide; a filesystem write of one file is one step;
workers know their tasks and share the document store with the API (the images
and volumes of `infra/docker` do not provide that by themselves).

Not modelled: the verification of token signatures (the library's), SQL parsing
in `SqlSafetyPolicy` (sqlglot's), the FlashRank adapter and the hash embedding
(numbers a library or a hash computes), the token hash itself, the phrases of
`PromptInjectionGuard`, the in-memory test doubles (`job_repository.py`,
`InMemoryMembershipRepository`, `InMemoryAuditSink`), configuration, deployment
and evaluation metrics.

## 6. Where documentation and code disagree

Checked by a run that finds the disagreement:

- `job_repository.py:28` "Atomically update a job": `update_status` selects
  without a lock and writes the columns that changed (`atomic_job_update`).
- `chunk_repository.py:23` "Replace all chunks for a document atomically": two
  overlapping replacements leave the chunks of both (`atomic_replace`).

Noticed while modelling, and visible in the modules without a run of their own:

- `documents.py:63` "HTTPException 500: Document storage failed": a second
  upload of the same bytes is answered 500 with its file stored
  (`RejectDuplicate`).
- `query.py:30` "Yield route, ... events": the route travels as `complete`, which
  the page does not look at (`RouteEvent`, `Shown`).
- `query.py:86` sends `str(exc)`, which is empty for a `TimeoutError`
  (`sql_execution.py:81`) and for many timeouts of httpx. The page keeps the empty
  message and renders errors that are not empty (`query-client.tsx:93` and `:127`):
  it ends neither loading nor stopped, with no answer and no error.
  `NeverAPartOfAnAnswer` names this state instead of excluding it.
- `embedding.py:83` "restore API-provided item order": `item.get("index", 0)` is
  the sort key (`:110`), and nothing checks that the indices are those of the
  texts. An answer of the right count that repeats an index or labels only some
  items is accepted, and may put vectors on the wrong chunks (`ParseResponse`; the
  model reaches such points with `conforming` false).
- `tests/test_sparse_vector.py:7` "Verify token IDs are stable, unique, and ordered
  for Qdrant.": two tokens of a text that hash to one id (`sparse_vector.py:33`)
  yield an index that repeats it (`SparseVector`).
- `chunking.py:11` calls the chunks bounded: a word over the limit makes a chunk
  over it (`Pack`; `FitsAndIsFilled` exempts just this).
- `membership_repository.py:37` "Create or reactivate a tenant membership with the
  requested roles": when calls overlap, a grant answered with 204 may leave the
  roles another grant wrote (`Committed`).
- `admin.py:26`: an actor without the role "admin" gets a 500, since nothing turns
  the `AuthorizationError` of `require_roles` into a response (`Authorize`).
- `tool_security.py:30`: an event refused for a missing approval is recorded with
  `allowed` true; only its reason tells (`Event`).
- `documents.py:148` calls the status endpoint a placeholder; it does what its
  list announces.
- Administrators may deactivate each other until a tenant has none.
- `InMemoryTraceSink`, the default, keeps the events of every query for the life of
  the process; the worker's entry point imports no task module; the API and the
  worker of `docker-compose.yml` share no documents volume.
- `documents.py:115` "tasks run in order: parse -> embed -> index": with a
  redelivery, `parse_document` of a job may run beside its `embed_chunks`.
- `tasks.py:189` "60s, 120s, 300s": every retry has `countdown=60`.
- `tasks.py:161` announces a retry of a failed attempt: when the handler cannot
  write the status, `self.retry` is not reached.
- `documents.py:62` announces 413 for an oversized file: it is answered 400.
- `tool_resilience.py:83` "fail fast while the circuit is open": `is_open` is
  read once, and the retries of a call that was let in go on.
- `orchestration.py:177` "only the evidence collected by prior nodes": a cache
  hit answers from another execution's evidence.

## 7. Plan

Done: every component that keeps state, and the algorithms that feed the index
and rank its answers, are modelled and checked; every safety property a passing
run checks is proved, with both refinements, some under the delivery assumptions
of section 4.

Left, should the code move there:

1. `SqlSafetyPolicy`: the statements it lets through, once a small model of
   sqlglot's trees is worth having.
2. A lifecycle for duplicated deliveries: what a poller may still rely on when
   attempts at one job overlap, from `DuplicatesInv`.
3. A lock or a version column in `update_status` would make `ErrorIffFailed` hold
   with redeliveries; the run `atomic_job_update` then becomes a passing one.

The number of runs is kept small: a new module gets one run or joins a composed
one.
