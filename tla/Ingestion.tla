------------------------------ MODULE Ingestion ------------------------------
(***************************************************************************)
(* The ingestion pipeline: the upload endpoint and the Celery workers over *)
(* the store, tables and queue they share.                                 *)
(***************************************************************************)
EXTENDS DocumentUpload, IngestionTasks

vars == <<storeVars, request, taskVars>>

Init == UploadInit /\ TasksInit

Upload == UploadNext /\ UNCHANGED taskVars
Work(w) == TaskStep(w) /\ UNCHANGED request
Deliver(w) == Delivery(w) /\ UNCHANGED request

Next == Upload \/ \E w \in Workers : Work(w) \/ Deliver(w)

Spec == Init /\ [][Next]_vars

(***************************************************************************)
(* Workers that do not die keep executing their task, fetching messages    *)
(* and starting them when they are free.                                   *)
(***************************************************************************)
WorkerFetches(w) == (\E m \in queue : Fetch(w, m)) /\ UNCHANGED request
WorkerStarts(w) == (\E m \in reserved[w] : Start(w, m)) /\ UNCHANGED request

Fairness ==
  \A w \in Workers : /\ WF_vars(Work(w))
                     /\ WF_vars(WorkerFetches(w))
                     /\ WF_vars(WorkerStarts(w))

FairSpec == Spec /\ Fairness

-----------------------------------------------------------------------------
TypeOK == UploadTypeOK /\ TasksTypeOK

Executes(w) == exec[w].pc # "idle"

(***************************************************************************)
(* Tasks of one job never overlap: a job is carried by at most one message *)
(* (queued or fetched) or running task at any time, through chain,         *)
(* retries, lost replies and worker crashes, as long as no message is      *)
(* delivered to a second worker.                                           *)
(***************************************************************************)
OneToken ==
  /\ \A m, n \in queue : m.job = n.job => m = n
  /\ \A c, d \in unacked : c[2].job = d[2].job => c = d
  /\ \A v, w \in Workers : (Executes(v) /\ Executes(w) /\ Job(v) = Job(w)) => v = w
  /\ \A m \in queue, d \in unacked : m.job # d[2].job
  /\ \A m \in queue, w \in Workers : Executes(w) => m.job # Job(w)
  /\ \A d \in unacked, w \in Workers : Executes(w) => d[2].job # Job(w)

(***************************************************************************)
(* A completed job is an indexed document: exactly the chunks in           *)
(* PostgreSQL have their points in Qdrant, and the asset rows stem from    *)
(* the same parse. A failed write, lost reply or retry on the way cannot   *)
(* leave the index short of a chunk or with a chunk that is gone.          *)
(***************************************************************************)
CompletedIsIndexed ==
  \A u \in Uploads : jobs[u].status = "completed" =>
    /\ points[u] = chunks[u]
    /\ chunks[u] = NewChunks(u, parses[u])
    /\ assets[u] = NewAssets(u, parses[u])

(***************************************************************************)
(* Retrieval never cites a chunk PostgreSQL no longer has: points are      *)
(* written for chunks that are not replaced afterwards, although nothing   *)
(* in the code ever deletes a point.                                       *)
(***************************************************************************)
NoStalePoint == \A u \in Uploads : points[u] \subseteq chunks[u]

(***************************************************************************)
(* job_repository.py on update_status: "Atomically update a job". The row  *)
(* is always one that a single transition wrote: it carries an error text  *)
(* exactly when its status is failed.                                      *)
(***************************************************************************)
ErrorIffFailed ==
  \A u \in Uploads : jobs[u].error <=> jobs[u].status = "failed"

(***************************************************************************)
(* chunk_repository.py: "Replace all chunks for a document atomically".    *)
(* The chunk table never holds the results of two parses of a document.    *)
(***************************************************************************)
ChunksOfOneParse == \A u \in Uploads : Cardinality(chunks[u]) <= 1

(***************************************************************************)
(* Even when messages are delivered twice and two parses of a document     *)
(* race, a job reported completed has points in the index unless its       *)
(* document has no text: a chunk set is never seen half replaced.          *)
(***************************************************************************)
CompletedIsSearchable ==
  \A u \in Textual : jobs[u].status = "completed" => points[u] # {}

(***************************************************************************)
(* Whatever a worker executes was published by the chain: its earlier      *)
(* tasks have returned, and job, document and original exist.              *)
(***************************************************************************)
RunningIsJustified ==
  \A w \in Workers : Executes(w) =>
    /\ Job(w) \in documents \cap files /\ jobs[Job(w)] # NoRow
    /\ exec[w].task # "parse_document" => "parse_document" \in succeeded[Job(w)]
    /\ exec[w].task = "index_to_qdrant" => "embed_chunks" \in succeeded[Job(w)]

(***************************************************************************)
(* A client may poll until completed and stop: the status never leaves     *)
(* completed. (It may leave failed: a failed attempt is retried.)          *)
(***************************************************************************)
CompletedIsFinal ==
  [][\A u \in Uploads : jobs[u].status = "completed" => jobs'[u] = jobs[u]]_vars

(***************************************************************************)
(* When the reply to the write of completed is lost, the handler of        *)
(* index_to_qdrant overwrites completed with failed and raises, which ends *)
(* the task: nothing runs it again and the job stays failed. The document  *)
(* is searchable all the same: from the first time completed was committed *)
(* its points stay, whatever the status says later.                        *)
(***************************************************************************)
CompletedStaysIndexed ==
  \A u \in Uploads :
    [](jobs[u].status = "completed" =>
         [](points[u] = chunks[u] /\ chunks[u] = NewChunks(u, parses[u])))

(***************************************************************************)
(* Every accepted upload settles: its job ends completed, or failed after  *)
(* the last retry, and stays so. Needs workers that live and a broker and  *)
(* job table that accept what is written to them.                          *)
(***************************************************************************)
Carried(u) == \/ \E m \in queue : m.job = u
              \/ \E d \in unacked : d[2].job = u
              \/ \E w \in Workers : Executes(w) /\ Job(w) = u
Settled(u) == jobs[u].status \in {"completed", "failed"} /\ ~Carried(u)
AcceptedSettles ==
  \A u \in Uploads : (request[u].response = 202) ~> []Settled(u)

(***************************************************************************)
(* Two workers may find the collection missing and both try to create it.  *)
(* The loser fails its attempt; one retry is enough for every accepted     *)
(* upload to complete when nothing else fails.                             *)
(***************************************************************************)
AcceptedCompletes ==
  \A u \in Uploads :
    (request[u].response = 202) ~> [](jobs[u].status = "completed")

-----------------------------------------------------------------------------
(***************************************************************************)
(* The pipeline implements the lifecycle it promises. The stage of a       *)
(* document is what the returned tasks claim, checked against the stores:  *)
(* it is "broken" where a task has returned without its effect in place.   *)
(***************************************************************************)
Stage(u) ==
  CASE succeeded[u] = {} -> "stored"
    [] /\ succeeded[u] = {"parse_document"}
       /\ chunks[u] = NewChunks(u, parses[u])
       /\ assets[u] = NewAssets(u, parses[u]) -> "parsed"
    [] /\ {"parse_document", "embed_chunks"} \subseteq succeeded[u]
       /\ points[u] = chunks[u]
       /\ chunks[u] = NewChunks(u, parses[u])
       /\ assets[u] = NewAssets(u, parses[u]) -> "indexed"
    [] OTHER -> "broken"

StatusColumn == [u \in Uploads |-> jobs[u].status]
StageColumn == [u \in Uploads |-> Stage(u)]

Lifecycle == INSTANCE IngestionLifecycle WITH
  status <- StatusColumn,
  stage <- StageColumn,
  MayRecall <- "commit_job" \in StepAckLoss

ImplementsLifecycle == Lifecycle!Spec
=============================================================================
