--------------------------- MODULE IngestionTasks ---------------------------
(***************************************************************************)
(* The Celery worker side of ingestion: the tasks parse_document,          *)
(* embed_chunks and index_to_qdrant, the repositories they write through,  *)
(* the Qdrant collection, and the part of Celery and Redis they rely on    *)
(* (delivery, early acknowledgement, retry, chain, visibility timeout).    *)
(*                                                                         *)
(* A worker runs one task at a time. Every await of a task is a step, so   *)
(* tasks of different workers interleave at exactly the points where the   *)
(* code gives up control to a database, a store or a server.               *)
(***************************************************************************)
EXTENDS IngestionStore

CONSTANTS
  Workers,        \* Celery worker processes
  Textual,        \* uploads whose parse yields chunks
  Illustrated,    \* uploads whose parse yields assets (pictures)
  StepFaults,     \* steps that may raise before they take effect
  StepAckLoss,    \* steps that may take effect and raise all the same
  MaxCrashes,     \* bound: worker crashes in a behaviour
  MaxRedeliveries \* bound: messages restored while their worker still lives

ASSUME WorkersAssumption ==
  /\ Textual \subseteq Uploads
  /\ Illustrated \subseteq Uploads
  /\ MaxCrashes \in Nat
  /\ MaxRedeliveries \in Nat

VARIABLES
  reserved,       \* messages a worker has fetched and not started
  unacked,        \* deliveries Redis has no acknowledgement of
  exec,           \* the task each worker is executing
  parses,         \* number of parse results so far, per document
  chunks,         \* rows of document_chunks: the parses they stem from
  assetFiles,     \* asset files in the document store, by parse
  assets,         \* rows of document_assets, by parse
  collection,     \* the Qdrant collection exists
  points,         \* Qdrant points, by the parse whose chunks they embed
  succeeded,      \* tasks whose body has returned without an exception, per job
  crashes,        \* worker crashes so far
  redeliveries    \* restores of messages held by a live worker so far

docVars == <<parses, chunks, assetFiles, assets, collection, points>>
brokerVars == <<reserved, unacked, crashes, redeliveries>>
taskVars == <<docVars, brokerVars, exec, succeeded>>

(***************************************************************************)
(* parser.parse and chunk_blocks give every chunk and asset a fresh uuid4, *)
(* so the rows of one parse share nothing with those of another: a parse   *)
(* result is named by its number, counted from 1 for each document.        *)
(***************************************************************************)
NewChunks(u, p) == IF u \in Textual THEN {p} ELSE {}
NewAssets(u, p) == IF u \in Illustrated THEN {p} ELSE {}

(***************************************************************************)
(* The steps of a task. select_job and commit_job are the two halves of    *)
(* update_status; the status they are to write is exec[w].target.          *)
(***************************************************************************)
Pc == {"idle",
       "select_job", "commit_job",
       "read", "parse", "save_assets",
       "delete_chunks", "commit_chunks", "delete_assets", "commit_assets",
       "list_chunks", "embed", "collection_exists", "create_collection", "upsert",
       "return", "retry"}

Idle == [pc |-> "idle", job |-> "none", task |-> "none", retries |-> 0,
         target |-> "none", row |-> NoRow, parse |-> 0, seen |-> {}]

Running == [pc : Pc \ {"idle"}, job : Uploads, task : Task,
            retries : 0..MaxRetries,
            target : {"none", "processing", "completed", "failed"},
            row : JobRow \cup {NoRow},   \* the job row update_status selected
            parse : Nat,                 \* the parse result in memory, 0 if none
            seen : SUBSET Nat]           \* rows a DELETE or SELECT has seen

\* Mutant of Enter: parse_document reports completed.
EnterCompleted(m) ==
  [Idle EXCEPT !.job = m.job, !.task = m.task, !.retries = m.retries,
     !.pc = IF m.task = "embed_chunks" THEN "list_chunks" ELSE "select_job",
     !.target = IF m.task = "embed_chunks" THEN "none" ELSE "completed"]

\* The state in which a worker enters the body of the task of message m.
Enter(m) ==
  [Idle EXCEPT !.job = m.job, !.task = m.task, !.retries = m.retries,
     !.pc = IF m.task = "embed_chunks" THEN "list_chunks" ELSE "select_job",
     !.target = CASE m.task = "parse_document"   -> "processing"
                  [] m.task = "embed_chunks"     -> "none"
                  [] m.task = "index_to_qdrant"  -> "completed"]

TasksTypeOK ==
  /\ reserved \in [Workers -> SUBSET Message]
  /\ unacked \subseteq Workers \X Message
  /\ exec \in [Workers -> Running \cup {Idle}]
  /\ parses \in [Uploads -> Nat]
  /\ chunks \in [Uploads -> SUBSET Nat]
  /\ assetFiles \in [Uploads -> SUBSET Nat]
  /\ assets \in [Uploads -> SUBSET Nat]
  /\ collection \in BOOLEAN
  /\ points \in [Uploads -> SUBSET Nat]
  /\ succeeded \in [Uploads -> SUBSET Task]
  /\ crashes \in 0..MaxCrashes
  /\ redeliveries \in 0..MaxRedeliveries

TasksInit ==
  /\ reserved = [w \in Workers |-> {}]
  /\ unacked = {}
  /\ exec = [w \in Workers |-> Idle]
  /\ parses = [u \in Uploads |-> 0]
  /\ chunks = [u \in Uploads |-> {}]
  /\ assetFiles = [u \in Uploads |-> {}]
  /\ assets = [u \in Uploads |-> {}]
  /\ collection = FALSE
  /\ points = [u \in Uploads |-> {}]
  /\ succeeded = [u \in Uploads |-> {}]
  /\ crashes = 0
  /\ redeliveries = 0

-----------------------------------------------------------------------------
(***************************************************************************)
(* Celery over Redis. celery_app sets neither acks_late nor a visibility   *)
(* timeout: a message is acknowledged when its task starts, and a message  *)
(* that stays fetched but unstarted past the timeout is delivered again.   *)
(***************************************************************************)

\* A worker prefetches a message; one with a countdown waits in its memory.
Fetch(w, m) ==
  /\ m \in queue
  /\ queue' = queue \ {m}
  /\ reserved' = [reserved EXCEPT ![w] = @ \cup {m}]
  /\ unacked' = unacked \cup {<<w, m>>}
  /\ UNCHANGED <<files, documents, jobs, docVars, exec, succeeded,
                 crashes, redeliveries>>

\* A worker starts a fetched message and acknowledges it before it runs it.
Start(w, m) ==
  /\ exec[w].pc = "idle"
  /\ m \in reserved[w]
  /\ reserved' = [reserved EXCEPT ![w] = @ \ {m}]
  /\ unacked' = unacked \ {<<w, m>>}
  /\ exec' = [exec EXCEPT ![w] = Enter(m)]
  /\ UNCHANGED <<storeVars, docVars, succeeded, crashes, redeliveries>>

\* A worker dies and restarts: its task is gone, and so is its memory of the
\* messages it had fetched.
WorkerCrash(w) ==
  /\ crashes < MaxCrashes
  /\ crashes' = crashes + 1
  /\ reserved' = [reserved EXCEPT ![w] = {}]
  /\ exec' = [exec EXCEPT ![w] = Idle]
  /\ UNCHANGED <<storeVars, docVars, unacked, succeeded, redeliveries>>

\* The visibility timeout returns a delivery to the queue: one whose worker
\* has died, or (a duplicate) one that its worker still holds.
Redeliver(w, m) ==
  /\ <<w, m>> \in unacked
  /\ IF m \in reserved[w]
       THEN redeliveries < MaxRedeliveries /\ redeliveries' = redeliveries + 1
       ELSE UNCHANGED redeliveries
  /\ unacked' = unacked \ {<<w, m>>}
  /\ queue' = queue \cup {m}
  /\ UNCHANGED <<files, documents, jobs, docVars, reserved, exec, succeeded, crashes>>

-----------------------------------------------------------------------------
(***************************************************************************)
(* Control inside a task. An exception in the try block enters the except  *)
(* handler, which first writes the status failed; an exception inside the  *)
(* handler ends the task, without a retry.                                 *)
(***************************************************************************)
Busy(w, pc) == exec[w].pc = pc
Job(w) == exec[w].job

Raised(e) ==
  IF e.target = "failed" THEN Idle
  ELSE [e EXCEPT !.pc = "select_job", !.target = "failed"]

Become(w, e) == exec' = [exec EXCEPT ![w] = e]
Continue(w, pc) == Become(w, [exec[w] EXCEPT !.pc = pc])
Raise(w) == Become(w, Raised(exec[w]))

\* After an effect the task goes on, or the reply is lost and it raises.
Proceed(w, e) ==
  \/ Become(w, e)
  \/ exec[w].pc \in StepAckLoss /\ Raise(w)

\* An exception before the effect of a step: a lost connection, a parser or
\* provider error. return and retry are Celery's, see below.
StepFails(w) ==
  /\ exec[w].pc \in StepFaults \ {"idle", "return", "retry"}
  /\ Raise(w)
  /\ UNCHANGED <<storeVars, docVars, brokerVars, succeeded>>

\* What every step of a task body leaves alone.
Quiet == UNCHANGED <<files, documents, queue, brokerVars, succeeded>>

(***************************************************************************)
(* update_status: select the row, KeyError if there is none...             *)
(***************************************************************************)
SelectJob(w) ==
  /\ Busy(w, "select_job")
  /\ IF jobs[Job(w)] = NoRow
       THEN Raise(w)
       ELSE Become(w, [exec[w] EXCEPT !.pc = "commit_job", !.row = jobs[Job(w)]])
  /\ UNCHANGED <<jobs, docVars>> /\ Quiet

\* Mutant of AfterCommit: the handler swallows the exception.
AfterCommitReturn(e) == IF e.target = "processing" THEN "read" ELSE "return"

AfterCommit(e) ==
  CASE e.target = "processing" -> "read"
    [] e.target = "completed"  -> "return"
    [] e.target = "failed"     -> "retry"

(***************************************************************************)
(* ... then commit. The ORM writes the columns that differ from the row it *)
(* selected, not the whole row, and no lock is held in between.            *)
(***************************************************************************)
Update(selected, now, wanted) ==
  [status |-> IF wanted.status # selected.status THEN wanted.status ELSE now.status,
   error  |-> IF wanted.error # selected.error THEN wanted.error ELSE now.error]

\* Mutant of Wanted: a retry does not clear the error of the last attempt.
WantedKeepsError(e) ==
  [status |-> e.target, error |-> e.target = "failed" \/ e.row.error]

Wanted(e) == [status |-> e.target, error |-> e.target = "failed"]

CommitJob(w) ==
  /\ Busy(w, "commit_job")
  /\ jobs' = [jobs EXCEPT ![Job(w)] = Update(exec[w].row, @, Wanted(exec[w]))]
  /\ Proceed(w, [exec[w] EXCEPT !.pc = AfterCommit(exec[w]), !.row = NoRow])
  /\ UNCHANGED docVars /\ Quiet

-----------------------------------------------------------------------------
(***************************************************************************)
(* _parse_and_persist.                                                     *)
(***************************************************************************)

\* document_store.read: FileNotFoundError if the original is missing.
ReadDocument(w) ==
  /\ Busy(w, "read")
  /\ IF Job(w) \in files THEN Continue(w, "parse") ELSE Raise(w)
  /\ UNCHANGED <<jobs, docVars>> /\ Quiet

\* parser.parse and chunk_blocks, in memory.
ParseDocument(w) ==
  /\ Busy(w, "parse")
  /\ parses' = [parses EXCEPT ![Job(w)] = @ + 1]
  /\ Become(w, [exec[w] EXCEPT !.pc = "save_assets", !.parse = parses[Job(w)] + 1])
  /\ UNCHANGED <<jobs, chunks, assetFiles, assets, collection, points>> /\ Quiet

\* The image files of this parse; those of earlier parses stay.
SaveAssets(w) ==
  /\ Busy(w, "save_assets")
  /\ assetFiles' = [assetFiles EXCEPT ![Job(w)] =
                      @ \cup NewAssets(Job(w), exec[w].parse)]
  /\ Proceed(w, [exec[w] EXCEPT !.pc = "delete_chunks"])
  /\ UNCHANGED <<jobs, parses, chunks, assets, collection, points>> /\ Quiet

\* Mutants of the replacement: a DELETE with a commit of its own, no DELETE.
DeleteAndCommit(w) ==
  /\ Busy(w, "delete_chunks")
  /\ chunks' = [chunks EXCEPT ![Job(w)] = {}]
  /\ Become(w, [exec[w] EXCEPT !.pc = "commit_chunks"])
  /\ UNCHANGED <<jobs, parses, assetFiles, assets, collection, points>> /\ Quiet

InsertChunks(w) ==
  /\ Busy(w, "commit_chunks")
  /\ chunks' = [chunks EXCEPT ![Job(w)] = @ \cup NewChunks(Job(w), exec[w].parse)]
  /\ Proceed(w, [exec[w] EXCEPT !.pc = "delete_assets", !.seen = {}])
  /\ UNCHANGED <<jobs, parses, assetFiles, assets, collection, points>> /\ Quiet

(***************************************************************************)
(* replace_for_document of the chunks, and then of the assets, each in a   *)
(* transaction of its own. A DELETE removes the rows that were committed   *)
(* when it began; rows another transaction commits later stay.             *)
(***************************************************************************)
DeleteChunks(w) ==
  /\ Busy(w, "delete_chunks")
  /\ Become(w, [exec[w] EXCEPT !.pc = "commit_chunks", !.seen = chunks[Job(w)]])
  /\ UNCHANGED <<jobs, docVars>> /\ Quiet

CommitChunks(w) ==
  /\ Busy(w, "commit_chunks")
  /\ chunks' = [chunks EXCEPT ![Job(w)] =
                  (@ \ exec[w].seen) \cup NewChunks(Job(w), exec[w].parse)]
  /\ Proceed(w, [exec[w] EXCEPT !.pc = "delete_assets", !.seen = {}])
  /\ UNCHANGED <<jobs, parses, assetFiles, assets, collection, points>> /\ Quiet

DeleteAssets(w) ==
  /\ Busy(w, "delete_assets")
  /\ Become(w, [exec[w] EXCEPT !.pc = "commit_assets", !.seen = assets[Job(w)]])
  /\ UNCHANGED <<jobs, docVars>> /\ Quiet

CommitAssets(w) ==
  /\ Busy(w, "commit_assets")
  /\ assets' = [assets EXCEPT ![Job(w)] =
                  (@ \ exec[w].seen) \cup NewAssets(Job(w), exec[w].parse)]
  /\ Proceed(w, [exec[w] EXCEPT !.pc = "return", !.seen = {}])
  /\ UNCHANGED <<jobs, parses, chunks, assetFiles, collection, points>> /\ Quiet

-----------------------------------------------------------------------------
(***************************************************************************)
(* _embed_and_index.                                                       *)
(***************************************************************************)
ListChunks(w) ==
  /\ Busy(w, "list_chunks")
  /\ Become(w, [exec[w] EXCEPT !.pc = "embed", !.seen = chunks[Job(w)]])
  /\ UNCHANGED <<jobs, docVars>> /\ Quiet

\* create_embeddings and sparse_vectorizer.transform, in memory.
Embed(w) ==
  /\ Busy(w, "embed")
  /\ Continue(w, "collection_exists")
  /\ UNCHANGED <<jobs, docVars>> /\ Quiet

\* ensure_collection asks whether the collection exists...
CollectionExists(w) ==
  /\ Busy(w, "collection_exists")
  /\ Continue(w, IF collection THEN "upsert" ELSE "create_collection")
  /\ UNCHANGED <<jobs, docVars>> /\ Quiet

\* ... and creates it if not; Qdrant refuses to create one that exists by now.
CreateCollection(w) ==
  /\ Busy(w, "create_collection")
  /\ IF collection
       THEN Raise(w)
       ELSE Proceed(w, [exec[w] EXCEPT !.pc = "upsert"])
  /\ collection' = TRUE
  /\ UNCHANGED <<jobs, parses, chunks, assetFiles, assets, points>> /\ Quiet

\* upsert_chunks adds points by chunk id and deletes none.
Upsert(w) ==
  /\ Busy(w, "upsert")
  /\ points' = [points EXCEPT ![Job(w)] = @ \cup exec[w].seen]
  /\ Proceed(w, [exec[w] EXCEPT !.pc = "return", !.seen = {}])
  /\ UNCHANGED <<jobs, parses, chunks, assetFiles, assets, collection>> /\ Quiet

-----------------------------------------------------------------------------
(***************************************************************************)
(* The end of a task. Celery records the result and publishes the rest of  *)
(* the chain; self.retry publishes the same task again until its retries   *)
(* are used up. If the broker refuses the message, the chain ends here.    *)
(***************************************************************************)
Publish(w, messages) ==
  \/ queue' = queue \cup messages
  \/ exec[w].pc \in StepFaults /\ UNCHANGED queue

RestOfChain(e) ==
  IF e.task = "index_to_qdrant" THEN {}
  ELSE {[job |-> e.job, task |-> Successor[e.task], retries |-> 0]}

Return(w) ==
  /\ Busy(w, "return")
  /\ succeeded' = [succeeded EXCEPT ![Job(w)] = @ \cup {exec[w].task}]
  /\ Publish(w, RestOfChain(exec[w]))
  /\ Become(w, Idle)
  /\ UNCHANGED <<files, documents, jobs, docVars, brokerVars>>

\* Mutants of Again: no limit, one retry less, no count, the whole chain again.
AgainUnlimited(e) ==
  IF e.task = "index_to_qdrant" THEN {}
  ELSE {[job |-> e.job, task |-> e.task, retries |-> e.retries + 1]}

AgainLess(e) ==
  IF e.task = "index_to_qdrant" \/ e.retries + 1 >= MaxRetries THEN {}
  ELSE {[job |-> e.job, task |-> e.task, retries |-> e.retries + 1]}

AgainUncounted(e) ==
  IF e.task = "index_to_qdrant" \/ e.retries = MaxRetries THEN {}
  ELSE {[job |-> e.job, task |-> e.task, retries |-> e.retries]}

AgainFromStart(e) ==
  IF e.task = "index_to_qdrant" \/ e.retries = MaxRetries THEN {}
  ELSE {[job |-> e.job, task |-> "parse_document", retries |-> e.retries + 1]}

\* The last step of the handler: self.retry(countdown=60, max_retries=3), or
\* the bare raise of index_to_qdrant.
Again(e) ==
  IF e.task = "index_to_qdrant" \/ e.retries = MaxRetries THEN {}
  ELSE {[job |-> e.job, task |-> e.task, retries |-> e.retries + 1]}

RetryOrRaise(w) ==
  /\ Busy(w, "retry")
  /\ Publish(w, Again(exec[w]))
  /\ Become(w, Idle)
  /\ UNCHANGED <<files, documents, jobs, docVars, brokerVars, succeeded>>

TaskStep(w) ==
  \/ StepFails(w)
  \/ SelectJob(w) \/ CommitJob(w)
  \/ ReadDocument(w) \/ ParseDocument(w) \/ SaveAssets(w)
  \/ DeleteChunks(w) \/ CommitChunks(w) \/ DeleteAssets(w) \/ CommitAssets(w)
  \/ ListChunks(w) \/ Embed(w)
  \/ CollectionExists(w) \/ CreateCollection(w) \/ Upsert(w)
  \/ Return(w) \/ RetryOrRaise(w)

Delivery(w) ==
  \/ WorkerCrash(w)
  \/ \E m \in queue : Fetch(w, m)
  \/ \E m \in reserved[w] : Start(w, m)
  \/ \E m \in {d[2] : d \in unacked} : Redeliver(w, m)

TasksNext == \E w \in Workers : TaskStep(w) \/ Delivery(w)
=============================================================================
