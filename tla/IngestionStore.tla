--------------------------- MODULE IngestionStore ---------------------------
(***************************************************************************)
(* The state that the API process and the Celery workers share while a     *)
(* document is ingested: the document store (LocalDocumentStore), the      *)
(* PostgreSQL tables documents and ingestion_jobs, and the Redis queue     *)
(* that carries the Celery messages.                                       *)
(*                                                                         *)
(* IngestionService.accept_upload draws a fresh document_id and a fresh    *)
(* job_id for every request and nothing else creates either, so an upload  *)
(* request, its document and its job are one and the same name here: an    *)
(* element of Uploads.                                                     *)
(***************************************************************************)
EXTENDS Integers, FiniteSets

CONSTANTS
  Uploads,      \* upload requests, each with its fresh document and job
  MaxRetries    \* max_retries of self.retry (3 in the code)

ASSUME MaxRetriesAssumption == MaxRetries \in Nat

VARIABLES
  files,        \* originals present in the document store
  documents,    \* rows of table documents
  jobs,         \* rows of table ingestion_jobs, NoRow where there is none
  queue         \* Celery messages waiting in Redis

storeVars == <<files, documents, jobs, queue>>

(***************************************************************************)
(* A job row. The error text is abstracted to its presence.                *)
(***************************************************************************)
Status == {"queued", "processing", "completed", "failed"}
JobRow == [status : Status, error : BOOLEAN]
NoRow == [status |-> "absent", error |-> FALSE]

(***************************************************************************)
(* A Celery message: one task of the chain and its retries so far. The     *)
(* countdown of a retry is left out: any delay is possible anyway.         *)
(***************************************************************************)
Task == {"parse_document", "embed_chunks", "index_to_qdrant"}
Message == [job : Uploads, task : Task, retries : 0..MaxRetries]

FirstTask(u) == [job |-> u, task |-> "parse_document", retries |-> 0]

(***************************************************************************)
(* The chain parse_document.si | embed_chunks.si | index_to_qdrant.si: the *)
(* task a worker publishes when one of the first two returns.              *)
(***************************************************************************)
Successor == [t \in Task \ {"index_to_qdrant"} |->
                IF t = "parse_document" THEN "embed_chunks"
                                        ELSE "index_to_qdrant"]

StoreTypeOK ==
  /\ files \subseteq Uploads
  /\ documents \subseteq Uploads
  /\ jobs \in [Uploads -> JobRow \cup {NoRow}]
  /\ queue \subseteq Message

StoreInit ==
  /\ files = {}
  /\ documents = {}
  /\ jobs = [u \in Uploads |-> NoRow]
  /\ queue = {}
=============================================================================
