--------------------------- MODULE DocumentUpload ---------------------------
(***************************************************************************)
(* The upload endpoint POST /documents of the API: it validates a request, *)
(* stores the original file, commits the document row, commits the job row *)
(* and publishes the first message of the Celery chain, in that order and  *)
(* in four separate effects. Requests run concurrently as coroutines of    *)
(* one API process; each await is a step here. The handler has no recovery *)
(* code: an exception after the first effect leaves what was done so far,  *)
(* and so does the death of the process.                                   *)
(***************************************************************************)
EXTENDS IngestionStore, Sequences

CONSTANTS
  Fingerprint,    \* the (tenant_id, sha256) pair of every upload
  Requests,       \* the requests clients may send: sets of defects
  UploadFaults,   \* steps that may raise before they take effect
  UploadAckLoss   \* steps that may take effect and raise all the same

VARIABLE request  \* the handler of each upload request

uploadVars == <<storeVars, request>>

(***************************************************************************)
(* What can be wrong with a request, in the order the handler looks at it, *)
(* and the response each defect gets.                                      *)
(***************************************************************************)
Checks ==
  << [defect |-> "tenant_id_not_uuid", response |-> 422],
     [defect |-> "tenant_mismatch",    response |-> 403],
     [defect |-> "filename_missing",   response |-> 400],
     [defect |-> "unreadable",         response |-> 500],
     [defect |-> "blank_filename",     response |-> 400],
     [defect |-> "path_separator",     response |-> 400],
     [defect |-> "unsupported_type",   response |-> 400],
     [defect |-> "empty",              response |-> 400],
     [defect |-> "oversized",          response |-> 400] >>

Defects == {Checks[i].defect : i \in DOMAIN Checks}

\* The response to a request with defects d: the first check that fails.
Verdict(d) ==
  LET first == CHOOSE i \in DOMAIN Checks :
                 /\ Checks[i].defect \in d
                 /\ \A j \in 1..(i - 1) : Checks[j].defect \notin d
  IN Checks[first].response

ASSUME RequestsAssumption == Requests \subseteq SUBSET Defects

RequestPc == {"idle", "save", "create_document", "create_job", "dispatch", "done"}
NoResponse == 0
Rejections == {400, 403, 422}
Response == Rejections \cup {NoResponse, 202, 500}

UploadTypeOK ==
  /\ StoreTypeOK
  /\ request \in [Uploads -> [pc : RequestPc, defects : SUBSET Defects,
                              response : Response]]

RequestInit ==
  request = [u \in Uploads |->
               [pc |-> "idle", defects |-> {}, response |-> NoResponse]]

UploadInit == StoreInit /\ RequestInit

At(u, pc) == request[u].pc = pc
GoTo(u, pc) == request' = [request EXCEPT ![u].pc = pc]
Respond(u, code) ==
  request' = [request EXCEPT ![u] =
                [pc |-> "done", defects |-> @.defects, response |-> code]]

\* After an effect the handler goes on, or the reply is lost and it answers 500.
GoOn(u, pc) ==
  \/ GoTo(u, pc)
  \/ request[u].pc \in UploadAckLoss /\ Respond(u, 500)

\* Mutant of Receive: the row before the file.
ReceiveThenCreate(u) ==
  /\ At(u, "idle")
  /\ \E d \in Requests :
       request' = [request EXCEPT ![u] =
         IF d = {} THEN [pc |-> "create_document", defects |-> d, response |-> NoResponse]
                   ELSE [pc |-> "done", defects |-> d, response |-> Verdict(d)]]
  /\ UNCHANGED storeVars

(***************************************************************************)
(* upload_document up to and including _validate_upload: nothing shared is *)
(* touched, so the checks are one step.                                    *)
(***************************************************************************)
Receive(u) ==
  /\ At(u, "idle")
  /\ \E d \in Requests :
       request' = [request EXCEPT ![u] =
         IF d = {} THEN [pc |-> "save", defects |-> d, response |-> NoResponse]
                   ELSE [pc |-> "done", defects |-> d, response |-> Verdict(d)]]
  /\ UNCHANGED storeVars

\* LocalDocumentStore.save under the fresh key tenant/document_id/filename.
SaveFile(u) ==
  /\ At(u, "save")
  /\ files' = files \cup {u}
  /\ GoOn(u, "create_document")
  /\ UNCHANGED <<documents, jobs, queue>>

\* Mutant of Duplicate: only the primary key of the document is unique.
DuplicateKey(u) == u \in documents

\* The UNIQUE (tenant_id, sha256) constraint of table documents.
Duplicate(u) == \E v \in documents : Fingerprint[v] = Fingerprint[u]

\* Mutant of CreateDocument: the chain is dispatched before the job exists.
CreateDocumentOnly(u) ==
  /\ At(u, "create_document")
  /\ ~Duplicate(u)
  /\ documents' = documents \cup {u}
  /\ GoOn(u, "dispatch")
  /\ UNCHANGED <<files, jobs, queue>>

\* PostgresDocumentRepository.create: insert and commit.
CreateDocument(u) ==
  /\ At(u, "create_document")
  /\ ~Duplicate(u)
  /\ documents' = documents \cup {u}
  /\ GoOn(u, "create_job")
  /\ UNCHANGED <<files, jobs, queue>>

\* The IntegrityError of a duplicate is not caught: the server answers 500.
RejectDuplicate(u) ==
  /\ At(u, "create_document")
  /\ Duplicate(u)
  /\ Respond(u, 500)
  /\ UNCHANGED storeVars

\* JobLifecycleService.create_queued: a second commit of the same session.
CreateJob(u) ==
  /\ At(u, "create_job")
  /\ jobs' = [jobs EXCEPT ![u] = [status |-> "queued", error |-> FALSE]]
  /\ GoOn(u, "dispatch")
  /\ UNCHANGED <<files, documents, queue>>

\* Mutant of Dispatch: a group instead of a chain.
DispatchGroup(u) ==
  /\ At(u, "dispatch")
  /\ queue' = queue \cup {[FirstTask(u) EXCEPT !.task = t] : t \in Task}
  /\ Respond(u, 202)
  /\ UNCHANGED <<files, documents, jobs>>

\* task_chain.apply_async, then the 202 answer.
Dispatch(u) ==
  /\ At(u, "dispatch")
  /\ queue' = queue \cup {FirstTask(u)}
  /\ \/ Respond(u, 202)
     \/ "dispatch" \in UploadAckLoss /\ Respond(u, 500)
  /\ UNCHANGED <<files, documents, jobs>>

\* Mutant of UploadStepFails: a broker that is down is ignored.
UploadStepFailsSilently(u) ==
  /\ request[u].pc \in UploadFaults
  /\ Respond(u, IF At(u, "dispatch") THEN 202 ELSE 500)
  /\ UNCHANGED storeVars

\* An exception before the effect: OSError from the store, a lost database
\* connection, an unreachable broker. All of them end in a 500.
UploadStepFails(u) ==
  /\ request[u].pc \in UploadFaults
  /\ Respond(u, 500)
  /\ UNCHANGED storeVars

UploadStep(u) ==
  \/ Receive(u)
  \/ SaveFile(u)
  \/ CreateDocument(u)
  \/ RejectDuplicate(u)
  \/ CreateJob(u)
  \/ Dispatch(u)
  \/ UploadStepFails(u)

InFlight(u) == request[u].pc \notin {"idle", "done"}

\* The API process dies: every request in flight ends without an answer.
ApiCrash ==
  /\ \E u \in Uploads : InFlight(u)
  /\ request' = [u \in Uploads |->
       IF InFlight(u) THEN [request[u] EXCEPT !.pc = "done"] ELSE request[u]]
  /\ UNCHANGED storeVars

UploadNext == ApiCrash \/ \E u \in Uploads : UploadStep(u)

UploadSpec == UploadInit /\ [][UploadNext]_uploadVars

-----------------------------------------------------------------------------
(***************************************************************************)
(* A worker never takes a message whose job row, document row or original  *)
(* is missing: everything a task reads was committed before apply_async,   *)
(* whatever failed or crashed around it.                                   *)
(***************************************************************************)
PublishedIsStored ==
  \A m \in queue : /\ m.job \in files \cap documents
                   /\ jobs[m.job] # NoRow

(***************************************************************************)
(* A committed document always has its original in the store, and a job    *)
(* always has its document: each effect comes after those it refers to, so *)
(* a crash between two of them leaves orphans but no dangling reference.   *)
(***************************************************************************)
NoDanglingReference ==
  /\ documents \subseteq files
  /\ \A u \in Uploads : jobs[u] # NoRow => u \in documents

(***************************************************************************)
(* However the requests interleave, at most one document exists for the    *)
(* same bytes of the same tenant, hence at most one upload of them is ever *)
(* accepted (UNIQUE (tenant_id, sha256)).                                  *)
(***************************************************************************)
OneDocumentPerFingerprint ==
  \A u, v \in documents : Fingerprint[u] = Fingerprint[v] => u = v

(***************************************************************************)
(* The response tells what became of the upload. A client that is told 4xx *)
(* may correct its request and send it again: no file, row or message of   *)
(* the refused one stays behind. A client that is told 202 has its         *)
(* document: the file, both rows and the message of the first task outlive *)
(* any later failure of the API.                                           *)
(***************************************************************************)
ResponseTellsOutcome ==
  \A u \in Uploads :
    /\ request[u].response \in Rejections =>
         /\ u \notin files \cup documents
         /\ jobs[u] = NoRow
         /\ \A m \in queue : m.job # u
    /\ request[u].response = 202 =>
         /\ u \in files \cap documents
         /\ jobs[u] = [status |-> "queued", error |-> FALSE]
         /\ FirstTask(u) \in queue
=============================================================================
