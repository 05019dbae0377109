--------------------------- MODULE IngestionProofs ---------------------------
(***************************************************************************)
(* Safety of the ingestion pipeline, for any uploads, workers, retry       *)
(* limit, faults, lost replies and crashes. Up to the first duplicated     *)
(* delivery, IInv is inductive, a completed job is an indexed document,    *)
(* and the pipeline implements the lifecycle of a job. With any number of  *)
(* duplicates, a task is run for a reason, and a completed job with text   *)
(* can be searched. At the end, the upload endpoint on its own.            *)
(***************************************************************************)
EXTENDS IngestionTypeProofs

\* A step that touches the row, the tables and the points of job u only.
TouchesOnly(u) ==
  \A v \in Uploads : v # u =>
    /\ jobs'[v] = jobs[v]     /\ parses'[v] = parses[v]
    /\ chunks'[v] = chunks[v] /\ assets'[v] = assets[v]
    /\ points'[v] = points[v] /\ assetFiles'[v] = assetFiles[v]

-----------------------------------------------------------------------------
LEMMA IInvTypes == IInv => TypeInv
BY DEF IInv, TypeInv, ExecInv, ControlOK, RowExists, TokenInv, Carries, Executes, Busy

LEMMA RunningType ==
  ASSUME IInv, NEW w \in Workers, Executes(w)
  PROVE  /\ exec[w] \in Running /\ Job(w) \in Uploads
         /\ ControlInv(exec[w]) /\ MemoryInv(exec[w])
         /\ Carries(Job(w), exec[w].task)
         /\ jobs[Job(w)] \in JobRow
BY DEF IInv, TypeOK, TasksTypeOK, UploadTypeOK, StoreTypeOK, ExecInv, TokenInv, Executes,
       Carries, Running, Idle, Job

(***************************************************************************)
(* A step of a task that publishes nothing keeps the token where it is.    *)
(***************************************************************************)
LEMMA QuietTokens ==
  ASSUME IInv, NEW w \in Workers, Executes(w), NEW f \in Running \cup {Idle}, Become(w, f),
         f.pc # "idle" => f.job = Job(w) /\ f.task = exec[w].task,
         UNCHANGED <<queue, unacked, reserved, succeeded, request, files, documents>>,
         TouchesOnly(Job(w)), jobs'[Job(w)] # NoRow
  PROVE  OneToken' /\ HeldIsUnacked' /\ TokenInv' /\ RequestInv'
<1>1. exec \in [Workers -> Running \cup {Idle}]
  BY DEF IInv, TypeOK, TasksTypeOK
<1>2. \A v \in Workers : Executes(v)' =>
        Executes(v) /\ exec'[v].job = exec[v].job /\ exec'[v].task = exec[v].task
  BY <1>1 DEF Become, Executes, Job
<1>3. OneToken'
  BY <1>2 DEF IInv, OneToken, Job
<1>4. HeldIsUnacked'
  BY DEF IInv, HeldIsUnacked
<1>5. \A u \in Uploads : jobs[u] # NoRow => jobs'[u] # NoRow
  BY DEF TouchesOnly
<1>6. \A u \in Uploads, t \in Task : Carries(u, t) => Carries(u, t)'
  BY <1>5 DEF Carries
<1>7. TokenInv'
  <2>1. \A m \in queue : m.job \in Uploads /\ m.task \in Task
    BY DEF IInv, TypeOK, UploadTypeOK, StoreTypeOK, Message
  <2>2. \A d \in unacked : d[2].job \in Uploads /\ d[2].task \in Task
    BY DEF IInv, TypeOK, TasksTypeOK, Message
  <2>3. \A v \in Workers : Executes(v) => exec[v].job \in Uploads /\ exec[v].task \in Task
    BY <1>1 DEF Executes, Running, Idle
  <2> QED BY <1>2, <1>6, <2>1, <2>2, <2>3 DEF IInv, TokenInv, Job
<1>8. RequestInv'
  <2>1. request[Job(w)].pc = "done"
    BY RunningType DEF Carries
  <2> QED BY <1>5, <2>1 DEF IInv, RequestInv, TouchesOnly
<1> QED BY <1>3, <1>4, <1>7, <1>8

(***************************************************************************)
(* Under the same circumstances the memory of the other tasks stays        *)
(* current, since none of them works on this job.                          *)
(***************************************************************************)
LEMMA QuietMemory ==
  ASSUME IInv, NEW w \in Workers, Executes(w), NEW f, Become(w, f),
         f.pc # "idle" => MemoryInv(f)',
         TouchesOnly(Job(w)), ControlOK'
  PROVE  ExecInv'
<1>1. exec \in [Workers -> Running \cup {Idle}]
  BY DEF IInv, TypeOK, TasksTypeOK
<1>2. ASSUME NEW v \in Workers, Executes(v)' PROVE ControlInv(exec[v])'
  BY <1>2 DEF ControlOK
<1>3. ASSUME NEW v \in Workers, Executes(v)' PROVE MemoryInv(exec[v])'
  <2>1. CASE v = w
    <3>1. exec'[v] = f
      BY <1>1, <2>1 DEF Become
    <3> QED BY <1>3, <3>1 DEF Executes, MemoryInv, ParseIsCurrent, EmbedIsCurrent, RowIsCurrent
  <2>2. CASE v # w
    <3>1. exec'[v] = exec[v] /\ Executes(v)
      BY <1>1, <1>3, <2>2 DEF Become, Executes
    <3>2. exec[v].job \in Uploads /\ exec[v].job # Job(w)
      BY <2>2, <3>1, RunningType DEF IInv, OneToken, Job
    <3>3. MemoryInv(exec[v])
      BY <3>1, RunningType
    <3> QED BY <3>1, <3>2, <3>3
            DEF MemoryInv, ParseIsCurrent, EmbedIsCurrent, RowIsCurrent, TouchesOnly
  <2> QED BY <2>1, <2>2
<1> QED BY <1>2, <1>3 DEF ExecInv

LEMMA QuietDocuments ==
  ASSUME IInv, NEW u \in Uploads, TouchesOnly(u), UNCHANGED succeeded, DocInv(u)'
  PROVE  DocumentInv'
<1>1. ASSUME NEW v \in Uploads, v # u PROVE DocInv(v)'
  BY <1>1 DEF IInv, DocumentInv, DocInv, Parsed, TouchesOnly
<1> QED BY <1>1 DEF DocumentInv

(***************************************************************************)
(* What has to be shown of a step that publishes nothing: the state it     *)
(* moves the task to, the memory of that task and the document it changes. *)
(***************************************************************************)
LEMMA QuietStep ==
  ASSUME IInv, [Next]_vars, NEW w \in Workers, Executes(w), NEW u, u = Job(w),
         NEW f \in Running \cup {Idle}, Become(w, f),
         f.pc # "idle" => f.job = u /\ f.task = exec[w].task,
         UNCHANGED <<queue, unacked, reserved, succeeded, request, files, documents>>,
         TouchesOnly(u), jobs'[u] # NoRow,
         f.pc # "idle" => MemoryInv(f)', DocInv(u)'
  PROVE  IInv'
<1>1. TypeOK' /\ ControlOK'
  BY IInvTypes, TypeInvStep DEF TypeInv
<1>2. OneToken' /\ HeldIsUnacked' /\ TokenInv' /\ RequestInv'
  BY QuietTokens
<1>3. ExecInv'
  BY <1>1, QuietMemory
<1>4. DocumentInv'
  BY QuietDocuments, RunningType
<1> QED BY <1>1, <1>2, <1>3, <1>4 DEF IInv

LEMMA RaiseStep ==
  ASSUME IInv, [Next]_vars, NEW w \in Workers, Executes(w), NEW u, u = Job(w), Raise(w),
         UNCHANGED <<queue, unacked, reserved, succeeded, request, files, documents>>,
         TouchesOnly(u), jobs'[u] # NoRow, DocInv(u)'
  PROVE  IInv'
<1>1. PICK f : f = Raised(exec[w])
  OBVIOUS
<1>2. /\ f \in Running \cup {Idle}
      /\ f.pc # "idle" => f.pc = "select_job" /\ f.job = u /\ f.task = exec[w].task
  BY ZenonT(40), <1>1, RunningType DEF Raised, Idle, Running, Pc, Job
<1>3. f.pc # "idle" => MemoryInv(f)'
  BY <1>2 DEF MemoryInv, ParseIsCurrent, EmbedIsCurrent, RowIsCurrent
<1>4. Become(w, f)
  BY <1>1 DEF Raise
<1> QED BY <1>2, <1>3, <1>4, QuietStep

LEMMA ProceedStep ==
  ASSUME IInv, [Next]_vars, NEW w \in Workers, Executes(w), NEW u, u = Job(w),
         NEW f \in Running, Proceed(w, f), f.job = u, f.task = exec[w].task,
         UNCHANGED <<queue, unacked, reserved, succeeded, request, files, documents>>,
         TouchesOnly(u), jobs'[u] # NoRow, MemoryInv(f)', DocInv(u)'
  PROVE  IInv'
BY RaiseStep, QuietStep DEF Proceed

-----------------------------------------------------------------------------
(***************************************************************************)
(* The steps of a task body, one by one. What the step knows of the task   *)
(* it runs in comes from RunningType; the documents of other jobs, the     *)
(* messages and the other tasks are taken care of by the lemmas above.     *)
(***************************************************************************)
LEMMA BodyStepInv ==
  ASSUME IInv, [Next]_vars, NEW w \in Workers, UNCHANGED request,
         TaskStep(w), ~Return(w), ~RetryOrRaise(w)
  PROVE  IInv'
<1> DEFINE e == exec[w]
<1>0. PICK u : u = Job(w)
  OBVIOUS
<1>1. Executes(w)
  BY DEF TaskStep, StepFails, SelectJob, CommitJob, ReadDocument, ParseDocument,
         SaveAssets, DeleteChunks, CommitChunks, DeleteAssets, CommitAssets,
         ListChunks, Embed, CollectionExists, CreateCollection, Upsert, Busy, Executes
<1>2. /\ e \in Running /\ u \in Uploads /\ e.job = u
      /\ ControlInv(e) /\ MemoryInv(e)
      /\ Carries(u, e.task) /\ jobs[u] \in JobRow /\ jobs[u] # NoRow
  BY <1>0, <1>1, RunningType, RowType DEF Job
<1>3. DocInv(u)
  BY <1>2 DEF IInv, DocumentInv
<1>4. /\ chunks \in [Uploads -> SUBSET Nat] /\ points \in [Uploads -> SUBSET Nat]
      /\ assets \in [Uploads -> SUBSET Nat] /\ assetFiles \in [Uploads -> SUBSET Nat]
      /\ parses \in [Uploads -> Nat] /\ jobs \in [Uploads -> JobRow \cup {NoRow}]
  BY DEF IInv, TypeOK, TasksTypeOK, UploadTypeOK, StoreTypeOK
<1> USE DEF docVars, brokerVars, storeVars, Quiet
<1>5. ASSUME UNCHANGED <<jobs, docVars, succeeded>>
      PROVE  DocInv(u)' /\ TouchesOnly(u) /\ jobs'[u] # NoRow
  BY <1>2, <1>3, <1>5 DEF DocInv, Parsed, TouchesOnly
<1>6. CASE StepFails(w)
  BY <1>0, <1>1, <1>2, <1>5, <1>6, RaiseStep DEF StepFails
<1> USE DEF MemoryInv, ParseIsCurrent, EmbedIsCurrent, RowIsCurrent
<1>7. CASE SelectJob(w)
  <2>1. PICK f : f = [e EXCEPT !.pc = "commit_job", !.row = jobs[u]]
    OBVIOUS
  <2>2. f \in Running /\ f.job = u /\ f.task = e.task /\ f.pc = "commit_job" /\ f.row = jobs[u]
    BY <1>2, <2>1 DEF Running, Pc
  <2>3. Become(w, f)
    BY <1>0, <1>2, <1>7, <2>1 DEF SelectJob
  <2> QED BY <1>0, <1>1, <1>5, <1>7, <2>2, <2>3, QuietStep DEF SelectJob
<1>8. CASE ReadDocument(w)
  <2>1. PICK f : f = [e EXCEPT !.pc = "parse"]
    OBVIOUS
  <2>2. f \in Running /\ f.job = u /\ f.task = e.task /\ f.pc = "parse"
    BY <1>2, <2>1 DEF Running, Pc
  <2>3. Become(w, f)
    BY <1>0, <1>2, <1>8, <2>1 DEF ReadDocument, Carries, Continue
  <2> QED BY <1>0, <1>1, <1>5, <1>8, <2>2, <2>3, QuietStep DEF ReadDocument
<1>9. CASE DeleteChunks(w)
  <2>1. PICK f : f = [e EXCEPT !.pc = "commit_chunks", !.seen = chunks[u]]
    OBVIOUS
  <2>2. /\ f \in Running /\ f.job = u /\ f.task = e.task /\ f.parse = e.parse
        /\ f.pc = "commit_chunks" /\ f.seen = chunks[u]
    BY <1>2, <1>4, <2>1 DEF Running, Pc
  <2>3. Become(w, f) /\ e.pc = "delete_chunks" /\ UNCHANGED docVars
    BY <1>0, <1>9, <2>1 DEF DeleteChunks, Busy
  <2>4. MemoryInv(f)'
    BY <1>2, <2>2, <2>3
  <2> QED BY <1>0, <1>1, <1>5, <1>9, <2>2, <2>3, <2>4, QuietStep DEF DeleteChunks
<1>10. CASE DeleteAssets(w)
  <2>1. PICK f : f = [e EXCEPT !.pc = "commit_assets", !.seen = assets[u]]
    OBVIOUS
  <2>2. /\ f \in Running /\ f.job = u /\ f.task = e.task /\ f.parse = e.parse
        /\ f.pc = "commit_assets" /\ f.seen = assets[u]
    BY <1>2, <1>4, <2>1 DEF Running, Pc
  <2>3. Become(w, f) /\ e.pc = "delete_assets" /\ UNCHANGED docVars
    BY <1>0, <1>10, <2>1 DEF DeleteAssets, Busy
  <2>4. MemoryInv(f)'
    BY <1>2, <2>2, <2>3
  <2> QED BY <1>0, <1>1, <1>5, <1>10, <2>2, <2>3, <2>4, QuietStep DEF DeleteAssets
<1>11. CASE ListChunks(w)
  <2>1. PICK f : f = [e EXCEPT !.pc = "embed", !.seen = chunks[u]]
    OBVIOUS
  <2>2. f \in Running /\ f.job = u /\ f.task = e.task /\ f.pc = "embed" /\ f.seen = chunks[u]
    BY <1>2, <1>4, <2>1 DEF Running, Pc
  <2>3. Become(w, f) /\ UNCHANGED docVars
    BY <1>0, <1>11, <2>1 DEF ListChunks
  <2>4. MemoryInv(f)'
    BY <2>2, <2>3
  <2> QED BY <1>0, <1>1, <1>5, <1>11, <2>2, <2>3, <2>4, QuietStep DEF ListChunks
<1>12. CASE Embed(w) \/ CollectionExists(w)
  <2>1. PICK pc \in {"collection_exists", "upsert", "create_collection"} :
          Continue(w, pc) /\ e.pc \in {"embed", "collection_exists"}
    BY <1>12 DEF Embed, CollectionExists, Busy
  <2>2. PICK f : f = [e EXCEPT !.pc = pc]
    OBVIOUS
  <2>3. /\ f \in Running /\ f.job = u /\ f.task = e.task /\ f.seen = e.seen /\ f.pc = pc
    BY <1>2, <2>2 DEF Running, Pc
  <2>4. Become(w, f) /\ UNCHANGED docVars
    BY <1>12, <2>1, <2>2 DEF Continue, Embed, CollectionExists
  <2>5. MemoryInv(f)'
    BY <1>2, <2>1, <2>3, <2>4
  <2> QED BY <1>0, <1>1, <1>5, <1>12, <2>3, <2>4, <2>5, QuietStep DEF Embed, CollectionExists
<1>13. ASSUME e.pc \in ParseSteps PROVE succeeded[u] = {} /\ e.task = "parse_document"
  BY <1>2, <1>13 DEF ControlInv, Carries, Before, Running, Task
<1>14. CASE ParseDocument(w)
  <2>1. PICK f : f = [e EXCEPT !.pc = "save_assets", !.parse = parses[u] + 1]
    OBVIOUS
  <2>2. /\ f \in Running /\ f.job = u /\ f.task = e.task
        /\ f.pc = "save_assets" /\ f.parse = parses[u] + 1
    <3>1. parses[u] + 1 \in Nat
      BY <1>2, <1>4
    <3> QED BY <1>2, <2>1, <3>1 DEF Running, Pc
  <2>3. Become(w, f) /\ e.pc = "parse"
    BY <1>0, <1>14, <2>1 DEF ParseDocument, Busy
  <2>4. /\ parses' = [parses EXCEPT ![u] = @ + 1]
        /\ UNCHANGED <<jobs, chunks, assetFiles, assets, collection, points, succeeded>>
    BY <1>0, <1>14 DEF ParseDocument
  <2>5. MemoryInv(f)'
    BY <1>2, <1>4, <2>2, <2>4
  <2>6. DocInv(u)' /\ TouchesOnly(u)
    BY <1>3, <1>4, <1>13, <2>3, <2>4 DEF DocInv, Parsed, TouchesOnly, ParseSteps
  <2> QED BY <1>0, <1>1, <1>2, <1>14, <2>2, <2>3, <2>4, <2>5, <2>6, QuietStep DEF ParseDocument
<1>15. CASE SaveAssets(w)
  <2>1. PICK f : f = [e EXCEPT !.pc = "delete_chunks"]
    OBVIOUS
  <2>2. /\ f \in Running /\ f.job = u /\ f.task = e.task /\ f.parse = e.parse
        /\ f.pc = "delete_chunks"
    BY <1>2, <2>1 DEF Running, Pc
  <2>3. Proceed(w, f) /\ e.pc = "save_assets"
    BY <1>15, <2>1 DEF SaveAssets, Busy
  <2>4. /\ assetFiles' = [assetFiles EXCEPT ![u] = @ \cup NewAssets(u, e.parse)]
        /\ UNCHANGED <<jobs, parses, chunks, assets, collection, points, succeeded>>
    BY <1>0, <1>15 DEF SaveAssets
  <2>5. MemoryInv(f)'
    BY <1>2, <1>4, <2>2, <2>3, <2>4 DEF NewAssets
  <2>6. DocInv(u)' /\ TouchesOnly(u)
    BY <1>2, <1>3, <1>4, <2>4 DEF DocInv, Parsed, TouchesOnly, NewChunks, NewAssets
  <2> QED BY <1>0, <1>1, <1>2, <1>15, <2>2, <2>3, <2>4, <2>5, <2>6, ProceedStep DEF SaveAssets
<1>16. CASE CommitChunks(w)
  <2>1. PICK f : f = [e EXCEPT !.pc = "delete_assets", !.seen = {}]
    OBVIOUS
  <2>2. /\ f \in Running /\ f.job = u /\ f.task = e.task /\ f.parse = e.parse
        /\ f.pc = "delete_assets"
    BY <1>2, <2>1 DEF Running, Pc
  <2>3. Proceed(w, f) /\ e.pc = "commit_chunks"
    BY <1>16, <2>1 DEF CommitChunks, Busy
  <2>4. /\ chunks' = [chunks EXCEPT ![u] = (@ \ e.seen) \cup NewChunks(u, e.parse)]
        /\ UNCHANGED <<jobs, parses, assetFiles, assets, collection, points, succeeded>>
    BY <1>0, <1>16 DEF CommitChunks
  <2>5. chunks'[u] = NewChunks(u, parses[u])
    BY <1>2, <1>4, <2>3, <2>4
  <2>6. MemoryInv(f)'
    BY <1>2, <1>4, <2>2, <2>3, <2>4, <2>5 DEF NewAssets, NewChunks
  <2>7. DocInv(u)' /\ TouchesOnly(u)
    BY <1>3, <1>4, <1>13, <2>3, <2>4 DEF DocInv, Parsed, TouchesOnly, ParseSteps
  <2> QED BY <1>0, <1>1, <1>2, <1>16, <2>2, <2>3, <2>4, <2>6, <2>7, ProceedStep DEF CommitChunks
<1>17. CASE CommitAssets(w)
  <2>1. PICK f : f = [e EXCEPT !.pc = "return", !.seen = {}]
    OBVIOUS
  <2>2. /\ f \in Running /\ f.job = u /\ f.task = e.task /\ f.parse = e.parse
        /\ f.pc = "return"
    BY <1>2, <2>1 DEF Running, Pc
  <2>3. Proceed(w, f) /\ e.pc = "commit_assets" /\ e.task = "parse_document"
    BY <1>13, <1>17, <2>1 DEF CommitAssets, Busy, ParseSteps
  <2>4. /\ assets' = [assets EXCEPT ![u] = (@ \ e.seen) \cup NewAssets(u, e.parse)]
        /\ UNCHANGED <<jobs, parses, chunks, assetFiles, collection, points, succeeded>>
    BY <1>0, <1>17 DEF CommitAssets
  <2>5. assets'[u] = NewAssets(u, parses[u]) /\ chunks[u] = NewChunks(u, parses[u])
    BY <1>2, <1>4, <2>3, <2>4
  <2>6. MemoryInv(f)'
    BY <1>2, <2>2, <2>3, <2>4, <2>5 DEF NewAssets, NewChunks
  <2>7. assets'[u] \subseteq assetFiles[u]
    BY <1>2, <2>3, <2>4, <2>5
  <2>8. DocInv(u)' /\ TouchesOnly(u)
    BY <1>3, <1>4, <1>13, <2>3, <2>4, <2>7 DEF DocInv, Parsed, TouchesOnly, ParseSteps
  <2> QED BY <1>0, <1>1, <1>2, <1>17, <2>2, <2>3, <2>4, <2>6, <2>8, ProceedStep DEF CommitAssets
<1>18. CASE CreateCollection(w)
  <2>1. PICK f : f = [e EXCEPT !.pc = "upsert"]
    OBVIOUS
  <2>2. f \in Running /\ f.job = u /\ f.task = e.task /\ f.seen = e.seen /\ f.pc = "upsert"
    BY <1>2, <2>1 DEF Running, Pc
  <2>3. (Proceed(w, f) \/ Raise(w)) /\ e.pc = "create_collection"
    BY <1>18, <2>1 DEF CreateCollection, Busy
  <2>4. UNCHANGED <<jobs, parses, chunks, assetFiles, assets, points, succeeded>>
    BY <1>18 DEF CreateCollection
  <2>5. MemoryInv(f)'
    BY <1>2, <2>2, <2>3, <2>4
  <2>6. DocInv(u)' /\ TouchesOnly(u)
    BY <1>3, <2>4 DEF DocInv, Parsed, TouchesOnly
  <2> QED BY <1>0, <1>1, <1>2, <1>18, <2>2, <2>3, <2>4, <2>5, <2>6, ProceedStep, RaiseStep
          DEF CreateCollection
<1>19. CASE Upsert(w)
  <2>1. PICK f : f = [e EXCEPT !.pc = "return", !.seen = {}]
    OBVIOUS
  <2>2. f \in Running /\ f.job = u /\ f.task = e.task /\ f.pc = "return"
    BY <1>2, <2>1 DEF Running, Pc
  <2>3. Proceed(w, f) /\ e.pc = "upsert" /\ e.task = "embed_chunks"
    BY <1>2, <1>19, <2>1 DEF Upsert, Busy, ControlInv, EmbedSteps
  <2>4. /\ points' = [points EXCEPT ![u] = @ \cup e.seen]
        /\ UNCHANGED <<jobs, parses, chunks, assetFiles, assets, collection, succeeded>>
    BY <1>0, <1>19 DEF Upsert
  <2>5. points'[u] = chunks[u]
    BY <1>2, <1>3, <1>4, <2>3, <2>4 DEF DocInv
  <2>6. MemoryInv(f)'
    BY <2>2, <2>3, <2>4, <2>5
  <2>7. "parse_document" \in succeeded[u]
    BY <1>2, <2>3 DEF Carries, Before
  <2>8. DocInv(u)' /\ TouchesOnly(u)
    BY <1>3, <1>4, <2>4, <2>5, <2>7 DEF DocInv, Parsed, TouchesOnly
  <2> QED BY <1>0, <1>1, <1>2, <1>19, <2>2, <2>3, <2>4, <2>6, <2>8, ProceedStep DEF Upsert
<1>20. CASE CommitJob(w)
  <2>1. PICK f : f = [e EXCEPT !.pc = AfterCommit(e), !.row = NoRow]
    OBVIOUS
  <2>2. e.pc = "commit_job" /\ e.target \in {"processing", "completed", "failed"}
    BY <1>2, <1>20 DEF CommitJob, Busy, ControlInv, Running
  <2>3. /\ f \in Running /\ f.job = u /\ f.task = e.task
        /\ f.pc \in {"read", "return", "retry"}
        /\ f.pc = "return" => f.task = "index_to_qdrant"
    BY ZenonT(40), <1>2, <2>1, <2>2 DEF Running, Pc, AfterCommit, ControlInv
  <2>4. Wanted(e) \in JobRow
    BY <2>2 DEF Wanted, JobRow, Status
  <2>5. jobs' = [jobs EXCEPT ![u] = Wanted(e)]
    BY ZenonT(40), <1>0, <1>2, <1>20, <2>2, <2>4, UpdateType DEF CommitJob
  <2>6. UNCHANGED <<docVars, succeeded>> /\ Proceed(w, f)
    BY <1>20, <2>1 DEF CommitJob
  <2>7. MemoryInv(f)'
    BY <2>3
  <2>8. Wanted(e).status = "completed" => "embed_chunks" \in succeeded[u]
    BY <1>2, <2>2 DEF Wanted, ControlInv, Carries, Before
  <2>9. DocInv(u)' /\ TouchesOnly(u) /\ jobs'[u] # NoRow
    BY <1>2, <1>3, <1>4, <2>2, <2>4, <2>5, <2>6, <2>8, RowType
       DEF DocInv, Parsed, TouchesOnly, Wanted
  <2> QED BY <1>0, <1>1, <1>20, <2>3, <2>6, <2>7, <2>9, ProceedStep DEF CommitJob
<1> QED
  BY <1>6, <1>7, <1>8, <1>9, <1>10, <1>11, <1>12, <1>14, <1>15, <1>16, <1>17, <1>18, <1>19,
     <1>20 DEF TaskStep

-----------------------------------------------------------------------------
(***************************************************************************)
(* A step that ends a task and may publish one message for its job.        *)
(***************************************************************************)
LEMMA PublishStep ==
  ASSUME IInv, [Next]_vars, NEW w \in Workers, Executes(w), NEW u, u = Job(w),
         NEW messages, \A m \in messages : m.job = u /\ Carries(u, m.task)',
         \A m, n \in messages : m = n,
         queue' = queue \cup messages \/ queue' = queue,
         Become(w, Idle),
         \A v \in Uploads : v # u => succeeded'[v] = succeeded[v],
         UNCHANGED <<unacked, reserved, request, files, documents, jobs, docVars>>,
         DocInv(u)'
  PROVE  IInv'
<1>1. TypeOK' /\ ControlOK'
  BY IInvTypes, TypeInvStep DEF TypeInv
<1>2. exec \in [Workers -> Running \cup {Idle}]
  BY DEF IInv, TypeOK, TasksTypeOK
<1>3. \A v \in Workers : Executes(v)' => v # w /\ Executes(v) /\ exec'[v] = exec[v]
  BY <1>2 DEF Become, Executes, Idle
<1>4. /\ \A m \in queue : m.job # u
      /\ \A d \in unacked : d[2].job # u
      /\ \A v \in Workers : Executes(v) /\ v # w => exec[v].job # u
  BY DEF IInv, OneToken, Job
<1>5. OneToken'
  BY <1>3, <1>4 DEF IInv, OneToken, Job
<1>6. HeldIsUnacked'
  BY DEF IInv, HeldIsUnacked
<1>7. \A v \in Uploads, t \in Task : v # u /\ Carries(v, t) => Carries(v, t)'
  BY DEF Carries
<1>8. TokenInv'
  <2>1. \A m \in queue : m.job \in Uploads /\ m.task \in Task
    BY DEF IInv, TypeOK, UploadTypeOK, StoreTypeOK, Message
  <2>2. \A d \in unacked : d[2].job \in Uploads /\ d[2].task \in Task
    BY DEF IInv, TypeOK, TasksTypeOK, Message
  <2>3. \A v \in Workers : Executes(v) => exec[v].job \in Uploads /\ exec[v].task \in Task
    BY <1>2 DEF Executes, Running, Idle
  <2> QED BY <1>3, <1>4, <1>7, <2>1, <2>2, <2>3 DEF IInv, TokenInv, Job
<1>9. RequestInv'
  <2>1. request[u].pc = "done"
    BY RunningType DEF Carries
  <2> QED BY <2>1 DEF IInv, RequestInv
<1>10. ExecInv'
  BY <1>1, <1>3 DEF IInv, ExecInv, ControlOK, MemoryInv, ParseIsCurrent, EmbedIsCurrent,
                    RowIsCurrent, docVars
<1>11. DocumentInv'
  <2>1. ASSUME NEW v \in Uploads, v # u PROVE DocInv(v)'
    BY <2>1 DEF IInv, DocumentInv, DocInv, Parsed, docVars
  <2> QED BY <2>1 DEF DocumentInv
<1> QED BY <1>1, <1>5, <1>6, <1>8, <1>9, <1>10, <1>11 DEF IInv

LEMMA EndStepInv ==
  ASSUME IInv, [Next]_vars, NEW w \in Workers, UNCHANGED request,
         Return(w) \/ RetryOrRaise(w)
  PROVE  IInv'
<1> DEFINE e == exec[w]
<1>0. PICK u : u = Job(w)
  OBVIOUS
<1>1. Executes(w)
  BY DEF Return, RetryOrRaise, Busy, Executes
<1>2. /\ e \in Running /\ u \in Uploads /\ e.job = u
      /\ ControlInv(e) /\ MemoryInv(e) /\ Carries(u, e.task)
  BY <1>0, <1>1, RunningType DEF Job
<1>3. DocInv(u)
  BY <1>2 DEF IInv, DocumentInv
<1>4. succeeded \in [Uploads -> SUBSET Task] /\ e.task \in Task
  BY <1>2 DEF IInv, TypeOK, TasksTypeOK, Running
<1>5. CASE Return(w)
  <2>1. PICK messages : messages = RestOfChain(e)
    OBVIOUS
  <2>2. /\ succeeded' = [succeeded EXCEPT ![u] = @ \cup {e.task}]
        /\ UNCHANGED <<unacked, reserved, request, files, documents, jobs, docVars>>
        /\ Become(w, Idle)
        /\ queue' = queue \cup messages \/ queue' = queue
        /\ e.pc = "return"
    BY <1>0, <1>5, <2>1 DEF Return, Publish, brokerVars, Busy
  <2>3. succeeded'[u] = Before(e.task) \cup {e.task}
    BY <1>2, <1>4, <2>2 DEF Carries
  <2>4. \A m \in messages : m.job = u /\ Carries(u, m.task)'
    BY <1>2, <1>4, <2>1, <2>2, <2>3 DEF RestOfChain, Successor, Carries, Before, Task
  <2>5. \A m, n \in messages : m = n
    BY <2>1 DEF RestOfChain
  <2>6. DocInv(u)'
    BY <1>2, <1>3, <1>4, <2>2, <2>3
       DEF DocInv, Parsed, docVars, MemoryInv, ParseIsCurrent, EmbedIsCurrent, Carries, Before,
           Task
  <2>7. \A v \in Uploads : v # u => succeeded'[v] = succeeded[v]
    BY <1>4, <2>2
  <2> QED BY <1>0, <1>1, <2>2, <2>4, <2>5, <2>6, <2>7, PublishStep
<1>6. CASE RetryOrRaise(w)
  <2>1. PICK messages : messages = Again(e)
    OBVIOUS
  <2>2. /\ UNCHANGED <<unacked, reserved, request, files, documents, jobs, docVars, succeeded>>
        /\ Become(w, Idle)
        /\ queue' = queue \cup messages \/ queue' = queue
    BY <1>6, <2>1 DEF RetryOrRaise, Publish, brokerVars
  <2>3. \A m \in messages : m.job = u /\ Carries(u, m.task)'
    BY <1>2, <2>1, <2>2 DEF Again, Carries
  <2>4. \A m, n \in messages : m = n
    BY <2>1 DEF Again
  <2>5. DocInv(u)'
    BY <1>3, <2>2 DEF DocInv, Parsed, docVars
  <2> QED BY <1>0, <1>1, <2>2, <2>3, <2>4, <2>5, PublishStep
<1> QED BY <1>5, <1>6

-----------------------------------------------------------------------------
(***************************************************************************)
(* Deliveries move the token between the queue, a worker's memory and its  *)
(* execution. As long as no redelivery is counted, only deliveries whose   *)
(* worker has died return to the queue, so none is copied.                 *)
(***************************************************************************)
LEMMA DeliveryInv ==
  ASSUME IInv, [Next]_vars, UNCHANGED redeliveries, NEW w \in Workers, UNCHANGED request,
         Delivery(w)
  PROVE  IInv'
<1>1. TypeOK' /\ ControlOK'
  BY IInvTypes, TypeInvStep DEF TypeInv
<1>2. exec \in [Workers -> Running \cup {Idle}]
  BY DEF IInv, TypeOK, TasksTypeOK
<1>3. UNCHANGED <<files, documents, jobs, docVars, succeeded>>
  BY DEF Delivery, WorkerCrash, Fetch, Start, Redeliver, storeVars
<1>4. RequestInv' /\ DocumentInv'
  BY <1>3 DEF IInv, RequestInv, DocumentInv, DocInv, Parsed, docVars
<1>5. \A u, t : Carries(u, t)' <=> Carries(u, t)
  BY <1>3 DEF Carries
<1>6. ASSUME \A v \in Workers : Executes(v)' => Executes(v) /\ exec'[v] = exec[v]
      PROVE  ExecInv'
  BY <1>1, <1>3, <1>6
     DEF IInv, ExecInv, ControlOK, MemoryInv, ParseIsCurrent, EmbedIsCurrent, RowIsCurrent,
         docVars
<1>7. CASE WorkerCrash(w)
  <2>1. \A v \in Workers : Executes(v)' => Executes(v) /\ exec'[v] = exec[v]
    BY <1>2, <1>7 DEF WorkerCrash, Executes, Idle
  <2>2. OneToken' /\ HeldIsUnacked' /\ TokenInv'
    BY <1>5, <1>7, <2>1
       DEF WorkerCrash, storeVars, IInv, OneToken, HeldIsUnacked, TokenInv, Job, TypeOK,
           TasksTypeOK
  <2> QED BY <1>1, <1>4, <1>6, <2>1, <2>2 DEF IInv
<1>8. ASSUME NEW m \in queue, Fetch(w, m) PROVE IInv'
  <2>1. UNCHANGED exec /\ queue' = queue \ {m} /\ unacked' = unacked \cup {<<w, m>>}
        /\ reserved' = [reserved EXCEPT ![w] = @ \cup {m}]
    BY <1>8 DEF Fetch
  <2>2. \A v \in Workers : Executes(v)' => Executes(v) /\ exec'[v] = exec[v]
    BY <2>1 DEF Executes
  <2>3. OneToken'
    BY <2>1, <2>2 DEF IInv, OneToken, Job
  <2>4. HeldIsUnacked'
    BY <2>1 DEF IInv, HeldIsUnacked, TypeOK, TasksTypeOK
  <2>5. TokenInv'
    BY <1>5, <2>1, <2>2 DEF IInv, TokenInv, Job
  <2> QED BY <1>1, <1>4, <1>6, <2>2, <2>3, <2>4, <2>5 DEF IInv
<1>9. ASSUME NEW m \in reserved[w], Start(w, m) PROVE IInv'
  <2>1. PICK f : f = Enter(m)
    OBVIOUS
  <2>2. m \in Message /\ <<w, m>> \in unacked
    BY DEF IInv, HeldIsUnacked, TypeOK, TasksTypeOK
  <2>3. f.job = m.job /\ f.task = m.task /\ f.pc \in {"list_chunks", "select_job"}
    BY <2>1, <2>2, EnterType
  <2>4. /\ exec' = [exec EXCEPT ![w] = f] /\ UNCHANGED queue
        /\ unacked' = unacked \ {<<w, m>>}
        /\ reserved' = [reserved EXCEPT ![w] = @ \ {m}]
    BY <1>9, <2>1 DEF Start, storeVars
  <2>5. exec'[w] = f /\ \A v \in Workers : v # w => exec'[v] = exec[v]
    BY <1>2, <2>4
  <2>6. \A d \in unacked' : d[2].job # m.job
    BY <2>2, <2>4 DEF IInv, OneToken
  <2>7. OneToken'
    BY <2>2, <2>3, <2>4, <2>5, <2>6 DEF IInv, OneToken, Job, Executes
  <2>8. HeldIsUnacked'
    BY <2>4 DEF IInv, HeldIsUnacked, TypeOK, TasksTypeOK
  <2>9. TokenInv'
    BY <1>5, <2>2, <2>3, <2>4, <2>5 DEF IInv, TokenInv, Job, Executes
  <2>10. ExecInv'
    <3>1. MemoryInv(f)'
      BY <2>3 DEF MemoryInv, ParseIsCurrent, EmbedIsCurrent, RowIsCurrent
    <3>2. ASSUME NEW v \in Workers, v # w, Executes(v)' PROVE MemoryInv(exec[v])'
      BY <1>3, <2>5, <3>2
         DEF IInv, ExecInv, Executes, MemoryInv, ParseIsCurrent, EmbedIsCurrent, RowIsCurrent,
             docVars
    <3>3. MemoryInv(exec[w])'
      BY <2>5, <3>1 DEF MemoryInv, ParseIsCurrent, EmbedIsCurrent, RowIsCurrent
    <3> QED BY <1>1, <3>2, <3>3 DEF ExecInv, ControlOK
  <2> QED BY <1>1, <1>4, <2>7, <2>8, <2>9, <2>10 DEF IInv
<1>10. ASSUME NEW d \in unacked, Redeliver(w, d[2]) PROVE IInv'
  <2>1. PICK m : m = d[2] /\ m.job = d[2].job
    OBVIOUS
  <2>2. UNCHANGED <<exec, reserved>> /\ queue' = queue \cup {m}
        /\ unacked' = unacked \ {<<w, m>>} /\ <<w, m>> \in unacked
    BY <1>10, <2>1 DEF Redeliver
  <2>3. m \notin reserved[w]
    BY <1>10, <2>1 DEF Redeliver, IInv, TypeOK, TasksTypeOK
  <2>4. \A v \in Workers : Executes(v)' => Executes(v) /\ exec'[v] = exec[v]
    BY <2>2 DEF Executes
  <2>5. OneToken'
    BY <2>2, <2>4 DEF IInv, OneToken, Job
  <2>6. HeldIsUnacked'
    BY <2>2, <2>3 DEF IInv, HeldIsUnacked, TypeOK, TasksTypeOK
  <2>7. TokenInv'
    BY <1>5, <2>2, <2>4 DEF IInv, TokenInv, Job
  <2> QED BY <1>1, <1>4, <1>6, <2>4, <2>5, <2>6, <2>7 DEF IInv
<1> QED BY <1>7, <1>8, <1>9, <1>10 DEF Delivery

-----------------------------------------------------------------------------
(***************************************************************************)
(* The upload handler creates the only token of a job, when no other can   *)
(* exist because its request is not over yet.                              *)
(***************************************************************************)
LEMMA UploadInv ==
  ASSUME IInv, [Next]_vars, Upload
  PROVE  IInv'
<1>1. TypeOK' /\ ControlOK'
  BY IInvTypes, TypeInvStep DEF TypeInv
<1>2. UNCHANGED <<reserved, unacked, exec, docVars, succeeded>>
  BY DEF Upload, taskVars, brokerVars
<1>3. HeldIsUnacked'
  BY <1>2 DEF IInv, HeldIsUnacked
<1>4. ASSUME NEW new, \A m \in new : request[m.job].pc # "done" /\ Carries(m.job, m.task)',
             \A m, n \in new : m = n,
             queue' = queue \cup new,
             \A v \in Uploads : request[v].pc = "done" => request'[v].pc = "done",
             \A v \in Uploads : request[v].pc = "done" => jobs'[v] = jobs[v],
             \A v \in Uploads : jobs'[v] = jobs[v] \/
               (jobs[v] = NoRow /\ jobs'[v] = [status |-> "queued", error |-> FALSE]),
             files \subseteq files', documents \subseteq documents', RequestInv'
      PROVE  IInv'
  <2>1. \A v \in Uploads, t \in Task : Carries(v, t) => Carries(v, t)'
    BY <1>2, <1>4 DEF Carries
  <2>2. \A m \in queue : m.job \in Uploads /\ m.task \in Task
    BY DEF IInv, TypeOK, UploadTypeOK, StoreTypeOK, Message
  <2>3. \A d \in unacked : d[2].job \in Uploads /\ d[2].task \in Task
    BY DEF IInv, TypeOK, TasksTypeOK, Message
  <2>4. \A v \in Workers : Executes(v) => exec[v].job \in Uploads /\ exec[v].task \in Task
    BY DEF IInv, TypeOK, TasksTypeOK, Executes, Running, Idle
  <2>5. TokenInv'
    BY <1>2, <1>4, <2>1, <2>2, <2>3, <2>4 DEF IInv, TokenInv, Job, Executes
  <2>6. OneToken'
    <3>1. \A m \in new : /\ \A n \in queue : n.job # m.job
                         /\ \A d \in unacked : d[2].job # m.job
                         /\ \A v \in Workers : Executes(v) => exec[v].job # m.job
      BY <1>4 DEF IInv, TokenInv, Carries, Job
    <3> QED BY <1>2, <1>4, <3>1 DEF IInv, OneToken, Job, Executes
  <2>7. ASSUME NEW v \in Workers, Executes(v) PROVE jobs'[exec[v].job] = jobs[exec[v].job]
    BY <1>4, <2>4, <2>7 DEF IInv, TokenInv, Carries, Job
  <2>8. ExecInv'
    BY <1>1, <1>2, <2>7
       DEF IInv, ExecInv, ControlOK, Executes, MemoryInv, ParseIsCurrent, EmbedIsCurrent,
           RowIsCurrent, docVars
  <2>9. DocumentInv'
    BY <1>2, <1>4 DEF IInv, DocumentInv, DocInv, Parsed, docVars
  <2> QED BY <1>1, <1>3, <1>4, <2>5, <2>6, <2>8, <2>9 DEF IInv
<1>5. ASSUME UNCHANGED queue,
             \A v \in Uploads : request[v].pc = "done" => request'[v].pc = "done",
             \A v \in Uploads : request[v].pc = "done" => jobs'[v] = jobs[v],
             \A v \in Uploads : jobs'[v] = jobs[v] \/
               (jobs[v] = NoRow /\ jobs'[v] = [status |-> "queued", error |-> FALSE]),
             files \subseteq files', documents \subseteq documents', RequestInv'
      PROVE  IInv'
  <2>1. PICK new : new = {}
    OBVIOUS
  <2> QED BY <1>4, <1>5, <2>1
<1>6. /\ request \in [Uploads -> [pc : RequestPc, defects : SUBSET Defects,
                                  response : Response]]
      /\ jobs \in [Uploads -> JobRow \cup {NoRow}] /\ RequestInv
  BY DEF IInv, TypeOK, UploadTypeOK, StoreTypeOK
<1>7. CASE ApiCrash
  <2>1. \A v \in Uploads : request'[v].pc = IF InFlight(v) THEN "done" ELSE request[v].pc
    BY <1>6, <1>7 DEF ApiCrash
  <2>2. UNCHANGED <<files, documents, jobs, queue>>
    BY <1>7 DEF ApiCrash, storeVars
  <2>3. \A v \in Uploads : request[v].pc = "done" => request'[v].pc = "done"
    BY <2>1 DEF InFlight
  <2>4. RequestInv'
    BY <1>2, <1>6, <2>1, <2>2 DEF RequestInv, InFlight
  <2> QED BY <1>5, <2>2, <2>3, <2>4
<1>8. ASSUME NEW u \in Uploads, UploadStep(u) PROVE IInv'
  <2> USE DEF At, GoTo, GoOn, Respond, storeVars
  <2>0. ASSUME NEW pcs,
               request[u].pc # "done", request'[u].pc \in pcs,
               \A v \in Uploads : v # u => request'[v] = request[v]
        PROVE  \A v \in Uploads : request[v].pc = "done" => request'[v].pc = "done"
    BY <2>0
  <2>1. CASE Receive(u)
    <3>1. /\ request[u].pc = "idle" /\ request'[u].pc \in {"save", "done"}
          /\ \A v \in Uploads : v # u => request'[v] = request[v]
          /\ UNCHANGED <<files, documents, jobs, queue>>
      BY <1>6, <2>1 DEF Receive
    <3>2. RequestInv'
      BY <1>2, <1>6, <3>1 DEF RequestInv
    <3> QED BY <1>5, <2>0, <3>1, <3>2
  <2>2. CASE SaveFile(u)
    <3>1. /\ request[u].pc = "save" /\ request'[u].pc \in {"create_document", "done"}
          /\ \A v \in Uploads : v # u => request'[v] = request[v]
          /\ files' = files \cup {u} /\ UNCHANGED <<documents, jobs, queue>>
      BY <1>6, <2>2 DEF SaveFile
    <3>2. RequestInv'
      BY <1>2, <1>6, <3>1 DEF RequestInv
    <3> QED BY <1>5, <2>0, <3>1, <3>2
  <2>3. CASE CreateDocument(u)
    <3>1. /\ request[u].pc = "create_document" /\ request'[u].pc \in {"create_job", "done"}
          /\ \A v \in Uploads : v # u => request'[v] = request[v]
          /\ documents' = documents \cup {u} /\ UNCHANGED <<files, jobs, queue>>
      BY <1>6, <2>3 DEF CreateDocument
    <3>2. RequestInv'
      BY <1>2, <1>6, <3>1 DEF RequestInv
    <3> QED BY <1>5, <2>0, <3>1, <3>2
  <2>4. CASE RejectDuplicate(u)
    <3>1. /\ request[u].pc = "create_document" /\ request'[u].pc \in {"done"}
          /\ \A v \in Uploads : v # u => request'[v] = request[v]
          /\ UNCHANGED <<files, documents, jobs, queue>>
      BY <1>6, <2>4 DEF RejectDuplicate
    <3>2. RequestInv'
      BY <1>2, <1>6, <3>1 DEF RequestInv
    <3> QED BY <1>5, <2>0, <3>1, <3>2
  <2>5. CASE CreateJob(u)
    <3>1. /\ request[u].pc = "create_job" /\ request'[u].pc \in {"dispatch", "done"}
          /\ \A v \in Uploads : v # u => request'[v] = request[v]
          /\ UNCHANGED <<files, documents, queue>>
      BY <1>6, <2>5 DEF CreateJob
    <3>2. /\ jobs'[u] = [status |-> "queued", error |-> FALSE]
          /\ \A v \in Uploads : v # u => jobs'[v] = jobs[v]
      BY <1>6, <2>5 DEF CreateJob
    <3>3. jobs[u] = NoRow /\ jobs'[u] # NoRow
      BY <1>6, <3>1, <3>2 DEF RequestInv, NoRow
    <3>4. RequestInv'
      BY <1>2, <1>6, <3>1, <3>2, <3>3 DEF RequestInv
    <3>5. \A v \in Uploads : request[v].pc = "done" => jobs'[v] = jobs[v]
      BY <3>1, <3>2
    <3>6. \A v \in Uploads : jobs'[v] = jobs[v] \/
            (jobs[v] = NoRow /\ jobs'[v] = [status |-> "queued", error |-> FALSE])
      BY <3>2, <3>3
    <3> QED BY <1>5, <2>0, <3>1, <3>4, <3>5, <3>6
  <2>6. CASE Dispatch(u)
    <3>1. PICK t : t = FirstTask(u)
      OBVIOUS
    <3>2. /\ request[u].pc = "dispatch" /\ request'[u].pc \in {"done"}
          /\ \A v \in Uploads : v # u => request'[v] = request[v]
          /\ UNCHANGED <<files, documents, jobs>> /\ queue' = queue \cup {t}
      BY <1>6, <2>6, <3>1 DEF Dispatch
    <3>3. t.job = u /\ t.task = "parse_document"
      BY <3>1 DEF FirstTask
    <3>4. succeeded'[u] = {} /\ u \in files' \cap documents' /\ jobs'[u] # NoRow
      BY <1>2, <1>6, <3>2 DEF RequestInv
    <3>5. Carries(u, "parse_document")'
      BY <3>2, <3>4 DEF Carries, Before
    <3>6. RequestInv'
      BY <1>2, <1>6, <3>2 DEF RequestInv
    <3>7. PICK new : new = {t}
      OBVIOUS
    <3>8. \A m \in new : request[m.job].pc # "done" /\ Carries(m.job, m.task)'
      BY <3>2, <3>3, <3>5, <3>7
    <3>9. \A m, n \in new : m = n
      BY <3>7
    <3> QED BY <1>4, <2>0, <3>2, <3>6, <3>7, <3>8, <3>9
  <2>7. CASE UploadStepFails(u)
    <3>1. /\ request'[u].pc \in {"done"}
          /\ \A v \in Uploads : v # u => request'[v] = request[v]
          /\ UNCHANGED <<files, documents, jobs, queue>>
      BY <1>6, <2>7 DEF UploadStepFails
    <3>2. RequestInv'
      <4>1. \A v \in Uploads : request'[v].pc = "done" \/ request'[v] = request[v]
        BY <3>1
      <4> QED BY <1>2, <1>6, <3>1, <4>1 DEF RequestInv
    <3> QED BY <1>5, <3>1, <3>2
  <2> QED BY <1>8, <2>1, <2>2, <2>3, <2>4, <2>5, <2>6, <2>7 DEF UploadStep
<1> QED BY <1>7, <1>8 DEF Upload, UploadNext

-----------------------------------------------------------------------------
LEMMA IInvInit == Init => IInv
<1> SUFFICES ASSUME Init PROVE IInv
  OBVIOUS
<1>1. TypeOK
  BY TypeInvInit DEF TypeInv
<1>2. OneToken /\ HeldIsUnacked /\ TokenInv
  BY DEF Init, UploadInit, StoreInit, TasksInit, OneToken, HeldIsUnacked, TokenInv, Executes, Idle
<1>3. RequestInv
  BY DEF Init, UploadInit, StoreInit, RequestInit, TasksInit, RequestInv
<1>4. ExecInv
  BY DEF Init, TasksInit, ExecInv, Executes, Idle
<1>5. DocumentInv
  BY DEF Init, UploadInit, StoreInit, TasksInit, DocumentInv, DocInv, NoRow
<1> QED BY <1>1, <1>2, <1>3, <1>4, <1>5 DEF IInv

LEMMA IInvStep == IInv /\ [Next]_vars /\ UNCHANGED redeliveries => IInv'
<1> SUFFICES ASSUME IInv, [Next]_vars, UNCHANGED redeliveries PROVE IInv'
  OBVIOUS
<1>1. CASE Upload
  BY <1>1, UploadInv
<1>2. ASSUME NEW w \in Workers, Work(w) PROVE IInv'
  BY <1>2, BodyStepInv, EndStepInv DEF Work
<1>3. ASSUME NEW w \in Workers, Deliver(w) PROVE IInv'
  BY <1>3, DeliveryInv DEF Deliver
<1>4. CASE UNCHANGED vars
  <2>1. TypeOK' /\ ControlOK'
    BY IInvTypes, TypeInvStep DEF TypeInv
  <2>2. UNCHANGED <<files, documents, jobs, queue, request, reserved, unacked, exec,
                    parses, chunks, assetFiles, assets, collection, points, succeeded>>
    BY <1>4 DEF vars, storeVars, taskVars, docVars, brokerVars
  <2>3. (OneToken /\ HeldIsUnacked)'
    BY <2>2 DEF IInv, OneToken, HeldIsUnacked, Executes, Job
  <2>4. (TokenInv /\ RequestInv)'
    BY <2>2 DEF IInv, TokenInv, Carries, RequestInv, Executes, Job
  <2>5. ExecInv'
    BY <2>2 DEF IInv, ExecInv, ControlInv, MemoryInv, ParseIsCurrent, EmbedIsCurrent,
                RowIsCurrent, Executes
  <2>6. DocumentInv'
    BY <2>2 DEF IInv, DocumentInv, DocInv, Parsed
  <2> QED BY <2>1, <2>3, <2>4, <2>5, <2>6 DEF IInv
<1> QED BY <1>1, <1>2, <1>3, <1>4 DEF Next

-----------------------------------------------------------------------------
\* Redeliveries are counted and never forgotten.
LEMMA RedeliveriesCount ==
  TypeOK /\ [Next]_vars => UNCHANGED redeliveries \/ redeliveries' = redeliveries + 1
<1> SUFFICES ASSUME TypeOK, [Next]_vars
             PROVE  UNCHANGED redeliveries \/ redeliveries' = redeliveries + 1
  OBVIOUS
<1>1. CASE Upload
  BY <1>1 DEF Upload, taskVars, brokerVars
<1>2. ASSUME NEW w \in Workers, Work(w) PROVE UNCHANGED redeliveries
  <2>1. UNCHANGED brokerVars
    BY <1>2 DEF Work, TaskStep, StepFails, SelectJob, CommitJob, ReadDocument, ParseDocument,
                SaveAssets, DeleteChunks, CommitChunks, DeleteAssets, CommitAssets, ListChunks,
                Embed, CollectionExists, CreateCollection, Upsert, Return, RetryOrRaise, Quiet
  <2> QED BY <2>1 DEF brokerVars
<1>3. ASSUME NEW w \in Workers, Deliver(w)
      PROVE  UNCHANGED redeliveries \/ redeliveries' = redeliveries + 1
  BY <1>3 DEF Deliver, Delivery, WorkerCrash, Fetch, Start, Redeliver
<1> QED BY <1>1, <1>2, <1>3 DEF Next, vars, taskVars, brokerVars

\* So where there is none after a step there was none before it.
LEMMA StillNone ==
  ASSUME TypeOK, [Next]_vars, redeliveries' = 0 PROVE redeliveries = 0 /\ UNCHANGED redeliveries
<1>1. redeliveries \in Nat
  BY WorkersAssumption DEF TypeOK, TasksTypeOK
<1> QED BY <1>1, RedeliveriesCount

(***************************************************************************)
(* Up to the first message that is delivered while its worker still holds  *)
(* it, the invariant holds of the pipeline: for every set of uploads and   *)
(* workers, every placement of faults and lost replies, any number of      *)
(* crashes, and any number of redeliveries of what a dead worker held.     *)
(***************************************************************************)
THEOREM HoldsUntilDuplicate == Spec => [](redeliveries = 0 => IInv)
<1>1. Init => TypeOK /\ (redeliveries = 0 => IInv)
  BY IInvInit DEF IInv
<1>2. TypeOK /\ TypeOK' /\ (redeliveries = 0 => IInv) /\ [Next]_vars
        => (redeliveries = 0 => IInv)'
  <2> SUFFICES ASSUME TypeOK, redeliveries = 0 => IInv, [Next]_vars, redeliveries' = 0
               PROVE  IInv'
    OBVIOUS
  <2> QED BY StillNone, IInvStep
<1> QED BY <1>1, <1>2, TypeCorrect, PTL DEF Spec

(***************************************************************************)
(* So the invariant holds for good where no live worker's message is       *)
(* delivered to a second one (a visibility timeout longer than any task).  *)
(***************************************************************************)
THEOREM InvariantHolds ==
  ASSUME MaxRedeliveries = 0 PROVE Spec => []IInv
<1>1. TypeOK => redeliveries = 0
  BY DEF TypeOK, TasksTypeOK
<1> QED BY <1>1, TypeCorrect, HoldsUntilDuplicate, PTL

(***************************************************************************)
(* Tasks of one job never overlap (OneToken): the chain, the retries and   *)
(* the redelivery after a crash only ever move the one token of a job.     *)
(***************************************************************************)
THEOREM TasksNeverOverlap ==
  ASSUME MaxRedeliveries = 0 PROVE Spec => []OneToken
<1>1. IInv => OneToken
  BY DEF IInv
<1> QED BY <1>1, InvariantHolds, PTL

(***************************************************************************)
(* A completed job is an indexed document (CompletedIsIndexed): completed  *)
(* is written by index_to_qdrant alone, which is published only after      *)
(* embed_chunks returned with every chunk of the last parse upserted.      *)
(***************************************************************************)
THEOREM CompletedJobIsIndexed ==
  ASSUME MaxRedeliveries = 0 PROVE Spec => []CompletedIsIndexed
<1>1. IInv => CompletedIsIndexed
  BY DEF IInv, DocumentInv, DocInv, Parsed, CompletedIsIndexed
<1> QED BY <1>1, InvariantHolds, PTL

(***************************************************************************)
(* Retrieval never cites a chunk that PostgreSQL has replaced              *)
(* (NoStalePoint), although no code deletes a point.                       *)
(***************************************************************************)
THEOREM NoPointIsStale ==
  ASSUME MaxRedeliveries = 0 PROVE Spec => []NoStalePoint
<1>1. IInv => NoStalePoint
  BY DEF IInv, DocumentInv, DocInv, NoStalePoint
<1> QED BY <1>1, InvariantHolds, PTL

(***************************************************************************)
(* A job row carries an error text exactly when its status is failed       *)
(* (ErrorIffFailed): the row that update_status selected is still the row  *)
(* in the table when it commits the columns that differ from it.           *)
(***************************************************************************)
THEOREM RowsAreConsistent ==
  ASSUME MaxRedeliveries = 0 PROVE Spec => []ErrorIffFailed
<1>1. IInv => ErrorIffFailed
  BY DEF IInv, DocumentInv, DocInv, ErrorIffFailed
<1> QED BY <1>1, InvariantHolds, PTL

-----------------------------------------------------------------------------
(***************************************************************************)
(* The life of a job row. Four kinds of steps touch what a client that     *)
(* polls the job can learn: the upload handler commits the row or          *)
(* publishes the first task, a task commits a status, a task returns.      *)
(***************************************************************************)
LEMMA UploadEffects ==
  ASSUME IInv, Upload
  PROVE  /\ UNCHANGED <<reserved, unacked, exec, docVars, succeeded>>
         /\ \/ UNCHANGED <<jobs, queue>>
            \/ \E u \in Uploads :
                 /\ request[u].pc = "create_job" /\ jobs[u] = NoRow /\ UNCHANGED queue
                 /\ jobs' = [jobs EXCEPT ![u] = [status |-> "queued", error |-> FALSE]]
            \/ \E u \in Uploads :
                 /\ request[u].pc = "dispatch" /\ UNCHANGED jobs
                 /\ queue' = queue \cup {FirstTask(u)}
<1>1. UNCHANGED <<reserved, unacked, exec, docVars, succeeded>>
  BY DEF Upload, taskVars, brokerVars
<1>2. CASE ApiCrash
  BY <1>1, <1>2 DEF ApiCrash, storeVars
<1>3. ASSUME NEW u \in Uploads, CreateJob(u)
      PROVE  /\ request[u].pc = "create_job" /\ jobs[u] = NoRow /\ UNCHANGED queue
             /\ jobs' = [jobs EXCEPT ![u] = [status |-> "queued", error |-> FALSE]]
  BY <1>3 DEF CreateJob, At, IInv, RequestInv
<1>4. ASSUME NEW u \in Uploads, Dispatch(u)
      PROVE  /\ request[u].pc = "dispatch" /\ UNCHANGED jobs
             /\ queue' = queue \cup {FirstTask(u)}
  BY <1>4 DEF Dispatch, At
<1>5. ASSUME NEW u \in Uploads,
             Receive(u) \/ SaveFile(u) \/ CreateDocument(u) \/ RejectDuplicate(u)
               \/ UploadStepFails(u)
      PROVE  UNCHANGED <<jobs, queue>>
  BY <1>5 DEF Receive, SaveFile, CreateDocument, RejectDuplicate, UploadStepFails, storeVars
<1> QED BY <1>1, <1>2, <1>3, <1>4, <1>5 DEF Upload, UploadNext, UploadStep

LEMMA QuietTaskSteps ==
  ASSUME NEW w \in Workers, TaskStep(w), ~CommitJob(w), ~Return(w), ~RetryOrRaise(w)
  PROVE  UNCHANGED <<jobs, queue, unacked, reserved, succeeded>>
BY DEF TaskStep, StepFails, SelectJob, ReadDocument, ParseDocument, SaveAssets, DeleteChunks,
       CommitChunks, DeleteAssets, CommitAssets, ListChunks, Embed, CollectionExists,
       CreateCollection, Upsert, Quiet, storeVars, docVars, brokerVars

\* The commit of a status writes the row that was wanted.
LEMMA CommitWrites ==
  ASSUME IInv, NEW w \in Workers, CommitJob(w)
  PROVE  /\ Job(w) \in Uploads /\ jobs[Job(w)] \in JobRow
         /\ exec[w].target \in {"processing", "completed", "failed"}
         /\ jobs' = [jobs EXCEPT ![Job(w)] = Wanted(exec[w])]
         /\ Wanted(exec[w]) \in JobRow
<1>1. Executes(w) /\ exec[w].pc = "commit_job"
  BY DEF CommitJob, Busy, Executes
<1>2. /\ exec[w] \in Running /\ Job(w) \in Uploads /\ ControlInv(exec[w])
      /\ exec[w].row = jobs[Job(w)] /\ jobs[Job(w)] \in JobRow
  BY <1>1, RunningType DEF MemoryInv, RowIsCurrent, Job
<1>3. exec[w].target \in {"processing", "completed", "failed"}
  BY <1>1, <1>2 DEF ControlInv, Running
<1>4. Wanted(exec[w]) \in JobRow
  BY <1>3 DEF Wanted, JobRow, Status
<1>5. jobs' = [jobs EXCEPT ![Job(w)] = Wanted(exec[w])]
  BY ZenonT(40), <1>2, <1>4, UpdateType DEF CommitJob
<1> QED BY <1>2, <1>3, <1>4, <1>5

\* Messages move between the queue and the workers; none is made.
LEMMA DeliveryMoves ==
  ASSUME IInv, NEW w \in Workers, Delivery(w), NEW u \in Uploads, NothingLeft(u)
  PROVE  NothingLeft(u)' /\ UNCHANGED <<jobs, succeeded>>
<1>1. exec \in [Workers -> Running \cup {Idle}] /\ reserved \in [Workers -> SUBSET Message]
  BY DEF IInv, TypeOK, TasksTypeOK
<1>2. CASE WorkerCrash(w)
  BY <1>1, <1>2 DEF WorkerCrash, NothingLeft, Executes, Idle, Job, storeVars
<1>3. ASSUME NEW m \in queue, Fetch(w, m) PROVE NothingLeft(u)' /\ UNCHANGED <<jobs, succeeded>>
  BY <1>3 DEF Fetch, NothingLeft, Executes, Job
<1>4. ASSUME NEW m \in reserved[w], Start(w, m)
      PROVE  NothingLeft(u)' /\ UNCHANGED <<jobs, succeeded>>
  <2>1. m \in Message /\ <<w, m>> \in unacked
    BY <1>1 DEF IInv, HeldIsUnacked
  <2>2. m.job # u
    BY <2>1 DEF NothingLeft
  <2>3. Enter(m).job = m.job
    BY <2>1, EnterType
  <2> QED BY <1>1, <1>4, <2>2, <2>3 DEF Start, NothingLeft, Executes, Job, storeVars
<1>5. ASSUME NEW d \in unacked, Redeliver(w, d[2])
      PROVE  NothingLeft(u)' /\ UNCHANGED <<jobs, succeeded>>
  BY <1>5 DEF Redeliver, NothingLeft, Executes, Job
<1> QED BY <1>2, <1>3, <1>4, <1>5 DEF Delivery

LEMMA FinalInvStep ==
  ASSUME "commit_job" \notin StepAckLoss
  PROVE  IInv /\ FinalInv /\ [Next]_vars => FinalInv'
<1> SUFFICES ASSUME IInv, FinalInv, [Next]_vars PROVE FinalInv'
  OBVIOUS
<1>1. /\ exec \in [Workers -> Running \cup {Idle}]
      /\ succeeded \in [Uploads -> SUBSET Task]
      /\ jobs \in [Uploads -> JobRow \cup {NoRow}]
  BY DEF IInv, TypeOK, TasksTypeOK, UploadTypeOK, StoreTypeOK
<1>2. ASSUME NEW u \in Uploads, jobs[u].status = "completed" PROVE request[u].pc = "done"
  BY <1>2 DEF IInv, DocumentInv, DocInv, RequestInv
<1>3. CASE Upload
  <2>1. UNCHANGED <<reserved, unacked, exec, succeeded>>
    BY <1>3, UploadEffects
  <2>2. ASSUME NEW u \in Uploads, jobs'[u].status = "completed" PROVE NothingLeft(u)'
    <3>1. jobs[u].status = "completed"
      BY <1>1, <1>3, <2>2, UploadEffects
    <3>2. \A m \in queue' : m.job # u
      BY <1>2, <1>3, <3>1, UploadEffects DEF FinalInv, NothingLeft, FirstTask
    <3> QED BY <2>1, <3>1, <3>2 DEF FinalInv, NothingLeft, Executes, Job
  <2> QED BY <2>1, <2>2 DEF FinalInv
<1>4. ASSUME NEW w \in Workers, TaskStep(w) PROVE FinalInv'
  <2> DEFINE e == exec[w]
  <2>1. Executes(w)
    BY <1>1, <1>4, TaskStepMoves
  <2>2. e \in Running /\ Job(w) \in Uploads /\ ControlInv(e) /\ Carries(Job(w), e.task)
    BY <2>1, RunningType
  <2>3. \A v \in Workers : v # w => exec'[v] = exec[v]
    BY <1>1, <1>4, TaskStepMoves
  <2>4. exec'[w].pc # "idle" => exec'[w].job = Job(w) /\ exec'[w].task = e.task
    BY <1>1, <1>4, TaskStepMoves DEF Job
  <2>5. \A v \in Workers : Executes(v)' => Executes(v) /\ Job(v)' = Job(v)
    BY <2>1, <2>3, <2>4 DEF Executes, Job
  <2>6. CASE CommitJob(w)
    <3>1. UNCHANGED <<queue, unacked, reserved, succeeded>>
      BY <2>6 DEF CommitJob, Quiet, brokerVars
    <3>0. PICK u : u = Job(w)
      OBVIOUS
    <3>2. jobs' = [jobs EXCEPT ![u] = Wanted(e)] /\ e.pc = "commit_job"
      BY <2>6, <3>0, CommitWrites DEF CommitJob, Busy
    <3>3. ASSUME jobs'[u].status = "completed" PROVE NothingLeft(u)'
      <4>1. e.target = "completed" /\ e.task = "index_to_qdrant"
        BY <1>1, <2>2, <3>0, <3>2, <3>3 DEF Wanted, ControlInv
      <4>2. Become(w, [e EXCEPT !.pc = "return", !.row = NoRow])
        BY <2>6, <3>2, <4>1 DEF CommitJob, Proceed, AfterCommit
      <4>3. exec'[w].pc = "return" /\ exec'[w].task = "index_to_qdrant"
        BY <1>1, <2>2, <4>1, <4>2 DEF Become, Running
      <4>4. /\ \A m \in queue : m.job # u
            /\ \A d \in unacked : d[2].job # u
            /\ \A v \in Workers : Executes(v) /\ Job(v) = u => v = w
        BY <2>1, <3>0 DEF IInv, OneToken
      <4> QED BY <2>5, <3>1, <4>3, <4>4 DEF NothingLeft
    <3>4. ASSUME NEW v \in Uploads, v # u, jobs'[v].status = "completed"
          PROVE  NothingLeft(v)'
      <4>1. NothingLeft(v)
        BY <1>1, <3>2, <3>4 DEF FinalInv
      <4> QED BY <2>3, <2>5, <3>0, <3>1, <3>4, <4>1 DEF NothingLeft, Job
    <3> QED BY <3>1, <3>3, <3>4 DEF FinalInv
  <2>7. ASSUME NEW u \in Uploads, jobs[u].status = "completed", Job(w) = u
        PROVE  Return(w) /\ e.task = "index_to_qdrant"
    <3>1. e.pc = "return" /\ e.task = "index_to_qdrant"
      BY <2>1, <2>7 DEF FinalInv, NothingLeft
    <3> QED BY <1>4, <3>1
            DEF TaskStep, StepFails, SelectJob, CommitJob, ReadDocument, ParseDocument,
                SaveAssets, DeleteChunks, CommitChunks, DeleteAssets, CommitAssets, ListChunks,
                Embed, CollectionExists, CreateCollection, Upsert, RetryOrRaise, Busy
  <2>8. CASE Return(w)
    <3>1. /\ succeeded' = [succeeded EXCEPT ![Job(w)] = @ \cup {e.task}]
          /\ queue' = queue \cup RestOfChain(e) \/ queue' = queue
          /\ UNCHANGED <<jobs, unacked, reserved>> /\ exec'[w].pc = "idle"
      BY <1>1, <2>8 DEF Return, Publish, brokerVars, Become, Idle
    <3>2. \A m \in RestOfChain(e) : m.job = Job(w) /\ e.task # "index_to_qdrant"
      BY DEF RestOfChain, Job
    <3>3. ASSUME NEW u \in Uploads, jobs'[u].status = "completed" PROVE NothingLeft(u)'
      <4>1. jobs[u].status = "completed" /\ NothingLeft(u)
        BY <3>1, <3>3 DEF FinalInv
      <4>2. \A m \in queue' : m.job # u
        BY <2>7, <3>1, <3>2, <4>1 DEF NothingLeft
      <4> QED BY <2>3, <2>5, <3>1, <4>1, <4>2 DEF NothingLeft, Executes, Job
    <3> QED BY <3>3 DEF FinalInv
  <2>9. CASE RetryOrRaise(w)
    <3>1. /\ queue' = queue \cup Again(e) \/ queue' = queue
          /\ UNCHANGED <<jobs, unacked, reserved, succeeded>> /\ exec'[w].pc = "idle"
          /\ e.pc = "retry"
      BY <1>1, <2>9 DEF RetryOrRaise, Publish, brokerVars, Become, Idle, Busy
    <3>2. \A m \in Again(e) : m.job = Job(w)
      BY DEF Again, Job
    <3>3. ASSUME NEW u \in Uploads, jobs'[u].status = "completed" PROVE NothingLeft(u)'
      <4>1. NothingLeft(u) /\ Job(w) # u
        BY <2>1, <3>1, <3>3 DEF FinalInv, NothingLeft
      <4> QED BY <2>3, <2>5, <3>1, <3>2, <4>1 DEF NothingLeft, Executes, Job
    <3> QED BY <3>1, <3>3 DEF FinalInv
  <2>10. CASE ~CommitJob(w) /\ ~Return(w) /\ ~RetryOrRaise(w)
    <3>1. UNCHANGED <<jobs, queue, unacked, reserved, succeeded>>
      BY <1>4, <2>10, QuietTaskSteps
    <3>2. ASSUME NEW u \in Uploads, jobs'[u].status = "completed" PROVE NothingLeft(u)'
      <4>1. NothingLeft(u) /\ Job(w) # u
        BY <2>7, <2>10, <3>1, <3>2 DEF FinalInv
      <4> QED BY <2>3, <2>5, <3>1, <4>1 DEF NothingLeft, Job
    <3> QED BY <3>1, <3>2 DEF FinalInv
  <2> QED BY <2>6, <2>8, <2>9, <2>10
<1>5. ASSUME NEW w \in Workers, Delivery(w) PROVE FinalInv'
  <2>1. UNCHANGED <<jobs, succeeded>>
    BY <1>5 DEF Delivery, WorkerCrash, Fetch, Start, Redeliver, storeVars
  <2> QED BY <1>5, <2>1, DeliveryMoves DEF FinalInv
<1>6. CASE UNCHANGED vars
  <2>1. UNCHANGED <<jobs, queue, unacked, exec, succeeded>>
    BY <1>6 DEF vars, storeVars, taskVars, brokerVars
  <2> QED BY <2>1 DEF FinalInv, NothingLeft, Executes, Job
<1> QED BY <1>3, <1>4, <1>5, <1>6 DEF Next, Work, Deliver

\* What a poll can see of a step, all other steps being invisible to it.
LEMMA VisibleSteps ==
  ASSUME IInv, [Next]_vars
  PROVE  \/ UNCHANGED <<jobs, succeeded>>
         \/ \E u \in Uploads :
              /\ request[u].pc = "create_job" /\ jobs[u] = NoRow /\ UNCHANGED succeeded
              /\ jobs' = [jobs EXCEPT ![u] = [status |-> "queued", error |-> FALSE]]
         \/ \E w \in Workers : CommitJob(w) /\ UNCHANGED succeeded
         \/ \E w \in Workers : Return(w) /\ UNCHANGED jobs
<1>1. CASE Upload
  BY <1>1, UploadEffects
<1>2. ASSUME NEW w \in Workers, TaskStep(w)
      PROVE  \/ UNCHANGED <<jobs, succeeded>>
             \/ CommitJob(w) /\ UNCHANGED succeeded
             \/ Return(w) /\ UNCHANGED jobs
  <2>1. CommitJob(w) => UNCHANGED succeeded
    BY DEF CommitJob, Quiet
  <2>2. Return(w) => UNCHANGED jobs
    BY DEF Return
  <2>3. RetryOrRaise(w) => UNCHANGED <<jobs, succeeded>>
    BY DEF RetryOrRaise
  <2> QED BY <1>2, <2>1, <2>2, <2>3, QuietTaskSteps
<1>3. ASSUME NEW w \in Workers, Delivery(w) PROVE UNCHANGED <<jobs, succeeded>>
  BY <1>3 DEF Delivery, WorkerCrash, Fetch, Start, Redeliver, storeVars
<1>4. CASE UNCHANGED vars
  BY <1>4 DEF vars, storeVars, taskVars
<1> QED BY <1>1, <1>2, <1>3, <1>4 DEF Next, Work, Deliver

LEMMA FinalInvInit == Init => FinalInv
BY DEF Init, UploadInit, StoreInit, FinalInv, NoRow

LEMMA FinalInvHolds ==
  ASSUME "commit_job" \notin StepAckLoss PROVE Spec => [](redeliveries = 0 => FinalInv)
<1>1. TypeOK /\ (redeliveries = 0 => IInv) /\ (redeliveries = 0 => FinalInv)
        /\ [Next]_vars
        => (redeliveries = 0 => FinalInv)'
  <2> SUFFICES ASSUME TypeOK, redeliveries = 0 => IInv, redeliveries = 0 => FinalInv,
                      [Next]_vars, redeliveries' = 0
               PROVE  FinalInv'
    OBVIOUS
  <2>1. redeliveries = 0
    BY StillNone
  <2> QED BY <2>1, FinalInvStep
<1> QED BY <1>1, FinalInvInit, TypeCorrect, HoldsUntilDuplicate, PTL DEF Spec

(***************************************************************************)
(* A client may stop polling at completed (CompletedIsFinal). Completed is *)
(* committed by the last task of the chain, which then has nothing left    *)
(* but to return, and no other task of the job runs or waits by then. The  *)
(* one thing that can spoil it is the exception a lost reply to that very  *)
(* commit raises: its handler would write failed over completed. Every     *)
(* step up to the first message that is delivered twice keeps completed.   *)
(***************************************************************************)
CompletedStays == \A u \in Uploads : jobs[u].status = "completed" => jobs'[u] = jobs[u]

THEOREM FinalUntilDuplicate ==
  ASSUME "commit_job" \notin StepAckLoss
  PROVE  Spec => [][redeliveries' = 0 => CompletedStays]_vars
<1>1. TypeOK /\ (redeliveries = 0 => IInv) /\ (redeliveries = 0 => FinalInv)
        /\ [Next]_vars
        => [redeliveries' = 0 => CompletedStays]_vars
  <2> SUFFICES ASSUME TypeOK, redeliveries = 0 => IInv, redeliveries = 0 => FinalInv,
                      [Next]_vars, redeliveries' = 0
               PROVE  CompletedStays
    OBVIOUS
  <2> SUFFICES ASSUME NEW u \in Uploads, jobs[u].status = "completed"
               PROVE  jobs'[u] = jobs[u]
    BY DEF CompletedStays
  <2>0. IInv /\ FinalInv
    BY StillNone
  <2>1. ASSUME NEW w \in Workers, CommitJob(w) PROVE jobs'[u] = jobs[u]
    <3>1. Executes(w) /\ exec[w].pc = "commit_job"
      BY <2>1 DEF CommitJob, Busy, Executes
    <3>2. Job(w) # u
      BY <2>0, <3>1 DEF FinalInv, NothingLeft
    <3> QED BY <2>0, <2>1, <3>2, CommitWrites DEF IInv, TypeOK, UploadTypeOK, StoreTypeOK
  <2>2. ASSUME NEW v \in Uploads, jobs[v] = NoRow,
               jobs' = [jobs EXCEPT ![v] = [status |-> "queued", error |-> FALSE]]
        PROVE  jobs'[u] = jobs[u]
    BY <2>0, <2>2 DEF NoRow, IInv, TypeOK, UploadTypeOK, StoreTypeOK
  <2> QED BY <2>0, <2>1, <2>2, VisibleSteps
<1> QED BY <1>1, TypeCorrect, HoldsUntilDuplicate, FinalInvHolds, PTL DEF Spec

\* So completed is final for good where every message is delivered to one worker.
THEOREM CompletedJobIsFinal ==
  ASSUME MaxRedeliveries = 0, "commit_job" \notin StepAckLoss PROVE Spec => CompletedIsFinal
<1>1. TypeOK => redeliveries = 0
  BY DEF TypeOK, TasksTypeOK
<1>2. TypeOK' /\ [redeliveries' = 0 => CompletedStays]_vars => [CompletedStays]_vars
  BY <1>1 DEF TypeOK, TasksTypeOK
<1>3. CompletedIsFinal <=> [][CompletedStays]_vars
  BY PTL DEF CompletedIsFinal, CompletedStays
<1> QED BY <1>2, <1>3, TypeCorrect, FinalUntilDuplicate, PTL

-----------------------------------------------------------------------------
(***************************************************************************)
(* The pipeline implements IngestionLifecycle. Under the invariant the     *)
(* stage of a document follows from the tasks that have returned: it is    *)
(* never broken, and it moves only when a task returns.                    *)
(***************************************************************************)
StageAfter(tasks) ==
  IF "embed_chunks" \in tasks THEN "indexed"
  ELSE IF "parse_document" \in tasks THEN "parsed" ELSE "stored"

LEMMA OrderStep == IInv /\ ReturnsInOrder /\ [Next]_vars => ReturnsInOrder'
<1> SUFFICES ASSUME IInv, ReturnsInOrder, [Next]_vars PROVE ReturnsInOrder'
  OBVIOUS
<1>1. ASSUME NEW w \in Workers, Return(w) PROVE ReturnsInOrder'
  <2>1. Executes(w)
    BY <1>1 DEF Return, Busy, Executes
  <2>2. /\ Job(w) \in Uploads /\ Carries(Job(w), exec[w].task)
        /\ succeeded \in [Uploads -> SUBSET Task]
        /\ succeeded' = [succeeded EXCEPT ![Job(w)] = @ \cup {exec[w].task}]
    BY <1>1, <2>1, RunningType DEF Return, IInv, TypeOK, TasksTypeOK
  <2> QED BY <2>2 DEF ReturnsInOrder, Carries, Before
<1> QED BY <1>1, VisibleSteps DEF ReturnsInOrder

LEMMA OrderHolds == Spec => [](redeliveries = 0 => ReturnsInOrder)
<1>1. Init => ReturnsInOrder
  BY DEF Init, TasksInit, ReturnsInOrder
<1>2. TypeOK /\ (redeliveries = 0 => IInv) /\ (redeliveries = 0 => ReturnsInOrder)
        /\ [Next]_vars
        => (redeliveries = 0 => ReturnsInOrder)'
  <2> SUFFICES ASSUME TypeOK, redeliveries = 0 => IInv, redeliveries = 0 => ReturnsInOrder,
                      [Next]_vars, redeliveries' = 0
               PROVE  ReturnsInOrder'
    OBVIOUS
  <2> QED BY StillNone, OrderStep
<1> QED BY <1>1, <1>2, TypeCorrect, HoldsUntilDuplicate, PTL DEF Spec

LEMMA StageIsReached ==
  ASSUME IInv, ReturnsInOrder, NEW u \in Uploads PROVE Stage(u) = StageAfter(succeeded[u])
<1>1. DocInv(u) /\ succeeded[u] \subseteq Task
  BY DEF IInv, DocumentInv, TypeOK, TasksTypeOK
<1>2. CASE "parse_document" \notin succeeded[u]
  <2>1. succeeded[u] = {}
    BY <1>1, <1>2 DEF DocInv, ReturnsInOrder, Task
  <2> QED BY <2>1 DEF Stage, StageAfter
<1>3. CASE "parse_document" \in succeeded[u] /\ "embed_chunks" \notin succeeded[u]
  <2>1. succeeded[u] = {"parse_document"}
    BY <1>1, <1>3 DEF ReturnsInOrder, Task
  <2>2. Parsed(u)
    BY <1>1, <1>3 DEF DocInv
  <2> QED BY <2>1, <2>2 DEF Stage, StageAfter, Parsed
<1>4. CASE "parse_document" \in succeeded[u] /\ "embed_chunks" \in succeeded[u]
  <2>1. Parsed(u) /\ points[u] = chunks[u]
    BY <1>1, <1>4 DEF DocInv
  <2>2. succeeded[u] # {} /\ succeeded[u] # {"parse_document"}
    BY <1>4
  <2>3. StageAfter(succeeded[u]) = "indexed"
    BY <1>4 DEF StageAfter
  <2> QED BY <1>4, <2>1, <2>2, <2>3 DEF Stage, Parsed
<1>5. "embed_chunks" \in succeeded[u] => "parse_document" \in succeeded[u]
  BY <1>1 DEF DocInv
<1> QED BY <1>2, <1>3, <1>4, <1>5

StagesAreReached == StageColumn = [v \in Uploads |-> StageAfter(succeeded[v])]

LEMMA StagesReached == IInv /\ ReturnsInOrder => StagesAreReached
BY StageIsReached DEF StagesAreReached, StageColumn

LEMMA StagesReachedNext == (IInv /\ ReturnsInOrder)' => StagesAreReached'
BY StagesReached, PTL

LEMMA LifecycleInit == Init => Lifecycle!Init
BY DEF Init, UploadInit, StoreInit, TasksInit, Lifecycle!Init, StatusColumn, StageColumn, NoRow,
       Stage

\* A commit of a status is an attempt, or the completion of an indexed document.
LEMMA CommitIsLifecycle ==
  ASSUME IInv, ReturnsInOrder, "commit_job" \notin StepAckLoss => FinalInv,
         NEW w \in Workers, CommitJob(w), UNCHANGED StageColumn
  PROVE  \E u \in Uploads : Lifecycle!Attempt(u) \/ Lifecycle!Complete(u)
<1>1. PICK u \in Uploads : u = Job(w)
  BY CommitWrites
<1>2. /\ exec[w].target \in {"processing", "completed", "failed"}
      /\ jobs[u] \in JobRow /\ jobs' = [jobs EXCEPT ![u] = Wanted(exec[w])]
      /\ jobs \in [Uploads -> JobRow \cup {NoRow}]
  BY <1>1, CommitWrites DEF IInv, TypeOK, UploadTypeOK, StoreTypeOK
<1>3. StatusColumn' = [StatusColumn EXCEPT ![u] = exec[w].target]
  BY <1>2 DEF StatusColumn, Wanted
<1>4. Executes(w) /\ exec[w].pc = "commit_job"
  BY DEF CommitJob, Busy, Executes
<1>5. StatusColumn[u] \in Lifecycle!Open
  <2>1. jobs[u].status = "completed" => "commit_job" \in StepAckLoss
    BY <1>1, <1>4 DEF FinalInv, NothingLeft
  <2> QED BY <1>2, <2>1 DEF StatusColumn, JobRow, Status, Lifecycle!Open
<1>6. CASE exec[w].target # "completed"
  BY <1>2, <1>3, <1>5, <1>6 DEF Lifecycle!Attempt
<1>7. CASE exec[w].target = "completed"
  <2>1. exec[w].task = "index_to_qdrant" /\ Carries(u, exec[w].task)
    BY <1>1, <1>4, <1>7, RunningType DEF ControlInv
  <2>2. StageColumn[u] = "indexed"
    BY <2>1, StageIsReached DEF StageColumn, StageAfter, Carries, Before
  <2> QED BY <1>3, <1>5, <1>7, <2>2 DEF Lifecycle!Complete
<1> QED BY <1>6, <1>7

\* The return of the first two tasks advances the document, that of the third
\* finds it indexed.
LEMMA ReturnIsLifecycle ==
  ASSUME IInv, ReturnsInOrder, (IInv /\ ReturnsInOrder)',
         NEW w \in Workers, Return(w), UNCHANGED StatusColumn
  PROVE  \/ \E u \in Uploads : \/ Lifecycle!Advance(u, "stored", "parsed")
                               \/ Lifecycle!Advance(u, "parsed", "indexed")
         \/ UNCHANGED StageColumn
<1>1. Executes(w)
  BY DEF Return, Busy, Executes
<1>2. PICK u \in Uploads : u = Job(w)
  BY <1>1, RunningType
<1>3. PICK t \in Task : t = exec[w].task
  BY <1>1, RunningType DEF Running
<1>4. /\ Carries(u, t) /\ jobs[u] \in JobRow /\ succeeded \in [Uploads -> SUBSET Task]
      /\ succeeded' = [succeeded EXCEPT ![u] = @ \cup {t}]
  BY <1>1, <1>2, <1>3, RunningType DEF Return, IInv, TypeOK, TasksTypeOK
<1>5. StageColumn = [v \in Uploads |-> StageAfter(succeeded[v])]
  BY StagesReached DEF StagesAreReached
<1>6. StageColumn' = [v \in Uploads |-> StageAfter(succeeded'[v])]
  BY StagesReachedNext DEF StagesAreReached
<1>7. succeeded'[u] = Before(t) \cup {t} /\ \A v \in Uploads : v # u => succeeded'[v] = succeeded[v]
  BY <1>4 DEF Carries
<1>8. StageColumn' = [StageColumn EXCEPT ![u] = StageAfter(Before(t) \cup {t})]
  BY <1>5, <1>6, <1>7
<1>9. StageColumn[u] = StageAfter(Before(t))
  BY <1>4, <1>5 DEF Carries
<1>10. StatusColumn[u] # "absent"
  BY <1>4 DEF StatusColumn, JobRow, Status
<1>11. t # "index_to_qdrant" => StatusColumn[u] # "completed"
  <2>1. jobs[u].status = "completed" => "embed_chunks" \in succeeded[u]
    BY DEF IInv, DocumentInv, DocInv
  <2> QED BY <1>4, <2>1 DEF StatusColumn, Carries, Before, Task
<1>12. CASE t = "parse_document"
  <2>1. StageAfter(Before(t)) = "stored" /\ StageAfter(Before(t) \cup {t}) = "parsed"
    BY <1>12 DEF StageAfter, Before
  <2> QED BY <1>8, <1>9, <1>10, <1>11, <1>12, <2>1 DEF Lifecycle!Advance
<1>13. CASE t = "embed_chunks"
  <2>1. StageAfter(Before(t)) = "parsed" /\ StageAfter(Before(t) \cup {t}) = "indexed"
    BY <1>13 DEF StageAfter, Before
  <2> QED BY <1>8, <1>9, <1>10, <1>11, <1>13, <2>1 DEF Lifecycle!Advance
<1>14. CASE t = "index_to_qdrant"
  <2>1. StageAfter(Before(t)) = "indexed" /\ StageAfter(Before(t) \cup {t}) = "indexed"
    BY <1>14 DEF StageAfter, Before
  <2> QED BY <1>5, <1>8, <1>9, <2>1
<1> QED BY <1>12, <1>13, <1>14 DEF Task

LEMMA LifecycleStep ==
  ASSUME IInv, ReturnsInOrder, "commit_job" \notin StepAckLoss => FinalInv,
         (IInv /\ ReturnsInOrder)', [Next]_vars
  PROVE  [Lifecycle!Next]_<<StatusColumn, StageColumn>>
<1>1. UNCHANGED jobs => UNCHANGED StatusColumn
  BY DEF StatusColumn
<1>2. UNCHANGED succeeded => UNCHANGED StageColumn
  BY StagesReached, StagesReachedNext DEF StagesAreReached
<1>3. ASSUME NEW u \in Uploads, jobs[u] = NoRow, UNCHANGED succeeded,
             jobs' = [jobs EXCEPT ![u] = [status |-> "queued", error |-> FALSE]]
      PROVE  Lifecycle!Queue(u)
  <2>1. StatusColumn' = [StatusColumn EXCEPT ![u] = "queued"]
    BY <1>3 DEF StatusColumn, IInv, TypeOK, UploadTypeOK, StoreTypeOK
  <2>2. StatusColumn[u] = "absent"
    BY <1>3 DEF StatusColumn, NoRow
  <2> QED BY <1>2, <1>3, <2>1, <2>2 DEF Lifecycle!Queue
<1>4. ASSUME NEW w \in Workers, CommitJob(w), UNCHANGED succeeded PROVE Lifecycle!Next
  BY <1>2, <1>4, CommitIsLifecycle DEF Lifecycle!Next
<1>5. ASSUME NEW w \in Workers, Return(w), UNCHANGED jobs
      PROVE  Lifecycle!Next \/ UNCHANGED StageColumn
  BY <1>1, <1>5, ReturnIsLifecycle DEF Lifecycle!Next
<1> QED BY <1>1, <1>2, <1>3, <1>4, <1>5, VisibleSteps DEF Lifecycle!Next

(***************************************************************************)
(* The pipeline keeps the promise made to whoever polls a job              *)
(* (ImplementsLifecycle, on IngestionLifecycle): queued once, attempts     *)
(* that may fail and be retried, work that only advances, and completed    *)
(* only of an indexed document, last and once unless the reply to its      *)
(* write may be lost. Every step up to the first message that is delivered *)
(* twice is a step of the abstract job, or none of it.                     *)
(***************************************************************************)
THEOREM LifecycleUntilDuplicate ==
  Spec => /\ Lifecycle!Init
          /\ [][redeliveries' = 0 => [Lifecycle!Next]_<<StatusColumn, StageColumn>>]_vars
<1>1. Init => Lifecycle!Init
  BY LifecycleInit
<1>2. TypeOK /\ (redeliveries = 0 => IInv) /\ (redeliveries = 0 => ReturnsInOrder)
        /\ (redeliveries = 0 => IInv)' /\ (redeliveries = 0 => ReturnsInOrder)'
        /\ (redeliveries = 0 /\ "commit_job" \notin StepAckLoss => FinalInv)
        /\ [Next]_vars
        => [redeliveries' = 0 => [Lifecycle!Next]_<<StatusColumn, StageColumn>>]_vars
  <2> SUFFICES ASSUME TypeOK, redeliveries = 0 => IInv, redeliveries = 0 => ReturnsInOrder,
                      (redeliveries = 0 => IInv)', (redeliveries = 0 => ReturnsInOrder)',
                      redeliveries = 0 /\ "commit_job" \notin StepAckLoss => FinalInv,
                      [Next]_vars, redeliveries' = 0
               PROVE  [Lifecycle!Next]_<<StatusColumn, StageColumn>>
    OBVIOUS
  <2>1. redeliveries = 0
    BY StillNone
  <2> QED BY <2>1, LifecycleStep
<1>3. Spec => [](redeliveries = 0 /\ "commit_job" \notin StepAckLoss => FinalInv)
  <2>1. CASE "commit_job" \notin StepAckLoss
    BY <2>1, FinalInvHolds, PTL
  <2>2. CASE ~("commit_job" \notin StepAckLoss)
    BY <2>2, PTL
  <2> QED BY <2>1, <2>2
<1> QED BY <1>1, <1>2, <1>3, TypeCorrect, HoldsUntilDuplicate, OrderHolds, PTL DEF Spec

\* So the pipeline implements it where every message is delivered to one worker.
THEOREM PipelineImplementsLifecycle ==
  ASSUME MaxRedeliveries = 0 PROVE Spec => ImplementsLifecycle
<1>1. TypeOK' => redeliveries' = 0
  BY DEF TypeOK, TasksTypeOK
<1>2. UNCHANGED vars => UNCHANGED <<StatusColumn, StageColumn>>
  <2> SUFFICES ASSUME UNCHANGED vars PROVE UNCHANGED <<StatusColumn, StageColumn>>
    OBVIOUS
  <2>1. UNCHANGED <<jobs, succeeded, chunks, assets, points, parses>>
    BY DEF vars, storeVars, taskVars, docVars
  <2> QED BY <2>1 DEF StatusColumn, StageColumn, Stage
<1>3. TypeOK' /\ [redeliveries' = 0 => [Lifecycle!Next]_<<StatusColumn, StageColumn>>]_vars
        => [Lifecycle!Next]_<<StatusColumn, StageColumn>>
  BY <1>1, <1>2
<1> QED BY <1>3, TypeCorrect, LifecycleUntilDuplicate, PTL
        DEF ImplementsLifecycle, Lifecycle!Spec, Lifecycle!lifecycleVars

-----------------------------------------------------------------------------
(***************************************************************************)
(* Once completed was committed the document stays indexed                 *)
(* (CompletedStaysIndexed), also when the reply to that commit is lost and *)
(* the handler of index_to_qdrant writes failed over it: embed_chunks has  *)
(* returned, so no task that parses or embeds the document will run again  *)
(* unless its message is delivered twice.                                  *)
(***************************************************************************)
Indexed(u) == points[u] = chunks[u] /\ chunks[u] = NewChunks(u, parses[u])

THEOREM IndexedUntilDuplicate ==
  ASSUME NEW u \in Uploads
  PROVE  Spec => [](jobs[u].status = "completed" => [](redeliveries = 0 => Indexed(u)))
<1> DEFINE Embedded == "embed_chunks" \in succeeded[u]
           None == redeliveries = 0
           Completed == jobs[u].status = "completed"
           Holds == Indexed(u)
<1>1. IInv /\ Completed => Embedded
  BY DEF IInv, DocumentInv, DocInv
<1>2. IInv /\ Embedded => Holds
  BY DEF IInv, DocumentInv, DocInv, Parsed, Indexed
<1>3. TypeOK /\ (None => IInv) /\ (None => Embedded) /\ [Next]_vars => (None => Embedded)'
  <2> SUFFICES ASSUME TypeOK, None => IInv, None => Embedded, [Next]_vars, redeliveries' = 0
               PROVE  Embedded'
    OBVIOUS
  <2>1. IInv /\ Embedded
    BY StillNone
  <2>2. ASSUME NEW w \in Workers, Return(w) PROVE Embedded'
    BY <2>1, <2>2 DEF Return, IInv, TypeOK, TasksTypeOK
  <2> QED BY <2>1, <2>2, VisibleSteps
<1>4. Spec => [](None => IInv)
  BY HoldsUntilDuplicate
<1> HIDE DEF Embedded, None, Completed, Holds
<1>5. Spec => [](Completed => [](None => Holds))
  BY <1>1, <1>2, <1>3, <1>4, TypeCorrect, PTL DEF Spec
<1> QED BY <1>5 DEF None, Completed, Holds

\* So it stays indexed for good where every message is delivered to one worker.
THEOREM CompletedDocumentStaysIndexed ==
  ASSUME MaxRedeliveries = 0 PROVE Spec => CompletedStaysIndexed
<1>1. TypeOK => redeliveries = 0
  BY DEF TypeOK, TasksTypeOK
<1>2. ASSUME NEW u \in Uploads
      PROVE  Spec => [](jobs[u].status = "completed" =>
                         [](points[u] = chunks[u] /\ chunks[u] = NewChunks(u, parses[u])))
  <2>1. Indexed(u) => points[u] = chunks[u] /\ chunks[u] = NewChunks(u, parses[u])
    BY DEF Indexed
  <2>2. Spec => [](jobs[u].status = "completed" => [](redeliveries = 0 => Indexed(u)))
    BY IndexedUntilDuplicate
  <2> QED BY <1>1, <2>1, <2>2, TypeCorrect, PTL
<1> QED BY <1>2 DEF CompletedStaysIndexed

-----------------------------------------------------------------------------
(***************************************************************************)
(* What the ingestion pipeline keeps when Redis delivers messages twice,   *)
(* for any number of redeliveries, crashes, faults and lost replies: what  *)
(* a worker executes was published for a reason, and a completed job with  *)
(* text can be searched.                                                   *)
(***************************************************************************)
\* What no step takes away, whichever tasks of a job overlap.
Kept ==
  /\ files \subseteq files' /\ documents \subseteq documents'
  /\ \A u \in Uploads : /\ jobs[u] # NoRow => jobs'[u] # NoRow
                        /\ succeeded[u] \subseteq succeeded'[u]
                        /\ points[u] \subseteq points'[u]
  /\ \A u \in Textual : chunks[u] # {} => chunks'[u] # {}

Types == /\ exec \in [Workers -> Running \cup {Idle}]
         /\ jobs \in [Uploads -> JobRow \cup {NoRow}]
         /\ chunks \in [Uploads -> SUBSET Nat] /\ points \in [Uploads -> SUBSET Nat]
         /\ succeeded \in [Uploads -> SUBSET Task]
         /\ reserved \in [Workers -> SUBSET Message]
         /\ queue \subseteq Message /\ unacked \subseteq Workers \X Message
         /\ Textual \subseteq Uploads

LEMMA TypesHold == TypeInv => Types
BY WorkersAssumption
   DEF TypeInv, TypeOK, TasksTypeOK, UploadTypeOK, StoreTypeOK, Types

LEMMA RunningTypes ==
  ASSUME TypeInv, NEW w \in Workers, Executes(w)
  PROVE  exec[w] \in Running /\ Job(w) \in Uploads /\ Job(w) = exec[w].job /\ ControlInv(exec[w])
BY TypesHold DEF Types, TypeInv, ControlOK, Executes, Running, Idle, Job

\* The commit of a status leaves a row, of the wanted status or the one it had.
LEMMA CommittedRow ==
  ASSUME TypeInv, NEW w \in Workers, CommitJob(w)
  PROVE  /\ Job(w) \in Uploads
         /\ jobs'[Job(w)] \in JobRow
         /\ jobs'[Job(w)].status \in {exec[w].target, jobs[Job(w)].status}
         /\ \A v \in Uploads : v # Job(w) => jobs'[v] = jobs[v]
<1>1. Executes(w) /\ exec[w].pc = "commit_job"
  BY DEF CommitJob, Busy, Executes
<1>2. PICK u \in Uploads : u = Job(w)
  BY <1>1, RunningTypes
<1>3. jobs[u] \in JobRow
  BY <1>1, <1>2, TypesHold DEF TypeInv, RowExists, Types, Busy
<1>4. exec[w].target \in {"processing", "completed", "failed"}
  BY <1>1, RunningTypes DEF ControlInv, Running
<1>5. PICK new : new = Update(exec[w].row, jobs[u], Wanted(exec[w]))
  OBVIOUS
<1>6. Wanted(exec[w]) \in JobRow /\ Wanted(exec[w]).status = exec[w].target
  BY <1>4 DEF Wanted, JobRow, Status
<1>7. new \in JobRow
  BY <1>3, <1>5, <1>6, UpdateType
<1>8. new.status \in {exec[w].target, jobs[u].status}
  BY <1>5, <1>6 DEF Update
<1>9. jobs' = [jobs EXCEPT ![u] = new]
  BY <1>2, <1>5 DEF CommitJob
<1> QED BY <1>2, <1>7, <1>8, <1>9, TypesHold DEF Types

LEMMA TaskKeeps ==
  ASSUME TypeInv, NEW w \in Workers, TaskStep(w), UNCHANGED request PROVE Kept
<1>1. Types
  BY TypesHold
<1>2. Executes(w) /\ exec[w] \in Running /\ Job(w) \in Uploads
  BY <1>1, TaskStepMoves, RunningTypes DEF Types
<1> USE DEF Quiet, docVars, brokerVars, storeVars
<1>3. CASE CommitJob(w)
  <2>1. UNCHANGED <<files, documents, docVars, succeeded>>
    BY <1>3 DEF CommitJob
  <2>2. \A u \in Uploads : jobs[u] # NoRow => jobs'[u] # NoRow
    BY <1>3, CommittedRow, RowType
  <2> QED BY <2>1, <2>2 DEF Kept
<1>4. CASE CommitChunks(w)
  <2>1. chunks' = [chunks EXCEPT ![Job(w)] =
                     (@ \ exec[w].seen) \cup NewChunks(Job(w), exec[w].parse)]
    BY <1>4 DEF CommitChunks
  <2>2. Job(w) \in Textual => chunks'[Job(w)] # {}
    BY <1>1, <1>2, <2>1 DEF Types, NewChunks
  <2>3. \A u \in Textual : u # Job(w) => chunks'[u] = chunks[u]
    BY <1>1, <2>1 DEF Types
  <2>4. UNCHANGED <<files, documents, jobs, points, succeeded>>
    BY <1>4 DEF CommitChunks
  <2> QED BY <2>2, <2>3, <2>4 DEF Kept
<1>5. CASE Upsert(w)
  <2>1. points' = [points EXCEPT ![Job(w)] = @ \cup exec[w].seen]
    BY <1>5 DEF Upsert
  <2>2. \A u \in Uploads : points[u] \subseteq points'[u]
    BY <1>1, <1>2, <2>1 DEF Types
  <2>3. UNCHANGED <<files, documents, jobs, chunks, succeeded>>
    BY <1>5 DEF Upsert
  <2> QED BY <2>2, <2>3 DEF Kept
<1>6. CASE Return(w)
  <2>1. succeeded' = [succeeded EXCEPT ![Job(w)] = @ \cup {exec[w].task}]
    BY <1>6 DEF Return
  <2>2. \A u \in Uploads : succeeded[u] \subseteq succeeded'[u]
    BY <1>1, <1>2, <2>1 DEF Types
  <2>3. UNCHANGED <<files, documents, jobs, chunks, points>>
    BY <1>6 DEF Return
  <2> QED BY <2>2, <2>3 DEF Kept
<1>7. CASE ~CommitJob(w) /\ ~CommitChunks(w) /\ ~Upsert(w) /\ ~Return(w)
  <2>1. UNCHANGED <<files, documents, jobs, chunks, points, succeeded>>
    BY <1>7 DEF TaskStep, StepFails, SelectJob, ReadDocument, ParseDocument, SaveAssets,
                DeleteChunks, DeleteAssets, CommitAssets, ListChunks, Embed, CollectionExists,
                CreateCollection, RetryOrRaise
  <2> QED BY <2>1 DEF Kept
<1> QED BY <1>3, <1>4, <1>5, <1>6, <1>7

LEMMA StepKeeps == TypeInv /\ [Next]_vars => Kept
<1> SUFFICES ASSUME TypeInv, [Next]_vars PROVE Kept
  OBVIOUS
<1>1. Types
  BY TypesHold
<1>2. CASE Upload
  <2>1. UNCHANGED <<docVars, succeeded>>
    BY <1>2 DEF Upload, taskVars
  <2>2. /\ files \subseteq files' /\ documents \subseteq documents'
        /\ \A u \in Uploads : jobs[u] # NoRow => jobs'[u] # NoRow
    <3>1. ASSUME NEW v \in Uploads, CreateJob(v)
          PROVE  \A u \in Uploads : jobs[u] # NoRow => jobs'[u] # NoRow
      <4>1. [status |-> "queued", error |-> FALSE] # NoRow
        BY DEF NoRow
      <4> QED BY <1>1, <3>1, <4>1 DEF CreateJob, Types
    <3>2. ASSUME NEW v \in Uploads, UploadStep(v), ~CreateJob(v)
          PROVE  UNCHANGED jobs /\ files \subseteq files' /\ documents \subseteq documents'
      BY <3>2 DEF UploadStep, Receive, SaveFile, CreateDocument, RejectDuplicate, Dispatch,
                  UploadStepFails, storeVars
    <3>3. ASSUME NEW v \in Uploads, CreateJob(v) PROVE UNCHANGED <<files, documents>>
      BY <3>3 DEF CreateJob
    <3> QED BY <1>2, <3>1, <3>2, <3>3 DEF Upload, UploadNext, ApiCrash, storeVars
  <2> QED BY <2>1, <2>2 DEF Kept, docVars
<1>3. ASSUME NEW w \in Workers, Work(w) PROVE Kept
  BY <1>3, TaskKeeps DEF Work
<1>4. ASSUME NEW w \in Workers, Delivery(w) PROVE Kept
  BY <1>4 DEF Delivery, WorkerCrash, Fetch, Start, Redeliver, storeVars, docVars, Kept
<1>5. CASE UNCHANGED vars
  BY <1>5 DEF vars, storeVars, taskVars, docVars, Kept
<1> QED BY <1>2, <1>3, <1>4, <1>5 DEF Next, Deliver

-----------------------------------------------------------------------------
LEMMA AllowedStays ==
  ASSUME Kept, NEW u \in Uploads, NEW t \in Task, Allowed(u, t) PROVE Allowed(u, t)'
BY DEF Kept, Allowed

LEMMA SearchableStays ==
  ASSUME Kept, NEW e, Textual \subseteq Uploads, SearchableInv(e) PROVE SearchableInv(e)'
<1>1. PICK u : u = e.job
  OBVIOUS
<1>2. u \in Textual => (chunks[u] # {} => chunks'[u] # {}) /\ (points[u] # {} => points'[u] # {})
  BY DEF Kept
<1> QED BY <1>1, <1>2 DEF SearchableInv

(***************************************************************************)
(* Whatever carries a task stays justified: messages move or are copied as *)
(* they are, a retry publishes the task it retries, and a task that        *)
(* returns publishes its successor after it has returned.                  *)
(***************************************************************************)
LEMMA TaskCarriers ==
  ASSUME TypeInv, CarriersInv, Kept, NEW w \in Workers, TaskStep(w)
  PROVE  CarriersInv'
<1>1. Types
  BY TypesHold
<1>2. Executes(w) /\ exec[w] \in Running /\ Job(w) \in Uploads /\ Job(w) = exec[w].job
  BY <1>1, TaskStepMoves, RunningTypes DEF Types
<1>3. /\ \A v \in Workers : v # w => exec'[v] = exec[v]
      /\ exec'[w].pc # "idle" => exec'[w].job = exec[w].job /\ exec'[w].task = exec[w].task
  BY <1>1, TaskStepMoves DEF Types
<1>4. PICK u \in Uploads, t \in Task : u = Job(w) /\ t = exec[w].task /\ Allowed(u, t)
  BY <1>2 DEF CarriersInv, Running
<1>5. Allowed(u, t)'
  BY <1>4, AllowedStays
<1>6. \A m \in Message : Allowed(m.job, m.task) => Allowed(m.job, m.task)'
  BY AllowedStays DEF Message
<1>7. UNCHANGED <<unacked, reserved>>
  BY DEF TaskStep, StepFails, SelectJob, CommitJob, ReadDocument, ParseDocument, SaveAssets,
         DeleteChunks, CommitChunks, DeleteAssets, CommitAssets, ListChunks, Embed,
         CollectionExists, CreateCollection, Upsert, Return, RetryOrRaise, Quiet, brokerVars
<1>8. ASSUME NEW v \in Workers, Executes(v)' PROVE Allowed(Job(v), exec[v].task)'
  <2>1. CASE v = w
    BY <1>2, <1>3, <1>4, <1>5, <1>8, <2>1 DEF Executes, Job, Allowed
  <2>2. CASE v # w
    <3>1. exec'[v] = exec[v] /\ Executes(v)
      BY <1>3, <1>8, <2>2 DEF Executes
    <3>2. exec[v].job \in Uploads /\ exec[v].task \in Task
      BY <3>1, RunningTypes DEF Running
    <3>3. Allowed(exec[v].job, exec[v].task)
      BY <3>1 DEF CarriersInv, Job
    <3> QED BY <3>1, <3>2, <3>3 DEF Job, Allowed, Kept
  <2> QED BY <2>1, <2>2
<1>9. \A m \in queue' : Allowed(m.job, m.task)'
  <2>1. CASE Return(w)
    <3>1. succeeded'[u] = succeeded[u] \cup {t}
      BY <1>1, <1>4, <2>1 DEF Return, Types
    <3>2. queue' = queue \cup RestOfChain(exec[w]) \/ queue' = queue
      BY <2>1 DEF Return, Publish
    <3>3. ASSUME NEW m \in RestOfChain(exec[w]) PROVE Allowed(m.job, m.task)'
      <4>1. m.job = u /\ t # "index_to_qdrant" /\ m.task = Successor[t]
        BY <1>2, <1>4, <3>3 DEF RestOfChain
      <4>2. Before(Successor[t]) = Before(t) \cup {t}
        BY <4>1 DEF Successor, Before, Task
      <4> QED BY <1>4, <1>5, <3>1, <4>1, <4>2 DEF Allowed
    <3> QED BY <1>1, <1>6, <3>2, <3>3 DEF CarriersInv, Types
  <2>2. CASE RetryOrRaise(w)
    <3>1. queue' = queue \cup Again(exec[w]) \/ queue' = queue
      BY <2>2 DEF RetryOrRaise, Publish
    <3>2. ASSUME NEW m \in Again(exec[w]) PROVE Allowed(m.job, m.task)'
      <4>1. m.job = u /\ m.task = t
        BY <1>2, <1>4, <3>2 DEF Again
      <4> QED BY <1>5, <4>1 DEF Allowed
    <3> QED BY <1>1, <1>6, <3>1, <3>2 DEF CarriersInv, Types
  <2>3. CASE ~Return(w) /\ ~RetryOrRaise(w)
    <3>1. UNCHANGED queue
      BY <2>3 DEF TaskStep, StepFails, SelectJob, CommitJob, ReadDocument, ParseDocument,
                  SaveAssets, DeleteChunks, CommitChunks, DeleteAssets, CommitAssets,
                  ListChunks, Embed, CollectionExists, CreateCollection, Upsert, Quiet,
                  storeVars
    <3> QED BY <1>1, <1>6, <3>1 DEF CarriersInv, Types
  <2> QED BY <2>1, <2>2, <2>3
<1>10. \A d \in unacked' : Allowed(d[2].job, d[2].task)'
  BY <1>1, <1>6, <1>7 DEF CarriersInv, Types
<1>11. \A v \in Workers : \A m \in reserved'[v] : Allowed(m.job, m.task)'
  BY <1>1, <1>6, <1>7 DEF CarriersInv, Types
<1> QED BY <1>8, <1>9, <1>10, <1>11 DEF CarriersInv

LEMMA DeliveryCarriers ==
  ASSUME TypeInv, CarriersInv, NEW w \in Workers, Delivery(w)
  PROVE  CarriersInv'
<1>1. Types
  BY TypesHold
<1>2. UNCHANGED <<files, documents, jobs, succeeded>>
  BY DEF Delivery, WorkerCrash, Fetch, Start, Redeliver, storeVars
<1>3. \A u, t : Allowed(u, t)' <=> Allowed(u, t)
  BY <1>2 DEF Allowed
<1>4. CASE WorkerCrash(w)
  BY <1>1, <1>3, <1>4 DEF WorkerCrash, CarriersInv, Types, Executes, Idle, Job, storeVars
<1>5. ASSUME NEW m \in queue, Fetch(w, m) PROVE CarriersInv'
  BY <1>1, <1>3, <1>5 DEF Fetch, CarriersInv, Types, Executes, Job
<1>6. ASSUME NEW m \in reserved[w], Start(w, m) PROVE CarriersInv'
  <2>1. m \in Message /\ Allowed(m.job, m.task)
    BY <1>1 DEF CarriersInv, Types
  <2>2. Enter(m).job = m.job /\ Enter(m).task = m.task
    BY <2>1, EnterType
  <2> QED BY <1>1, <1>3, <1>6, <2>1, <2>2 DEF Start, CarriersInv, Types, Executes, Job, storeVars
<1>7. ASSUME NEW d \in unacked, Redeliver(w, d[2]) PROVE CarriersInv'
  BY <1>1, <1>3, <1>7 DEF Redeliver, CarriersInv, Types, Executes, Job
<1> QED BY <1>4, <1>5, <1>6, <1>7 DEF Delivery

(***************************************************************************)
(* The upload handler publishes after it has stored everything.            *)
(***************************************************************************)
LEMMA UploadCarriers ==
  ASSUME TypeInv, CarriersInv, HandlerInv, Kept, Upload
  PROVE  CarriersInv' /\ HandlerInv'
<1>1. /\ Types
      /\ request \in [Uploads -> [pc : RequestPc, defects : SUBSET Defects, response : Response]]
  BY TypesHold DEF TypeInv, TypeOK, UploadTypeOK
<1>2. UNCHANGED <<reserved, unacked, exec, succeeded>>
  BY DEF Upload, taskVars, brokerVars
<1>3. \A m \in Message : Allowed(m.job, m.task) => Allowed(m.job, m.task)'
  BY AllowedStays DEF Message
<1>4. ASSUME \A m \in queue' : m \in queue \/ Allowed(m.job, m.task)' PROVE CarriersInv'
  <2>1. ASSUME NEW w \in Workers, Executes(w)' PROVE Allowed(Job(w), exec[w].task)'
    <3>1. Executes(w) /\ exec[w].job \in Uploads
      BY <1>2, <2>1, RunningTypes DEF Executes, Running
    <3>2. Allowed(exec[w].job, exec[w].task)
      BY <3>1 DEF CarriersInv, Job
    <3> QED BY <1>2, <3>1, <3>2 DEF Job, Allowed, Kept
  <2> QED BY <1>1, <1>2, <1>3, <1>4, <2>1 DEF CarriersInv, Types
<1>5. CASE ApiCrash
  <2>1. UNCHANGED <<files, documents, jobs, queue>>
    BY <1>5 DEF ApiCrash, storeVars
  <2>2. \A u \in Uploads : request'[u].pc \in {request[u].pc, "done"}
    BY <1>1, <1>5 DEF ApiCrash
  <2>3. HandlerInv'
    BY <2>1, <2>2 DEF HandlerInv
  <2> QED BY <1>4, <2>1, <2>3
<1>6. ASSUME NEW u \in Uploads, UploadStep(u) PROVE CarriersInv' /\ HandlerInv'
  <2> USE DEF At, GoTo, GoOn, Respond, storeVars
  <2>1. ASSUME /\ \A v \in Uploads : v # u => request'[v] = request[v]
               /\ \/ request'[u].pc \in {"done", "save"}
                  \/ request'[u].pc = "create_document" /\ u \in files'
                  \/ request'[u].pc = "create_job" /\ u \in files' \cap documents'
                  \/ /\ request'[u].pc = "dispatch" /\ u \in files' \cap documents'
                     /\ jobs'[u] # NoRow
        PROVE  HandlerInv'
    <3>1. ASSUME NEW v \in Uploads, v # u
          PROVE  /\ request'[v].pc = "create_document" => v \in files'
                 /\ request'[v].pc \in {"create_job", "dispatch"} => v \in files' \cap documents'
                 /\ request'[v].pc = "dispatch" => jobs'[v] # NoRow
      BY <2>1, <3>1 DEF HandlerInv, Kept
    <3> QED BY <2>1, <3>1 DEF HandlerInv
  <2>2. CASE Receive(u)
    <3>1. /\ request'[u].pc \in {"save", "done"} /\ UNCHANGED queue
          /\ \A v \in Uploads : v # u => request'[v] = request[v]
      BY <1>1, <2>2 DEF Receive
    <3> QED BY <1>4, <2>1, <3>1
  <2>3. CASE SaveFile(u)
    <3>1. /\ request'[u].pc \in {"create_document", "done"} /\ UNCHANGED queue
          /\ u \in files'
          /\ \A v \in Uploads : v # u => request'[v] = request[v]
      BY <1>1, <2>3 DEF SaveFile
    <3> QED BY <1>4, <2>1, <3>1
  <2>4. CASE CreateDocument(u)
    <3>1. /\ request'[u].pc \in {"create_job", "done"} /\ UNCHANGED queue
          /\ u \in documents' /\ u \in files'
          /\ \A v \in Uploads : v # u => request'[v] = request[v]
      BY <1>1, <2>4 DEF CreateDocument, HandlerInv
    <3> QED BY <1>4, <2>1, <3>1
  <2>5. CASE CreateJob(u)
    <3>1. /\ request'[u].pc \in {"dispatch", "done"} /\ UNCHANGED queue
          /\ u \in files' \cap documents'
          /\ \A v \in Uploads : v # u => request'[v] = request[v]
      BY <1>1, <2>5 DEF CreateJob, HandlerInv
    <3>2. jobs'[u] # NoRow
      BY <1>1, <2>5 DEF CreateJob, Types, NoRow
    <3> QED BY <1>4, <2>1, <3>1, <3>2
  <2>6. CASE Dispatch(u)
    <3>1. /\ request'[u].pc = "done" /\ queue' = queue \cup {FirstTask(u)}
          /\ UNCHANGED <<files, documents, jobs>> /\ request[u].pc = "dispatch"
          /\ \A v \in Uploads : v # u => request'[v] = request[v]
      BY <1>1, <2>6 DEF Dispatch
    <3>2. Allowed(u, "parse_document")'
      BY <3>1 DEF HandlerInv, Allowed, Before
    <3>3. FirstTask(u).job = u /\ FirstTask(u).task = "parse_document"
      BY DEF FirstTask
    <3>4. \A m \in queue' : m \in queue \/ Allowed(m.job, m.task)'
      BY <3>1, <3>2, <3>3 DEF Allowed
    <3> QED BY <1>4, <2>1, <3>1, <3>4
  <2>7. CASE RejectDuplicate(u) \/ UploadStepFails(u)
    <3>1. /\ request'[u].pc = "done" /\ UNCHANGED queue
          /\ \A v \in Uploads : v # u => request'[v] = request[v]
      BY <1>1, <2>7 DEF RejectDuplicate, UploadStepFails
    <3> QED BY <1>4, <2>1, <3>1
  <2> QED BY <1>6, <2>2, <2>3, <2>4, <2>5, <2>6, <2>7 DEF UploadStep
<1> QED BY <1>5, <1>6 DEF Upload, UploadNext

-----------------------------------------------------------------------------
(***************************************************************************)
(* What a task with text has committed, read or written is never empty.    *)
(***************************************************************************)
LEMMA TaskSearchable ==
  ASSUME TypeInv, CarriersInv, TablesInv, Kept, NEW w \in Workers, TaskStep(w),
         \A v \in Workers : Executes(v) => SearchableInv(exec[v])
  PROVE  \A v \in Workers : Executes(v)' => SearchableInv(exec[v])'
<1> DEFINE e == exec[w]
           Goal == \A v \in Workers : Executes(v)' => SearchableInv(exec[v])'
<1>1. Types
  BY TypesHold
<1>2. PICK u \in Uploads : /\ u = Job(w) /\ u = e.job
                           /\ e \in Running /\ SearchableInv(e) /\ Allowed(u, e.task)
                           /\ e.pc \in EmbedSteps => e.task = "embed_chunks"
  <2>1. Executes(w)
    BY <1>1, TaskStepMoves DEF Types
  <2> QED BY <2>1, RunningTypes DEF ControlInv, CarriersInv
<1>3. u \in Textual => /\ "parse_document" \in succeeded[u] => chunks[u] # {}
                       /\ chunks[u] # {} => chunks'[u] # {}
                       /\ points[u] # {} => points'[u] # {}
  BY <1>2 DEF TablesInv, Kept
<1>4. ASSUME NEW f, Become(w, f), f.pc # "idle" => SearchableInv(f)' PROVE Goal
  <2>1. exec'[w] = f /\ \A v \in Workers : v # w => exec'[v] = exec[v]
    BY <1>1, <1>4 DEF Types, Become
  <2>2. Executes(w)' => SearchableInv(exec[w])'
    BY <1>4, <2>1 DEF Executes, SearchableInv
  <2>3. ASSUME NEW v \in Workers, v # w, Executes(v)' PROVE SearchableInv(exec[v])'
    <3>1. Executes(v) /\ exec'[v] = exec[v]
      BY <2>1, <2>3 DEF Executes
    <3>2. PICK g : g = exec[v]
      OBVIOUS
    <3>3. SearchableInv(g)
      BY <3>1, <3>2
    <3>4. SearchableInv(g)'
      BY <1>1, <3>3, SearchableStays DEF Types
    <3> QED BY <3>1, <3>2, <3>4 DEF SearchableInv
  <2> QED BY <2>2, <2>3
<1>5. ASSUME Raise(w) PROVE Goal
  <2>1. PICK f : f = Raised(e)
    OBVIOUS
  <2>2. f.pc \in {"idle", "select_job"}
    BY <1>2, <2>1 DEF Raised, Idle, Running
  <2>3. f.pc # "idle" => SearchableInv(f)'
    BY <2>2 DEF SearchableInv
  <2> QED BY <1>4, <1>5, <2>1, <2>3 DEF Raise
<1>6. ASSUME NEW f, Proceed(w, f), SearchableInv(f)' PROVE Goal
  BY <1>4, <1>5, <1>6 DEF Proceed
<1> SUFFICES Goal
  OBVIOUS
<1> HIDE DEF Goal
<1>7. CASE SelectJob(w)
  <2>1. PICK f : f = [e EXCEPT !.pc = "commit_job", !.row = jobs[Job(w)]]
    OBVIOUS
  <2>2. f.pc = "commit_job"
    BY <1>2, <2>1 DEF Running
  <2>3. Become(w, f) \/ Raise(w)
    BY <1>2, <1>7, <2>1 DEF SelectJob
  <2>4. SearchableInv(f)'
    BY <2>2 DEF SearchableInv
  <2> QED BY <1>4, <1>5, <1>6, <2>3, <2>4
<1>8. CASE ReadDocument(w)
  <2>1. PICK f : f = [e EXCEPT !.pc = "parse"]
    OBVIOUS
  <2>2. f.pc = "parse"
    BY <1>2, <2>1 DEF Running
  <2>3. Become(w, f) \/ Raise(w)
    BY <1>2, <1>8, <2>1 DEF ReadDocument, Continue
  <2>4. SearchableInv(f)'
    BY <2>2 DEF SearchableInv
  <2> QED BY <1>4, <1>5, <1>6, <2>3, <2>4
<1>9. CASE ParseDocument(w)
  <2>1. PICK f : f = [e EXCEPT !.pc = "save_assets", !.parse = parses[Job(w)] + 1]
    OBVIOUS
  <2>2. f.pc = "save_assets"
    BY <1>2, <2>1 DEF Running
  <2>3. Become(w, f)
    BY <1>2, <1>9, <2>1 DEF ParseDocument
  <2>4. SearchableInv(f)'
    BY <2>2 DEF SearchableInv
  <2> QED BY <1>4, <1>5, <1>6, <2>3, <2>4
<1>10. CASE SaveAssets(w)
  <2>1. PICK f : f = [e EXCEPT !.pc = "delete_chunks"]
    OBVIOUS
  <2>2. f.pc = "delete_chunks"
    BY <1>2, <2>1 DEF Running
  <2>3. Proceed(w, f)
    BY <1>2, <1>10, <2>1 DEF SaveAssets
  <2>4. SearchableInv(f)'
    BY <2>2 DEF SearchableInv
  <2> QED BY <1>4, <1>5, <1>6, <2>3, <2>4
<1>11. CASE DeleteChunks(w)
  <2>1. PICK f : f = [e EXCEPT !.pc = "commit_chunks", !.seen = chunks[Job(w)]]
    OBVIOUS
  <2>2. f.pc = "commit_chunks"
    BY <1>2, <2>1 DEF Running
  <2>3. Become(w, f)
    BY <1>2, <1>11, <2>1 DEF DeleteChunks
  <2>4. SearchableInv(f)'
    BY <2>2 DEF SearchableInv
  <2> QED BY <1>4, <1>5, <1>6, <2>3, <2>4
<1>12. CASE CommitJob(w)
  <2>1. PICK f : f = [e EXCEPT !.pc = AfterCommit(e), !.row = NoRow]
    OBVIOUS
  <2>2. f.job = u /\ f.task = e.task /\ f.pc = AfterCommit(e)
    BY <1>2, <2>1 DEF Running
  <2>3. Proceed(w, f)
    BY <1>2, <1>12, <2>1 DEF CommitJob
  <2>4. f.pc = "return" => f.task = "index_to_qdrant"
    <3>1. Executes(w) /\ e.pc = "commit_job"
      BY <1>12 DEF CommitJob, Busy, Executes
    <3>2. /\ e.target \in {"processing", "completed", "failed"}
          /\ e.target = "completed" => e.task = "index_to_qdrant"
      BY <3>1, RunningTypes DEF ControlInv, Running
    <3> QED BY <2>2, <3>2 DEF AfterCommit
  <2>5. f.pc \in {"read", "return", "retry"}
    <3>1. Executes(w) /\ e.pc = "commit_job"
      BY <1>12 DEF CommitJob, Busy, Executes
    <3>2. e.target \in {"processing", "completed", "failed"}
      BY <3>1, RunningTypes DEF ControlInv, Running
    <3> QED BY <2>2, <3>2 DEF AfterCommit
  <2>6. SearchableInv(f)'
    BY <2>2, <2>4, <2>5 DEF SearchableInv
  <2> QED BY <1>6, <2>3, <2>6
<1>13. CASE CommitChunks(w)
  <2>1. PICK f : f = [e EXCEPT !.pc = "delete_assets", !.seen = {}]
    OBVIOUS
  <2>2. f.job = u /\ f.task = e.task /\ f.pc = "delete_assets"
    BY <1>2, <2>1 DEF Running
  <2>3. Proceed(w, f)
    BY <1>2, <1>13, <2>1 DEF CommitChunks
  <2>4. u \in Textual => chunks'[u] # {}
    BY <1>1, <1>2, <1>13 DEF CommitChunks, NewChunks, Types
  <2>5. SearchableInv(f)'
    BY <2>2, <2>4 DEF SearchableInv
  <2> QED BY <1>6, <2>3, <2>5
<1>14. CASE DeleteAssets(w)
  <2>1. PICK f : f = [e EXCEPT !.pc = "commit_assets", !.seen = assets[Job(w)]]
    OBVIOUS
  <2>2. f.job = u /\ f.task = e.task /\ f.pc = "commit_assets"
    BY <1>2, <2>1 DEF Running
  <2>3. Become(w, f)
    BY <1>2, <1>14, <2>1 DEF DeleteAssets
  <2>4. u \in Textual => chunks'[u] # {}
    BY <1>2, <1>3, <1>14 DEF DeleteAssets, Busy, SearchableInv
  <2>5. SearchableInv(f)'
    BY <2>2, <2>4 DEF SearchableInv
  <2> QED BY <1>4, <2>3, <2>5
<1>15. CASE CommitAssets(w)
  <2>1. PICK f : f = [e EXCEPT !.pc = "return", !.seen = {}]
    OBVIOUS
  <2>2. f.job = u /\ f.task = e.task /\ f.pc = "return"
    BY <1>2, <2>1 DEF Running
  <2>3. Proceed(w, f)
    BY <1>2, <1>15, <2>1 DEF CommitAssets
  <2>4. u \in Textual => chunks'[u] # {}
    BY <1>2, <1>3, <1>15 DEF CommitAssets, Busy, SearchableInv
  <2>5. e.task = "parse_document"
    <3>1. Executes(w) /\ e.pc = "commit_assets"
      BY <1>15 DEF CommitAssets, Busy, Executes
    <3>2. ControlInv(e)
      BY <3>1, RunningTypes
    <3> QED BY <1>2, <3>1, <3>2 DEF ControlInv, ParseSteps, Running
  <2>6. SearchableInv(f)'
    BY <2>2, <2>4, <2>5 DEF SearchableInv
  <2> QED BY <1>6, <2>3, <2>6
<1>16. CASE ListChunks(w)
  <2>1. PICK f : f = [e EXCEPT !.pc = "embed", !.seen = chunks[Job(w)]]
    OBVIOUS
  <2>2. f.job = u /\ f.task = e.task /\ f.pc = "embed" /\ f.seen = chunks[u]
    BY <1>2, <2>1 DEF Running
  <2>3. Become(w, f)
    BY <1>2, <1>16, <2>1 DEF ListChunks
  <2>4. u \in Textual => f.seen # {}
    BY <1>2, <1>3, <1>16, <2>2 DEF ListChunks, Busy, EmbedSteps, Allowed, Before
  <2>5. SearchableInv(f)'
    BY <2>2, <2>4 DEF SearchableInv
  <2> QED BY <1>4, <2>3, <2>5
<1>17. CASE Embed(w) \/ CollectionExists(w)
  <2>1. PICK pc \in {"collection_exists", "upsert", "create_collection"} :
          Continue(w, pc) /\ e.pc \in {"embed", "collection_exists"}
    BY <1>17 DEF Embed, CollectionExists, Busy
  <2>2. PICK f : f = [e EXCEPT !.pc = pc]
    OBVIOUS
  <2>3. f.job = u /\ f.pc = pc /\ f.seen = e.seen
    BY <1>2, <2>2 DEF Running
  <2>4. SearchableInv(f)'
    BY <1>2, <2>1, <2>3 DEF SearchableInv
  <2> QED BY <1>4, <2>1, <2>2, <2>4 DEF Continue
<1>18. CASE CreateCollection(w)
  <2>1. PICK f : f = [e EXCEPT !.pc = "upsert"]
    OBVIOUS
  <2>2. f.job = u /\ f.pc = "upsert" /\ f.seen = e.seen
    BY <1>2, <2>1 DEF Running
  <2>3. Proceed(w, f) \/ Raise(w)
    BY <1>2, <1>18, <2>1 DEF CreateCollection
  <2>4. SearchableInv(f)'
    BY <1>2, <1>18, <2>2 DEF SearchableInv, CreateCollection, Busy
  <2> QED BY <1>5, <1>6, <2>3, <2>4
<1>19. CASE Upsert(w)
  <2>1. PICK f : f = [e EXCEPT !.pc = "return", !.seen = {}]
    OBVIOUS
  <2>2. f.job = u /\ f.task = e.task /\ f.pc = "return"
    BY <1>2, <2>1 DEF Running
  <2>3. Proceed(w, f)
    BY <1>2, <1>19, <2>1 DEF Upsert
  <2>4. e.task = "embed_chunks"
    BY <1>2, <1>19 DEF Upsert, Busy, EmbedSteps
  <2>5. u \in Textual => points'[u] # {}
    BY <1>1, <1>2, <1>19 DEF Upsert, Busy, SearchableInv, Types
  <2>6. SearchableInv(f)'
    BY <2>2, <2>4, <2>5 DEF SearchableInv
  <2> QED BY <1>6, <2>3, <2>6
<1>20. CASE Return(w) \/ RetryOrRaise(w)
  <2>1. Become(w, Idle) /\ Idle.pc = "idle"
    BY <1>20 DEF Return, RetryOrRaise, Idle
  <2> QED BY <1>4, <2>1
<1>21. CASE StepFails(w)
  BY <1>5, <1>21 DEF StepFails
<1> QED
  BY <1>7, <1>8, <1>9, <1>10, <1>11, <1>12, <1>13, <1>14, <1>15, <1>16,
     <1>17, <1>18, <1>19, <1>20, <1>21 DEF TaskStep

(***************************************************************************)
(* A task that returns has done what its return claims; completed is       *)
(* written by the last task alone.                                         *)
(***************************************************************************)
LEMMA TaskTables ==
  ASSUME TypeInv, CarriersInv, TablesInv, Kept, NEW w \in Workers, TaskStep(w),
         \A v \in Workers : Executes(v) => SearchableInv(exec[v])
  PROVE  TablesInv'
<1> DEFINE e == exec[w]
<1>1. Types
  BY TypesHold
<1>2. PICK u \in Uploads : /\ u = Job(w) /\ u = e.job /\ Executes(w)
                           /\ e \in Running /\ SearchableInv(e) /\ Allowed(u, e.task)
  <2>1. Executes(w)
    BY <1>1, TaskStepMoves DEF Types
  <2> QED BY <2>1, RunningTypes DEF CarriersInv
<1>3. ASSUME UNCHANGED succeeded,
             \A v \in Uploads : jobs'[v].status = "completed" =>
               jobs[v].status = "completed" \/ "embed_chunks" \in succeeded[v]
      PROVE  TablesInv'
  BY <1>1, <1>3 DEF TablesInv, Kept, Types
<1>4. CASE Return(w)
  <2>1. succeeded' = [succeeded EXCEPT ![u] = @ \cup {e.task}] /\ UNCHANGED <<jobs, chunks, points>>
    BY <1>2, <1>4 DEF Return, docVars
  <2>2. /\ succeeded'[u] = succeeded[u] \cup {e.task}
        /\ \A v \in Uploads : v # u => succeeded'[v] = succeeded[v]
    BY <1>1, <2>1 DEF Types
  <2>3. u \in Textual => /\ e.task = "parse_document" => chunks[u] # {}
                         /\ e.task = "embed_chunks" => points[u] # {}
    BY <1>2, <1>4 DEF Return, Busy, SearchableInv
  <2> QED BY <1>1, <2>1, <2>2, <2>3 DEF TablesInv, Types
<1>5. CASE CommitJob(w)
  <2>1. UNCHANGED succeeded
    BY <1>5 DEF CommitJob, Quiet
  <2>2. /\ jobs'[u].status \in {e.target, jobs[u].status}
        /\ \A v \in Uploads : v # u => jobs'[v] = jobs[v]
    BY <1>2, <1>5, CommittedRow
  <2>3. e.target = "completed" => "embed_chunks" \in succeeded[u]
    BY <1>2, RunningTypes DEF ControlInv, Allowed, Before
  <2> QED BY <1>3, <2>1, <2>2, <2>3
<1>6. CASE ~Return(w) /\ ~CommitJob(w)
  <2>1. UNCHANGED <<jobs, succeeded>>
    BY <1>6 DEF TaskStep, StepFails, SelectJob, ReadDocument, ParseDocument, SaveAssets,
                DeleteChunks, CommitChunks, DeleteAssets, CommitAssets, ListChunks, Embed,
                CollectionExists, CreateCollection, Upsert, RetryOrRaise, Quiet, storeVars
  <2> QED BY <1>3, <2>1
<1> QED BY <1>4, <1>5, <1>6

LEMMA DeliverySearchable ==
  ASSUME TypeInv, TablesInv, NEW w \in Workers, Delivery(w),
         \A v \in Workers : Executes(v) => SearchableInv(exec[v])
  PROVE  TablesInv' /\ \A v \in Workers : Executes(v)' => SearchableInv(exec[v])'
<1>1. Types
  BY TypesHold
<1>2. UNCHANGED <<jobs, chunks, points, succeeded>>
  BY DEF Delivery, WorkerCrash, Fetch, Start, Redeliver, storeVars, docVars
<1>3. ASSUME NEW v \in Workers, Executes(v)'
      PROVE  exec'[v] = exec[v] \/ exec'[v].pc \in {"list_chunks", "select_job"}
  <2>1. CASE WorkerCrash(w)
    BY <1>1, <1>3, <2>1 DEF WorkerCrash, Executes, Idle, Types
  <2>2. ASSUME NEW m \in reserved[w], Start(w, m)
        PROVE  exec'[v] = exec[v] \/ exec'[v].pc \in {"list_chunks", "select_job"}
    <3>1. m \in Message
      BY <1>1 DEF Types
    <3> QED BY <1>1, <2>2, <3>1, EnterType DEF Start, Types
  <2>3. CASE UNCHANGED exec
    BY <2>3
  <2> QED BY <2>1, <2>2, <2>3 DEF Delivery, Fetch, Redeliver
<1>4. TablesInv'
  BY <1>2 DEF TablesInv
<1>5. ASSUME NEW v \in Workers, Executes(v)' PROVE SearchableInv(exec[v])'
  <2>1. CASE exec'[v] = exec[v]
    BY <1>2, <1>5, <2>1 DEF SearchableInv, Executes
  <2>2. CASE exec'[v].pc \in {"list_chunks", "select_job"}
    BY <2>2 DEF SearchableInv
  <2> QED BY <1>3, <1>5, <2>1, <2>2
<1> QED BY <1>4, <1>5

-----------------------------------------------------------------------------
LEMMA DuplicatesInvStep ==
  TypeInv /\ DuplicatesInv /\ [Next]_vars => DuplicatesInv'
<1> SUFFICES ASSUME TypeInv, DuplicatesInv, [Next]_vars PROVE DuplicatesInv'
  OBVIOUS
<1> USE DEF DuplicatesInv
<1>1. Types /\ Kept
  BY TypesHold, StepKeeps
<1>2. CASE Upload
  <2>1. UNCHANGED <<exec, docVars, succeeded>>
    BY <1>2 DEF Upload, taskVars
  <2>2. \A u \in Uploads : jobs'[u].status = "completed" => jobs[u].status = "completed"
    <3>1. ASSUME NEW v \in Uploads, CreateJob(v)
          PROVE  \A u \in Uploads : jobs'[u].status = "completed" => jobs[u].status = "completed"
      BY <1>1, <3>1 DEF CreateJob, Types
    <3>2. ASSUME NEW v \in Uploads, UploadStep(v), ~CreateJob(v) PROVE UNCHANGED jobs
      BY <3>2 DEF UploadStep, Receive, SaveFile, CreateDocument, RejectDuplicate, Dispatch,
                  UploadStepFails, storeVars
    <3> QED BY <1>2, <3>1, <3>2 DEF Upload, UploadNext, ApiCrash, storeVars
  <2>3. TablesInv'
    BY <2>1, <2>2 DEF TablesInv, docVars
  <2>4. \A w \in Workers : Executes(w)' => SearchableInv(exec[w])'
    BY <2>1 DEF SearchableInv, Executes, docVars
  <2> QED BY <1>1, <1>2, <2>3, <2>4, UploadCarriers
<1>3. ASSUME NEW w \in Workers, Work(w) PROVE DuplicatesInv'
  <2>1. TaskStep(w) /\ UNCHANGED request
    BY <1>3 DEF Work
  <2>2. CarriersInv'
    BY <1>1, <2>1, TaskCarriers
  <2>3. \A v \in Workers : Executes(v)' => SearchableInv(exec[v])'
    BY <1>1, <2>1, TaskSearchable
  <2>4. TablesInv'
    BY <1>1, <2>1, TaskTables
  <2>5. HandlerInv'
    BY <1>1, <2>1 DEF HandlerInv, Kept
  <2> QED BY <2>2, <2>3, <2>4, <2>5
<1>4. ASSUME NEW w \in Workers, Deliver(w) PROVE DuplicatesInv'
  <2>1. Delivery(w) /\ UNCHANGED request
    BY <1>4 DEF Deliver
  <2>2. CarriersInv'
    BY <2>1, DeliveryCarriers
  <2>3. HandlerInv'
    BY <1>1, <2>1 DEF HandlerInv, Kept
  <2> QED BY <2>1, <2>2, <2>3, DeliverySearchable
<1>5. CASE UNCHANGED vars
  <2>1. UNCHANGED <<files, documents, jobs, queue, request, reserved, unacked, exec, chunks,
                    points, succeeded>>
    BY <1>5 DEF vars, storeVars, taskVars, docVars, brokerVars
  <2>2. (CarriersInv /\ HandlerInv /\ TablesInv)'
    BY <2>1 DEF CarriersInv, HandlerInv, TablesInv, Allowed, Executes, Job
  <2>3. \A w \in Workers : Executes(w)' => SearchableInv(exec[w])'
    BY <2>1 DEF SearchableInv, Executes
  <2> QED BY <2>2, <2>3
<1> QED BY <1>2, <1>3, <1>4, <1>5 DEF Next

LEMMA DuplicatesInvInit == Init => DuplicatesInv
BY WorkersAssumption
   DEF Init, UploadInit, StoreInit, RequestInit, TasksInit, DuplicatesInv, CarriersInv,
       HandlerInv, TablesInv, Executes, Idle, NoRow

LEMMA DuplicatesInvHolds == Spec => [](TypeInv /\ DuplicatesInv)
<1>1. Init => TypeInv /\ DuplicatesInv
  BY TypeInvInit, DuplicatesInvInit
<1>2. TypeInv /\ DuplicatesInv /\ [Next]_vars => (TypeInv /\ DuplicatesInv)'
  BY TypeInvStep, DuplicatesInvStep
<1> QED BY <1>1, <1>2, PTL DEF Spec

(***************************************************************************)
(* What a worker executes was published by the chain and has its job,      *)
(* document and original (RunningIsJustified), even when a message is      *)
(* delivered twice (visibility timeout) and the tasks of a job overlap:    *)
(* messages follow the commits they rely on, and nothing is ever deleted.  *)
(***************************************************************************)
THEOREM ExecutedIsJustified == Spec => []RunningIsJustified
<1>1. TypeInv /\ DuplicatesInv => RunningIsJustified
  <2> SUFFICES ASSUME TypeInv, DuplicatesInv, NEW w \in Workers, Executes(w)
               PROVE  /\ Job(w) \in documents \cap files /\ jobs[Job(w)] # NoRow
                      /\ exec[w].task # "parse_document" => "parse_document" \in succeeded[Job(w)]
                      /\ exec[w].task = "index_to_qdrant" => "embed_chunks" \in succeeded[Job(w)]
    BY DEF RunningIsJustified
  <2>1. Allowed(Job(w), exec[w].task) /\ exec[w].task \in Task
    BY RunningTypes DEF DuplicatesInv, CarriersInv, Running
  <2> QED BY <2>1 DEF Allowed, Before, Task
<1> QED BY <1>1, DuplicatesInvHolds, PTL

(***************************************************************************)
(* A job reported completed can be searched if its document has text       *)
(* (CompletedIsSearchable), whatever races, fails or is repeated: a        *)
(* transaction that replaces chunks commits some (replace_for_document),   *)
(* points are only ever added (upsert_chunks), and completed follows both. *)
(***************************************************************************)
THEOREM CompletedJobIsSearchable == Spec => []CompletedIsSearchable
<1>1. TypeInv /\ DuplicatesInv => CompletedIsSearchable
  BY WorkersAssumption DEF DuplicatesInv, TablesInv, CompletedIsSearchable
<1> QED BY <1>1, DuplicatesInvHolds, PTL

-----------------------------------------------------------------------------
(***************************************************************************)
(* The upload endpoint on its own, for any number of concurrent uploads,   *)
(* any defects and fingerprints, and whatever step fails, loses its reply  *)
(* or is cut off by the death of the API process.                          *)
(***************************************************************************)
QueuedRow == [status |-> "queued", error |-> FALSE]

\* Nothing of the upload is stored.
Untouched(u) ==
  /\ u \notin files \cup documents
  /\ jobs[u] = NoRow
  /\ \A m \in queue : m.job # u

\* A row refers to what was stored before it, and so does a message.
Grounded(u) ==
  /\ u \in documents => u \in files
  /\ jobs[u] # NoRow => u \in documents
  /\ \A m \in queue : m.job = u => u \in files \cap documents /\ jobs[u] # NoRow

\* How far the effects of the handler have come, step by step. A handler that
\* ended leaves any prefix of them, unless its response says which.
Progress(u) ==
  /\ request[u].pc \in {"idle", "save"} => Untouched(u)
  /\ request[u].pc = "create_document" => u \in files \ documents
  /\ request[u].pc \in {"create_document", "create_job"} => jobs[u] = NoRow
  /\ request[u].pc \in {"create_job", "dispatch"} => u \in files \cap documents
  /\ request[u].pc = "dispatch" => jobs[u] = QueuedRow
  /\ request[u].pc # "done" => /\ request[u].response = NoResponse
                               /\ \A m \in queue : m.job # u
  /\ request[u].response \in Rejections => Untouched(u)
  /\ request[u].response = 202 => /\ u \in files \cap documents
                                  /\ jobs[u] = QueuedRow
                                  /\ FirstTask(u) \in queue

UploadInvariant ==
  /\ UploadTypeOK
  /\ \A u \in Uploads : Grounded(u) /\ Progress(u)
  /\ OneDocumentPerFingerprint

-----------------------------------------------------------------------------
\* A step of the handler of u changes nothing of another upload.
OnlyOf(u) ==
  /\ \A v \in Uploads \ {u} : /\ request'[v] = request[v]
                              /\ jobs'[v] = jobs[v]
  /\ files' \in {files, files \cup {u}}
  /\ documents' \in {documents, documents \cup {u}}
  /\ queue' \in {queue, queue \cup {FirstTask(u)}}

LEMMA Elsewhere ==
  ASSUME NEW u \in Uploads, NEW v \in Uploads \ {u}, OnlyOf(u), Grounded(v), Progress(v)
  PROVE  Grounded(v)' /\ Progress(v)'
<1>1. FirstTask(u).job = u
  BY DEF FirstTask
<1>2. \A m \in queue' : m.job = v => m \in queue
  BY <1>1 DEF OnlyOf
<1>3. /\ queue \subseteq queue' /\ request'[v] = request[v] /\ jobs'[v] = jobs[v]
      /\ v \in files' <=> v \in files
      /\ v \in documents' <=> v \in documents
  BY DEF OnlyOf
<1>4. Untouched(v) => Untouched(v)'
  BY <1>2, <1>3 DEF Untouched
<1>5. Grounded(v)'
  BY <1>2, <1>3 DEF Grounded
<1>6. Progress(v)'
  BY <1>2, <1>3, <1>4 DEF Progress
<1> QED BY <1>5, <1>6

\* The response a handler ends with claims nothing when it is a 500.
LEMMA ErrorClaimsNothing == /\ 500 \notin Rejections /\ 202 \notin Rejections
                            /\ NoResponse \notin Rejections
                            /\ NoResponse # 202
BY DEF Rejections, NoResponse

LEMMA EndedProgress ==
  ASSUME NEW u \in Uploads, request'[u].pc = "done", request'[u].response = 500
  PROVE  Progress(u)'
BY ErrorClaimsNothing DEF Progress

LEMMA StepKeepsProgress ==
  ASSUME UploadInvariant, NEW u \in Uploads, UploadStep(u)
  PROVE  OnlyOf(u) /\ Grounded(u)' /\ Progress(u)'
<1>1. /\ request \in [Uploads -> [pc : RequestPc, defects : SUBSET Defects, response : Response]]
      /\ jobs \in [Uploads -> JobRow \cup {NoRow}]
      /\ Grounded(u) /\ Progress(u)
  BY DEF UploadInvariant, UploadTypeOK, StoreTypeOK
<1>2. FirstTask(u).job = u /\ QueuedRow # NoRow
  BY DEF FirstTask, QueuedRow, NoRow
<1>3. ASSUME NEW code, Respond(u, code)
      PROVE  /\ \A v \in Uploads \ {u} : request'[v] = request[v]
             /\ request'[u].pc = "done" /\ request'[u].response = code
  BY <1>1, <1>3 DEF Respond
<1>4. ASSUME NEW pc, GoTo(u, pc)
      PROVE  /\ \A v \in Uploads \ {u} : request'[v] = request[v]
             /\ request'[u].pc = pc /\ request'[u].response = request[u].response
  BY <1>1, <1>4 DEF GoTo
<1>5. ASSUME Respond(u, 500) PROVE Progress(u)'
  BY <1>3, <1>5, EndedProgress
<1>6. CASE Receive(u)
  <2>1. PICK d \in Requests :
          request' = [request EXCEPT ![u] =
            IF d = {} THEN [pc |-> "save", defects |-> d, response |-> NoResponse]
                      ELSE [pc |-> "done", defects |-> d, response |-> Verdict(d)]]
    BY <1>6 DEF Receive
  <2>2. UNCHANGED storeVars /\ Untouched(u)
    BY <1>1, <1>6 DEF Receive, At, Progress
  <2>3. Untouched(u)' /\ Grounded(u)'
    BY <1>1, <2>2 DEF Untouched, Grounded, storeVars
  <2>4. OnlyOf(u)
    BY <1>1, <2>1, <2>2 DEF OnlyOf, storeVars
  <2>5. CASE d = {}
    <3>1. request'[u].pc = "save" /\ request'[u].response = NoResponse
      BY <1>1, <2>1, <2>5
    <3> QED BY <2>3, <2>4, <3>1, ErrorClaimsNothing DEF Progress, Untouched
  <2>6. CASE d # {}
    <3>1. request'[u].pc = "done" /\ request'[u].response = Verdict(d)
      BY <1>1, <2>1, <2>6
    <3>2. Verdict(d) \in Rejections \cup {500}
      BY <2>6, RequestsAssumption, VerdictType
    <3>3. Verdict(d) # 202
      BY <3>2, ErrorClaimsNothing
    <3> QED BY <2>3, <2>4, <3>1, <3>3 DEF Progress
  <2> QED BY <2>5, <2>6
<1>7. CASE SaveFile(u)
  <2>1. /\ files' = files \cup {u} /\ UNCHANGED <<documents, jobs, queue>>
        /\ request[u].pc = "save" /\ Untouched(u) /\ request[u].response = NoResponse
    BY <1>1, <1>7 DEF SaveFile, At, Progress
  <2>2. Grounded(u)'
    BY <2>1 DEF Untouched, Grounded
  <2>3. CASE GoTo(u, "create_document")
    BY <1>4, <2>1, <2>2, <2>3, ErrorClaimsNothing DEF OnlyOf, Progress, Untouched
  <2>4. CASE Respond(u, 500)
    BY <1>3, <1>5, <2>1, <2>2, <2>4 DEF OnlyOf
  <2> QED BY <1>7, <2>3, <2>4 DEF SaveFile, GoOn
<1>8. CASE CreateDocument(u)
  <2>1. /\ documents' = documents \cup {u} /\ UNCHANGED <<files, jobs, queue>>
        /\ request[u].pc = "create_document" /\ u \in files /\ jobs[u] = NoRow
        /\ request[u].response = NoResponse /\ \A m \in queue : m.job # u
    BY <1>1, <1>8 DEF CreateDocument, At, Progress
  <2>2. Grounded(u)'
    BY <2>1 DEF Grounded
  <2>3. CASE GoTo(u, "create_job")
    BY <1>4, <2>1, <2>2, <2>3, ErrorClaimsNothing DEF OnlyOf, Progress
  <2>4. CASE Respond(u, 500)
    BY <1>3, <1>5, <2>1, <2>2, <2>4 DEF OnlyOf
  <2> QED BY <1>8, <2>3, <2>4 DEF CreateDocument, GoOn
<1>9. CASE CreateJob(u)
  <2>1. /\ jobs' = [jobs EXCEPT ![u] = QueuedRow] /\ UNCHANGED <<files, documents, queue>>
        /\ request[u].pc = "create_job" /\ u \in files \cap documents
        /\ request[u].response = NoResponse /\ \A m \in queue : m.job # u
    BY <1>1, <1>9 DEF CreateJob, At, Progress, QueuedRow
  <2>2. jobs'[u] = QueuedRow /\ \A v \in Uploads \ {u} : jobs'[v] = jobs[v]
    BY <1>1, <2>1
  <2>3. Grounded(u)'
    BY <2>1 DEF Grounded
  <2>4. CASE GoTo(u, "dispatch")
    BY <1>4, <2>1, <2>2, <2>3, <2>4, ErrorClaimsNothing DEF OnlyOf, Progress
  <2>5. CASE Respond(u, 500)
    BY <1>3, <1>5, <2>1, <2>2, <2>3, <2>5 DEF OnlyOf
  <2> QED BY <1>9, <2>4, <2>5 DEF CreateJob, GoOn
<1>10. CASE Dispatch(u)
  <2>1. /\ queue' = queue \cup {FirstTask(u)} /\ UNCHANGED <<files, documents, jobs>>
        /\ u \in files \cap documents /\ jobs[u] = QueuedRow
    BY <1>1, <1>10 DEF Dispatch, At, Progress
  <2>2. Grounded(u)'
    BY <1>2, <2>1 DEF Grounded
  <2>3. CASE Respond(u, 202)
    BY <1>3, <2>1, <2>2, <2>3, ErrorClaimsNothing DEF OnlyOf, Progress
  <2>4. CASE Respond(u, 500)
    BY <1>3, <1>5, <2>1, <2>2, <2>4 DEF OnlyOf
  <2> QED BY <1>10, <2>3, <2>4 DEF Dispatch
<1>11. CASE RejectDuplicate(u) \/ UploadStepFails(u)
  <2>1. Respond(u, 500) /\ UNCHANGED storeVars
    BY <1>11 DEF RejectDuplicate, UploadStepFails
  <2>2. Grounded(u)'
    BY <1>1, <2>1 DEF Grounded, storeVars
  <2> QED BY <1>3, <1>5, <2>1, <2>2 DEF OnlyOf, storeVars
<1> QED BY <1>6, <1>7, <1>8, <1>9, <1>10, <1>11 DEF UploadStep

LEMMA UploadInvariantInit == UploadInit => UploadInvariant
<1> SUFFICES ASSUME UploadInit PROVE UploadInvariant
  OBVIOUS
<1> USE DEF UploadInit, StoreInit, RequestInit
<1>1. UploadTypeOK
  BY DEF UploadTypeOK, StoreTypeOK, RequestPc, Response
<1>2. \A u \in Uploads : Grounded(u) /\ Progress(u)
  BY ErrorClaimsNothing DEF Grounded, Progress, Untouched
<1> QED BY <1>1, <1>2 DEF UploadInvariant, OneDocumentPerFingerprint

LEMMA UploadInvariantStep == UploadInvariant /\ [UploadNext]_uploadVars => UploadInvariant'
<1>1. ASSUME UploadInvariant, NEW u \in Uploads, UploadStep(u)
      PROVE  UploadInvariant'
  <2>1. UploadTypeOK'
    BY <1>1, UploadType DEF UploadNext, UploadInvariant
  <2>2. OnlyOf(u) /\ Grounded(u)' /\ Progress(u)'
    BY <1>1, StepKeepsProgress
  <2>3. \A v \in Uploads : Grounded(v)' /\ Progress(v)'
    BY <1>1, <2>2, Elsewhere DEF UploadInvariant
  <2>4. OneDocumentPerFingerprint'
    <3>1. CASE CreateDocument(u)
      BY <1>1, <3>1
         DEF CreateDocument, Duplicate, OneDocumentPerFingerprint, UploadInvariant
    <3>2. CASE ~CreateDocument(u)
      <4>1. documents' = documents
        BY <1>1, <3>2 DEF UploadStep, Receive, SaveFile, RejectDuplicate, CreateJob,
                          Dispatch, UploadStepFails, storeVars
      <4> QED BY <1>1, <4>1 DEF OneDocumentPerFingerprint, UploadInvariant
    <3> QED BY <3>1, <3>2
  <2> QED BY <2>1, <2>3, <2>4 DEF UploadInvariant
<1>2. ASSUME UploadInvariant, ApiCrash
      PROVE  UploadInvariant'
  <2>1. UploadTypeOK'
    BY <1>2, UploadType DEF UploadNext, UploadInvariant
  <2>2. UNCHANGED storeVars
    BY <1>2 DEF ApiCrash
  <2>3. ASSUME NEW u \in Uploads PROVE Grounded(u)' /\ Progress(u)'
    <3>1. /\ request'[u].response = request[u].response
          /\ request'[u].pc \in {request[u].pc, "done"}
      BY <1>2, <2>3 DEF ApiCrash, UploadInvariant, UploadTypeOK
    <3>2. Grounded(u) /\ Progress(u)
      BY <1>2, <2>3 DEF UploadInvariant
    <3> QED BY <2>2, <3>1, <3>2 DEF Grounded, Progress, Untouched, storeVars
  <2>4. OneDocumentPerFingerprint'
    BY <1>2, <2>2 DEF UploadInvariant, OneDocumentPerFingerprint, storeVars
  <2> QED BY <2>1, <2>3, <2>4 DEF UploadInvariant
<1>3. ASSUME UploadInvariant, UNCHANGED uploadVars
      PROVE  UploadInvariant'
  <2>1. UNCHANGED <<files, documents, jobs, queue, request>>
    BY <1>3 DEF uploadVars, storeVars
  <2>2. ASSUME NEW u \in Uploads PROVE Grounded(u)' /\ Progress(u)'
    <3>1. Grounded(u) /\ Progress(u)
      BY <1>3 DEF UploadInvariant
    <3> QED BY <2>1, <3>1 DEF Grounded, Progress, Untouched
  <2> QED BY <1>3, <2>1, <2>2
          DEF UploadInvariant, UploadTypeOK, StoreTypeOK, OneDocumentPerFingerprint
<1> QED BY <1>1, <1>2, <1>3 DEF UploadNext

LEMMA UploadInvariantHolds == UploadSpec => []UploadInvariant
BY UploadInvariantInit, UploadInvariantStep, PTL DEF UploadSpec

-----------------------------------------------------------------------------
(***************************************************************************)
(* No worker takes a message whose rows or original are missing            *)
(* (PublishedIsStored): accept_upload publishes last, and nothing the API  *)
(* does afterwards, or fails to do, takes a stored thing away.             *)
(***************************************************************************)
THEOREM MessagesAreStored == UploadSpec => []PublishedIsStored
<1>1. UploadInvariant => PublishedIsStored
  BY DEF UploadInvariant, UploadTypeOK, StoreTypeOK, Message, Grounded, PublishedIsStored
<1> QED BY <1>1, UploadInvariantHolds, PTL

(***************************************************************************)
(* Every document has its original and every job its document              *)
(* (NoDanglingReference), wherever the handler of accept_upload fails or   *)
(* its process dies.                                                       *)
(***************************************************************************)
THEOREM ReferencesResolve == UploadSpec => []NoDanglingReference
<1>1. UploadInvariant => NoDanglingReference
  BY DEF UploadInvariant, UploadTypeOK, StoreTypeOK, Grounded, NoDanglingReference
<1> QED BY <1>1, UploadInvariantHolds, PTL

(***************************************************************************)
(* The same bytes of one tenant become at most one document                *)
(* (OneDocumentPerFingerprint), however many uploads of them overlap       *)
(* between their check and their insert (UNIQUE (tenant_id, sha256)).      *)
(***************************************************************************)
THEOREM FingerprintsAreUnique == UploadSpec => []OneDocumentPerFingerprint
<1>1. UploadInvariant => OneDocumentPerFingerprint
  BY DEF UploadInvariant
<1> QED BY <1>1, UploadInvariantHolds, PTL

(***************************************************************************)
(* A refused upload has left nothing and an accepted one everything        *)
(* (ResponseTellsOutcome): validation precedes every effect, and 202 is    *)
(* answered after the last of them (upload_document, accept_upload).       *)
(***************************************************************************)
THEOREM ResponsesAreTrue == UploadSpec => []ResponseTellsOutcome
<1>1. UploadInvariant => ResponseTellsOutcome
  BY DEF UploadInvariant, Progress, Untouched, QueuedRow, ResponseTellsOutcome
<1> QED BY <1>1, UploadInvariantHolds, PTL
=============================================================================
