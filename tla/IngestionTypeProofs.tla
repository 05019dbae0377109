------------------------- MODULE IngestionTypeProofs -------------------------
(***************************************************************************)
(* Type correctness of the ingestion pipeline, for any uploads, workers,   *)
(* retry limit, faults, crashes and redeliveries.                          *)
(***************************************************************************)
EXTENDS IngestionInvariant, TLAPS, WellFoundedInduction

ControlOK == \A w \in Workers : Executes(w) => ControlInv(exec[w])

\* The row a worker is about to update exists: job rows are never deleted.
RowExists == \A w \in Workers : Busy(w, "commit_job") => jobs[Job(w)] # NoRow

TypeInv == TypeOK /\ ControlOK /\ RowExists

-----------------------------------------------------------------------------
(***************************************************************************)
(* The response to a defective request is one of those the handler has.    *)
(***************************************************************************)
LEMMA VerdictType ==
  ASSUME NEW d \in SUBSET Defects, d # {}
  PROVE  Verdict(d) \in Rejections \cup {500}
<1> DEFINE Hits == {i \in 1..9 : Checks[i].defect \in d}
<1>1. DOMAIN Checks = 1..9
  BY DEF Checks
<1>2. Hits # {}
  BY <1>1 DEF Defects
<1>0. Hits \subseteq Nat
  OBVIOUS
<1>3. \E i \in Hits : \A j \in Hits : <<j, i>> \notin OpToRel(<, Nat)
  BY ZenonT(40), <1>2, <1>0, NatLessThanWellFounded, WFMin
<1>4. PICK i \in Hits : \A j \in Hits : ~(j < i)
  BY <1>3, <1>0, Zenon DEF OpToRel
<1>5. Verdict(d) \in {Checks[k].response : k \in 1..9}
  <2>1. \E k \in DOMAIN Checks : /\ Checks[k].defect \in d
                                /\ \A j \in 1..(k - 1) : Checks[j].defect \notin d
    BY <1>1, <1>4, \A j \in 1..(i - 1) : j \in 1..9 /\ j < i
  <2> QED BY <1>1, <2>1 DEF Verdict
<1> QED BY <1>5 DEF Checks, Rejections

-----------------------------------------------------------------------------
(***************************************************************************)
(* The states a task can move to are well typed and keep the control       *)
(* invariant.                                                              *)
(***************************************************************************)
LEMMA RaisedType ==
  ASSUME NEW e \in Running
  PROVE  /\ Raised(e) \in Running \cup {Idle}
         /\ Raised(e).pc # "idle" => ControlInv(Raised(e)) /\ Raised(e).job = e.job
BY ZenonT(40) DEF Raised, Running, Idle, ControlInv, Pc, ParseSteps, EmbedSteps

LEMMA EnterType ==
  ASSUME NEW m \in Message
  PROVE  /\ Enter(m) \in Running
         /\ ControlInv(Enter(m))
         /\ Enter(m).job = m.job
         /\ Enter(m).task = m.task
         /\ Enter(m).pc \in {"list_chunks", "select_job"}
BY DEF Enter, Message, Task, Running, Idle, ControlInv, Pc, ParseSteps, EmbedSteps

LEMMA BecomeType ==
  ASSUME exec \in [Workers -> Running \cup {Idle}], ControlOK,
         NEW w \in Workers, NEW e \in Running \cup {Idle}, Become(w, e),
         e.pc # "idle" => ControlInv(e)
  PROVE  /\ exec' \in [Workers -> Running \cup {Idle}]
         /\ ControlOK'
BY DEF Become, ControlOK, Executes

(***************************************************************************)
(* What an UPDATE of the changed columns leaves in the row: a row, and the *)
(* row that was wanted when nothing came between SELECT and UPDATE.        *)
(***************************************************************************)
LEMMA UpdateType ==
  ASSUME NEW now \in JobRow, NEW wanted \in JobRow, NEW selected
  PROVE  /\ Update(selected, now, wanted) \in JobRow
         /\ selected = now => Update(selected, now, wanted) = wanted
BY DEF Update, JobRow

LEMMA RowType == NoRow \notin JobRow
BY DEF NoRow, JobRow, Status

(***************************************************************************)
(* Message types of what the two last steps publish.                       *)
(***************************************************************************)
LEMMA RestOfChainType ==
  ASSUME NEW e \in Running PROVE RestOfChain(e) \subseteq Message
BY MaxRetriesAssumption DEF RestOfChain, Running, Message, Successor, Task

LEMMA AgainType ==
  ASSUME NEW e \in Running PROVE Again(e) \subseteq Message
BY MaxRetriesAssumption DEF Again, Running, Message, Task

-----------------------------------------------------------------------------
(***************************************************************************)
(* Type correctness is inductive together with the control invariant: the  *)
(* status a commit writes is one of the four only because the handler sets *)
(* the target first.                                                       *)
(***************************************************************************)
LEMMA UploadType ==
  ASSUME UploadTypeOK, UploadNext PROVE UploadTypeOK'
<1> USE DEF UploadTypeOK, StoreTypeOK, storeVars
<1>1. CASE ApiCrash
  BY <1>1 DEF ApiCrash, RequestPc, InFlight
<1>2. ASSUME NEW u \in Uploads, UploadStep(u) PROVE UploadTypeOK'
  <2> DEFINE RequestOK == request \in [Uploads -> [pc : RequestPc,
                                        defects : SUBSET Defects, response : Response]]
  <2>0. ASSUME NEW code \in {202, 500}, Respond(u, code) PROVE RequestOK'
    <3>1. "done" \in RequestPc /\ code \in Response
      BY <2>0 DEF RequestPc, Response
    <3>2. RequestOK
      OBVIOUS
    <3>3. request[u].defects \in SUBSET Defects
      BY <3>2
    <3> QED BY <2>0, <3>1, <3>2, <3>3 DEF Respond
  <2>1. ASSUME NEW pc \in RequestPc, GoOn(u, pc) PROVE RequestOK'
    BY <2>0, <2>1 DEF GoOn, GoTo
  <2>2. CASE Receive(u)
    BY <2>2, RequestsAssumption, VerdictType
       DEF Receive, RequestPc, Response, Rejections, NoResponse
  <2>3. CASE SaveFile(u)
    BY <2>1, <2>3 DEF SaveFile, RequestPc
  <2>4. CASE CreateDocument(u)
    BY <2>1, <2>4 DEF CreateDocument, RequestPc
  <2>5. CASE RejectDuplicate(u)
    BY <2>0, <2>5 DEF RejectDuplicate
  <2>6. CASE CreateJob(u)
    <3>1. jobs' \in [Uploads -> JobRow \cup {NoRow}]
      BY <2>6 DEF CreateJob, JobRow, Status
    <3> QED BY <2>1, <2>6, <3>1 DEF CreateJob, RequestPc
  <2>7. CASE Dispatch(u)
    <3>1. FirstTask(u) \in Message
      BY MaxRetriesAssumption DEF FirstTask, Message, Task
    <3> QED BY <2>0, <2>7, <3>1 DEF Dispatch
  <2>8. CASE UploadStepFails(u)
    BY <2>0, <2>8 DEF UploadStepFails
  <2> QED BY <1>2, <2>2, <2>3, <2>4, <2>5, <2>6, <2>7, <2>8 DEF UploadStep
<1> QED BY <1>1, <1>2 DEF UploadNext

(***************************************************************************)
(* A step of a task body is a step of the worker that executes the task;   *)
(* until the task ends it stays a task of the same name and job.           *)
(***************************************************************************)
LEMMA TaskStepMoves ==
  ASSUME exec \in [Workers -> Running \cup {Idle}], NEW w \in Workers, TaskStep(w)
  PROVE  /\ Executes(w) /\ exec[w] \in Running
         /\ \A v \in Workers : v # w => exec'[v] = exec[v]
         /\ exec'[w].pc # "idle" =>
              exec'[w].job = exec[w].job /\ exec'[w].task = exec[w].task
<1> DEFINE e == exec[w]
           Same(f) == f.pc # "idle" => f.job = e.job /\ f.task = e.task
           Moved == /\ \A v \in Workers : v # w => exec'[v] = exec[v]
                    /\ Same(exec'[w])
<1>1. Executes(w)
  BY DEF TaskStep, StepFails, SelectJob, CommitJob, ReadDocument, ParseDocument,
         SaveAssets, DeleteChunks, CommitChunks, DeleteAssets, CommitAssets,
         ListChunks, Embed, CollectionExists, CreateCollection, Upsert, Return,
         RetryOrRaise, Busy, Executes
<1>2. e \in Running
  BY <1>1 DEF Executes, Idle
<1>3. ASSUME NEW f, Become(w, f), Same(f) PROVE Moved
  BY <1>3 DEF Become
<1>4. Same(Raised(e)) /\ Same(Idle)
  BY <1>2 DEF Raised, Idle, Running
<1>5. ASSUME Raise(w) PROVE Moved
  BY <1>3, <1>4, <1>5 DEF Raise
<1>6. ASSUME NEW f, Proceed(w, f), Same(f) PROVE Moved
  BY <1>3, <1>5, <1>6 DEF Proceed
<1>7. ASSUME NEW pc, Continue(w, pc) PROVE Moved
  BY <1>2, <1>3, <1>7 DEF Continue, Running
<1> SUFFICES Moved
  BY <1>1, <1>2
<1> HIDE DEF Moved
<1>8. CASE StepFails(w) \/ ReadDocument(w) \/ Embed(w) \/ CollectionExists(w)
  BY <1>5, <1>7, <1>8 DEF StepFails, ReadDocument, Embed, CollectionExists
<1>9. CASE SelectJob(w)
  <2>1. PICK f : f = [e EXCEPT !.pc = "commit_job", !.row = jobs[Job(w)]]
    OBVIOUS
  <2>2. Same(f)
    BY <1>2, <2>1 DEF Running
  <2>3. Become(w, f) \/ Raise(w)
    BY <1>9, <2>1 DEF SelectJob
  <2> QED BY <1>3, <1>5, <1>6, <2>2, <2>3
<1>10. CASE CommitJob(w)
  <2>1. PICK f : f = [e EXCEPT !.pc = AfterCommit(e), !.row = NoRow]
    OBVIOUS
  <2>2. Same(f)
    BY <1>2, <2>1 DEF Running
  <2>3. Proceed(w, f)
    BY <1>10, <2>1 DEF CommitJob
  <2> QED BY <1>3, <1>5, <1>6, <2>2, <2>3
<1>11. CASE ParseDocument(w)
  <2>1. PICK f : f = [e EXCEPT !.pc = "save_assets", !.parse = parses[Job(w)] + 1]
    OBVIOUS
  <2>2. Same(f)
    BY <1>2, <2>1 DEF Running
  <2>3. Become(w, f)
    BY <1>11, <2>1 DEF ParseDocument
  <2> QED BY <1>3, <1>5, <1>6, <2>2, <2>3
<1>12. CASE SaveAssets(w)
  <2>1. PICK f : f = [e EXCEPT !.pc = "delete_chunks"]
    OBVIOUS
  <2>2. Same(f)
    BY <1>2, <2>1 DEF Running
  <2>3. Proceed(w, f)
    BY <1>12, <2>1 DEF SaveAssets
  <2> QED BY <1>3, <1>5, <1>6, <2>2, <2>3
<1>13. CASE DeleteChunks(w)
  <2>1. PICK f : f = [e EXCEPT !.pc = "commit_chunks", !.seen = chunks[Job(w)]]
    OBVIOUS
  <2>2. Same(f)
    BY <1>2, <2>1 DEF Running
  <2>3. Become(w, f)
    BY <1>13, <2>1 DEF DeleteChunks
  <2> QED BY <1>3, <1>5, <1>6, <2>2, <2>3
<1>14. CASE CommitChunks(w)
  <2>1. PICK f : f = [e EXCEPT !.pc = "delete_assets", !.seen = {}]
    OBVIOUS
  <2>2. Same(f)
    BY <1>2, <2>1 DEF Running
  <2>3. Proceed(w, f)
    BY <1>14, <2>1 DEF CommitChunks
  <2> QED BY <1>3, <1>5, <1>6, <2>2, <2>3
<1>15. CASE DeleteAssets(w)
  <2>1. PICK f : f = [e EXCEPT !.pc = "commit_assets", !.seen = assets[Job(w)]]
    OBVIOUS
  <2>2. Same(f)
    BY <1>2, <2>1 DEF Running
  <2>3. Become(w, f)
    BY <1>15, <2>1 DEF DeleteAssets
  <2> QED BY <1>3, <1>5, <1>6, <2>2, <2>3
<1>16. CASE CommitAssets(w)
  <2>1. PICK f : f = [e EXCEPT !.pc = "return", !.seen = {}]
    OBVIOUS
  <2>2. Same(f)
    BY <1>2, <2>1 DEF Running
  <2>3. Proceed(w, f)
    BY <1>16, <2>1 DEF CommitAssets
  <2> QED BY <1>3, <1>5, <1>6, <2>2, <2>3
<1>17. CASE ListChunks(w)
  <2>1. PICK f : f = [e EXCEPT !.pc = "embed", !.seen = chunks[Job(w)]]
    OBVIOUS
  <2>2. Same(f)
    BY <1>2, <2>1 DEF Running
  <2>3. Become(w, f)
    BY <1>17, <2>1 DEF ListChunks
  <2> QED BY <1>3, <1>5, <1>6, <2>2, <2>3
<1>18. CASE CreateCollection(w)
  <2>1. PICK f : f = [e EXCEPT !.pc = "upsert"]
    OBVIOUS
  <2>2. Same(f)
    BY <1>2, <2>1 DEF Running
  <2>3. Proceed(w, f) \/ Raise(w)
    BY <1>18, <2>1 DEF CreateCollection
  <2> QED BY <1>3, <1>5, <1>6, <2>2, <2>3
<1>19. CASE Upsert(w)
  <2>1. PICK f : f = [e EXCEPT !.pc = "return", !.seen = {}]
    OBVIOUS
  <2>2. Same(f)
    BY <1>2, <2>1 DEF Running
  <2>3. Proceed(w, f)
    BY <1>19, <2>1 DEF Upsert
  <2> QED BY <1>3, <1>5, <1>6, <2>2, <2>3
<1>20. CASE Return(w) \/ RetryOrRaise(w)
  BY <1>3, <1>4, <1>20 DEF Return, RetryOrRaise
<1> QED
  BY <1>8, <1>9, <1>10, <1>11, <1>12, <1>13, <1>14, <1>15,
     <1>16, <1>17, <1>18, <1>19, <1>20 DEF TaskStep

LEMMA TaskStepType ==
  ASSUME StoreTypeOK, TasksTypeOK, ControlOK, RowExists,
         NEW w \in Workers, TaskStep(w)
  PROVE  StoreTypeOK' /\ TasksTypeOK' /\ ControlOK'
<1> DEFINE e == exec[w]
<1>1. Executes(w) /\ e \in Running /\ ControlInv(e) /\ Job(w) \in Uploads
  <2>1. e.pc # "idle"
    BY DEF TaskStep, StepFails, SelectJob, CommitJob, ReadDocument, ParseDocument,
           SaveAssets, DeleteChunks, CommitChunks, DeleteAssets, CommitAssets,
           ListChunks, Embed, CollectionExists, CreateCollection, Upsert, Return,
           RetryOrRaise, Busy
  <2> QED BY <2>1 DEF TasksTypeOK, ControlOK, Executes, Running, Idle, Job
<1> USE DEF StoreTypeOK, TasksTypeOK, docVars, brokerVars, storeVars, Quiet
<1>2. ASSUME Raise(w) PROVE exec' \in [Workers -> Running \cup {Idle}] /\ ControlOK'
  BY <1>1, <1>2, RaisedType, BecomeType DEF Raise
<1>3. ASSUME NEW f \in Running, Proceed(w, f), ControlInv(f)
      PROVE  exec' \in [Workers -> Running \cup {Idle}] /\ ControlOK'
  BY <1>2, <1>3, BecomeType DEF Proceed
<1>4. CASE StepFails(w)
  BY <1>2, <1>4 DEF StepFails
<1>5. CASE SelectJob(w)
  <2>1. jobs[Job(w)] \in JobRow \cup {NoRow}
    BY <1>1
  <2> DEFINE f == [e EXCEPT !.pc = "commit_job", !.row = jobs[Job(w)]]
  <2>2. f \in Running /\ ControlInv(f)
    BY <1>1, <1>5, <2>1 DEF SelectJob, Busy, Running, Pc, ControlInv, ParseSteps, EmbedSteps
  <2>3. exec' \in [Workers -> Running \cup {Idle}] /\ ControlOK'
    BY <1>2, <1>5, <2>2, BecomeType DEF SelectJob
  <2> QED BY <1>5, <2>3 DEF SelectJob
<1>6. CASE CommitJob(w)
  <2> DEFINE f == [e EXCEPT !.pc = AfterCommit(e), !.row = NoRow]
  <2>1. e.pc = "commit_job" /\ e.target \in {"processing", "completed", "failed"}
    BY <1>1, <1>6 DEF CommitJob, Busy, ControlInv, Running
  <2>2. f \in Running /\ ControlInv(f)
    BY <1>1, <2>1 DEF AfterCommit, Running, Pc, ControlInv, ParseSteps, EmbedSteps
  <2>3. exec' \in [Workers -> Running \cup {Idle}] /\ ControlOK'
    BY <1>3, <1>6, <2>2 DEF CommitJob
  <2>4. jobs' \in [Uploads -> JobRow \cup {NoRow}]
    <3>1. jobs[Job(w)] \in JobRow \cup {NoRow}
      BY <1>1
    <3>2. Update(e.row, jobs[Job(w)], Wanted(e)) \in JobRow
      BY <2>1, <3>1, UpdateType DEF Wanted, RowExists, Busy, JobRow, Status
    <3> QED BY <1>1, <1>6, <3>2 DEF CommitJob
  <2> QED BY <1>6, <2>3, <2>4 DEF CommitJob
<1>7. ASSUME NEW pc \in Pc, Continue(w, pc), ControlInv([e EXCEPT !.pc = pc]), pc # "idle"
      PROVE  exec' \in [Workers -> Running \cup {Idle}] /\ ControlOK'
  <2>1. [e EXCEPT !.pc = pc] \in Running
    BY <1>1, <1>7 DEF Running
  <2> QED BY <1>7, <2>1, BecomeType DEF Continue
<1>8. CASE ReadDocument(w)
  <2>1. ControlInv([e EXCEPT !.pc = "parse"])
    BY <1>1, <1>8 DEF ReadDocument, Busy, ControlInv, Running, ParseSteps, EmbedSteps
  <2> QED BY <1>2, <1>7, <1>8, <2>1 DEF ReadDocument, Pc
<1>9. CASE ParseDocument(w)
  <2> DEFINE f == [e EXCEPT !.pc = "save_assets", !.parse = parses[Job(w)] + 1]
  <2>0. parses[Job(w)] + 1 \in Nat
    BY <1>1
  <2>1. f \in Running /\ ControlInv(f)
    BY <1>1, <1>9, <2>0 DEF ParseDocument, Busy, Running, Pc, ControlInv, ParseSteps, EmbedSteps
  <2>2. exec' \in [Workers -> Running \cup {Idle}] /\ ControlOK'
    BY <1>9, <2>1, BecomeType DEF ParseDocument
  <2> QED BY <1>1, <1>9, <2>0, <2>2 DEF ParseDocument
<1>10. e.parse \in Nat /\ e.seen \subseteq Nat
  BY <1>1 DEF Running
<1>11. CASE SaveAssets(w)
  <2> DEFINE f == [e EXCEPT !.pc = "delete_chunks"]
  <2>1. f \in Running /\ ControlInv(f)
    BY <1>1, <1>11 DEF SaveAssets, Busy, Running, Pc, ControlInv, ParseSteps, EmbedSteps
  <2>2. exec' \in [Workers -> Running \cup {Idle}] /\ ControlOK'
    BY <1>3, <1>11, <2>1 DEF SaveAssets
  <2> QED BY <1>1, <1>10, <1>11, <2>2 DEF SaveAssets, NewAssets
<1>12. CASE DeleteChunks(w)
  <2> DEFINE f == [e EXCEPT !.pc = "commit_chunks", !.seen = chunks[Job(w)]]
  <2>1. f \in Running /\ ControlInv(f)
    BY <1>1, <1>12 DEF DeleteChunks, Busy, Running, Pc, ControlInv, ParseSteps, EmbedSteps
  <2> QED BY <1>12, <2>1, BecomeType DEF DeleteChunks
<1>13. CASE CommitChunks(w)
  <2> DEFINE f == [e EXCEPT !.pc = "delete_assets", !.seen = {}]
  <2>1. f \in Running /\ ControlInv(f)
    BY <1>1, <1>13 DEF CommitChunks, Busy, Running, Pc, ControlInv, ParseSteps, EmbedSteps
  <2>2. exec' \in [Workers -> Running \cup {Idle}] /\ ControlOK'
    BY <1>3, <1>13, <2>1 DEF CommitChunks
  <2> QED BY <1>1, <1>10, <1>13, <2>2 DEF CommitChunks, NewChunks
<1>14. CASE DeleteAssets(w)
  <2> DEFINE f == [e EXCEPT !.pc = "commit_assets", !.seen = assets[Job(w)]]
  <2>1. f \in Running /\ ControlInv(f)
    BY <1>1, <1>14 DEF DeleteAssets, Busy, Running, Pc, ControlInv, ParseSteps, EmbedSteps
  <2> QED BY <1>14, <2>1, BecomeType DEF DeleteAssets
<1>15. CASE CommitAssets(w)
  <2> DEFINE f == [e EXCEPT !.pc = "return", !.seen = {}]
  <2>1. f \in Running /\ ControlInv(f)
    BY <1>1, <1>15 DEF CommitAssets, Busy, Running, Pc, ControlInv, ParseSteps, EmbedSteps
  <2>2. exec' \in [Workers -> Running \cup {Idle}] /\ ControlOK'
    BY <1>3, <1>15, <2>1 DEF CommitAssets
  <2> QED BY <1>1, <1>10, <1>15, <2>2 DEF CommitAssets, NewAssets
<1>16. CASE ListChunks(w)
  <2> DEFINE f == [e EXCEPT !.pc = "embed", !.seen = chunks[Job(w)]]
  <2>1. f \in Running /\ ControlInv(f)
    BY <1>1, <1>16 DEF ListChunks, Busy, Running, Pc, ControlInv, ParseSteps, EmbedSteps
  <2> QED BY <1>16, <2>1, BecomeType DEF ListChunks
<1>17. CASE Embed(w)
  <2>1. ControlInv([e EXCEPT !.pc = "collection_exists"])
    BY <1>1, <1>17 DEF Embed, Busy, ControlInv, Running, ParseSteps, EmbedSteps
  <2> QED BY <1>7, <1>17, <2>1 DEF Embed, Pc
<1>18. CASE CollectionExists(w)
  <2>1. \A pc \in {"upsert", "create_collection"} : ControlInv([e EXCEPT !.pc = pc])
    BY <1>1, <1>18 DEF CollectionExists, Busy, ControlInv, Running, ParseSteps, EmbedSteps
  <2> QED BY <1>7, <1>18, <2>1 DEF CollectionExists, Pc
<1>19. CASE CreateCollection(w)
  <2> DEFINE f == [e EXCEPT !.pc = "upsert"]
  <2>1. f \in Running /\ ControlInv(f)
    BY <1>1, <1>19 DEF CreateCollection, Busy, Running, Pc, ControlInv, ParseSteps, EmbedSteps
  <2>2. exec' \in [Workers -> Running \cup {Idle}] /\ ControlOK'
    BY <1>2, <1>3, <1>19, <2>1 DEF CreateCollection
  <2> QED BY <1>19, <2>2 DEF CreateCollection
<1>20. CASE Upsert(w)
  <2> DEFINE f == [e EXCEPT !.pc = "return", !.seen = {}]
  <2>1. f \in Running /\ ControlInv(f)
    BY <1>1, <1>20 DEF Upsert, Busy, Running, Pc, ControlInv, ParseSteps, EmbedSteps
  <2>2. exec' \in [Workers -> Running \cup {Idle}] /\ ControlOK'
    BY <1>3, <1>20, <2>1 DEF Upsert
  <2> QED BY <1>1, <1>10, <1>20, <2>2 DEF Upsert
<1>21. ASSUME Become(w, Idle)
       PROVE  exec' \in [Workers -> Running \cup {Idle}] /\ ControlOK'
  BY <1>21, BecomeType DEF Idle
<1>22. CASE Return(w)
  <2>1. RestOfChain(e) \subseteq Message
    BY <1>1, RestOfChainType
  <2>2. queue' \subseteq Message
    BY <1>22, <2>1 DEF Return, Publish
  <2>3. e.task \in Task
    BY <1>1 DEF Running
  <2> QED BY <1>1, <1>21, <1>22, <2>2, <2>3 DEF Return
<1>23. CASE RetryOrRaise(w)
  <2>1. Again(e) \subseteq Message
    BY <1>1, AgainType
  <2>2. queue' \subseteq Message
    BY <1>23, <2>1 DEF RetryOrRaise, Publish
  <2> QED BY <1>21, <1>23, <2>2 DEF RetryOrRaise
<1> QED
  BY <1>4, <1>5, <1>6, <1>8, <1>9, <1>11, <1>12, <1>13, <1>14, <1>15, <1>16,
     <1>17, <1>18, <1>19, <1>20, <1>22, <1>23 DEF TaskStep

(***************************************************************************)
(* Only CommitJob changes a job row, and only SelectJob leads to it.       *)
(***************************************************************************)
LEMMA TaskStepRows ==
  ASSUME StoreTypeOK, TasksTypeOK, ControlOK, RowExists,
         NEW w \in Workers, TaskStep(w)
  PROVE  RowExists'
<1> DEFINE e == exec[w]
<1> USE DEF docVars, brokerVars, storeVars, Quiet, Busy, Job
<1>1. e \in Running \cup {Idle}
  BY DEF TasksTypeOK
<1>2. ASSUME NEW f, Become(w, f), f.pc # "commit_job",
             \A u \in Uploads : jobs[u] # NoRow => jobs'[u] # NoRow
      PROVE  RowExists'
  BY <1>2 DEF Become, RowExists, TasksTypeOK, Running, Idle
<1>3. Raised(e).pc # "commit_job" /\ Idle.pc # "commit_job"
  BY DEF Raised, Idle
<1>4. CASE CommitJob(w)
  <2>1. jobs[Job(w)] \in JobRow /\ Job(w) \in Uploads
    BY <1>1, <1>4 DEF CommitJob, RowExists, StoreTypeOK, Running, Idle
  <2>2. Wanted(e) \in JobRow
    BY <1>1, <1>4 DEF CommitJob, Wanted, ControlOK, Executes, ControlInv, Running, Idle,
                      JobRow, Status
  <2>3. \A u \in Uploads : jobs[u] # NoRow => jobs'[u] # NoRow
    BY <1>4, <2>1, <2>2, UpdateType, RowType DEF CommitJob, StoreTypeOK
  <2>4. AfterCommit(e) # "commit_job"
    BY <1>1, <1>4 DEF CommitJob, AfterCommit, ControlOK, Executes, ControlInv, Running, Idle
  <2>5. [e EXCEPT !.pc = AfterCommit(e), !.row = NoRow].pc = AfterCommit(e)
    BY <1>1, <1>4 DEF CommitJob, Running, Idle
  <2> QED BY <1>2, <1>3, <1>4, <2>3, <2>4, <2>5 DEF CommitJob, Proceed, Raise
<1>5. CASE SelectJob(w)
  <2>1. CASE jobs[Job(w)] = NoRow
    BY <1>2, <1>3, <1>5, <2>1 DEF SelectJob, Raise
  <2>2. CASE jobs[Job(w)] # NoRow
    <3> DEFINE f == [e EXCEPT !.pc = "commit_job", !.row = jobs[Job(w)]]
    <3>1. exec' = [exec EXCEPT ![w] = f] /\ UNCHANGED jobs
      BY <1>5, <2>2 DEF SelectJob, Become
    <3>2. f.job = e.job
      BY <1>1, <1>5 DEF SelectJob, Running, Idle
    <3> QED BY <2>2, <3>1, <3>2 DEF RowExists, TasksTypeOK
  <2> QED BY <2>1, <2>2
<1>7. e.pc # "idle" => e \in Running
  BY <1>1 DEF Idle
<1>8. ASSUME NEW f, Proceed(w, f), f.pc # "commit_job", UNCHANGED jobs PROVE RowExists'
  BY <1>2, <1>3, <1>8 DEF Proceed, Raise
<1>9. CASE StepFails(w) \/ Return(w) \/ RetryOrRaise(w)
  BY <1>2, <1>3, <1>9 DEF StepFails, Return, RetryOrRaise, Raise
<1>10. CASE ReadDocument(w) \/ ParseDocument(w) \/ Embed(w) \/ CollectionExists(w)
            \/ DeleteChunks(w) \/ DeleteAssets(w) \/ ListChunks(w)
  BY <1>2, <1>3, <1>7, <1>10
     DEF ReadDocument, ParseDocument, Embed, CollectionExists, DeleteChunks, DeleteAssets,
         ListChunks, Raise, Continue, Running
<1>11. CASE SaveAssets(w) \/ CommitChunks(w) \/ CommitAssets(w) \/ Upsert(w)
            \/ CreateCollection(w)
  BY <1>2, <1>3, <1>7, <1>8, <1>11
     DEF SaveAssets, CommitChunks, CommitAssets, Upsert, CreateCollection, Raise, Running
<1> QED BY <1>4, <1>5, <1>9, <1>10, <1>11 DEF TaskStep

LEMMA DeliveryType ==
  ASSUME StoreTypeOK, TasksTypeOK, ControlOK, RowExists,
         NEW w \in Workers, Delivery(w)
  PROVE  StoreTypeOK' /\ TasksTypeOK' /\ ControlOK' /\ RowExists'
<1> USE DEF StoreTypeOK, TasksTypeOK, docVars, storeVars
<1>1. CASE WorkerCrash(w)
  BY <1>1, WorkersAssumption
     DEF WorkerCrash, ControlOK, Executes, RowExists, Busy, Job, Idle
<1>2. ASSUME NEW m \in queue, Fetch(w, m)
      PROVE  StoreTypeOK' /\ TasksTypeOK' /\ ControlOK' /\ RowExists'
  BY <1>2 DEF Fetch, ControlOK, Executes, RowExists, Busy, Job
<1>3. ASSUME NEW m \in reserved[w], Start(w, m)
      PROVE  StoreTypeOK' /\ TasksTypeOK' /\ ControlOK' /\ RowExists'
  <2>1. m \in Message
    OBVIOUS
  <2>2. Become(w, Enter(m))
    BY <1>3 DEF Start, Become
  <2>3. exec' \in [Workers -> Running \cup {Idle}] /\ ControlOK'
    BY <2>1, <2>2, EnterType, BecomeType
  <2>4. RowExists'
    BY <1>3, <2>1, <2>2, EnterType DEF Start, Become, RowExists, Busy, Job
  <2> QED BY <1>3, <2>3, <2>4 DEF Start
<1>4. ASSUME NEW d \in unacked, Redeliver(w, d[2])
      PROVE  StoreTypeOK' /\ TasksTypeOK' /\ ControlOK' /\ RowExists'
  <2>1. redeliveries' \in 0..MaxRedeliveries
    BY <1>4, WorkersAssumption DEF Redeliver
  <2> QED BY <1>4, <2>1 DEF Redeliver, ControlOK, Executes, RowExists, Busy, Job
<1> QED BY <1>1, <1>2, <1>3, <1>4 DEF Delivery

(***************************************************************************)
(* For any constants, whatever fails, crashes or is delivered twice: the   *)
(* type invariant of the pipeline.                                         *)
(***************************************************************************)
LEMMA TypeInvStep == TypeInv /\ [Next]_vars => TypeInv'
<1> SUFFICES ASSUME TypeInv, [Next]_vars PROVE TypeInv'
  OBVIOUS
<1> USE DEF TypeInv, TypeOK
<1>1. CASE Upload
  <2>1. UploadTypeOK'
    BY <1>1, UploadType DEF Upload
  <2>2. TasksTypeOK' /\ ControlOK'
    BY <1>1 DEF Upload, taskVars, docVars, brokerVars, TasksTypeOK, ControlOK, Executes
  <2>3. \A u \in Uploads : jobs[u] # NoRow => jobs'[u] # NoRow
    BY <1>1 DEF Upload, UploadNext, UploadStep, ApiCrash, Receive, SaveFile, CreateDocument,
                RejectDuplicate, CreateJob, Dispatch, UploadStepFails, storeVars, NoRow,
                UploadTypeOK, StoreTypeOK
  <2>4. RowExists'
    BY <1>1, <2>3 DEF Upload, taskVars, RowExists, Busy, Job, TasksTypeOK, Running, Idle
  <2> QED BY <2>1, <2>2, <2>4
<1>2. ASSUME NEW w \in Workers, Work(w) PROVE TypeInv'
  BY <1>2, TaskStepType, TaskStepRows DEF Work, UploadTypeOK
<1>3. ASSUME NEW w \in Workers, Deliver(w) PROVE TypeInv'
  BY <1>3, DeliveryType DEF Deliver, UploadTypeOK
<1>4. CASE UNCHANGED vars
  BY <1>4 DEF vars, storeVars, taskVars, docVars, brokerVars, UploadTypeOK, StoreTypeOK,
              TasksTypeOK, ControlOK, Executes, RowExists, Busy, Job
<1> QED BY <1>1, <1>2, <1>3, <1>4 DEF Next

LEMMA TypeInvInit == Init => TypeInv
<1> SUFFICES ASSUME Init PROVE TypeInv
  OBVIOUS
<1>1. StoreTypeOK
  BY DEF Init, UploadInit, StoreInit, StoreTypeOK
<1>2. UploadTypeOK
  BY <1>1 DEF Init, UploadInit, RequestInit, UploadTypeOK, RequestPc, Response, NoResponse
<1>3. TasksTypeOK
  <2>1. exec \in [Workers -> Running \cup {Idle}]
    BY DEF Init, TasksInit
  <2>2. crashes \in 0..MaxCrashes /\ redeliveries \in 0..MaxRedeliveries
    BY WorkersAssumption DEF Init, TasksInit
  <2>3. reserved \in [Workers -> SUBSET Message] /\ unacked \subseteq Workers \X Message
    BY DEF Init, TasksInit
  <2> QED BY <2>1, <2>2, <2>3 DEF Init, TasksInit, TasksTypeOK
<1>4. ControlOK /\ RowExists
  BY DEF Init, TasksInit, ControlOK, RowExists, Executes, Busy, Idle
<1> QED BY <1>2, <1>3, <1>4 DEF TypeInv, TypeOK

\* Every variable keeps its type, for any redeliveries and crashes (TypeOK):
\* a task counts no retry past MaxRetries and writes only rows that exist.
THEOREM TypeCorrect == Spec => []TypeOK
<1>1. TypeInv => TypeOK
  BY DEF TypeInv
<1> QED BY <1>1, TypeInvInit, TypeInvStep, PTL DEF Spec
=============================================================================
