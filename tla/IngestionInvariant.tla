------------------------- MODULE IngestionInvariant -------------------------
(***************************************************************************)
(* The inductive invariant of the ingestion pipeline, up to the first      *)
(* message that is delivered twice. Its core: a job has one token, the     *)
(* token knows which tasks have returned before it, and what a task holds  *)
(* in memory (a job row, the rows it deletes or embeds) is therefore never *)
(* stale. Then what is left of it when tasks of one job overlap.           *)
(***************************************************************************)
EXTENDS Ingestion

\* The tasks of the chain that have returned when task t is published.
Before(t) ==
  CASE t = "parse_document"  -> {}
    [] t = "embed_chunks"    -> {"parse_document"}
    [] t = "index_to_qdrant" -> {"parse_document", "embed_chunks"}

\* Whatever carries task t of job u, the request that dispatched it is over,
\* its records are committed, and exactly the earlier tasks have returned.
Carries(u, t) ==
  /\ request[u].pc = "done"
  /\ u \in files \cap documents
  /\ jobs[u] # NoRow
  /\ succeeded[u] = Before(t)

TokenInv ==
  /\ \A m \in queue : Carries(m.job, m.task)
  /\ \A d \in unacked : Carries(d[2].job, d[2].task)
  /\ \A w \in Workers : Executes(w) => Carries(Job(w), exec[w].task)

HeldIsUnacked ==
  \A w \in Workers : \A m \in reserved[w] : <<w, m>> \in unacked

RequestInv ==
  \A u \in Uploads :
    /\ request[u].pc # "done" => succeeded[u] = {}
    /\ request[u].pc \in {"idle", "save", "create_document", "create_job"}
         => jobs[u] = NoRow
    /\ request[u].pc = "create_document" => u \in files
    /\ request[u].pc = "create_job" => u \in files \cap documents
    /\ request[u].pc = "dispatch" => /\ u \in files \cap documents
                                     /\ jobs[u] # NoRow

-----------------------------------------------------------------------------
ParseSteps == {"read", "parse", "save_assets", "delete_chunks", "commit_chunks",
               "delete_assets", "commit_assets"}
EmbedSteps == {"list_chunks", "embed", "collection_exists", "create_collection",
               "upsert"}

\* Which steps a task takes, and which status it is about to write.
ControlInv(e) ==
  /\ e.pc \in ParseSteps => e.target = "processing"
  /\ e.pc \in EmbedSteps => e.target = "none" /\ e.task = "embed_chunks"
  /\ e.pc \in {"select_job", "commit_job"} => e.target # "none"
  /\ e.pc = "return" => e.target # "failed"
  /\ e.pc = "retry" => e.target = "failed"
  /\ e.target = "none" => e.task = "embed_chunks"
  /\ e.target = "processing" => e.task = "parse_document"
  /\ e.target = "completed" => e.task = "index_to_qdrant"

\* What a task holds in memory is what the tables hold.
ParseIsCurrent(e) ==
  /\ e.pc \in {"save_assets", "delete_chunks", "commit_chunks", "delete_assets",
               "commit_assets"} => e.parse = parses[e.job]
  /\ e.pc = "commit_chunks" => e.seen = chunks[e.job]
  /\ e.pc = "commit_assets" => e.seen = assets[e.job]
  /\ e.pc \in {"delete_chunks", "commit_chunks", "delete_assets", "commit_assets"}
       => NewAssets(e.job, e.parse) \subseteq assetFiles[e.job]
  /\ (\/ e.pc \in {"delete_assets", "commit_assets"}
      \/ e.pc = "return" /\ e.task = "parse_document")
       => chunks[e.job] = NewChunks(e.job, parses[e.job])
  /\ e.pc = "return" /\ e.task = "parse_document"
       => assets[e.job] = NewAssets(e.job, parses[e.job])

EmbedIsCurrent(e) ==
  /\ e.pc \in {"embed", "collection_exists", "create_collection", "upsert"}
       => e.seen = chunks[e.job]
  /\ e.pc = "return" /\ e.task = "embed_chunks" => points[e.job] = chunks[e.job]

RowIsCurrent(e) == e.pc = "commit_job" => e.row = jobs[e.job]

MemoryInv(e) == ParseIsCurrent(e) /\ EmbedIsCurrent(e) /\ RowIsCurrent(e)

ExecInv ==
  \A w \in Workers : Executes(w) => ControlInv(exec[w]) /\ MemoryInv(exec[w])

-----------------------------------------------------------------------------
\* What the tables and the index hold once each task has returned.
Parsed(u) == /\ chunks[u] = NewChunks(u, parses[u])
             /\ assets[u] = NewAssets(u, parses[u])

DocInv(u) ==
  /\ "parse_document" \in succeeded[u] => Parsed(u)
  /\ "parse_document" \notin succeeded[u] => points[u] = {}
  /\ "embed_chunks" \in succeeded[u] => /\ "parse_document" \in succeeded[u]
                                        /\ points[u] = chunks[u]
  /\ points[u] \subseteq chunks[u]
  /\ assets[u] \subseteq assetFiles[u]
  /\ jobs[u].status = "completed" => "embed_chunks" \in succeeded[u]
  /\ jobs[u].error <=> jobs[u].status = "failed"

DocumentInv == \A u \in Uploads : DocInv(u)

IInv ==
  /\ TypeOK
  /\ OneToken
  /\ HeldIsUnacked
  /\ TokenInv
  /\ RequestInv
  /\ ExecInv
  /\ DocumentInv

-----------------------------------------------------------------------------
(***************************************************************************)
(* What is added when the reply to the write of a job row is never lost: a *)
(* completed job has nothing left to run. Its token is gone, or it is the  *)
(* task index_to_qdrant about to return, and that is the last of the chain.*)
(***************************************************************************)
NothingLeft(u) ==
  /\ \A m \in queue : m.job # u
  /\ \A d \in unacked : d[2].job # u
  /\ \A w \in Workers : Executes(w) /\ Job(w) = u =>
       exec[w].pc = "return" /\ exec[w].task = "index_to_qdrant"

FinalInv == \A u \in Uploads : jobs[u].status = "completed" => NothingLeft(u)

\* The last task returns after the second, as DocInv has the second after the first.
ReturnsInOrder ==
  \A u \in Uploads : "index_to_qdrant" \in succeeded[u] => "embed_chunks" \in succeeded[u]

-----------------------------------------------------------------------------
(***************************************************************************)
(* What is left of this when messages are delivered twice and the tasks of *)
(* one job overlap: what once was stored or has returned stays so.         *)
(***************************************************************************)
Allowed(u, t) ==
  /\ u \in files \cap documents
  /\ jobs[u] # NoRow
  /\ Before(t) \subseteq succeeded[u]

CarriersInv ==
  /\ \A m \in queue : Allowed(m.job, m.task)
  /\ \A d \in unacked : Allowed(d[2].job, d[2].task)
  /\ \A w \in Workers : \A m \in reserved[w] : Allowed(m.job, m.task)
  /\ \A w \in Workers : Executes(w) => Allowed(Job(w), exec[w].task)

HandlerInv ==
  \A u \in Uploads :
    /\ request[u].pc = "create_document" => u \in files
    /\ request[u].pc \in {"create_job", "dispatch"} => u \in files \cap documents
    /\ request[u].pc = "dispatch" => jobs[u] # NoRow

\* The chunks a task has committed or read, and the points it has written,
\* may be replaced by those of another parse, but never by nothing.
SearchableInv(e) ==
  e.job \in Textual =>
    /\ (\/ e.pc \in {"delete_assets", "commit_assets"}
        \/ e.pc = "return" /\ e.task = "parse_document") => chunks[e.job] # {}
    /\ e.pc \in {"embed", "collection_exists", "create_collection", "upsert"}
         => e.seen # {}
    /\ e.pc = "return" /\ e.task = "embed_chunks" => points[e.job] # {}

TablesInv ==
  /\ \A u \in Textual : /\ "parse_document" \in succeeded[u] => chunks[u] # {}
                        /\ "embed_chunks" \in succeeded[u] => points[u] # {}
  /\ \A u \in Uploads : jobs[u].status = "completed" => "embed_chunks" \in succeeded[u]

DuplicatesInv ==
  /\ CarriersInv
  /\ HandlerInv
  /\ \A w \in Workers : Executes(w) => SearchableInv(exec[w])
  /\ TablesInv
=============================================================================
