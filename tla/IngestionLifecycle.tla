------------------------ MODULE IngestionLifecycle ------------------------
(***************************************************************************)
(* What the ingestion pipeline promises to whoever polls a job: it is      *)
(* queued once, it may alternate between processing and failed while       *)
(* attempts are made, the work advances from parsed to indexed and never   *)
(* back, and completed is reported only of an indexed document, last and   *)
(* once. Where the reply to the write of completed may be lost (MayRecall) *)
(* the report may be taken back, the work may not. Module Ingestion        *)
(* implements this under single delivery.                                  *)
(***************************************************************************)
CONSTANTS
  Uploads,     \* the accepted documents
  MayRecall    \* whether completed may be overwritten once it is reported

VARIABLES
  status,   \* status of the job row of each upload, "absent" without a row
  stage     \* how far the document has come

lifecycleVars == <<status, stage>>

Init ==
  /\ status = [u \in Uploads |-> "absent"]
  /\ stage = [u \in Uploads |-> "stored"]

Queue(u) ==
  /\ status[u] = "absent"
  /\ status' = [status EXCEPT ![u] = "queued"]
  /\ UNCHANGED stage

\* The states in which the job may still be reported on.
Open == {"queued", "processing", "failed"} \cup {s \in {"completed"} : MayRecall}

Attempt(u) ==
  /\ status[u] \in Open
  /\ \E s \in {"processing", "failed"} : status' = [status EXCEPT ![u] = s]
  /\ UNCHANGED stage

\* Parsing and indexing happen behind a job that has been queued.
Advance(u, from, to) ==
  /\ status[u] \notin {"absent", "completed"}
  /\ stage[u] = from
  /\ stage' = [stage EXCEPT ![u] = to]
  /\ UNCHANGED status

Complete(u) ==
  /\ status[u] \in Open
  /\ stage[u] = "indexed"
  /\ status' = [status EXCEPT ![u] = "completed"]
  /\ UNCHANGED stage

Next == \E u \in Uploads :
  \/ Queue(u)
  \/ Attempt(u)
  \/ Advance(u, "stored", "parsed")
  \/ Advance(u, "parsed", "indexed")
  \/ Complete(u)

Spec == Init /\ [][Next]_lifecycleVars
=============================================================================
