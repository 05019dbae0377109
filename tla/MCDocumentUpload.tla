-------------------------- MODULE MCDocumentUpload --------------------------
(***************************************************************************)
(* Constants for model-checking the upload endpoint: three uploads, two of *)
(* them of the same bytes for the same tenant.                             *)
(***************************************************************************)
EXTENDS DocumentUpload

CONSTANTS u1, u2, u3

ThreeUploads == {u1, u2, u3}
SameBytes == [u \in Uploads |-> IF u \in {u1, u2} THEN "same" ELSE "other"]

AnyStep == RequestPc \ {"idle", "done"}

\* A valid request, every single defect, and pairs whose order matters.
SampleRequests ==
  {{}} \cup {{d} : d \in Defects}
       \cup {{"tenant_mismatch", "oversized"}, {"unreadable", "empty"}}
=============================================================================
