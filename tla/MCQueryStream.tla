--------------------------- MODULE MCQueryStream ---------------------------
(***************************************************************************)
(* One tenant's page asks the same text twice, but for its case. The index *)
(* may also hold a chunk of another tenant.                                *)
(***************************************************************************)
EXTENDS QueryStream

CONSTANTS q1, q2, t1, t2, a1, b1, page1, text, TEXT

MCTenantOf == [q \in Queries |-> t1]
MCClientOf == [q \in Queries |-> page1]
MCTextOf == [q \in Queries |-> IF q = q2 THEN TEXT ELSE text]
MCFolded == [t \in Texts |-> text]
MCOwnerOf == [c \in Chunks |-> IF c = b1 THEN t2 ELSE t1]

Hybrid == [t \in Texts |-> "hybrid"]
=============================================================================
