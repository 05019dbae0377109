---------------------------- MODULE MCQueryGraph ----------------------------
(***************************************************************************)
(* Executions of the graph that share the index and the cache: q1 and q2   *)
(* are one tenant's, with the same text but for its case; q3 is another    *)
(* tenant's, with the text of q1; s1 is the first tenant's, structured.    *)
(***************************************************************************)
EXTENDS QueryGraph

CONSTANTS q1, q2, q3, s1, t1, t2, a1, b1, text, TEXT, sqlText

MCTenantOf == [q \in Queries |-> IF q = q3 THEN t2 ELSE t1]
MCTextOf == [q \in Queries |-> IF q = s1 THEN sqlText ELSE IF q = q2 THEN TEXT ELSE text]
MCFolded == [t \in Texts |-> IF t = TEXT THEN text ELSE t]
Hybrid == [t \in Texts |-> IF t = sqlText THEN "structured" ELSE "hybrid"]
MCOwnerOf == [c \in Chunks |-> IF c = b1 THEN t2 ELSE t1]
=============================================================================
