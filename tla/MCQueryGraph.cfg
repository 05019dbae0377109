SPECIFICATION GraphSpec
CHECK_DEADLOCK FALSE
CONSTANTS
  q1 = q1
  q2 = q2
  q3 = q3
  s1 = s1
  t1 = t1
  t2 = t2
  a1 = a1
  b1 = b1
  text = text
  TEXT = TEXT
  sqlText = sqlText
  Tenants = {t1, t2}
  TenantOf <- MCTenantOf
  Texts = {text, TEXT, sqlText}
  TextOf <- MCTextOf
  Folded <- MCFolded
  OwnerOf <- MCOwnerOf
  Queries = {q1, q2, q3, s1}
  RouteOf <- Hybrid
  Chunks = {a1, b1}
  RetrievalLimit = 1
  MaxRows = 1
  GraphFaults = {"sql", "store"}
INVARIANTS GraphScoped RowCountsAreFresh StructuredHasNoCitation
