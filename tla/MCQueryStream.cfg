SPECIFICATION FairSpec
CHECK_DEADLOCK FALSE
CONSTANTS
  q1 = q1
  q2 = q2
  t1 = t1
  t2 = t2
  a1 = a1
  b1 = b1
  page1 = page1
  text = text
  TEXT = TEXT
  Tenants = {t1, t2}
  TenantOf <- MCTenantOf
  Texts = {text, TEXT}
  TextOf <- MCTextOf
  Folded <- MCFolded
  OwnerOf <- MCOwnerOf
  Clients = {page1}
  ClientOf <- MCClientOf
  Queries = {q1, q2}
  RouteOf <- Hybrid
  Chunks = {a1, b1}
  RetrievalLimit = 1
  MaxRows = 1
  GraphFaults = {"sparse", "generate", "store"}
  MaxCrashes = 1
INVARIANTS TypeOK TenantScoped StreamInOrder TraceTellsOutcome NeverAPartOfAnAnswer
PROPERTY LoadingEnds
