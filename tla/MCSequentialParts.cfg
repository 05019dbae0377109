SPECIFICATION PartsSpec
CONSTANTS
  c1 = c1
  c2 = c2
  c3 = c3
  c4 = c4
  ta = ta
  tb = tb
  i1 = i1
  i2 = i2
  i3 = i3
  Documents <- MCDocuments
  MaxCharacters = 3
  BatchSize = 2
  Bucket <- MCBucket
  Indices = {0, 1}
  MaxListed = 3
  Chunks = {c1, c2, c3, c4}
  RankConstant = 1
  Overlaps = {0, 1}
  Limits = {2, 3}
  ChunkIds = {c1, c2, c3}
  Terms = {"x", "y"}
  Tenants = {ta, tb}
  TenantOf <- MCTenantOf
  SearchLimits = {1, 2}
  Invocations = {i1, i2, i3}
  Tools = {"search", "delete", "drop"}
  AllowedTools = {"search", "delete"}
  ApprovalTools = {"delete", "drop"}
INVARIANTS
  ChunksCoverDocument
  PointsCarryTheirText
  RankingIsUnanimous
  SearchIsCurrent
  AuditTellsOutcome
CHECK_DEADLOCK FALSE
