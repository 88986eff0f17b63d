CONSTANTS
  q1 = q1  q2 = q2  q3 = q3
  p1 = p1  p2 = p2  p3 = p3  p4 = p4
  g1 = g1  g2 = g2
  None = None
  Sql = {q1, q2, q3}
  Cacheable = {q1, q2}
  Stmt = {p1, p2, p3}
  Signal = {g1, g2}
  CacheSize = 1
  RecentOps = 2
  Faults = {"prepare", "bind", "step"}
  MaxDepth = 2
  MaxOperations = 3
SPECIFICATION FairSpec
INVARIANTS StatementsAccounted CancelHitsOwnOperation
PROPERTIES EndsOwnEntry CanceledOperationEnds
CHECK_DEADLOCK FALSE
