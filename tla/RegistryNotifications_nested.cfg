SPECIFICATION Spec
CONSTANTS
  m1 = m1
  m2 = m2
  x1 = x1
  t1 = t1
  f1 = f1
  f2 = f2
  p1 = p1
  None = None
  Digests = {m1, m2, x1}
  Tags = {t1}
  Facts = {f1, f2}
  Platforms = {p1}
  Uploads <- NestedUploads
  MaxPushes = 3
  MaxRequests = 1
  MaxBatch = 1
  RepairBatch = 1
INVARIANT ConflictIsContradiction
CHECK_DEADLOCK FALSE
