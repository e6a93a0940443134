\* Two callers share loads of one stream, a third reads the store itself.
CONSTANTS
  c1 = c1
  c2 = c2
  c3 = c3
  s1 = s1
  v1 = v1
  v2 = v2
  Client = {c1, c2, c3}
  Stream = {s1}
  Other = other
  None = none
  Coalescing = {c1, c2}
  Caching = FALSE
  Snapshotting = TRUE
  SnapEvery = 1
  Shape = {v1, v2}
  Declaring = {v2}
  MaxBatch = 1
  MaxEvents = 1
SPECIFICATION FairSpec
INVARIANTS
  OwnWritesRead
PROPERTIES
  EveryCallReturns
