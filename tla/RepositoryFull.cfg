\* Cache, snapshots and coalescing all on; two callers, one stream.
CONSTANTS
  c1 = c1
  c2 = c2
  s1 = s1
  v1 = v1
  v2 = v2
  Client = {c1, c2}
  Stream = {s1}
  Other = other
  None = none
  Coalescing = {c1, c2}
  Caching = TRUE
  Snapshotting = TRUE
  SnapEvery = 1
  Shape = {v1, v2}
  Declaring = {v1, v2}
  MaxBatch = 2
  MaxEvents = 2
SPECIFICATION Spec
SYMMETRY Symmetry
INVARIANTS
  TypeOK
  CacheSound
  SnapshotSound
  LoadedIsHistory
  BatchIsHistory
  PublishedWasSaved
  AckedIsSavedAndPublished
PROPERTIES
  SavedOnCurrentState
  ImplementsEventStream
  SnapshotNeverOlder
