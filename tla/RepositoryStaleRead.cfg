\* The default: coalesced loads. A caller may be handed a read older than its own write.
CONSTANTS
  c1 = c1
  c2 = c2
  s1 = s1
  v1 = v1
  Client = {c1, c2}
  Stream = {s1}
  Other = other
  None = none
  Coalescing = {c1, c2}
  Caching = FALSE
  Snapshotting = FALSE
  SnapEvery = 1
  Shape = {v1}
  Declaring = {v1}
  MaxBatch = 2
  MaxEvents = 2
SPECIFICATION Spec
SYMMETRY ClientSymmetry
INVARIANTS
  ReadYourWrites
