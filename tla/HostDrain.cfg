\* No subscriber: drains, restarts, crashes, resets and replays.
CONSTANTS
  Subscriber = FALSE
  Reliable = TRUE
  HasDLQ = TRUE
  Resets = TRUE
  Ignored = {2}
  Outcomes = {"ok", "retryable", "poison"}
  Fails = {"load", "read", "save", "dlq", "reset", "crash"}
  BatchSize = 2
  CpEvery = 1
  RingCap = 2
  MaxRestarts <- Unlimited
  MaxEvents = 3
  MaxGen = 2
SPECIFICATION Spec
CHECK_DEADLOCK FALSE
INVARIANTS
  TypeOK
  NoEventSkipped
  CheckpointCoversDone
