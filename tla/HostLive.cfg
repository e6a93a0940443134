\* One worker goes live while events arrive, fails, restarts, is stopped.
CONSTANTS
  Subscriber = TRUE
  Reliable = TRUE
  HasDLQ = TRUE
  Resets = FALSE
  Ignored = {1}
  Outcomes = {"ok", "poison"}
  Fails = {"dlq", "save", "subscribe", "await"}
  BatchSize = 1
  CpEvery = 2
  RingCap = 1
  MaxRestarts = 1
  MaxEvents = 2
  MaxGen = 1
SPECIFICATION FairSpec
CHECK_DEADLOCK FALSE
INVARIANTS
  OneHandleAtATime
  OverlapDeduplicated
  WindowClosed
PROPERTIES
  StopReturns
  WorkerSettles
