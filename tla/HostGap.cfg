\* A stop and a start while a worker goes live; nothing fails.
CONSTANTS
  Subscriber = TRUE
  Reliable = TRUE
  HasDLQ = TRUE
  Resets = FALSE
  Ignored = {}
  Outcomes = {"ok"}
  Fails = {}
  BatchSize = 2
  CpEvery = 1
  RingCap = 2
  MaxRestarts = 0
  MaxEvents = 3
  MaxGen = 2
SPECIFICATION Spec
CHECK_DEADLOCK FALSE
INVARIANT NoEventSkipped
