\* Two processes; a plain generation, one with a key, a timer that is corrupt.
CONSTANTS
  t1 = t1
  t2 = t2
  p1 = p1
  p2 = p2
  Timer = {t1, t2}
  Keyed = {2}
  Corrupt = {t2}
  Proc = {p1, p2}
  Canceller = {p1}
  FreshDue = TRUE
  Outcomes = {"transient", "permanent"}
  Faults = {"claim", "delete", "record", "crash"}
  Limit = 1
  MaxRetries = 2
  MaxDue = 2
  MaxGen = 2
  MaxFaults = 1
SPECIFICATION FairSpec
CHECK_DEADLOCK FALSE
INVARIANTS
  NoTimerLost
  FiresOncePerLease
  KeyedFiresOncePerTTL
PROPERTY
  EventuallyFires
