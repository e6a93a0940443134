\* Two tasks with dependencies, a dedup key and priorities, enqueued concurrently.
CONSTANTS
  w1 = w1
  NumTasks = 2
  Owner = {w1}
  k1 = k1
  NoOwner = nobody
  Key = {k1}
  NoKey = nokey
  Prio = {0, 1}
  Budget = {1}
  Delays = {0}
  Leases = {1}
  AgePerPoint = 1
  MaxBonus = 1
  MaxClaims = 2
  MaxClock = 2
  MaxFacts = 2
SPECIFICATION Spec
CHECK_DEADLOCK FALSE
INVARIANTS
  DepsRespected
  NoDepCycle
  DedupUnique
PROPERTIES
  NotOvertaken
