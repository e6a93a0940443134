\* One task through its whole life: two workers, three claims, retries.
CONSTANTS
  w1 = w1
  w2 = w2
  NumTasks = 1
  Owner = {w1, w2}
  NoOwner = nobody
  Key = {}
  NoKey = nokey
  Prio = {0}
  Budget = {2}
  Delays = {1}
  Leases = {1, 2}
  AgePerPoint = 1
  MaxBonus = 1
  MaxClaims = 3
  MaxClock = 3
  MaxFacts = 1
SPECIFICATION Spec
SYMMETRY OwnerSymmetry
CHECK_DEADLOCK FALSE
INVARIANTS
  TypeOK
  LeaseOfNewestClaim
  ValidLeaseIsHeld
  BudgetRespected
  JournalExplainsRow
  JournalIsLifecycle
PROPERTIES
  LegalTransitions
