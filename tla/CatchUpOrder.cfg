\* Two producers save in another order than they minted; nothing goes wrong.
CONSTANTS
  p1 = p1
  p2 = p2
  Producer = {p1, p2}
  CloseIn = {}
  Faults = {}
  BatchSize = 2
  MaxEvents = 3
  MaxFaults = 0
SPECIFICATION Spec
INVARIANT
  NothingLost
CHECK_DEADLOCK FALSE
