\* One producer at a time; everything that may go wrong goes wrong.
CONSTANTS
  p1 = p1
  Producer = {p1}
  CloseIn = {"live"}
  Faults = {"subscribe", "load", "read", "save", "nack", "cancel", "crash"}
  BatchSize = 2
  MaxEvents = 4
  MaxFaults = 3
SPECIFICATION FairSpec
INVARIANT
  WatermarkCovers
PROPERTIES
  ImplementsDelivery
  DeliveredInOrder
  
  PublishReturns
