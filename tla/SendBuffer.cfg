CONSTANTS
  Sources = {s1, s2, s3}
  limit_bytes = 2
  MaxRead = 2
  MaxTicket = 3
SPECIFICATION Spec
INVARIANTS
  EveryByteOwned
PROPERTIES
  OldestFirst
  EveryWaiterServed
CHECK_DEADLOCK FALSE
