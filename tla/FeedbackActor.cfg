SPECIFICATION ActorSpec
CONSTANTS
  Outputs = {o1, o2}
  QueueLimit = 1
  MaxGeneration = 1
  MaxOffset = 1
  MaxAttaches = 1
  Receipts = FALSE
PROPERTIES
  FinishedOnlyWhenTold
  EveryOutputCaughtUp
CHECK_DEADLOCK FALSE
