SPECIFICATION Spec
CONSTANTS
  Outputs = {o1, o2}
  QueueLimit = 2
  MaxGeneration = 3
  MaxOffset = 2
  Receipts = TRUE
SYMMETRY Symmetry
INVARIANT AckPublicationComplete
PROPERTY FeedbackTakesTurns
CHECK_DEADLOCK FALSE
