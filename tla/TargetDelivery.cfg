CONSTANTS
  quantum_bytes = 2
  window_bytes = 4
  MaxSlices = 2
  TotalBytes = 7
  MaxBatchChunks = 2
SPECIFICATION Spec
INVARIANTS
  NothingLostOrMoved
  CreditFitsWindow
  ShutdownAfterLastByte
PROPERTIES
  DeliveryCompletes
CHECK_DEADLOCK FALSE
