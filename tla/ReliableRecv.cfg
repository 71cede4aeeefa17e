CONSTANTS
  U64Max = 6
  max_payload_bytes = 3
  max_ack_ranges = 2
  max_reorder_bytes = 3
  max_reorder_buffer_chunks = 2
  max_retained_receive_ranges = 3
SPECIFICATION ReportSpec
INVARIANTS
  DeliveredOnceInOrder
  AckFramesExact
  AckUpdatesComplete
CHECK_DEADLOCK FALSE
