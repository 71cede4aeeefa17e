CONSTANTS
  U64Max = 3
  max_payload_bytes = 2
  max_ack_ranges = 1
  max_repair_bytes = 3
  max_reorder_bytes = 2
  max_reinjection_cache_chunks = 3
  AckRangeLists = {}
  max_reorder_buffer_chunks = 2
  max_retained_receive_ranges = 3
  max_stream_window_bytes = 2
SPECIFICATION Spec
INVARIANTS
  
  NothingLostOrOverrun
PROPERTY
  ImplementsPipe
CHECK_DEADLOCK FALSE
