CONSTANTS
  U64Max = 5
  max_payload_bytes = 3
  max_repair_bytes = 5
  max_reinjection_cache_chunks = 2
  AckRangeLists <- TwoRangeLists
SPECIFICATION SendSpec
INVARIANTS
  RetainedUntilAcked
  AckStateExact
  RedundantAcksIdempotent
  MissingSetExact
  RetransmissionExact
CHECK_DEADLOCK FALSE
