SPECIFICATION Spec
CONSTANTS
  Million = 12
  MAX_u64 = 255
  MAX_SAFE_INTEGER = 31
  Metadata <- SomeMetadata
INVARIANTS FallbackUnreachable
CHECK_DEADLOCK FALSE
