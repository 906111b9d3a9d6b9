SPECIFICATION FairSpec
CONSTANTS
  Million = 12
  MAX_u64 = 255
  MAX_SAFE_INTEGER = 31
  Metadata <- SomeMetadata
INVARIANTS TypeOK SplitIsExact SmallestGross FallbackIsLate
PROPERTIES Terminates
CHECK_DEADLOCK FALSE
