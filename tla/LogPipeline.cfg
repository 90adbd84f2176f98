SPECIFICATION Spec
CONSTANTS
  BATCH_SIZE = 2
  CHANNEL_CAPACITY = 3
  MaxEvents = 5
INVARIANTS PipelineHonest StoredInOrder
PROPERTY EntriesLeave
