SPECIFICATION PowerCutSpec
CONSTANTS
  NumBatches = 1
  BatchSize = 1
  MaxBlockhash = 1
  Window = 1
  MaxAttempts = 1
  RebroadcastEvery = 1
  Faults = {"lost"}
INVARIANTS
  PreparedIsDurable
CHECK_DEADLOCK FALSE
