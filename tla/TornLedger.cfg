SPECIFICATION Spec
CONSTANTS
  NumBatches = 1
  BatchSize = 1
  MaxBlockhash = 0
  Window = 1
  MaxAttempts = 3
  RebroadcastEvery = 2
  Faults = {"torn"}
INVARIANTS
  LedgerReadable
