SPECIFICATION Spec
CONSTANTS
  NumBatches = 1
  BatchSize = 1
  MaxBlockhash = 1
  Window = 2
  MaxAttempts = 3
  RebroadcastEvery = 2
  Faults = {"txerr", "fork"}
INVARIANTS
  NoDoublePay
