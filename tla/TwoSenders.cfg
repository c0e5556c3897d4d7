SPECIFICATION Spec
CONSTANTS
  NumBatches = 1
  BatchSize = 1
  MaxBlockhash = 1
  Window = 1
  MaxAttempts = 2
  RebroadcastEvery = 1
  Faults = {"torn", "txerr"}
PROPERTIES
  ImplementsShared
