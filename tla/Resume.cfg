SPECIFICATION FundedResumingSpec
CONSTANTS
  NumBatches = 3
  BatchSize = 2
  MaxBlockhash = 1
  Window = 2
  MaxAttempts = 3
  RebroadcastEvery = 2
  Faults = {"lost", "rpc"}
  Fee = 1
  RentPerAta = 2
  AtaCreations <- MCAtaCreations
  MinFunds = 7
  MaxFunds = 12
INVARIANTS
  OkMeansLogged
PROPERTIES
  FundedRunCompletes
  SessionsEnd
CHECK_DEADLOCK FALSE
