SPECIFICATION FundedSpec
CONSTANTS
  NumBatches = 2
  BatchSize = 1
  MaxBlockhash = 2
  Window = 1
  MaxAttempts = 3
  RebroadcastEvery = 2
  Faults = {"crash", "torn", "rpc", "reject", "lost", "mismatch", "drop", "txerr"}
  Fee = 1
  RentPerAta = 2
  AtaCreations <- MCAtaCreations
  MinFunds = 4
  MaxFunds = 5
INVARIANTS
  CheckIsEnough
  TypeOK
  NoDoublePay
  WriteAhead
  ConfirmedIsPaid
  InOrder
  OkMeansPaid
  RecipientLogTrue
PROPERTIES
  LedgerKeeps
  ImplementsDistribution
CHECK_DEADLOCK FALSE
