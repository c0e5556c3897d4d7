SPECIFICATION DirectorySpec
CONSTANTS
  NumBatches = 1
  BatchSize = 1
  MaxBlockhash = 1
  MaxPieces = 4
  Writers = {w1, w2}
  MaxWrites = 5
INVARIANTS
  ReadIsComplete
  TakenUpIsWhole
  NothingIsLost
PROPERTIES
  ImplementsStore
  ImplementsWrites
CHECK_DEADLOCK FALSE
