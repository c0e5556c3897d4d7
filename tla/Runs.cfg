SPECIFICATION Spec
CONSTANTS
  Wallets = {w1, w2}
  Identities = {main, other}
  Options = {o1, o2}
  MaxRuns = 2
SYMMETRY Symmetry
INVARIANTS
  CacheIsUnsent
  SendsWhatWasAgreed
