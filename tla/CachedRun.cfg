SPECIFICATION Spec
CONSTANTS
  Wallets = {w1, w2}
  Identities = {main}
  Options = {o1}
  MaxRuns = 2
SYMMETRY Symmetry
INVARIANTS
  CachedExcludesHolders
