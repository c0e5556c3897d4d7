SPECIFICATION PlanSpec
CONSTANTS
  NumRecipients = 7
  Limits <- MCLimits
  MaxRaw = 255
  Keys = {"k1", "k2", "k3"}
  NoKey = "none"
  Cluster = "mainnet-beta"
  OtherCluster = "devnet"
  Files <- MCFiles
  Envs <- MCEnvs
  Decimals = {0, 1, 2}
  Balances <- MCBalances
  Rents = {100}
  AccountsLimit = 4
INVARIANTS
  EveryoneOnce
  BatchesFit
  Fewest
  RefusedIsTooLarge
  EstimateIsExact
  UsableStart
  ConversionIsExact
  PaysTheTotal
  CreatesWhatIsMissing
  PlanJsonIsTrue
CHECK_DEADLOCK FALSE
