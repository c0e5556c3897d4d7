SPECIFICATION Spec
CONSTANTS
  NumWallets = 3
  Tokens <- MCTokens
  TargetTokens <- MCTargetTokens
  FetchLimit = 3
  MaxRecipients = {2, 3}
  Balance <- MCBalance
  Decimals <- MCDecimals
  WalletFacts <- MCWalletFacts
  EntryReasons = {"ZeroBalance"}
  Acquirers = {1}
  Accounts <- MCAccounts
  PageSize = 2
  LargestAccounts = 3
  MaxHolders = 4
  MaxChanges = 1
  SolscanClient <- MCSolscan
  HttpRpcClient <- MCRpc
  RetryAfters = {0, 20}
INVARIANTS
  RetriesAreBounded
  StillListIsRead
  EveryPageBringsOne
  EachChangeCostsOne
  NoKnownHolder
  EveryCandidateAccounted
  BestAreTaken
  LimitIsUsed
  TiesByBalance
CHECK_DEADLOCK FALSE
