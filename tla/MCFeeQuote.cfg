CONSTANTS
  MaxMoney = 30
  MaxSize = 30
  BaseSize = 1
  InputSize = 1
  MintSize = 1
  UtxoSize = 2
  V2Size = 1
  V2InputSize = 1
  MaxChaumV2Inputs = 3
  SelectCalls = {}
  SparkOutLimit = 4
  MaxV2Outputs = 4
  MaxCoverSet = 4
  MaxSetId = 3
  PayAmounts = {1, 5}
  PoolValues <- MCPoolValues
  CoinPool <- MCCoinPool
  MaxWallet = 4
  Requests <- MCQuoteRequests
SPECIFICATION QuoteSpec
INVARIANT
  QuoteHolds
