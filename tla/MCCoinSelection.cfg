CONSTANTS
  MaxMoney = 14
  MaxSize = 9
  BaseSize = 1
  InputSize = 1
  MintSize = 1
  UtxoSize = 1
  V2Size = 1
  V2InputSize = 1
  MaxChaumV2Inputs = 2
  SelectCalls <- MCCalls
  CoinValues = {0, 1, 3, 6}
  Heights = {1, 2}
  MaxCoins = 3
  Sends = {0, 1, 2, 4, 9, 14, 15}
  Extras = {0, 4}
SPECIFICATION SelectSpec
INVARIANTS
  SelectTypeOK
  SelectionAccounted
  LeastFee
  FailureIsReal
  NeverShort
  OldestFirst
PROPERTY
  SelectTerminates
