CONSTANTS
  MaxMoney = 20
  MaxSize = 30
  BaseSize = 1
  InputSize = 1
  MintSize = 2
  UtxoSize = 1
  V2Size = 1
  V2InputSize = 1
  MaxChaumV2Inputs = 2
  SelectCalls = {}
  SparkOutLimit = 4
  MaxV2Outputs = 4
  MaxCoverSet = 3
  MaxSetId = 3
  PayAmounts = {0, 1, 4, 7}
  MaxPublic = 2
  MaxPrivate = 2
  Wallets = {"one", "many", "over"}
  CoverSets <- MCCoverSets
  Requests <- MCRequests
SPECIFICATION Spec
INVARIANTS
  SpendTypeOK
  ValueConserved
  FeeBorneExactly
  FeeCoversOutputs
  InputsBound
  RepeatedChecksHold
PROPERTY
  ImplementsAtomicSpend
