CONSTANTS
  NameLengths = {1, 20}
  InfoLengths = {0, 252, 253, 1024}
  Validities <- MCValidities
  AddressLength = 144
  ProofLength = 130
  Margin = 20
  MaxInt32 = 2147483647
  MaxFailSafe = 3
SPECIFICATION NameSpec
INVARIANTS
  NameTypeOK
  PublishedIsAccepted
  SizePaid
PROPERTIES
  SpendIsUsed
