CONSTANTS
  Order = 3
  ScalarCodes = {0, 1, 2, 3}
  SpendKeys <- MCSpendKeys
  s2 = 1
  hash_Q2 <- MCHashQ2
  Diversifiers = {0, 1}
  Messages = {"m1", "m2", "overlong"}
  Overlong = {"overlong"}
SPECIFICATION OwnershipSpec
INVARIANTS
  ProofIsBound
  OneProofAccepted
