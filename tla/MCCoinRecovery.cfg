CONSTANTS
  k1 = k1
  k2 = k2
  d1 = d1
  d2 = d2
  d3 = d3
  Keys = {k1, k2}
  Devices = {d1, d2, d3}
  KeyOf <- MCKeyOf
  Payments <- MCPayments
  MaxMoney = 10
  MemoBytes = 31
  ChangeD = 0
  MaxTxs = 3
SPECIFICATION RecoverySpec
INVARIANTS
  RecoveryTypeOK
  OnlyOwnerFinds
  SpentIsSeen
  ListNeverRefused
  NoCoinTwice
