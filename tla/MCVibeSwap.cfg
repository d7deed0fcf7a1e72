CONSTANTS
  User = {u1, u2}
  Token = {1, 2, 3}
  Burn = burn
  FeeNumerator = 9
  FeeDenominator = 10
  MinimumLiquidity = 1
  Bits = 10
  Funding = {105}
  Desired <- MCDesired
  Share = {2}
  Amount = {3, 9}
  Limit = {0, 4}
  Path <- MCPath
  MaxSupply = 105
  MaxCalls = 7
  None = None
SPECIFICATION Spec
SYMMETRY MCSymmetry
CHECK_DEADLOCK FALSE
INVARIANTS
  TypeOK
  SharesAddUp
  OnlyHugeDepositsHang
PROPERTIES
  TokensAreConserved
  FailedCallsMoveNothing
  ShareKeepsItsValue
  FirstMintIsTheRoot
