CONSTANTS
  Call = {c1, c2}
  Wallet = {"p", "q"}
  Authorization <- SelfPayments
  InitialFunding = 3
  MaxUint = 7
  NoCall = NoCall
  MaxCrashes = 1
SPECIFICATION Spec
INVARIANT
  NothingIsMinted
