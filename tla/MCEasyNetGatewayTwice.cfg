CONSTANTS
  k1 = k1
  k2 = k2
  Request = {r1, r2}
  Payment <- Payments
  NoPayment = NoPayment
  Wallet = {"p", "m"}
  Authorization <- Authorizations
  InitialFunding = 3
  MaxUint = 7
  NoCall = NoCall
  MaxCrashes = 0
SPECIFICATION GatewaySpec
INVARIANT
  PaidOnlyOnce
