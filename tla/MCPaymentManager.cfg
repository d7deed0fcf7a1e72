CONSTANTS
  r1 = r1
  r2 = r2
  r3 = r3
  k1 = k1
  k2 = k2
  Request <- Requests
  Payment <- Payments
  NoPayment = NoPayment
  MaxCrashes = 1
SPECIFICATION FairSpec
INVARIANTS
  TypeOK
  LockHeldByOne
  GrantedAtMostOnce
  CheckStaysValid
  SecondCallNeedsAFailure
PROPERTIES
  ImplementsPaymentOnce
  EveryRequestEnds
  EveryLockIsReleased
