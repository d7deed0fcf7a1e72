CONSTANTS
  k1 = k1
  k2 = k2
  Exchange = {x1, x2}
  Request <- Requests
  NoPayment = NoPayment
  MaxBodySize = 1
  MaxChunks = 2
SPECIFICATION FairSpec
INVARIANTS
  TypeOK
  AtMostOneResponse
  NoPaymentAfterReply
  OnePaymentOneResource
PROPERTY
  EveryExchangeEnds
