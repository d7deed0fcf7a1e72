CONSTANTS
  Buyer = {b1, b2}
  Thread = {t1, t2}
  Price = {1, 2}
  Skew <- Skews
  Window = 1
  MaxTime = 2
  MaxRestarts = 1
SPECIFICATION FairSpec
INVARIANT
  ChargesMatchAnswers
PROPERTIES
  PunctualBuyersAreAccepted
  OnlyBackendsHoldThreads
