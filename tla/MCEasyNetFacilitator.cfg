CONSTANTS
  Call = {c1, c2, c3}
  Wallet = {"p", "q"}
  Authorization <- Payments
  InitialFunding = 3
  MaxUint = 7
  NoCall = NoCall
  MaxCrashes = 1
SPECIFICATION FairSpec
INVARIANTS
  TypeOK
  OneRowPerWallet
  VerifiedSettleCanTransfer
  NoLostUpdate
  StateMatchesTransactions
  AnswerTellsTheLedger
PROPERTY
  EveryCallEnds
