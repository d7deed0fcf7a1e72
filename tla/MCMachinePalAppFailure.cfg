CONSTANTS
  SelfTestTick = 2
  NoResult = NoResult
SPECIFICATION Spec
INVARIANT
  FailureIsReported
