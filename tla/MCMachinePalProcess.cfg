CONSTANTS
  SelfTestTick = 2
  NoResult = NoResult
  Command = {i1, i2}
  Edited <- MCEdited
  Cut <- MCCut
  Environment <- MCEnvironment
  CommandLine <- MCCommandLine
SPECIFICATION FairProcessSpec
INVARIANTS
  ProcessTypeOK
  StoppedOnce
  ServerThreadIsJoined
  ConfigurationComesLast
  SecretsAreNeverExposed
  InitializedProjectStarts
PROPERTIES
  ShutdownEnds
  CommandLineWins
