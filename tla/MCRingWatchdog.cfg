SPECIFICATION FairSpec
CONSTANTS
  mac = mac
  phone = phone
  None = None
  Reasons <- MCReasons
  StallThreshold = 4
  GraceAfterLoss = 2
  ReformTimeout = 3
  MaxAttempts = 3
INVARIANTS
  TypeOK
  OnlyLossEscalates
PROPERTIES
  NeverCutsShort
  TerminalIsFinal
  NoRequestIntoDeadRing
  DiagnosisIsKept
  RecoverySpec
