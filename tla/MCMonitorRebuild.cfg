SPECIFICATION FairSpec
CONSTANTS
  mac = mac
  phone = phone
  pad = pad
  None = None
  Local = mac
  Coordinator = mac
  IdOrder <- OnePeer
  Published <- MCPublished
  Support <- MCSupport
  LeaseDuration = 3
  MissLimit = 1
  Dwell = 1
  StallThreshold = 1
  GraceAfterLoss = 1
  ReformTimeout = 1
  MaxAttempts = 2
  CanReform = TRUE
  ProbeInterval = 1
  PingTimeout = 1
  Unstable <- OnePhone
PROPERTIES
  RebuildResolves
