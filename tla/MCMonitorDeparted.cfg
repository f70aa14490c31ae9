SPECIFICATION Spec
CONSTANTS
  mac = mac
  phone = phone
  pad = pad
  None = None
  Local = mac
  Coordinator = mac
  IdOrder <- OnePeer
  Published <- MCPublished
  Support <- MCSupport
  LeaseDuration = 4
  MissLimit = 2
  Dwell = 1
  StallThreshold = 2
  GraceAfterLoss = 1
  ReformTimeout = 2
  MaxAttempts = 2
  CanReform = TRUE
  ProbeInterval = 1
  PingTimeout = 1
  Unstable <- OnePhone
PROPERTIES
  RebuildExcludesDeparted
