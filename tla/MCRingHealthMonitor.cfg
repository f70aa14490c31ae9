SPECIFICATION Spec
CONSTANTS
  mac = mac
  phone = phone
  pad = pad
  None = None
  Local = mac
  Coordinator = mac
  IdOrder <- TwoPeers
  Published <- MCPublished
  Support <- MCSupport
  LeaseDuration = 2
  MissLimit = 1
  Dwell = 0
  StallThreshold = 1
  GraceAfterLoss = 0
  ReformTimeout = 1
  MaxAttempts = 1
  CanReform = TRUE
  ProbeInterval = 1
  PingTimeout = 1
  Unstable <- OnePhone
INVARIANTS
  TypeOK
  SteadyPeerStaysIn
  BannerTellsTheEnd
  RebuildOnlyWhileReforming
