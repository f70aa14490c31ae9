SPECIFICATION FairSpec
CONSTANTS
  Mac = Mac
  Phone = Phone
  Nodes = {Mac, Phone}
  Offers <- MCOffers
  Support <- MCSupport
  LeaseDuration = 2
  MissLimit = 2
  Dwell = 2
  HostEvents = {"enteredBackground", "drainRequested", "drainCompleted",
                "leaseExpired", "heartbeatLost"}
  MaxEpoch = 3
INVARIANTS
  TypeOK
  NoStaleAuthority
  LeaseWithinOSLimit
  RequiredLeaseFitsState
PROPERTIES
  DrainIsOneWay
  RejoinStartsAfresh
  EpochStartsClean
  EpochsSpec
  ChangesAreTakenUp
