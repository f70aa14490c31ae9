SPECIFICATION Spec
CONSTANTS
  laptop = laptop
  desk = desk
  phone = phone
  Nil = Nil
  IdOrder <- MCIdOrder
  Platform <- MCPlatform
  Published <- MCPublished
  Usable <- MCUsable
  Trusted = {desk, laptop, phone}
  Battery = {phone}
  Support <- MCSupport
  LeaseDuration = 2
  MissLimit = 1
  Dwell = 1
  MaxEpoch = 2
  Models <- MCModels
  StageDuration = 1
INVARIANTS
  TypeOK
  SeatsMatchMembership
  PlanIsForItsEpoch
  PlanCanBeCarriedOut
