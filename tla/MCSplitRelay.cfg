SPECIFICATION FairSpec
CONSTANTS
  Laptop = Laptop
  IPhone = IPhone
  NoNode = NoNode
  Nodes = {Laptop, IPhone}
  MaxConns = 2
  MaxTunnels = 2
  ChannelLimit = 1
  Earlier = {IPhone}
CHECK_DEADLOCK FALSE
INVARIANTS
  TypeOK
  OneSessionPerWorker
  HandOverIsKept
PROPERTIES
  PassIsClean
  CreditIsForThisRun
  RunIsJudged
  StopEndsWhenNobodyConnects
