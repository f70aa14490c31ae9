SPECIFICATION FairSpec
CONSTANTS
  a = a
  b = b
  None = None
  IdOrder <- MCOrder
  Scenarios <- MCPairs
INVARIANTS
  TypeOK
  OneLeader
  
PROPERTIES
  RingForms
CHECK_DEADLOCK FALSE
