SPECIFICATION FairSpec
CONSTANTS
  s1 = s1
  s2 = s2
  WordBytes = 2
  LengthValues = 16
  Sessions <- MCSessions
  StatusCodes <- MCStatusCodes
  Sizes <- MCSizes
  Responses <- MCResponses
  MaxResponses = 3
  InnerDepth = 2
  PortDepth = 2
  Unset = Unset
INVARIANTS
  TypeOK
  StatusLineOfCurrent
  PartsOfCurrent
PROPERTIES
  RefinesDelivery
  EveryResponseSettled
