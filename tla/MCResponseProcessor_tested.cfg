SPECIFICATION Spec
CONSTANTS
  s1 = s1
  s2 = s2
  WordBytes = 2
  LengthValues = 8
  Sessions <- MCSessions
  StatusCodes <- MCStatusCodes
  Sizes <- MCSizes
  Responses <- MCResponses
  MaxResponses = 1
  InnerDepth = 2
  PortDepth = 2
  Unset = Unset
INVARIANT
  AnnouncedAsTested
