SPECIFICATION PagesSpec
CONSTANTS
  s1 = s1
  s2 = s2
  WordBytes <- MCWordBytes
  Sessions <- MCSessions
  Lengths <- MCWithBody
  Lines <- MCLines
  HeadlineInDepth = 1
  HeadlineOutDepth = 1
  PayloadInDepth = 1
  PortDepth = 1
  MaxNotifications = 1
  Unset = Unset
  header_length = 3
  body_length = 3
  LengthValues = 8
  InternalDepth = 2
INVARIANT
  BodyFromItsOffset
CHECK_DEADLOCK FALSE
