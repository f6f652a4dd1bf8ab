SPECIFICATION RequestSideSpec
CONSTANTS
  s1 = s1
  s2 = s2
  WordBytes <- MCWordBytes
  Sessions <- MCOneSession
  Lengths <- MCWithoutBody
  Lines <- MCLines
  HeadlineInDepth = 1
  HeadlineOutDepth = 1
  PayloadInDepth = 1
  PortDepth = 1
  MaxNotifications = 6
  Unset = Unset
  headers_size = 3
  body_size = 1
  InnerDepth = 1
  LengthValues = 8
PROPERTY
  KeepsAlive
CHECK_DEADLOCK FALSE
