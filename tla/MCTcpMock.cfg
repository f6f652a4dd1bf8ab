SPECIFICATION MockFairSpec
CONSTANTS
  WordBytes <- MCWordBytes
  Sessions <- MCSessions
  Lengths <- MCLengths
  Lines <- MCLines
  HeadlineInDepth = 1
  HeadlineOutDepth = 1
  PayloadInDepth = 1
  PortDepth = 1
  MaxNotifications = 2
  Unset = Unset
  headers_size = 6
  body_size = 1
  InnerDepth = 1
  LengthValues = 16
  MockLength = 4
INVARIANTS
  MockTypeOK
  AnswerArrivesWhole
  NeverStuck
PROPERTY
  ListenKeepsTurning
