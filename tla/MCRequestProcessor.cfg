SPECIFICATION FairSpec
CONSTANTS
  s1 = s1
  s2 = s2
  WordBytes <- MCWordBytes
  Sessions <- MCSessions
  Lengths <- MCLengths
  Lines <- MCOneLine
  HeadlineInDepth = 1
  HeadlineOutDepth = 1
  PayloadInDepth = 1
  PortDepth = 1
  MaxNotifications = 3
  Unset = Unset
INVARIANTS
  TypeOK
  OneTransferAtATime
  ServedAsNotified
  RequestsMatchServed
  RequestPipeline
PROPERTIES
  RefinesDelivery
  PromisedPayloadArrives
  EveryNotificationAnswered
