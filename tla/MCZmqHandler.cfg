SPECIFICATION FairSpec
CONSTANTS
  p1 = p1
  p2 = p2
  r1 = r1
  r2 = r2
  r3 = r3
  NULL = NULL
  WILD = WILD
  Procs <- MCProcs
  Requests <- MCRequests
  Sizes <- MCSizes
  MAX_PAYLOAD_SIZE = 1
  SocketTypes <- MCSocketTypes
  TimeoutFinite = TRUE
INVARIANTS
  TypeOK
  PooledReady
  HeldOrPooled
  ReplyIsOwn
PROPERTIES
  RefinesService
  EveryRequestEnds
