SPECIFICATION Spec
CONSTANTS
  p1 = p1
  p2 = p2
  r1 = r1
  r2 = r2
  r3 = r3
  NULL = NULL
  WILD = WILD
  Procs <- MCOneProc
  Requests <- MCRequests
  Sizes <- MCFits
  MAX_PAYLOAD_SIZE = 1
  SocketTypes <- MCRequestOnly
  TimeoutFinite = TRUE
INVARIANT
  NoProcessDies
