SPECIFICATION Spec
CONSTANTS
  BUFFER = 4
  TxAlignerDepth = 1
  PortDepth = 1
  MaxWords = 3
INVARIANT
  EndsByLastOrLength
