SPECIFICATION FairSpec
CONSTANTS
  BUFFER = 4
  TxAlignerDepth = 1
  PortDepth = 1
  MaxWords = 4
INVARIANTS
  TypeOK
  PacketsSeparate
  BufferFollowsStream
PROPERTIES
  RefinesPacketStream
  PacketsForwarded
