SPECIFICATION Spec
CONSTANTS
  a = a
  b = b
  Nodes <- MCNodes
  Peer <- MCPeer
  Slots = 2
  GenMod = 2
  Congestible <- MCNodes
  MaxSend <- Duplex
INVARIANT CreditBehindConsumer
INVARIANT ArrivedIsNext
INVARIANT StagingStable
PROPERTY RingIsFifo
