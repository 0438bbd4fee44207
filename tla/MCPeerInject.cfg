SPECIFICATION Spec
CONSTANTS
  a = a
  b = b
  Nodes <- MCNodes
  Peer <- MCPeerOf
  Progs <- MixInject
  Slots = 2
  Faults = {}
INVARIANT InOrderDelivery
