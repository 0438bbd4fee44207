SPECIFICATION Spec
CONSTANTS
  a = a
  b = b
  Nodes <- MCNodes
  Peer <- MCPeerOf
  Progs <- MCProgs
  Slots = 2
  Faults = {"late", "ack_lost"}
INVARIANT NoStrandedMessage
