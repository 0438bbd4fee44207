SPECIFICATION FairSpec
CONSTANTS
  a = a
  b = b
  Nodes <- MCNodes
  Peer <- MCPeerOf
  Progs <- MCProgs
  Slots = 2
  Faults = {"req_lost"}
INVARIANT TypeOK
INVARIANT NoStrandedMessage
INVARIANT InOrderDelivery
INVARIANT ReadyMeansUsable
PROPERTY AllDelivered
