SPECIFICATION FairSpec
CONSTANTS
  a = a
  b = b
  Nodes <- MCNodes
  Peer <- MCPeer
  Slots = 2
  GenMod = 2
  Congestible = {b}
  MaxSend <- Duplex
INVARIANT CreditBehindConsumer
INVARIANT ArrivedIsNext
INVARIANT StagingStable
PROPERTY RingIsFifo
PROPERTY StuckOnlyByRefusedCredit
