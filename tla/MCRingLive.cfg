SPECIFICATION FairSpec
CONSTANTS
  a = a
  b = b
  Nodes <- MCNodes
  Peer <- MCPeer
  Slots = 4
  GenMod = 3
  Congestible = {a}
  MaxSend <- OneWay
PROPERTY SenderNotStuck
