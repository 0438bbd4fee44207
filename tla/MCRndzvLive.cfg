SPECIFICATION FairAppSpec
CONSTANTS
  Nodes = {"a", "b", "c"}
  Msgs = {"m1", "m2", "m3"}
  Recvs = {"r1", "r2"}
  NoMsg = "none"
  Src <- FanSrc
  Dst <- FanDst
  Owner <- FanOwner
  NSeg <- FanNSeg
  Room <- FanRoom
  Matches <- FanMatches
  Silent = {}
  Before <- FanBefore
  MaxInflight = 1
  CongPairs <- FanCong
  Faults = {"dma_err"}
INVARIANT NoOrphanedSend
PROPERTY TransferCompletes
PROPERTY ThrottleOnlyDelays
