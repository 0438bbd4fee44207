SPECIFICATION Spec
CONSTANTS
  Nodes = {"a", "b", "c"}
  Msgs = {"m1", "m2", "m3"}
  Recvs = {"r1", "r2", "r3"}
  NoMsg = "none"
  Src <- MCSrc
  Dst <- MCDst
  Owner <- MCOwner
  NSeg <- MCNSeg
  Room <- MCRoom
  Matches <- MCMatches
  Silent = {"r1"}
  Before = {}
  MaxInflight = 2
  CongPairs <- MCCong
  Faults = {"nomem", "post_err", "dma_err", "fin_lost"}
INVARIANTS SegmentAccounting SourceHeldDuringReads CompleteOrError InflightExact OneCompletion OnePlace NoMissedMatch
