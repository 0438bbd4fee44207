CONSTANTS
  a = a
  b = b
  Eps <- MCEps
  NPages = 3
  NSlots = 3
  MaxCnt = 2
  MaxSize = 4
  Faults <- MCFaults
  Reissue = FALSE
  Messages <- MCMessages
  Dests <- MCAnyDest
  MaxInflight = 1
  LenderLast = TRUE
SPECIFICATION Spec
INVARIANT SegmentNamesChunk
CHECK_DEADLOCK FALSE
