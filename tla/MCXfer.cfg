CONSTANTS
  Size = 2
  ReadMax = 2
  SegMax = 2
  IovLimit = 2
  NOps = 3
  Inputs <- MCInputs
  Faults <- MCFaults
SPECIFICATION Spec
INVARIANTS XferTypeOK ReportedMeansMoved CountsExact BufferAtRest ReportedOnce TableFilled CqAsserts
PROPERTIES CqIsQueue
