CONSTANTS
  Size = 2
  ReadMax = 2
  SegMax = 2
  IovLimit = 2
  NOps = 3
  Inputs <- MCInputs
  Faults <- MCFaults
SPECIFICATION Spec
INVARIANT ReportedWhenDue
