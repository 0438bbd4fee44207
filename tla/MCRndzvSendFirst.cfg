SPECIFICATION FairAppSpec
CONSTANTS
  Nodes = {"a", "b"}
  Msgs = {"m1", "m2", "m3", "m4"}
  Recvs = {"r1", "r3"}
  NoMsg = "none"
  Src <- XSrc
  Dst <- XDst
  Owner <- XOwner
  NSeg <- XNSeg
  Room <- XRoom
  Matches <- XMatches
  Silent = {}
  Before <- XSendFirst
  MaxInflight = 1
  CongPairs = {}
  Faults = {}
PROPERTY ThrottleOnlyDelays

