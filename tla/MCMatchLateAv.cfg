SPECIFICATION Spec
CONSTANTS
  s1 = s1
  s2 = s2
  m1 = m1
  m2 = m2
  m3 = m3
  m4 = m4
  r1 = r1
  r2 = r2
  r3 = r3
  r4 = r4
  Unspec = Unspec
  NoMsg = NoMsg
  Sources <- MCSources
  Msgs <- MCMsgs
  Recvs <- MCRecvs
  Sent <- LateSent
  List <- MCList
  Tag <- LateTag
  Ignore <- MCIgnore
  Addr <- LateAddr
  InAv = {}
  Faults = {}
CHECK_DEADLOCK FALSE
INVARIANT NoOvertaking
