--------------------------- MODULE RdsPeerProofs ---------------------------
(***************************************************************************)
(* Proofs about RdsPeer, for any programs, ring sizes and configurations   *)
(* of the two endpoints.                                                   *)
(*                                                                         *)
(* Control datagrams matter only by being on their way, so the handshake   *)
(* is argued about with the set of kinds of datagrams in a socket (Ops);   *)
(* the order of messages with a relation on the values of one direction    *)
(* (Flow).                                                                 *)
(***************************************************************************)
EXTENDS RdsPeer, SequenceTheorems, TLAPS

\* Leaves go to SMT unless they name another prover.
USE SMTT(60)

(***************************************************************************)
(* Sockets                                                                 *)
(***************************************************************************)

\* The kinds of datagrams in q.
Ops(q) == {q[i].op : i \in 1 .. Len(q)}

\* Adding a datagram, and taking the first one.
LEMMA OpsFacts ==
  ASSUME NEW q \in Seq(Datagram)
  PROVE  /\ \A d \in Datagram : Append(q, d) \in Seq(Datagram)
                                /\ Ops(Append(q, d)) = Ops(q) \cup {d.op}
         /\ q # <<>> => /\ Head(q) \in Datagram /\ Tail(q) \in Seq(Datagram)
                        /\ Ops(q) = {Head(q).op} \cup Ops(Tail(q))
<1>1. ASSUME NEW d \in Datagram
      PROVE  Append(q, d) \in Seq(Datagram) /\ Ops(Append(q, d)) = Ops(q) \cup {d.op}
  BY DEF Ops
<1>2. ASSUME q # <<>>
      PROVE  /\ Head(q) \in Datagram /\ Tail(q) \in Seq(Datagram)
             /\ Ops(q) = {Head(q).op} \cup Ops(Tail(q))
  <2>1. /\ Len(q) \in Nat \ {0} /\ Head(q) = q[1] /\ Head(q) \in Datagram
        /\ Tail(q) \in Seq(Datagram) /\ Len(Tail(q)) = Len(q) - 1
        /\ \A i \in 1 .. Len(q) - 1 : Tail(q)[i] = q[i + 1]
    BY <1>2
  <2>2. ASSUME NEW i \in 1 .. Len(q) PROVE q[i].op \in {Head(q).op} \cup Ops(Tail(q))
    <3>1. CASE i = 1
      BY <3>1, <2>1
    <3>2. CASE i # 1
      <4>1. i - 1 \in 1 .. Len(Tail(q)) /\ Tail(q)[i - 1] = q[i]
        BY <3>2, <2>1
      <4> QED BY <4>1, Zenon DEF Ops
    <3> QED BY <3>1, <3>2
  <2>3. ASSUME NEW i \in 1 .. Len(Tail(q)) PROVE Tail(q)[i].op \in Ops(q)
    <3>1. i + 1 \in 1 .. Len(q) /\ Tail(q)[i] = q[i + 1]
      BY <2>1
    <3> QED BY <3>1, Zenon DEF Ops
  <2>4. Head(q).op \in Ops(q)
    <3>1. 1 \in 1 .. Len(q)
      BY <2>1
    <3> QED BY <3>1, <2>1, Zenon DEF Ops
  <2>5. Ops(q) \subseteq {Head(q).op} \cup Ops(Tail(q))
    BY <2>2, Zenon DEF Ops
  <2>6. Ops(Tail(q)) \subseteq Ops(q)
    BY <2>3, Zenon DEF Ops
  <2> QED BY <2>1, <2>4, <2>5, <2>6, Zenon
<1> QED BY <1>1, <1>2

\* A control datagram is in the socket.
LEMMA CtrlIs == ASSUME NEW q PROVE CtrlIn(q) <=> \E o \in Ops(q) : o # "MSG"
  BY Zenon DEF CtrlIn, Ops

\* Sending a control datagram, or failing to.
LEMMA CtrlSentIs ==
  ASSUME NEW q \in Seq(Datagram), NEW op \in {"REQ", "ACK"}, NEW fault,
         NEW c \in CtrlSent(op, fault)
  PROVE  \/ q \o c = q /\ fault \in Faults
         \/ q \o c = Append(q, Ctrl(op)) /\ Ctrl(op) \in Datagram /\ Ctrl(op).op = op
<1>1. c = <<Ctrl(op)>> \/ (c = <<>> /\ fault \in Faults)
  BY Zenon DEF CtrlSent
<1>2. Ctrl(op) \in Datagram /\ Ctrl(op).op = op
  BY DEF Ctrl, Datagram
<1>3. CASE c = <<>>
  BY <1>1, <1>3, ConcatEmptySeq
<1>4. CASE c = <<Ctrl(op)>>
  <2>1. Append(q, Ctrl(op)) = q \o <<Ctrl(op)>>
    BY <1>2, AppendIsConcat
  <2> QED BY <1>2, <1>4, <2>1
<1> QED BY <1>1, <1>3, <1>4

\* Changing a function at one place.
LEMMA ExceptIn ==
  ASSUME NEW S, NEW T, NEW f \in [S -> T], NEW a, NEW v \in T
  PROVE  [f EXCEPT ![a] = v] \in [S -> T]
  BY Zenon

\* Changing it to what it is.
LEMMA ExceptSame ==
  ASSUME NEW S, NEW T, NEW f \in [S -> T], NEW a \in S, NEW v, v = f[a]
  PROVE  [f EXCEPT ![a] = v] = f
  OBVIOUS

\* The two endpoints.
LEMMA TwoNodes ==
  ASSUME NEW n \in Nodes
  PROVE  /\ Peer[n] \in Nodes /\ Peer[n] # n /\ Peer[Peer[n]] = n
         /\ \A k \in Nodes : k = n \/ k = Peer[n]
  BY PeerAssumption DEF PeerAssumption

(***************************************************************************)
(* What the steps do                                                       *)
(***************************************************************************)

\* rds_peer_find and rds_peer_create.
LEMMA FoundIs ==
  ASSUME TypeOK, NEW n \in Nodes, NEW s \in Found(n)
  PROVE  /\ s \in State
         /\ state[n] # "ABSENT" => s = state[n]
         /\ state[n] = "ABSENT" => \/ s = "ABSENT" /\ (conf[n] = "off" \/ "nomem" \in Faults)
                                   \/ s = "DISABLED" /\ conf[n] = "regfail"
                                   \/ s = "NONE" /\ conf[n] = "ok"
<1>1. conf[n] \in {"ok", "regfail", "off"} /\ state[n] \in State
  BY DEF TypeOK
<1>2. CASE state[n] # "ABSENT"
  BY <1>1, <1>2 DEF Found
<1>3. CASE state[n] = "ABSENT"
  <2>1. CASE conf[n] = "off"
    BY <1>3, <2>1 DEF Found, State
  <2>2. CASE conf[n] = "regfail"
    BY <1>3, <2>2 DEF Found, State
  <2>3. CASE conf[n] = "ok"
    BY <1>3, <2>3 DEF Found, State
  <2> QED BY <1>1, <2>1, <2>2, <2>3
<1> QED BY <1>2, <1>3

\* A datagram of the application goes out.
LEMMA EmitDoes ==
  ASSUME TypeOK, NEW n \in Nodes, EmitDatagram(n)
  PROVE  /\ dgram' = [dgram EXCEPT ![n] = Append(@, Msg(nxt[n]))]
         /\ nxt' = [nxt EXCEPT ![n] = @ + 1]
         /\ Msg(nxt[n]) \in Datagram /\ Msg(nxt[n]).op = "MSG" /\ Msg(nxt[n]).k = nxt[n]
  BY DEF TypeOK, EmitDatagram, Msg, Datagram

\* The request of a ring.
LEMMA RequestDoes ==
  ASSUME TypeOK, NEW n \in Nodes, SendRequest(n)
  PROVE  /\ state[n] = "NONE" \/ (state[n] = "ABSENT" /\ conf[n] = "ok")
         /\ state' = [state EXCEPT ![n] = "CONNECTING"]
         /\ \/ dgram' = dgram
            \/ /\ dgram' = [dgram EXCEPT ![n] = Append(@, Ctrl("REQ"))]
               /\ Ctrl("REQ") \in Datagram /\ Ctrl("REQ").op = "REQ"
         /\ UNCHANGED <<prog, conf, geo, expired, nxt, ring, got, pass>>
<1>1. /\ "NONE" \in Found(n)
      /\ state' = [state EXCEPT ![n] = "CONNECTING"]
      /\ \E c \in CtrlSent("REQ", "req_lost") : dgram' = [dgram EXCEPT ![n] = @ \o c]
      /\ UNCHANGED <<prog, conf, geo, expired, nxt, ring, got, pass>>
  BY Zenon DEF SendRequest, envVars
<1>2. state[n] = "NONE" \/ (state[n] = "ABSENT" /\ conf[n] = "ok")
  BY <1>1, FoundIs
<1>3. PICK c \in CtrlSent("REQ", "req_lost") : dgram' = [dgram EXCEPT ![n] = dgram[n] \o c]
  BY <1>1, Zenon
<1>4. dgram \in [Nodes -> Seq(Datagram)] /\ dgram[n] \in Seq(Datagram)
  BY DEF TypeOK
<1>5. \/ dgram[n] \o c = dgram[n]
      \/ /\ dgram[n] \o c = Append(dgram[n], Ctrl("REQ"))
         /\ Ctrl("REQ") \in Datagram /\ Ctrl("REQ").op = "REQ"
  BY <1>4, CtrlSentIs
<1>6. CASE dgram[n] \o c = dgram[n]
  <2>1. dgram' = dgram
    BY <1>3, <1>4, <1>6, ExceptSame, Zenon
  <2> QED BY <2>1, <1>1, <1>2, Zenon
<1>7. CASE dgram[n] \o c # dgram[n]
  <2>1. dgram' = [dgram EXCEPT ![n] = Append(dgram[n], Ctrl("REQ"))]
    BY <1>3, <1>5, <1>7, Zenon
  <2> QED BY <2>1, <1>1, <1>2, <1>5, <1>7, Zenon
<1> QED BY <1>6, <1>7

\* A control datagram is handled.
LEMMA RecvCtrlDoes ==
  ASSUME TypeOK, NEW n \in Nodes, RecvCtrl(n)
  PROVE  /\ dgram[Peer[n]] # <<>> /\ Head(dgram[Peer[n]]).op # "MSG"
         /\ UNCHANGED <<prog, conf, geo, expired, nxt, ring, got, pass>>
         /\ \E s \in Found(n) :
              /\ state' = [state EXCEPT ![n] = IF Answered(n, s) THEN "READY"
                                               ELSE IF s = "ABSENT" THEN s ELSE "DISABLED"]
              /\ \/ /\ dgram' = [dgram EXCEPT ![Peer[n]] = Tail(@), ![n] = Append(@, Ctrl("ACK"))]
                    /\ Ctrl("ACK") \in Datagram /\ Ctrl("ACK").op = "ACK"
                    /\ Answered(n, s) /\ Head(dgram[Peer[n]]).op = "REQ"
                 \/ /\ dgram' = [dgram EXCEPT ![Peer[n]] = Tail(@)]
                    /\ \/ ~Answered(n, s) \/ Head(dgram[Peer[n]]).op # "REQ"
                       \/ "ack_lost" \in Faults
<1> DEFINE p == Peer[n]
           op == Head(dgram[p]).op
<1>1. /\ dgram[p] # <<>> /\ op # "MSG"
      /\ \E s \in Found(n) :
           /\ state' = [state EXCEPT ![n] = IF Answered(n, s) THEN "READY"
                                            ELSE IF s = "ABSENT" THEN s ELSE "DISABLED"]
           /\ \E c \in IF Answered(n, s) /\ op = "REQ" THEN CtrlSent("ACK", "ack_lost") ELSE {<<>>} :
                dgram' = [dgram EXCEPT ![p] = Tail(@), ![n] = @ \o c]
      /\ UNCHANGED <<prog, conf, geo, expired, nxt, ring, got, pass>>
  BY Zenon DEF RecvCtrl, envVars
<1>2. PICK s \in Found(n) :
        /\ state' = [state EXCEPT ![n] = IF Answered(n, s) THEN "READY"
                                         ELSE IF s = "ABSENT" THEN s ELSE "DISABLED"]
        /\ \E c \in IF Answered(n, s) /\ op = "REQ" THEN CtrlSent("ACK", "ack_lost") ELSE {<<>>} :
             dgram' = [dgram EXCEPT ![p] = Tail(@), ![n] = @ \o c]
  BY <1>1, Zenon
<1>3. PICK c \in IF Answered(n, s) /\ op = "REQ" THEN CtrlSent("ACK", "ack_lost") ELSE {<<>>} :
        dgram' = [dgram EXCEPT ![p] = Tail(@), ![n] = @ \o c]
  BY <1>2, Zenon
<1>4. dgram \in [Nodes -> Seq(Datagram)] /\ dgram[n] \in Seq(Datagram) /\ p \in Nodes /\ p # n
  BY TwoNodes DEF TypeOK
<1> HIDE DEF p, op
<1>5. dgram' = [[dgram EXCEPT ![p] = Tail(@)] EXCEPT ![n] = dgram[n] \o c]
  BY <1>3, <1>4
<1>t. /\ [dgram EXCEPT ![p] = Tail(@)] \in [Nodes -> Seq(Datagram)]
      /\ [dgram EXCEPT ![p] = Tail(@)][n] = dgram[n]
  <2>1. Tail(dgram[p]) \in Seq(Datagram)
    BY <1>1, <1>4, OpsFacts
  <2> QED BY <2>1, <1>4, ExceptIn, Zenon
<1>6. CASE Answered(n, s) /\ op = "REQ"
  <2>1. \/ dgram[n] \o c = dgram[n] /\ "ack_lost" \in Faults
        \/ dgram[n] \o c = Append(dgram[n], Ctrl("ACK")) /\ Ctrl("ACK") \in Datagram
           /\ Ctrl("ACK").op = "ACK"
    BY <1>3, <1>4, <1>6, CtrlSentIs
  <2>2. CASE dgram[n] \o c = dgram[n] /\ "ack_lost" \in Faults
    <3>1. dgram' = [dgram EXCEPT ![p] = Tail(@)]
      BY <2>2, <1>4, <1>5, <1>t, ExceptSame, Zenon
    <3> QED BY <3>1, <2>2, <1>1, <1>2, Zenon DEF p, op
  <2>3. CASE dgram[n] \o c = Append(dgram[n], Ctrl("ACK")) /\ Ctrl("ACK") \in Datagram
             /\ Ctrl("ACK").op = "ACK"
    <3>1. dgram' = [dgram EXCEPT ![p] = Tail(@), ![n] = Append(@, Ctrl("ACK"))]
      BY <2>3, <1>4, <1>5
    <3> QED BY <3>1, <2>3, <1>6, <1>1, <1>2, Zenon DEF p, op
  <2> QED BY <2>1, <2>2, <2>3, Zenon
<1>7. CASE ~(Answered(n, s) /\ op = "REQ")
  <2>1. dgram[n] \o c = dgram[n]
    BY <1>3, <1>4, <1>7, ConcatEmptySeq
  <2>2. dgram' = [dgram EXCEPT ![p] = Tail(@)]
    BY <2>1, <1>4, <1>5, <1>t, ExceptSame, Zenon
  <2> QED BY <2>2, <1>7, <1>1, <1>2, Zenon DEF p, op
<1> QED BY <1>6, <1>7

(***************************************************************************)
(* A step, as seen by an endpoint k                                        *)
(***************************************************************************)

StateMove(k) ==
  \/ state'[k] = state[k]
  \/ state[k] = "ABSENT" /\ state'[k] = "DISABLED"
  \/ state[k] = "NONE" /\ state'[k] = "CONNECTING"
  \/ state[k] = "ABSENT" /\ conf[k] = "ok" /\ state'[k] = "CONNECTING"
  \/ state[k] = "CONNECTING" /\ expired[k] /\ state'[k] = "DISABLED"
  \/ ~geo /\ state'[k] = "DISABLED"
  \/ /\ geo /\ CtrlIn(dgram[Peer[k]]) /\ state'[k] = "READY"
     /\ state[k] \in {"NONE", "CONNECTING"} \/ (state[k] = "ABSENT" /\ conf[k] = "ok")

\* Where the datagrams in its socket come from.
SockMove(k) ==
  \A o \in Ops(dgram'[k]) :
    \/ o \in Ops(dgram[k])
    \/ o = "MSG" /\ Sending(k, "inject")
    \/ o = "MSG" /\ Sending(k, "send") /\ state'[k] = "DISABLED"
    \/ /\ o = "MSG" /\ Sending(k, "send") /\ state'[k] = "ABSENT"
       /\ conf[k] = "off" \/ "nomem" \in Faults
    \/ o = "REQ" /\ state[k] \in {"ABSENT", "NONE"} /\ state'[k] = "CONNECTING"
    \/ o = "ACK" /\ state'[k] = "READY"

\* Who takes its control datagrams.
CtrlMove(k) ==
  \/ CtrlIn(dgram[k]) => CtrlIn(dgram'[k])
  \/ ~geo \/ state'[Peer[k]] = "READY" \/ state[Peer[k]] \in {"ABSENT", "DISABLED"}

\* How it becomes READY.
ReadyMove(k) ==
  state'[k] = "READY" /\ state[k] # "READY" =>
    /\ expired' = expired /\ state'[Peer[k]] = state[Peer[k]]
    /\ \/ "ACK" \in Ops(dgram[Peer[k]])
       \/ "REQ" \in Ops(dgram[Peer[k]]) /\ (CtrlIn(dgram'[k]) \/ "ack_lost" \in Faults)

RingMove(k) == ring'[k] # <<>> => ring[k] # <<>> \/ (state[k] = "READY" /\ Sending(k, "send"))

TimeMove(k) ==
  \/ expired'[k] = expired[k]
  \/ state[k] = "CONNECTING" /\ state' = state /\ (AnswerDue(k) => "late" \in Faults)

Moves(k) ==
  /\ StateMove(k) /\ SockMove(k) /\ CtrlMove(k) /\ ReadyMove(k) /\ RingMove(k) /\ TimeMove(k)
  /\ conf'[k] = conf[k] /\ geo' = geo /\ prog' = prog

\* A step that leaves an endpoint's own state and sockets alone.
LEMMA MovesStill ==
  ASSUME NEW k, UNCHANGED <<prog, conf, geo>>, state'[k] = state[k], dgram'[k] = dgram[k],
         expired'[k] = expired[k], ring'[k] = ring[k]
  PROVE  Moves(k)
  BY Zenon DEF Moves, StateMove, SockMove, CtrlMove, ReadyMove, RingMove, TimeMove

\* What the application's calls do.
LEMMA MovesSend ==
  ASSUME TypeOK, NEW n \in Nodes, NEW k \in Nodes, Send(n)
  PROVE  Moves(k)
<1> DEFINE p == Peer[n]
<1>n. p \in Nodes /\ p # n /\ Peer[p] = n /\ (k = n \/ k = p)
  BY TwoNodes, Zenon
<1>t. /\ state \in [Nodes -> State]
      /\ dgram \in [Nodes -> Seq(Datagram)] /\ dgram[n] \in Seq(Datagram)
      /\ ring \in [Nodes -> Seq(Nat)]
  BY Zenon DEF TypeOK
<1> HIDE DEF p
<1>1. CASE SendNoRing(n)
  <2>1. PICK s \in Found(n) \cap {"ABSENT", "DISABLED"} : state' = [state EXCEPT ![n] = s]
    BY <1>1, Zenon DEF SendNoRing
  <2>2. /\ Sending(n, "send") /\ EmitDatagram(n)
        /\ UNCHANGED <<prog, conf, geo, expired, ring, got, pass>>
    BY <1>1, Zenon DEF SendNoRing, envVars
  <2>3. /\ dgram' = [dgram EXCEPT ![n] = Append(@, Msg(nxt[n]))]
        /\ Msg(nxt[n]) \in Datagram /\ Msg(nxt[n]).op = "MSG"
    BY <2>2, EmitDoes
  <2>4. /\ dgram'[n] = Append(dgram[n], Msg(nxt[n])) /\ state'[n] = s
        /\ dgram'[p] = dgram[p] /\ state'[p] = state[p]
    BY <2>1, <2>3, <1>t, <1>n
  <2>5. Ops(dgram'[n]) = Ops(dgram[n]) \cup {"MSG"}
    BY <2>3, <2>4, <1>t, OpsFacts
  <2>6. /\ state[n] # "ABSENT" => s = state[n]
        /\ s = "ABSENT" => conf[n] = "off" \/ "nomem" \in Faults
        /\ s \in {"ABSENT", "DISABLED"}
    <3>1. s \in State /\ state[n] # "ABSENT" => s = state[n]
      BY FoundIs
    <3>2. state[n] = "ABSENT" => (s = "ABSENT" => conf[n] = "off" \/ "nomem" \in Faults)
      BY FoundIs
    <3> QED BY <3>1, <3>2, FoundIs
  <2>7. CASE k = n
    <3>1. StateMove(n) /\ ReadyMove(n) /\ RingMove(n) /\ TimeMove(n)
      BY <2>2, <2>4, <2>6 DEF StateMove, ReadyMove, RingMove, TimeMove
    <3>2. SockMove(n)
      BY <2>2, <2>4, <2>5, <2>6, Zenon DEF SockMove
    <3>3. CtrlMove(n)
      BY <2>5, CtrlIs, Zenon DEF CtrlMove
    <3> QED BY <3>1, <3>2, <3>3, <2>7, <2>2, Zenon DEF Moves
  <2>8. CASE k = p
    BY <2>2, <2>4, <2>8, MovesStill, Zenon
  <2> QED BY <2>7, <2>8, <1>n
<1>2. CASE SendRequest(n)
  <2>1. /\ state[n] = "NONE" \/ (state[n] = "ABSENT" /\ conf[n] = "ok")
        /\ state' = [state EXCEPT ![n] = "CONNECTING"]
        /\ \/ dgram' = dgram
           \/ /\ dgram' = [dgram EXCEPT ![n] = Append(@, Ctrl("REQ"))]
              /\ Ctrl("REQ") \in Datagram /\ Ctrl("REQ").op = "REQ"
        /\ UNCHANGED <<prog, conf, geo, expired, nxt, ring, got, pass>>
    BY <1>2, RequestDoes, Zenon
  <2>4. /\ state'[n] = "CONNECTING" /\ dgram'[p] = dgram[p] /\ state'[p] = state[p]
        /\ dgram'[n] = dgram[n] \/ dgram'[n] = Append(dgram[n], Ctrl("REQ"))
    BY <2>1, <1>t, <1>n
  <2>5. Ops(dgram'[n]) \in {Ops(dgram[n]), Ops(dgram[n]) \cup {"REQ"}}
    <3>1. CASE dgram' = dgram
      BY <3>1
    <3>2. CASE dgram' # dgram
      <4>1. /\ dgram'[n] = Append(dgram[n], Ctrl("REQ"))
            /\ Ctrl("REQ") \in Datagram /\ Ctrl("REQ").op = "REQ"
        BY <3>2, <2>1, <1>t
      <4> QED BY <4>1, <1>t, OpsFacts
    <3> QED BY <3>1, <3>2
  <2>7. CASE k = n
    <3>1. StateMove(n) /\ ReadyMove(n) /\ RingMove(n) /\ TimeMove(n)
      BY <2>1, <2>4, Zenon DEF StateMove, ReadyMove, RingMove, TimeMove
    <3>2. SockMove(n)
      BY <2>1, <2>4, <2>5, Zenon DEF SockMove
    <3>3. CtrlMove(n)
      BY <2>5, CtrlIs, Zenon DEF CtrlMove
    <3> QED BY <3>1, <3>2, <3>3, <2>7, <2>1, Zenon DEF Moves
  <2>8. CASE k = p
    BY <2>1, <2>4, <2>8, MovesStill, Zenon
  <2> QED BY <2>7, <2>8, <1>n
<1>3. CASE SendExpired(n)
  <2>1. /\ Sending(n, "send") /\ state[n] = "CONNECTING" /\ expired[n]
        /\ state' = [state EXCEPT ![n] = "DISABLED"]
        /\ EmitDatagram(n) \/ dgram' = dgram
        /\ UNCHANGED <<prog, conf, geo, expired, ring, got, pass>>
    BY <1>3, Zenon DEF SendExpired, envVars
  <2>4. state'[n] = "DISABLED" /\ dgram'[p] = dgram[p] /\ state'[p] = state[p]
    BY <2>1, <1>t, <1>n, EmitDoes
  <2>5. Ops(dgram'[n]) \in {Ops(dgram[n]), Ops(dgram[n]) \cup {"MSG"}}
    <3>1. CASE dgram' = dgram
      BY <3>1
    <3>2. CASE EmitDatagram(n)
      <4>1. /\ dgram' = [dgram EXCEPT ![n] = Append(@, Msg(nxt[n]))]
            /\ Msg(nxt[n]) \in Datagram /\ Msg(nxt[n]).op = "MSG"
        BY <3>2, EmitDoes
      <4>2. dgram'[n] = Append(dgram[n], Msg(nxt[n]))
        BY <4>1, <1>t
      <4> QED BY <4>1, <4>2, <1>t, OpsFacts
    <3> QED BY <2>1, <3>1, <3>2
  <2>7. CASE k = n
    <3>1. StateMove(n) /\ ReadyMove(n) /\ RingMove(n) /\ TimeMove(n)
      BY <2>1, <2>4, Zenon DEF StateMove, ReadyMove, RingMove, TimeMove
    <3>2. SockMove(n)
      BY <2>1, <2>4, <2>5, Zenon DEF SockMove
    <3>3. CtrlMove(n)
      BY <2>5, CtrlIs, Zenon DEF CtrlMove
    <3> QED BY <3>1, <3>2, <3>3, <2>7, <2>1, Zenon DEF Moves
  <2>8. CASE k = p
    BY <2>1, <2>4, <2>8, MovesStill, Zenon
  <2> QED BY <2>7, <2>8, <1>n
<1>4. CASE SendOnRing(n)
  <2>1. /\ Sending(n, "send") /\ state[n] = "READY"
        /\ ring' = [ring EXCEPT ![n] = Append(@, nxt[n])]
        /\ UNCHANGED <<prog, conf, geo, state, expired, dgram, got, pass>>
    BY <1>4, Zenon DEF SendOnRing, envVars
  <2>2. CASE k = n
    BY <2>1, <2>2, Zenon DEF Moves, StateMove, SockMove, CtrlMove, ReadyMove, RingMove, TimeMove
  <2>3. CASE k = p
    <3>1. ring'[p] = ring[p]
      BY <2>1, <1>t, <1>n
    <3> QED BY <2>1, <2>3, <3>1, MovesStill, Zenon
  <2> QED BY <2>2, <2>3, <1>n
<1>5. CASE Inject(n)
  <2>1. /\ Sending(n, "inject") /\ EmitDatagram(n)
        /\ UNCHANGED <<prog, conf, geo, state, expired, ring, got, pass>>
    BY <1>5, Zenon DEF Inject, envVars
  <2>3. /\ dgram' = [dgram EXCEPT ![n] = Append(@, Msg(nxt[n]))]
        /\ Msg(nxt[n]) \in Datagram /\ Msg(nxt[n]).op = "MSG"
    BY <2>1, EmitDoes
  <2>4. dgram'[n] = Append(dgram[n], Msg(nxt[n])) /\ dgram'[p] = dgram[p]
    BY <2>3, <1>t, <1>n
  <2>5. Ops(dgram'[n]) = Ops(dgram[n]) \cup {"MSG"}
    BY <2>3, <2>4, <1>t, OpsFacts
  <2>7. CASE k = n
    <3>1. StateMove(n) /\ ReadyMove(n) /\ RingMove(n) /\ TimeMove(n)
      BY <2>1, Zenon DEF StateMove, ReadyMove, RingMove, TimeMove
    <3>2. SockMove(n)
      BY <2>1, <2>5, Zenon DEF SockMove
    <3>3. CtrlMove(n)
      BY <2>5, CtrlIs, Zenon DEF CtrlMove
    <3> QED BY <3>1, <3>2, <3>3, <2>7, <2>1, Zenon DEF Moves
  <2>8. CASE k = p
    BY <2>1, <2>4, <2>8, MovesStill, Zenon
  <2> QED BY <2>7, <2>8, <1>n
<1> QED BY <1>1, <1>2, <1>3, <1>4, <1>5 DEF Send

\* What a progress pass does.
LEMMA MovesPass ==
  ASSUME TypeOK, NEW n \in Nodes, NEW k \in Nodes, PollRing(n) \/ RecvMsg(n) \/ RecvCtrl(n)
  PROVE  Moves(k)
<1> DEFINE p == Peer[n]
<1>n. p \in Nodes /\ p # n /\ Peer[p] = n /\ (k = n \/ k = p)
  BY TwoNodes, Zenon
<1>t. /\ state \in [Nodes -> State]
      /\ dgram \in [Nodes -> Seq(Datagram)] /\ dgram[n] \in Seq(Datagram)
      /\ ring \in [Nodes -> Seq(Nat)] /\ dgram[p] \in Seq(Datagram)
  BY <1>n, Zenon DEF TypeOK
<1>1. CASE PollRing(n)
  <2>1. /\ ring[p] # <<>> /\ ring' = [ring EXCEPT ![p] = Tail(@)]
        /\ UNCHANGED <<prog, conf, geo, state, expired, nxt, dgram, pass>>
    BY <1>1, Zenon DEF PollRing, Visible, envVars
  <2> HIDE DEF p
  <2>2. ring'[n] = ring[n]
    BY <2>1, <1>t, <1>n
  <2>3. CASE k = n
    BY <2>1, <2>2, <2>3, MovesStill, Zenon
  <2>4. CASE k = p
    BY <2>1, <2>4, Zenon DEF Moves, StateMove, SockMove, CtrlMove, ReadyMove, RingMove, TimeMove
  <2> QED BY <2>3, <2>4, <1>n
<1>2. CASE RecvMsg(n)
  <2>1. /\ dgram[p] # <<>> /\ Head(dgram[p]).op = "MSG" /\ dgram' = [dgram EXCEPT ![p] = Tail(@)]
        /\ UNCHANGED <<prog, conf, geo, state, expired, nxt, ring, pass>>
    BY <1>2, Zenon DEF RecvMsg, envVars
  <2> HIDE DEF p
  <2>2. dgram'[n] = dgram[n] /\ dgram'[p] = Tail(dgram[p])
    BY <2>1, <1>t, <1>n
  <2>3. Ops(dgram[p]) = {"MSG"} \cup Ops(dgram'[p])
    BY <2>1, <2>2, <1>t, OpsFacts
  <2>4. CASE k = n
    BY <2>1, <2>2, <2>4, MovesStill, Zenon
  <2>5. CASE k = p
    <3>1. StateMove(p) /\ ReadyMove(p) /\ RingMove(p) /\ TimeMove(p)
      BY <2>1, Zenon DEF StateMove, ReadyMove, RingMove, TimeMove
    <3>2. SockMove(p)
      BY <2>3, Zenon DEF SockMove
    <3>3. CtrlMove(p)
      BY <2>3, CtrlIs, Zenon DEF CtrlMove
    <3> QED BY <3>1, <3>2, <3>3, <2>5, <2>1, Zenon DEF Moves
  <2> QED BY <2>4, <2>5, <1>n
<1>3. CASE RecvCtrl(n)
  <2>1. /\ dgram[p] # <<>> /\ Head(dgram[p]).op # "MSG"
        /\ UNCHANGED <<prog, conf, geo, expired, nxt, ring, got, pass>>
    BY <1>3, RecvCtrlDoes, Zenon
  <2>2. PICK s \in Found(n) :
          /\ state' = [state EXCEPT ![n] = IF Answered(n, s) THEN "READY"
                                           ELSE IF s = "ABSENT" THEN s ELSE "DISABLED"]
          /\ \/ /\ dgram' = [dgram EXCEPT ![p] = Tail(@), ![n] = Append(@, Ctrl("ACK"))]
                /\ Ctrl("ACK") \in Datagram /\ Ctrl("ACK").op = "ACK"
                /\ Answered(n, s) /\ Head(dgram[p]).op = "REQ"
             \/ /\ dgram' = [dgram EXCEPT ![p] = Tail(@)]
                /\ ~Answered(n, s) \/ Head(dgram[p]).op # "REQ" \/ "ack_lost" \in Faults
    BY <1>3, RecvCtrlDoes, Zenon
  <2> HIDE DEF p
  <2>3. /\ state'[p] = state[p] /\ dgram'[p] = Tail(dgram[p])
        /\ state'[n] = IF Answered(n, s) THEN "READY" ELSE IF s = "ABSENT" THEN s ELSE "DISABLED"
        /\ \/ /\ dgram'[n] = Append(dgram[n], Ctrl("ACK"))
              /\ Answered(n, s) /\ Head(dgram[p]).op = "REQ"
              /\ Ctrl("ACK") \in Datagram /\ Ctrl("ACK").op = "ACK"
           \/ /\ dgram'[n] = dgram[n]
              /\ ~Answered(n, s) \/ Head(dgram[p]).op # "REQ" \/ "ack_lost" \in Faults
    BY <2>2, <1>t, <1>n
  <2>4. /\ Ops(dgram[p]) = {Head(dgram[p]).op} \cup Ops(dgram'[p])
        /\ Head(dgram[p]).op \in {"REQ", "ACK"}
    <3>1. Head(dgram[p]) \in Datagram /\ Ops(dgram[p]) = {Head(dgram[p]).op} \cup Ops(dgram'[p])
      BY <2>1, <2>3, <1>t, OpsFacts
    <3> QED BY <3>1, <2>1 DEF Datagram
  <2>5. \/ Ops(dgram'[n]) = Ops(dgram[n]) \cup {"ACK"} /\ Answered(n, s)
        \/ /\ Ops(dgram'[n]) = Ops(dgram[n])
           /\ ~Answered(n, s) \/ Head(dgram[p]).op # "REQ" \/ "ack_lost" \in Faults
    <3>1. CASE dgram'[n] = Append(dgram[n], Ctrl("ACK")) /\ Answered(n, s)
               /\ Ctrl("ACK") \in Datagram /\ Ctrl("ACK").op = "ACK"
      <4>1. Ops(dgram'[n]) = Ops(dgram[n]) \cup {"ACK"}
        BY <3>1, <1>t, OpsFacts
      <4> QED BY <3>1, <4>1
    <3>2. CASE /\ dgram'[n] = dgram[n]
               /\ ~Answered(n, s) \/ Head(dgram[p]).op # "REQ" \/ "ack_lost" \in Faults
      BY <3>2, Zenon
    <3> QED BY <2>3, <3>1, <3>2, Zenon
  <2>6. /\ s \in State /\ (state[n] # "ABSENT" => s = state[n])
        /\ state[n] = "ABSENT" => s \in {"ABSENT", "DISABLED"} \/ (s = "NONE" /\ conf[n] = "ok")
    BY FoundIs
  <2>7. CASE k = n
    <3>0. CtrlIn(dgram[Peer[n]])
      BY <2>1, <2>4, CtrlIs, Zenon DEF p
    <3>1. StateMove(n)
      <4>1. CASE Answered(n, s)
        BY <4>1, <3>0, <2>3, <2>6 DEF StateMove, Answered, State
      <4>2. CASE ~Answered(n, s)
        BY <4>2, <2>3, <2>6 DEF StateMove, Answered, State
      <4> QED BY <4>1, <4>2
    <3>2. RingMove(n) /\ TimeMove(n)
      BY <2>1, Zenon DEF RingMove, TimeMove
    <3>3. SockMove(n)
      <4>1. Answered(n, s) => state'[n] = "READY"
        BY <2>3
      <4> QED BY <2>5, <4>1, Zenon DEF SockMove
    <3>4. CtrlMove(n)
      BY <2>5, CtrlIs, Zenon DEF CtrlMove
    <3>5. ReadyMove(n)
      <4> SUFFICES ASSUME state'[n] = "READY", state[n] # "READY"
                   PROVE  \/ "ACK" \in Ops(dgram[p])
                          \/ "REQ" \in Ops(dgram[p]) /\ (CtrlIn(dgram'[n]) \/ "ack_lost" \in Faults)
        BY <2>1, <2>3, Zenon DEF ReadyMove, p
      <4>1. Answered(n, s)
        BY <2>3
      <4>2. Ops(dgram'[n]) = Ops(dgram[n]) \cup {"ACK"} => CtrlIn(dgram'[n])
        <5>1. "ACK" # "MSG"
          OBVIOUS
        <5> QED BY <5>1, CtrlIs, Zenon
      <4> QED BY <4>1, <4>2, <2>4, <2>5, Zenon
    <3> QED BY <3>1, <3>2, <3>3, <3>4, <3>5, <2>7, <2>1, Zenon DEF Moves
  <2>8. CASE k = p
    <3>1. StateMove(p) /\ ReadyMove(p) /\ RingMove(p) /\ TimeMove(p)
      BY <2>1, <2>3, Zenon DEF StateMove, ReadyMove, RingMove, TimeMove
    <3>2. SockMove(p)
      BY <2>4, Zenon DEF SockMove
    <3>3. CtrlMove(p)
      <4>1. CASE Answered(n, s)
        BY <4>1, <2>3, <1>n, Zenon DEF CtrlMove
      <4>2. CASE ~Answered(n, s)
        BY <4>2, <2>6, <1>n DEF CtrlMove, Answered
      <4> QED BY <4>1, <4>2
    <3> QED BY <3>1, <3>2, <3>3, <2>8, <2>1, Zenon DEF Moves
  <2> QED BY <2>7, <2>8, <1>n
<1> QED BY <1>1, <1>2, <1>3

\* Every step is one of the above, or only moves a pass or the time on.
LEMMA StepMoves == ASSUME TypeOK, [Next]_vars, NEW k \in Nodes PROVE Moves(k)
<1>1. ASSUME NEW n \in Nodes, Send(n) PROVE Moves(k)
  BY <1>1, MovesSend
<1>2. ASSUME NEW n \in Nodes, PollRing(n) \/ RecvMsg(n) \/ RecvCtrl(n) PROVE Moves(k)
  BY <1>2, MovesPass
<1>3. ASSUME NEW n \in Nodes, PassBegin(n) \/ PollDone(n) \/ PassEnd(n) \/ UNCHANGED vars
      PROVE  Moves(k)
  <2>1. UNCHANGED <<prog, conf, geo, state, dgram, expired, ring>>
    BY <1>3, Zenon DEF PassBegin, PollDone, PassEnd, envVars, vars
  <2> QED BY <2>1, MovesStill, Zenon
<1>4. ASSUME NEW n \in Nodes, Deadline(n) PROVE Moves(k)
  <2>1. /\ state[n] = "CONNECTING" /\ (AnswerDue(n) => "late" \in Faults)
        /\ expired' = [expired EXCEPT ![n] = TRUE]
        /\ UNCHANGED <<prog, conf, geo, state, dgram, ring>>
    BY <1>4, Zenon DEF Deadline, envVars
  <2>2. TimeMove(k)
    <3>1. CASE k = n
      BY <2>1, <3>1, Zenon DEF TimeMove
    <3>2. CASE k # n
      <4>1. expired'[k] = expired[k]
        BY <2>1, <3>2 DEF TypeOK
      <4> QED BY <4>1, Zenon DEF TimeMove
    <3> QED BY <3>1, <3>2
  <2> QED BY <2>1, <2>2, Zenon DEF Moves, StateMove, SockMove, CtrlMove, ReadyMove, RingMove
<1>5. CASE UNCHANGED vars
  BY <1>3, <1>5, Zenon
<1> QED BY <1>1, <1>2, <1>3, <1>4, <1>5, Zenon DEF Next, Send

(***************************************************************************)
(* Types                                                                   *)
(***************************************************************************)

\* Every step keeps the types.
LEMMA TypeStep == ASSUME TypeOK, [Next]_vars PROVE TypeOK'
<1>t. /\ prog \in Progs /\ conf \in [Nodes -> {"ok", "regfail", "off"}] /\ geo \in BOOLEAN
      /\ state \in [Nodes -> State] /\ expired \in [Nodes -> BOOLEAN] /\ nxt \in [Nodes -> Nat]
      /\ ring \in [Nodes -> Seq(Nat)] /\ dgram \in [Nodes -> Seq(Datagram)]
      /\ got \in [Nodes -> Seq(Nat)] /\ pass \in [Nodes -> {"idle", "ring", "sock"}]
  BY Zenon DEF TypeOK
<1>e. ASSUME NEW n \in Nodes, EmitDatagram(n)
      PROVE  dgram' \in [Nodes -> Seq(Datagram)] /\ nxt' \in [Nodes -> Nat]
  <2>1. /\ dgram' = [dgram EXCEPT ![n] = Append(dgram[n], Msg(nxt[n]))]
        /\ nxt' = [nxt EXCEPT ![n] = nxt[n] + 1] /\ Msg(nxt[n]) \in Datagram
    BY <1>e, EmitDoes, Zenon
  <2>2. Append(dgram[n], Msg(nxt[n])) \in Seq(Datagram) /\ nxt[n] + 1 \in Nat
    BY <2>1, <1>t
  <2> QED BY <2>1, <2>2, <1>t, ExceptIn, Zenon
<1>1. ASSUME NEW n \in Nodes, SendNoRing(n) PROVE TypeOK'
  <2>1. PICK s \in Found(n) \cap {"ABSENT", "DISABLED"} : state' = [state EXCEPT ![n] = s]
    BY <1>1, Zenon DEF SendNoRing
  <2>2. state' \in [Nodes -> State]
    BY <2>1, <1>t DEF State
  <2> QED BY <1>1, <1>t, <1>e, <2>2, Zenon DEF SendNoRing, TypeOK, envVars
<1>2. ASSUME NEW n \in Nodes, SendRequest(n) PROVE TypeOK'
  <2>1. /\ state' = [state EXCEPT ![n] = "CONNECTING"]
        /\ \/ dgram' = dgram
           \/ dgram' = [dgram EXCEPT ![n] = Append(@, Ctrl("REQ"))] /\ Ctrl("REQ") \in Datagram
        /\ UNCHANGED <<prog, conf, geo, expired, nxt, ring, got, pass>>
    BY <1>2, RequestDoes, Zenon
  <2>2. state' \in [Nodes -> State]
    BY <2>1, <1>t DEF State
  <2>3. dgram' \in [Nodes -> Seq(Datagram)]
    <3>1. Ctrl("REQ") \in Datagram => Append(dgram[n], Ctrl("REQ")) \in Seq(Datagram)
      BY <1>t
    <3> QED BY <2>1, <3>1, <1>t, ExceptIn, Zenon
  <2> QED BY <2>1, <2>2, <2>3, <1>t, Zenon DEF TypeOK
<1>3. ASSUME NEW n \in Nodes, SendExpired(n) PROVE TypeOK'
  <2>1. state' = [state EXCEPT ![n] = "DISABLED"]
    BY <1>3, Zenon DEF SendExpired
  <2>2. state' \in [Nodes -> State]
    BY <2>1, <1>t DEF State
  <2> QED BY <1>3, <1>t, <1>e, <2>2, Zenon DEF SendExpired, TypeOK, envVars
<1>4. ASSUME NEW n \in Nodes, SendOnRing(n) PROVE TypeOK'
  <2>1. ring' = [ring EXCEPT ![n] = Append(@, nxt[n])] /\ nxt' = [nxt EXCEPT ![n] = @ + 1]
    BY <1>4, Zenon DEF SendOnRing
  <2>2. ring' \in [Nodes -> Seq(Nat)] /\ nxt' \in [Nodes -> Nat]
    BY <2>1, <1>t
  <2> QED BY <1>4, <1>t, <2>2, Zenon DEF SendOnRing, TypeOK, envVars
<1>5. ASSUME NEW n \in Nodes, Inject(n) PROVE TypeOK'
  BY <1>5, <1>t, <1>e, Zenon DEF Inject, TypeOK, envVars
<1>6. ASSUME NEW n \in Nodes, PassBegin(n) \/ PollDone(n) \/ PassEnd(n) PROVE TypeOK'
  <2>1. pass' \in [Nodes -> {"idle", "ring", "sock"}]
    BY <1>6, <1>t, ExceptIn, Zenon DEF PassBegin, PollDone, PassEnd
  <2> QED BY <1>6, <2>1, <1>t, Zenon DEF PassBegin, PollDone, PassEnd, TypeOK, envVars
<1>7. ASSUME NEW n \in Nodes, PollRing(n) PROVE TypeOK'
  <2>1. /\ ring[Peer[n]] # <<>> /\ ring' = [ring EXCEPT ![Peer[n]] = Tail(@)]
        /\ got' = [got EXCEPT ![n] = Append(@, Head(ring[Peer[n]]))]
    BY <1>7, Zenon DEF PollRing, Visible
  <2>2. ring[Peer[n]] \in Seq(Nat) /\ got[n] \in Seq(Nat)
    BY <1>t, TwoNodes
  <2>3. Head(ring[Peer[n]]) \in Nat /\ Tail(ring[Peer[n]]) \in Seq(Nat)
    BY <2>1, <2>2
  <2>4. ring' \in [Nodes -> Seq(Nat)] /\ got' \in [Nodes -> Seq(Nat)]
    <3>1. Append(got[n], Head(ring[Peer[n]])) \in Seq(Nat)
      BY <2>2, <2>3
    <3> QED BY <2>1, <2>3, <3>1, <1>t, ExceptIn, Zenon
  <2> QED BY <1>7, <1>t, <2>4, Zenon DEF PollRing, TypeOK, envVars
<1>8. ASSUME NEW n \in Nodes, RecvMsg(n) PROVE TypeOK'
  <2>1. /\ dgram[Peer[n]] # <<>> /\ dgram' = [dgram EXCEPT ![Peer[n]] = Tail(@)]
        /\ got' = [got EXCEPT ![n] = Append(@, Head(dgram[Peer[n]]).k)]
    BY <1>8, Zenon DEF RecvMsg
  <2>2. dgram[Peer[n]] \in Seq(Datagram) /\ got[n] \in Seq(Nat)
    BY <1>t, TwoNodes
  <2>3. Head(dgram[Peer[n]]).k \in Nat /\ Tail(dgram[Peer[n]]) \in Seq(Datagram)
    BY <2>1, <2>2, OpsFacts DEF Datagram
  <2>4. dgram' \in [Nodes -> Seq(Datagram)] /\ got' \in [Nodes -> Seq(Nat)]
    <3>1. Append(got[n], Head(dgram[Peer[n]]).k) \in Seq(Nat)
      BY <2>2, <2>3
    <3> QED BY <2>1, <2>3, <3>1, <1>t, ExceptIn, Zenon
  <2> QED BY <1>8, <1>t, <2>4, Zenon DEF RecvMsg, TypeOK, envVars
<1>9. ASSUME NEW n \in Nodes, RecvCtrl(n) PROVE TypeOK'
  <2>1. dgram[Peer[n]] # <<>> /\ UNCHANGED <<prog, conf, geo, expired, nxt, ring, got, pass>>
    BY <1>9, RecvCtrlDoes, Zenon
  <2>2. PICK s \in Found(n) :
          /\ state' = [state EXCEPT ![n] = IF Answered(n, s) THEN "READY"
                                           ELSE IF s = "ABSENT" THEN s ELSE "DISABLED"]
          /\ \/ /\ dgram' = [dgram EXCEPT ![Peer[n]] = Tail(@), ![n] = Append(@, Ctrl("ACK"))]
                /\ Ctrl("ACK") \in Datagram
             \/ dgram' = [dgram EXCEPT ![Peer[n]] = Tail(@)]
    BY <1>9, RecvCtrlDoes, Zenon
  <2>3. state' \in [Nodes -> State]
    BY <2>2, <1>t DEF State
  <2>4. /\ Peer[n] \in Nodes /\ Peer[n] # n
        /\ dgram[Peer[n]] \in Seq(Datagram) /\ dgram[n] \in Seq(Datagram)
    BY <1>t, TwoNodes
  <2>5. Tail(dgram[Peer[n]]) \in Seq(Datagram)
    BY <2>1, <2>4, OpsFacts
  <2>6. dgram' \in [Nodes -> Seq(Datagram)]
    <3>1. Ctrl("ACK") \in Datagram => Append(dgram[n], Ctrl("ACK")) \in Seq(Datagram)
      BY <2>4
    <3>2. [dgram EXCEPT ![Peer[n]] = Tail(@)] \in [Nodes -> Seq(Datagram)]
      BY <2>5, <1>t, ExceptIn, Zenon
    <3>3. [dgram EXCEPT ![Peer[n]] = Tail(@)][n] = dgram[n]
      BY <2>4, <1>t, Zenon
    <3> QED BY <2>2, <3>1, <3>2, <3>3, ExceptIn, Zenon
  <2> QED BY <2>1, <2>3, <2>6, <1>t, Zenon DEF TypeOK
<1>10. ASSUME NEW n \in Nodes, Deadline(n) PROVE TypeOK'
  <2>1. expired' \in [Nodes -> BOOLEAN]
    BY <1>10, <1>t, Zenon DEF Deadline
  <2> QED BY <1>10, <2>1, <1>t, Zenon DEF Deadline, TypeOK, envVars
<1>11. CASE UNCHANGED vars
  BY <1>11, <1>t, Zenon DEF vars, TypeOK
<1> QED
  BY <1>1, <1>2, <1>3, <1>4, <1>5, <1>6, <1>7, <1>8, <1>9, <1>10, <1>11, Zenon DEF Next

(***************************************************************************)
(* The handshake                                                           *)
(***************************************************************************)

\* Only an endpoint with a ring asks for one and answers; only a READY one sends on it.
Usable ==
  \A n \in Nodes :
    /\ state[n] \in {"NONE", "CONNECTING", "READY"} => conf[n] = "ok"
    /\ CtrlIn(dgram[n]) => conf[n] = "ok"
    /\ state[n] = "READY" => geo /\ conf[Peer[n]] = "ok"
    /\ ring[n] # <<>> => state[n] = "READY"

\* Every step keeps this.
LEMMA UsableStep == ASSUME TypeOK, Usable, [Next]_vars PROVE Usable'
<1> SUFFICES ASSUME NEW n \in Nodes
             PROVE  /\ state'[n] \in {"NONE", "CONNECTING", "READY"} => conf'[n] = "ok"
                    /\ CtrlIn(dgram'[n]) => conf'[n] = "ok"
                    /\ state'[n] = "READY" => geo' /\ conf'[Peer[n]] = "ok"
                    /\ ring'[n] # <<>> => state'[n] = "READY"
  BY Zenon DEF Usable, CtrlIn
<1>n. Peer[n] \in Nodes
  BY TwoNodes
<1>1. StateMove(n) /\ SockMove(n) /\ RingMove(n) /\ conf'[n] = conf[n] /\ geo' = geo
  BY StepMoves, Zenon DEF Moves
<1>2. conf'[Peer[n]] = conf[Peer[n]]
  BY <1>n, StepMoves, Zenon DEF Moves
<1>3. /\ state[n] \in {"NONE", "CONNECTING", "READY"} => conf[n] = "ok"
      /\ CtrlIn(dgram[n]) => conf[n] = "ok"
      /\ CtrlIn(dgram[Peer[n]]) => conf[Peer[n]] = "ok"
      /\ state[n] = "READY" => geo /\ conf[Peer[n]] = "ok"
      /\ ring[n] # <<>> => state[n] = "READY"
  BY <1>n, Zenon DEF Usable
<1>4. state'[n] \in {"NONE", "CONNECTING", "READY"} => conf[n] = "ok"
  BY <1>1, <1>3 DEF StateMove
<1>5. state'[n] = "READY" => geo /\ conf[Peer[n]] = "ok"
  BY <1>1, <1>3 DEF StateMove
<1>6. state[n] = "READY" => state'[n] = "READY"
  BY <1>1, <1>3 DEF StateMove
<1>7. CtrlIn(dgram'[n]) => conf[n] = "ok"
  <2> SUFFICES ASSUME NEW o \in Ops(dgram'[n]), o # "MSG" PROVE conf[n] = "ok"
    BY CtrlIs, Zenon
  <2>1. CASE o \in Ops(dgram[n])
    BY <2>1, <1>3, CtrlIs, Zenon
  <2>2. CASE o \notin Ops(dgram[n])
    BY <2>2, <1>1, <1>4, Zenon DEF SockMove
  <2> QED BY <2>1, <2>2
<1> QED BY <1>1, <1>2, <1>3, <1>4, <1>5, <1>6, <1>7, Zenon DEF RingMove

\* A request or an answer that is on its way finds its sender ready for what comes of it,
\* and the peer of a READY endpoint is READY or has the datagram coming that makes it so.
Handshake ==
  \A n \in Nodes :
    /\ state[n] \in {"ABSENT", "NONE"} => ~expired[n]
    /\ geo /\ "REQ" \in Ops(dgram[n]) => \/ state[n] = "READY"
                                         \/ state[n] = "CONNECTING" /\ ~expired[n]
    /\ geo /\ "ACK" \in Ops(dgram[n]) => state[n] = "READY"
    /\ state[n] = "READY" =>
         \/ state[Peer[n]] = "READY"
         \/ state[Peer[n]] = "CONNECTING" /\ ~expired[Peer[n]] /\ CtrlIn(dgram[n])

\* Every step keeps this, when answers are neither lost nor late.
LEMMA HandshakeStep ==
  ASSUME "late" \notin Faults, "ack_lost" \notin Faults, TypeOK, Usable, Handshake, [Next]_vars
  PROVE  Handshake'
<1> SUFFICES ASSUME NEW n \in Nodes
             PROVE  /\ state'[n] \in {"ABSENT", "NONE"} => ~expired'[n]
                    /\ geo' /\ "REQ" \in Ops(dgram'[n]) =>
                         \/ state'[n] = "READY"
                         \/ state'[n] = "CONNECTING" /\ ~expired'[n]
                    /\ geo' /\ "ACK" \in Ops(dgram'[n]) => state'[n] = "READY"
                    /\ state'[n] = "READY" =>
                         \/ state'[Peer[n]] = "READY"
                         \/ /\ state'[Peer[n]] = "CONNECTING" /\ ~expired'[Peer[n]]
                            /\ CtrlIn(dgram'[n])
  BY Zenon DEF Handshake, Ops, CtrlIn
<1> DEFINE p == Peer[n]
<1>n. p \in Nodes /\ Peer[p] = n
  BY TwoNodes
<1>1. StateMove(n) /\ SockMove(n) /\ CtrlMove(n) /\ ReadyMove(n) /\ TimeMove(n) /\ geo' = geo
  BY StepMoves, Zenon DEF Moves
<1>2. StateMove(p) /\ TimeMove(p)
  BY <1>n, StepMoves, Zenon DEF Moves
<1>3. /\ state[n] \in {"ABSENT", "NONE"} => ~expired[n]
      /\ geo /\ "REQ" \in Ops(dgram[n]) => \/ state[n] = "READY"
                                           \/ state[n] = "CONNECTING" /\ ~expired[n]
      /\ geo /\ "ACK" \in Ops(dgram[n]) => state[n] = "READY"
      /\ state[n] = "READY" => \/ state[p] = "READY"
                               \/ state[p] = "CONNECTING" /\ ~expired[p] /\ CtrlIn(dgram[n])
      /\ geo /\ "REQ" \in Ops(dgram[p]) => \/ state[p] = "READY"
                                           \/ state[p] = "CONNECTING" /\ ~expired[p]
      /\ geo /\ "ACK" \in Ops(dgram[p]) => state[p] = "READY"
  BY <1>n, Zenon DEF Handshake
<1>4. (state[n] = "READY" => geo) /\ (state[p] = "READY" => geo)
  BY <1>n, Zenon DEF Usable
<1>u. ("REQ" # "MSG" /\ "REQ" # "ACK") /\ "ACK" # "MSG"
  OBVIOUS
<1>5. "REQ" \in Ops(dgram[n]) \/ "ACK" \in Ops(dgram[n]) => AnswerDue(n)
  BY <1>u, CtrlIs, Zenon DEF AnswerDue
<1>6. CtrlIn(dgram[n]) => AnswerDue(p)
  BY <1>n, Zenon DEF AnswerDue
<1>7. state'[n] \in {"ABSENT", "NONE"} => ~expired'[n]
  BY <1>1, <1>3 DEF StateMove, TimeMove
<1>8. ASSUME geo, "REQ" \in Ops(dgram'[n])
      PROVE  state'[n] = "READY" \/ (state'[n] = "CONNECTING" /\ ~expired'[n])
  <2>1. CASE "REQ" \in Ops(dgram[n])
    BY <2>1, <1>1, <1>3, <1>5, <1>8 DEF StateMove, TimeMove
  <2>2. CASE "REQ" \notin Ops(dgram[n])
    <3>1. state[n] \in {"ABSENT", "NONE"} /\ state'[n] = "CONNECTING"
      BY <2>2, <1>8, <1>1, <1>u, Zenon DEF SockMove
    <3> QED BY <3>1, <1>1, <1>3 DEF TimeMove
  <2> QED BY <2>1, <2>2
<1>9. ASSUME geo, "ACK" \in Ops(dgram'[n]) PROVE state'[n] = "READY"
  <2>1. CASE "ACK" \in Ops(dgram[n])
    BY <2>1, <1>1, <1>3, <1>9 DEF StateMove
  <2>2. CASE "ACK" \notin Ops(dgram[n])
    BY <2>2, <1>9, <1>1, <1>u, Zenon DEF SockMove
  <2> QED BY <2>1, <2>2, Zenon
<1>10. ASSUME state'[n] = "READY"
       PROVE  \/ state'[p] = "READY"
              \/ state'[p] = "CONNECTING" /\ ~expired'[p] /\ CtrlIn(dgram'[n])
  <2>1. CASE state[n] = "READY" /\ state[p] = "READY"
    BY <2>1, <1>2, <1>4 DEF StateMove
  <2>2. CASE state[n] = "READY" /\ state[p] # "READY"
    <3>1. state[p] = "CONNECTING" /\ ~expired[p] /\ CtrlIn(dgram[n]) /\ geo
      BY <2>2, <1>3, <1>4
    <3>2. state'[p] = "READY" \/ (state'[p] = "CONNECTING" /\ ~expired'[p])
      BY <3>1, <1>2, <1>6 DEF StateMove, TimeMove
    <3>3. state'[p] = "READY" \/ CtrlIn(dgram'[n])
      BY <3>1, <1>1 DEF CtrlMove
    <3> QED BY <3>2, <3>3
  <2>3. CASE state[n] # "READY"
    <3>1. geo
      BY <2>3, <1>10, <1>1 DEF StateMove
    <3>2. /\ expired' = expired /\ state'[p] = state[p]
          /\ \/ "ACK" \in Ops(dgram[p])
             \/ "REQ" \in Ops(dgram[p]) /\ CtrlIn(dgram'[n])
      BY <2>3, <1>10, <1>1, Zenon DEF ReadyMove
    <3> QED BY <3>1, <3>2, <1>3
  <2> QED BY <2>1, <2>2, <2>3
<1> QED BY <1>1, <1>7, <1>8, <1>9, <1>10

(***************************************************************************)
(* The order of messages                                                   *)
(***************************************************************************)

\* One direction: g delivered, r in the ring, d in the socket, x the next to be sent.  All
\* three are ascending, and what is delivered comes before what is not.
Flow(g, r, d, x) ==
  /\ \A i, j \in 1 .. Len(g) : i < j => g[i] < g[j]
  /\ \A i, j \in 1 .. Len(r) : i < j => r[i] < r[j]
  /\ \A i, j \in 1 .. Len(d) : i < j /\ d[i].op = "MSG" /\ d[j].op = "MSG" => d[i].k < d[j].k
  /\ \A i \in 1 .. Len(g), j \in 1 .. Len(r) : g[i] < r[j]
  /\ \A i \in 1 .. Len(g), j \in 1 .. Len(d) : d[j].op = "MSG" => g[i] < d[j].k
  /\ \A i \in 1 .. Len(g) : g[i] < x
  /\ \A i \in 1 .. Len(r) : r[i] < x
  /\ \A i \in 1 .. Len(d) : d[i].op = "MSG" => d[i].k < x

\* A message is put into the ring.
LEMMA FlowRing ==
  ASSUME NEW g \in Seq(Nat), NEW r \in Seq(Nat), NEW d \in Seq(Datagram), NEW x \in Nat,
         Flow(g, r, d, x)
  PROVE  Flow(g, Append(r, x), d, x + 1)
<1>0. \A i \in 1 .. Len(d) : d[i] \in Datagram
  OBVIOUS
<1>1. \A i \in 1 .. Len(d) : d[i].k \in Nat
  BY <1>0 DEF Datagram
<1>2. \A i \in 1 .. Len(g) : g[i] \in Nat
  OBVIOUS
<1>3. /\ Len(Append(r, x)) = Len(r) + 1 /\ Append(r, x)[Len(r) + 1] = x /\ Len(r) \in Nat
      /\ \A i \in 1 .. Len(r) : Append(r, x)[i] = r[i] /\ r[i] \in Nat
  OBVIOUS
<1> DEFINE q == Append(r, x)
<1>4. ASSUME NEW i \in 1 .. Len(q), NEW j \in 1 .. Len(q), i < j PROVE q[i] < q[j]
  <2>1. i \in 1 .. Len(r) /\ q[i] = r[i] /\ r[i] < x
    BY <1>3, <1>4 DEF Flow
  <2>2. CASE j \in 1 .. Len(r)
    <3>1. r[i] < r[j]
      BY <1>4, <2>1, <2>2, Zenon DEF Flow
    <3>2. q[j] = r[j]
      BY <1>3, <2>2, Zenon
    <3> QED BY <2>1, <3>1, <3>2, Zenon
  <2>3. CASE j \notin 1 .. Len(r)
    <3>1. j = Len(r) + 1
      BY <1>3, <2>3
    <3> QED BY <1>3, <2>1, <3>1, Zenon
  <2> QED BY <2>2, <2>3
<1>5. \A i \in 1 .. Len(g), j \in 1 .. Len(q) : g[i] < q[j]
  BY <1>2, <1>3 DEF Flow
<1>6. \A i \in 1 .. Len(q) : q[i] < x + 1
  BY <1>3 DEF Flow
<1>7. \A i \in 1 .. Len(g) : g[i] < x + 1
  BY <1>2 DEF Flow
<1>8. \A i \in 1 .. Len(d) : d[i].op = "MSG" => d[i].k < x + 1
  BY <1>1 DEF Flow
<1> HIDE DEF q
<1>9. Flow(g, q, d, x + 1)
  BY <1>4, <1>5, <1>6, <1>7, <1>8, Zenon DEF Flow
<1> QED BY <1>9 DEF q

\* A message is sent as a datagram, or a control datagram is sent.
LEMMA FlowSock ==
  ASSUME NEW g \in Seq(Nat), NEW r \in Seq(Nat), NEW d \in Seq(Datagram), NEW x \in Nat,
         Flow(g, r, d, x),
         NEW e \in Datagram
  PROVE  /\ e.op = "MSG" /\ e.k = x => Flow(g, r, Append(d, e), x + 1)
         /\ e.op # "MSG" => Flow(g, r, Append(d, e), x)
<1>0. \A i \in 1 .. Len(d) : d[i] \in Datagram
  OBVIOUS
<1>1. \A i \in 1 .. Len(d) : d[i].k \in Nat
  BY <1>0 DEF Datagram
<1>2. (\A i \in 1 .. Len(g) : g[i] \in Nat) /\ \A i \in 1 .. Len(r) : r[i] \in Nat
  OBVIOUS
<1>3. /\ Len(Append(d, e)) = Len(d) + 1 /\ Append(d, e)[Len(d) + 1] = e /\ Len(d) \in Nat
      /\ \A i \in 1 .. Len(d) : Append(d, e)[i] = d[i]
  OBVIOUS
<1> DEFINE q == Append(d, e)
<1> HIDE DEF q
<1>4. ASSUME NEW y \in {x, x + 1}, e.op = "MSG" => e.k = x /\ y = x + 1
      PROVE  Flow(g, r, q, y)
  <2>0. /\ Len(q) = Len(d) + 1 /\ q[Len(d) + 1] = e /\ Len(d) \in Nat
        /\ \A i \in 1 .. Len(d) : q[i] = d[i]
    BY <1>3 DEF q
  <2>1. ASSUME NEW i \in 1 .. Len(q) PROVE i \in 1 .. Len(d) \/ q[i] = e
    <3>1. i \in 1 .. Len(d) \/ i = Len(d) + 1
      BY <2>0
    <3> QED BY <3>1, <2>0, Zenon
  <2>2. \A i, j \in 1 .. Len(q) : i < j => i \in 1 .. Len(d)
    BY <2>0
  <2>3. \A i \in 1 .. Len(d) : d[i].op = "MSG" => d[i].k < x
    BY Zenon DEF Flow
  <2>4. \A i, j \in 1 .. Len(q) : i < j /\ q[i].op = "MSG" /\ q[j].op = "MSG" => q[i].k < q[j].k
    <3> SUFFICES ASSUME NEW i \in 1 .. Len(q), NEW j \in 1 .. Len(q), i < j,
                        q[i].op = "MSG", q[j].op = "MSG"
                 PROVE  q[i].k < q[j].k
      BY Zenon
    <3>1. i \in 1 .. Len(d) /\ q[i] = d[i]
      BY <2>0, <2>2
    <3>2. CASE j \in 1 .. Len(d)
      BY <3>1, <3>2, <2>0, Zenon DEF Flow
    <3>3. CASE q[j] = e
      BY <3>1, <3>3, <2>3, <1>4, Zenon
    <3> QED BY <3>2, <3>3, <2>1, Zenon
  <2>5. \A i \in 1 .. Len(g), j \in 1 .. Len(q) : q[j].op = "MSG" => g[i] < q[j].k
    <3> SUFFICES ASSUME NEW i \in 1 .. Len(g), NEW j \in 1 .. Len(q), q[j].op = "MSG"
                 PROVE  g[i] < q[j].k
      OBVIOUS
    <3>2. CASE j \in 1 .. Len(d)
      BY <3>2, <2>0, Zenon DEF Flow
    <3>3. CASE q[j] = e
      BY <3>3, <1>4, Zenon DEF Flow
    <3> QED BY <3>2, <3>3, <2>1
  <2>6. x < y \/ x = y
    OBVIOUS
  <2>7. (\A i \in 1 .. Len(g) : g[i] < y) /\ (\A i \in 1 .. Len(r) : r[i] < y)
    BY <1>2 DEF Flow
  <2>8. \A i \in 1 .. Len(q) : q[i].op = "MSG" => q[i].k < y
    <3> SUFFICES ASSUME NEW i \in 1 .. Len(q), q[i].op = "MSG" PROVE q[i].k < y
      OBVIOUS
    <3>2. CASE i \in 1 .. Len(d)
      <4>1. q[i].k = d[i].k /\ d[i].k < x /\ d[i].k \in Nat
        BY <3>2, <2>0, <2>3, <1>1, Zenon
      <4> QED BY <4>1, <2>6
    <3>3. CASE q[i] = e
      BY <3>3, <1>4
    <3> QED BY <3>2, <3>3, <2>1
  <2> QED BY <2>4, <2>5, <2>7, <2>8, Zenon DEF Flow
<1> QED BY <1>4 DEF q

\* The first message of the ring is delivered while the socket has none.
LEMMA FlowPoll ==
  ASSUME NEW g \in Seq(Nat), NEW r \in Seq(Nat), NEW d \in Seq(Datagram), NEW x \in Nat,
         Flow(g, r, d, x),
         r # <<>>, "MSG" \notin Ops(d)
  PROVE  Flow(Append(g, Head(r)), Tail(r), d, x)
<1>1. \A i \in 1 .. Len(d) : d[i].op # "MSG"
  BY DEF Ops
<1>2. /\ Len(Append(g, Head(r))) = Len(g) + 1 /\ Len(g) \in Nat
      /\ Append(g, Head(r))[Len(g) + 1] = Head(r)
      /\ \A i \in 1 .. Len(g) : Append(g, Head(r))[i] = g[i] /\ g[i] \in Nat
  OBVIOUS
<1>3. /\ Len(r) \in Nat \ {0} /\ Head(r) = r[1] /\ Len(Tail(r)) = Len(r) - 1
      /\ \A i \in 1 .. Len(r) - 1 : Tail(r)[i] = r[i + 1]
      /\ \A i \in 1 .. Len(r) : r[i] \in Nat
  OBVIOUS
<1> DEFINE h == Append(g, Head(r))
           q == Tail(r)
<1>4. (\A i \in 1 .. Len(g) : g[i] < Head(r)) /\ Head(r) < x
  BY <1>3 DEF Flow
<1>5. \A i \in 1 .. Len(q) : i + 1 \in 1 .. Len(r) /\ 1 < i + 1 /\ q[i] = r[i + 1]
  BY <1>3
<1>6. /\ \A i \in 1 .. Len(q) : Head(r) < q[i] /\ q[i] < x
      /\ \A i \in 1 .. Len(g), j \in 1 .. Len(q) : g[i] < q[j]
  BY <1>3, <1>5 DEF Flow
<1>7. ASSUME NEW i \in 1 .. Len(q), NEW j \in 1 .. Len(q), i < j PROVE q[i] < q[j]
  <2>1. i + 1 < j + 1
    BY <1>3, <1>7
  <2> QED BY <1>5, <2>1, Zenon DEF Flow
<1>8. ASSUME NEW i \in 1 .. Len(h) PROVE (i \in 1 .. Len(g) /\ h[i] = g[i]) \/ h[i] = Head(r)
  <2>1. i \in 1 .. Len(g) \/ i = Len(g) + 1
    BY <1>2
  <2> QED BY <1>2, <2>1, Zenon
<1>9. ASSUME NEW i \in 1 .. Len(h), NEW j \in 1 .. Len(h), i < j PROVE h[i] < h[j]
  <2>1. i \in 1 .. Len(g) /\ h[i] = g[i]
    BY <1>2, <1>9
  <2>2. CASE j \in 1 .. Len(g)
    BY <1>2, <1>9, <2>1, <2>2, Zenon DEF Flow
  <2>3. CASE j \notin 1 .. Len(g)
    BY <1>4, <1>8, <2>1, <2>3, Zenon
  <2> QED BY <2>2, <2>3
<1> HIDE DEF h, q
<1>10. (\A i \in 1 .. Len(h), j \in 1 .. Len(q) : h[i] < q[j]) /\ \A i \in 1 .. Len(h) : h[i] < x
  BY <1>4, <1>6, <1>8, Zenon DEF Flow
<1>11. Flow(h, q, d, x)
  BY <1>1, <1>6, <1>7, <1>9, <1>10, Zenon DEF Flow
<1> QED BY <1>11 DEF h, q

\* The first datagram is a message and is delivered while the ring is empty, or it is not.
LEMMA FlowRecv ==
  ASSUME NEW g \in Seq(Nat), NEW r \in Seq(Nat), NEW d \in Seq(Datagram), NEW x \in Nat,
         Flow(g, r, d, x),
         d # <<>>
  PROVE  /\ Head(d).op = "MSG" /\ r = <<>> => Flow(Append(g, Head(d).k), r, Tail(d), x)
         /\ Flow(g, r, Tail(d), x)
<1> DEFINE y == Head(d).k
<1>0. \A i \in 1 .. Len(d) : d[i] \in Datagram
  OBVIOUS
<1>1. \A i \in 1 .. Len(d) : d[i].k \in Nat
  BY <1>0 DEF Datagram
<1>2. /\ Len(d) \in Nat \ {0} /\ Head(d) = d[1] /\ Len(Tail(d)) = Len(d) - 1
      /\ \A i \in 1 .. Len(d) - 1 : Tail(d)[i] = d[i + 1]
  OBVIOUS
<1>3. y \in Nat /\ (\A i \in 1 .. Len(g) : g[i] \in Nat) /\ \A i \in 1 .. Len(r) : r[i] \in Nat
  BY <1>1, <1>2
<1>4. /\ Len(Append(g, y)) = Len(g) + 1 /\ Append(g, y)[Len(g) + 1] = y /\ Len(g) \in Nat
      /\ \A i \in 1 .. Len(g) : Append(g, y)[i] = g[i]
  BY <1>3
<1>5. Flow(g, r, Tail(d), x)
  BY <1>1, <1>2, <1>3 DEF Flow
<1>6. ASSUME Head(d).op = "MSG", r = <<>> PROVE Flow(Append(g, y), r, Tail(d), x)
  <2>1. (\A i \in 1 .. Len(g) : g[i] < y) /\ y < x
    BY <1>6, <1>2 DEF Flow
  <2>2. \A j \in 1 .. Len(Tail(d)) : Tail(d)[j].op = "MSG" => y < Tail(d)[j].k
    BY <1>6, <1>2 DEF Flow
  <2>3. Len(r) = 0
    BY <1>6
  <2> HIDE DEF y
  <2> QED BY <1>3, <1>4, <1>5, <2>1, <2>2, <2>3 DEF Flow
<1> QED BY <1>5, <1>6

\* An application uses one of the two channels only: it does not mix messages for the ring
\* with injects that are too long for a slot.
Unmixed == \A g \in Progs, n \in Nodes : \A i, j \in 1 .. Len(g[n]) : g[n][i] = g[n][j]

Injects(n) == \E i \in 1 .. Len(prog[n]) : prog[n][i] = "inject"

\* Messages are in the socket or in the ring, never in both.
Apart ==
  \A n \in Nodes :
    /\ nxt[n] \in Nat \ {0}
    /\ "MSG" \in Ops(dgram[n]) => Injects(n) \/ state[n] = "DISABLED" \/ conf[n] = "off"
    /\ Injects(n) => ring[n] = <<>>

\* nxt only grows.
LEMMA NextGrows ==
  ASSUME TypeOK, [Next]_vars, NEW n \in Nodes, nxt[n] # 0
  PROVE  nxt'[n] \in Nat \ {0}
<1>t. nxt \in [Nodes -> Nat] /\ nxt[n] \in Nat
  BY Zenon DEF TypeOK
<1>1. nxt' = nxt \/ \E k \in Nodes : nxt' = [nxt EXCEPT ![k] = @ + 1]
  BY Zenon DEF Next, SendNoRing, SendRequest, SendExpired, SendOnRing, Inject, PassBegin, PollRing,
     PollDone, RecvMsg, RecvCtrl, PassEnd, Deadline, EmitDatagram, vars
<1>2. CASE nxt' = nxt
  BY <1>2, <1>t
<1>3. ASSUME NEW k \in Nodes, nxt' = [nxt EXCEPT ![k] = @ + 1] PROVE nxt'[n] \in Nat \ {0}
  BY <1>3, <1>t
<1> QED BY <1>1, <1>2, <1>3

\* Every step keeps the channels apart.
LEMMA ApartStep ==
  ASSUME "nomem" \notin Faults, Unmixed, TypeOK, Usable, Apart, [Next]_vars
  PROVE  Apart'
<1> SUFFICES ASSUME NEW n \in Nodes
             PROVE  /\ nxt'[n] \in Nat \ {0}
                    /\ "MSG" \in Ops(dgram'[n]) =>
                         Injects(n)' \/ state'[n] = "DISABLED" \/ conf'[n] = "off"
                    /\ Injects(n)' => ring'[n] = <<>>
  BY Zenon DEF Apart, Ops
<1>1. StateMove(n) /\ SockMove(n) /\ RingMove(n) /\ conf'[n] = conf[n] /\ prog' = prog
  BY StepMoves, Zenon DEF Moves
<1>2. Injects(n)' <=> Injects(n)
  BY <1>1, Zenon DEF Injects
<1>3. /\ nxt[n] \in Nat \ {0}
      /\ "MSG" \in Ops(dgram[n]) => Injects(n) \/ state[n] = "DISABLED" \/ conf[n] = "off"
      /\ Injects(n) => ring[n] = <<>>
  BY Zenon DEF Apart
<1>4. nxt'[n] \in Nat \ {0}
  BY <1>3, NextGrows
<1>5. prog \in Progs /\ Len(prog[n]) \in Nat
  BY PeerAssumption DEF TypeOK, PeerAssumption
<1>6. \A kind : Sending(n, kind) => nxt[n] \in 1 .. Len(prog[n]) /\ prog[n][nxt[n]] = kind
  BY <1>3, <1>5 DEF Sending
<1>7. Sending(n, "inject") => Injects(n)
  BY <1>6 DEF Injects
<1>8. Sending(n, "send") => ~Injects(n)
  <2> SUFFICES ASSUME Sending(n, "send"), NEW i \in 1 .. Len(prog[n]), prog[n][i] = "inject"
               PROVE  FALSE
    BY Zenon DEF Injects
  <2>1. prog[n][nxt[n]] = "send" /\ prog[n][nxt[n]] = prog[n][i]
    BY <1>5, <1>6, Zenon DEF Unmixed
  <2> QED BY <2>1
<1>9. state[n] = "DISABLED" => state'[n] = "DISABLED"
  BY <1>1 DEF StateMove
<1>10. ASSUME "MSG" \in Ops(dgram'[n]) PROVE Injects(n) \/ state'[n] = "DISABLED" \/ conf[n] = "off"
  <2>1. CASE "MSG" \in Ops(dgram[n])
    BY <2>1, <1>3, <1>9
  <2>2. CASE "MSG" \notin Ops(dgram[n])
    <3>1. "MSG" # "REQ" /\ "MSG" # "ACK"
      OBVIOUS
    <3> QED BY <2>2, <3>1, <1>10, <1>1, <1>7, Zenon DEF SockMove
  <2> QED BY <2>1, <2>2
<1>11. Injects(n) => ring'[n] = <<>>
  BY <1>1, <1>3, <1>8, Zenon DEF RingMove
<1> QED BY <1>1, <1>2, <1>4, <1>10, <1>11

\* The order in both directions.
Flows == \A n \in Nodes : Flow(got[Peer[n]], ring[n], dgram[n], nxt[n])

\* Every step keeps the order.
LEMMA FlowsStep ==
  ASSUME TypeOK, Usable, Apart, Flows, [Next]_vars
  PROVE  Flows'
<1>t. /\ got \in [Nodes -> Seq(Nat)] /\ ring \in [Nodes -> Seq(Nat)]
      /\ dgram \in [Nodes -> Seq(Datagram)] /\ nxt \in [Nodes -> Nat]
  BY Zenon DEF TypeOK
<1>v. ASSUME NEW k \in Nodes
      PROVE  /\ Peer[k] \in Nodes /\ got[Peer[k]] \in Seq(Nat) /\ ring[k] \in Seq(Nat)
             /\ dgram[k] \in Seq(Datagram) /\ nxt[k] \in Nat
             /\ Flow(got[Peer[k]], ring[k], dgram[k], nxt[k])
  BY <1>t, TwoNodes, Zenon DEF Flows
<1>f. ASSUME NEW n \in Nodes, Flow(got'[Peer[n]], ring'[n], dgram'[n], nxt'[n]),
             Flow(got'[n], ring'[Peer[n]], dgram'[Peer[n]], nxt'[Peer[n]])
      PROVE  Flows'
  <2> SUFFICES ASSUME NEW k \in Nodes PROVE Flow(got'[Peer[k]], ring'[k], dgram'[k], nxt'[k])
    BY Zenon DEF Flows, Flow
  <2>1. (k = n \/ k = Peer[n]) /\ Peer[Peer[n]] = n
    BY TwoNodes, Zenon
  <2> QED BY <1>f, <2>1, Zenon
<1>e. ASSUME NEW n \in Nodes, EmitDatagram(n), UNCHANGED <<ring, got>> PROVE Flows'
  <2>1. /\ dgram' = [dgram EXCEPT ![n] = Append(@, Msg(nxt[n]))] /\ nxt' = [nxt EXCEPT ![n] = @ + 1]
        /\ Msg(nxt[n]) \in Datagram /\ Msg(nxt[n]).op = "MSG" /\ Msg(nxt[n]).k = nxt[n]
    BY <1>e, EmitDoes
  <2>n. Peer[n] \in Nodes /\ Peer[n] # n /\ Peer[Peer[n]] = n
    BY TwoNodes, Zenon
  <2>2. /\ dgram'[n] = Append(dgram[n], Msg(nxt[n])) /\ nxt'[n] = nxt[n] + 1
        /\ dgram'[Peer[n]] = dgram[Peer[n]] /\ nxt'[Peer[n]] = nxt[Peer[n]]
    BY <2>1, <2>n, <1>t
  <2>3. Flow(got[Peer[n]], ring[n], Append(dgram[n], Msg(nxt[n])), nxt[n] + 1)
    BY <1>v, <2>1, FlowSock, Zenon
  <2>4. Flow(got[n], ring[Peer[n]], dgram[Peer[n]], nxt[Peer[n]])
    BY <1>v, <2>n, Zenon
  <2> QED BY <1>e, <1>f, <2>2, <2>3, <2>4, Zenon
<1>q. ASSUME UNCHANGED <<got, ring, dgram, nxt>> PROVE Flows'
  BY <1>q, Zenon DEF Flows, Flow
<1>1. ASSUME NEW n \in Nodes, SendNoRing(n) \/ Inject(n) PROVE Flows'
  BY <1>1, <1>e, Zenon DEF SendNoRing, Inject
<1>2. ASSUME NEW n \in Nodes, SendRequest(n) PROVE Flows'
  <2>1. /\ \/ dgram' = dgram
           \/ /\ dgram' = [dgram EXCEPT ![n] = Append(@, Ctrl("REQ"))]
              /\ Ctrl("REQ") \in Datagram /\ Ctrl("REQ").op = "REQ"
        /\ UNCHANGED <<nxt, ring, got>>
    BY <1>2, RequestDoes, Zenon
  <2>n. Peer[n] \in Nodes /\ Peer[n] # n /\ Peer[Peer[n]] = n
    BY TwoNodes
  <2>2. CASE dgram' # dgram
    <3>1. /\ dgram'[n] = Append(dgram[n], Ctrl("REQ")) /\ dgram'[Peer[n]] = dgram[Peer[n]]
          /\ Ctrl("REQ") \in Datagram /\ Ctrl("REQ").op # "MSG"
      BY <2>1, <2>2, <2>n, <1>t
    <3>2. Flow(got[Peer[n]], ring[n], Append(dgram[n], Ctrl("REQ")), nxt[n])
      BY <1>v, <3>1, FlowSock, Zenon
    <3>3. Flow(got[n], ring[Peer[n]], dgram[Peer[n]], nxt[Peer[n]])
      BY <1>v, <2>n, Zenon
    <3> QED BY <1>f, <2>1, <3>1, <3>2, <3>3, Zenon
  <2> QED BY <2>1, <2>2, <1>q, Zenon
<1>3. ASSUME NEW n \in Nodes, SendExpired(n) PROVE Flows'
  BY <1>3, <1>e, <1>q, Zenon DEF SendExpired
<1>4. ASSUME NEW n \in Nodes, SendOnRing(n) PROVE Flows'
  <2>1. /\ ring' = [ring EXCEPT ![n] = Append(@, nxt[n])] /\ nxt' = [nxt EXCEPT ![n] = @ + 1]
        /\ UNCHANGED <<dgram, got>>
    BY <1>4, Zenon DEF SendOnRing
  <2>n. Peer[n] \in Nodes /\ Peer[n] # n /\ Peer[Peer[n]] = n
    BY TwoNodes
  <2>2. /\ ring'[n] = Append(ring[n], nxt[n]) /\ nxt'[n] = nxt[n] + 1
        /\ ring'[Peer[n]] = ring[Peer[n]] /\ nxt'[Peer[n]] = nxt[Peer[n]]
    BY <2>1, <2>n, <1>t
  <2>3. Flow(got[Peer[n]], Append(ring[n], nxt[n]), dgram[n], nxt[n] + 1)
    BY <1>v, FlowRing, Zenon
  <2>4. Flow(got[n], ring[Peer[n]], dgram[Peer[n]], nxt[Peer[n]])
    BY <1>v, <2>n, Zenon
  <2> QED BY <1>f, <2>1, <2>2, <2>3, <2>4, Zenon
<1>5. ASSUME NEW n \in Nodes, PollRing(n) PROVE Flows'
  <2> DEFINE p == Peer[n]
  <2>1. /\ ring[p] # <<>> /\ ring' = [ring EXCEPT ![p] = Tail(@)]
        /\ got' = [got EXCEPT ![n] = Append(@, Head(ring[p]))]
        /\ UNCHANGED <<dgram, nxt>>
    BY <1>5, Zenon DEF PollRing, Visible
  <2>n. p \in Nodes /\ p # n /\ Peer[p] = n
    BY TwoNodes
  <2> HIDE DEF p
  <2>2. /\ ring'[p] = Tail(ring[p]) /\ got'[n] = Append(got[n], Head(ring[p]))
        /\ ring'[n] = ring[n] /\ got'[p] = got[p]
    BY <2>1, <2>n, <1>t
  <2>3. "MSG" \notin Ops(dgram[p])
    <3>1. state[p] = "READY" /\ conf[p] = "ok" /\ ~Injects(p)
      <4>1. state[p] = "READY"
        BY <2>1, <2>n, Zenon DEF Usable
      <4>2. conf[p] = "ok"
        BY <4>1, <2>n, Zenon DEF Usable
      <4> QED BY <4>1, <4>2, <2>1, <2>n, Zenon DEF Apart
    <3>2. "MSG" \in Ops(dgram[p]) => Injects(p) \/ state[p] = "DISABLED" \/ conf[p] = "off"
      BY <2>n, Zenon DEF Apart
    <3> QED BY <3>1, <3>2
  <2>4. Flow(Append(got[n], Head(ring[p])), Tail(ring[p]), dgram[p], nxt[p])
    <3>1. /\ got[n] \in Seq(Nat) /\ ring[p] \in Seq(Nat)
          /\ dgram[p] \in Seq(Datagram) /\ nxt[p] \in Nat
          /\ Flow(got[n], ring[p], dgram[p], nxt[p])
      BY <1>v, <2>n, Zenon
    <3> QED BY <3>1, <2>1, <2>3, FlowPoll, Zenon
  <2>5. Flow(got[p], ring[n], dgram[n], nxt[n])
    BY <1>v, Zenon DEF p
  <2> QED BY <1>f, <2>1, <2>2, <2>4, <2>5, Zenon DEF p
<1>6. ASSUME NEW n \in Nodes, RecvMsg(n) PROVE Flows'
  <2> DEFINE p == Peer[n]
  <2>1. /\ dgram[p] # <<>> /\ dgram' = [dgram EXCEPT ![p] = Tail(@)] /\ Head(dgram[p]).op = "MSG"
        /\ got' = [got EXCEPT ![n] = Append(@, Head(dgram[p]).k)]
        /\ UNCHANGED <<ring, nxt>>
    BY <1>6, Zenon DEF RecvMsg
  <2>n. p \in Nodes /\ p # n /\ Peer[p] = n
    BY TwoNodes
  <2> HIDE DEF p
  <2>2. /\ dgram'[p] = Tail(dgram[p]) /\ got'[n] = Append(got[n], Head(dgram[p]).k)
        /\ dgram'[n] = dgram[n] /\ got'[p] = got[p]
    BY <2>1, <2>n, <1>t
  <2>3. /\ got[n] \in Seq(Nat) /\ ring[p] \in Seq(Nat)
        /\ dgram[p] \in Seq(Datagram) /\ nxt[p] \in Nat
        /\ Flow(got[n], ring[p], dgram[p], nxt[p])
    BY <1>v, <2>n, Zenon
  <2>4. ring[p] = <<>>
    <3>1. "MSG" \in Ops(dgram[p])
      BY <2>1, <2>3, OpsFacts
    <3>2. Injects(p) \/ state[p] = "DISABLED" \/ conf[p] = "off"
      BY <3>1, <2>n, Zenon DEF Apart
    <3>3. /\ Injects(p) => ring[p] = <<>>
          /\ ring[p] # <<>> => state[p] = "READY"
          /\ state[p] = "READY" => conf[p] = "ok"
      BY <2>n, Zenon DEF Apart, Usable
    <3> QED BY <3>2, <3>3
  <2>5. Flow(Append(got[n], Head(dgram[p]).k), ring[p], Tail(dgram[p]), nxt[p])
    BY <2>1, <2>3, <2>4, FlowRecv, Zenon
  <2>6. Flow(got[p], ring[n], dgram[n], nxt[n])
    BY <1>v, Zenon DEF p
  <2> QED BY <1>f, <2>1, <2>2, <2>5, <2>6, Zenon DEF p
<1>7. ASSUME NEW n \in Nodes, RecvCtrl(n) PROVE Flows'
  <2> DEFINE p == Peer[n]
  <2>1. /\ dgram[p] # <<>> /\ UNCHANGED <<nxt, ring, got>>
        /\ \/ /\ dgram' = [dgram EXCEPT ![p] = Tail(@), ![n] = Append(@, Ctrl("ACK"))]
              /\ Ctrl("ACK") \in Datagram /\ Ctrl("ACK").op = "ACK"
           \/ dgram' = [dgram EXCEPT ![p] = Tail(@)]
    BY <1>7, RecvCtrlDoes, Zenon
  <2>n. p \in Nodes /\ p # n /\ Peer[p] = n
    BY TwoNodes
  <2> HIDE DEF p
  <2>2. /\ dgram'[p] = Tail(dgram[p])
        /\ \/ /\ dgram'[n] = Append(dgram[n], Ctrl("ACK"))
              /\ Ctrl("ACK") \in Datagram /\ Ctrl("ACK").op # "MSG"
           \/ dgram'[n] = dgram[n]
    BY <2>1, <2>n, <1>t
  <2>3. /\ got[n] \in Seq(Nat) /\ ring[p] \in Seq(Nat)
        /\ dgram[p] \in Seq(Datagram) /\ nxt[p] \in Nat
        /\ Flow(got[n], ring[p], dgram[p], nxt[p])
    BY <1>v, <2>n, Zenon
  <2>4. Flow(got[n], ring[p], dgram'[p], nxt[p])
    BY <2>1, <2>2, <2>3, FlowRecv, Zenon
  <2>5. Flow(got[p], ring[n], dgram'[n], nxt[n])
    BY <1>v, <2>2, FlowSock, Zenon DEF p
  <2> QED BY <1>f, <2>1, <2>4, <2>5, Zenon DEF p
<1>8. ASSUME NEW n \in Nodes, PassBegin(n) \/ PollDone(n) \/ PassEnd(n) \/ Deadline(n) PROVE Flows'
  BY <1>8, <1>q, Zenon DEF PassBegin, PollDone, PassEnd, Deadline
<1>9. CASE UNCHANGED vars
  BY <1>9, <1>q, Zenon DEF vars
<1> QED BY <1>1, <1>2, <1>3, <1>4, <1>5, <1>6, <1>7, <1>8, <1>9, Zenon DEF Next

(***************************************************************************)
(* Theorems                                                                *)
(***************************************************************************)

\* Nothing has been sent at the start.
LEMMA InitHolds == ASSUME Init PROVE TypeOK /\ Usable /\ Handshake /\ Apart /\ Flows
<1>1. ASSUME NEW n \in Nodes
      PROVE  /\ state[n] = "ABSENT" /\ ~expired[n] /\ nxt[n] = 1
             /\ ring[n] = <<>> /\ dgram[n] = <<>> /\ got[n] = <<>>
  BY Zenon DEF Init
<1>2. TypeOK
  BY DEF Init, TypeOK, State
<1>3. Ops(<<>>) = {} /\ ~CtrlIn(<<>>)
  BY DEF Ops, CtrlIn
<1>4. Usable
  BY <1>1, <1>3, Zenon DEF Usable
<1>5. Handshake
  BY <1>1, <1>3, Zenon DEF Handshake
<1>6. Apart
  <2>1. 1 \in Nat \ {0}
    OBVIOUS
  <2> QED BY <1>1, <1>3, <2>1, Zenon DEF Apart
<1>7. Flows
  <2>1. \A x : Flow(<<>>, <<>>, <<>>, x)
    <3>1. 1 .. Len(<<>>) = {}
      OBVIOUS
    <3> QED BY <3>1, Zenon DEF Flow
  <2> SUFFICES ASSUME NEW n \in Nodes PROVE Flow(got[Peer[n]], ring[n], dgram[n], nxt[n])
    BY Zenon DEF Flows
  <2>2. Peer[n] \in Nodes
    BY TwoNodes
  <2>3. got[Peer[n]] = <<>> /\ ring[n] = <<>> /\ dgram[n] = <<>>
    BY <1>1, <2>2, Zenon
  <2> QED BY <2>1, <2>3
<1> QED BY <1>2, <1>4, <1>5, <1>6, <1>7

\* The part of the invariant that no fault breaks.
LEMMA UsableAlways == Spec => [](TypeOK /\ Usable)
<1>1. Init => TypeOK /\ Usable
  BY InitHolds
<1>2. (TypeOK /\ Usable) /\ [Next]_vars => (TypeOK /\ Usable)'
  BY TypeStep, UsableStep
<1> QED BY <1>1, <1>2, PTL DEF Spec

\* Theorem: the variables of the handshake keep their types, whatever is lost, late or fails.
THEOREM PeerStaysTyped == Spec => []TypeOK
BY UsableAlways, PTL

\* Theorem: rds_ring_handle_ctrl makes a peer READY only when both ends have registered
\* rings of the same geometry, whatever is lost, late or fails.
THEOREM ReadyIsUsable == Spec => []ReadyMeansUsable
<1>1. Usable => ReadyMeansUsable
  <2> SUFFICES ASSUME Usable, NEW n \in Nodes, state[n] = "READY", NEW p \in Nodes
               PROVE  geo /\ conf[p] = "ok"
    BY Zenon DEF ReadyMeansUsable
  <2>1. p = n \/ p = Peer[n]
    BY TwoNodes, Zenon
  <2>2. geo /\ conf[Peer[n]] = "ok" /\ conf[n] = "ok"
    BY Zenon DEF Usable
  <2> QED BY <2>1, <2>2
<1> QED BY <1>1, UsableAlways, PTL

\* Theorem: when no answer is lost or comes after RDS_RING_CONNECT_TIMEOUT_MS, a message
\* that rds_ring_send put into a ring is polled: its receiver is READY or about to be.
THEOREM RingIsPolled ==
  ASSUME "late" \notin Faults, "ack_lost" \notin Faults
  PROVE  Spec => []NoStrandedMessage
<1>1. Init => Handshake
  BY InitHolds
<1>2. (TypeOK /\ Usable) /\ Handshake /\ [Next]_vars => Handshake'
  BY HandshakeStep
<1>3. Usable /\ Handshake => NoStrandedMessage
  BY Zenon DEF Usable, Handshake, NoStrandedMessage
<1> QED BY <1>1, <1>2, <1>3, UsableAlways, PTL DEF Spec

\* Theorem: messages are delivered in the order sent, none twice, whichever channel the
\* handshake leaves them, also when requests and answers are lost or late, provided that no
\* application mixes the two kinds of sends and rds_peer_create does not fail for a while.
THEOREM DeliveredInOrder ==
  ASSUME "nomem" \notin Faults, Unmixed
  PROVE  Spec => []InOrderDelivery
<1>1. Init => Apart /\ Flows
  BY InitHolds
<1>2. (TypeOK /\ Usable) /\ (Apart /\ Flows) /\ [Next]_vars => (Apart /\ Flows)'
  BY ApartStep, FlowsStep
<1>3. Flows => InOrderDelivery
  <2> SUFFICES ASSUME Flows, NEW n \in Nodes,
                      NEW i \in 1 .. Len(got[n]), NEW j \in 1 .. Len(got[n]), i < j
               PROVE  got[n][i] < got[n][j]
    BY Zenon DEF InOrderDelivery
  <2>1. Peer[n] \in Nodes /\ Peer[Peer[n]] = n
    BY TwoNodes
  <2>2. Flow(got[n], ring[Peer[n]], dgram[Peer[n]], nxt[Peer[n]])
    BY <2>1, Zenon DEF Flows
  <2> QED BY <2>2, Zenon DEF Flow
<1> QED BY <1>1, <1>2, <1>3, UsableAlways, PTL DEF Spec
=============================================================================
