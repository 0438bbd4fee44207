------------------------------- MODULE RdsPeer -------------------------------
(***************************************************************************)
(* The ring handshake and the choice of channel (rds_eager.c, with         *)
(* rds_generic_send and rds_generic_inject): with FI_RDS_EAGER_RDMA=1 an   *)
(* application message travels the peer's ring once both ends are READY,   *)
(* and the datagram socket when the ring cannot be used.  The ring is the  *)
(* FIFO that module RdsRing implements; the socket is a FIFO too.  Nothing *)
(* orders the two channels with respect to each other.                     *)
(***************************************************************************)
EXTENDS Naturals, Sequences

CONSTANTS
  Nodes,   \* two endpoints
  Peer,    \* [Nodes -> Nodes]
  Progs,   \* programs of the applications, a set of [Nodes -> Seq({"send", "inject"})];
           \* "send" fits a slot or is a rendezvous whose RTS does, "inject" is an
           \* fi_inject longer than ring_payload and at most rds_eager_size
  Slots,   \* capacity of a ring
  Faults   \* subset of {"nomem", "req_lost", "ack_lost", "late"}

ASSUME PeerAssumption ==
  /\ Peer \in [Nodes -> Nodes]
  /\ \A n \in Nodes : Nodes = {n, Peer[n]} /\ Peer[n] # n /\ Peer[Peer[n]] = n
  /\ \A g \in Progs : g \in [Nodes -> Seq({"send", "inject"})]
  /\ Slots \in Nat

VARIABLES
  prog,     \* what each application sends, in order
  conf,     \* [Nodes -> {"ok", "regfail", "off"}]: ring usable, registration fails, or
            \* past ring_max_peers (or FI_RDS_EAGER_RDMA=0)
  geo,      \* both ends have the same ring geometry
  state,    \* [Nodes -> peer state], "ABSENT" without a struct rds_peer
  expired,  \* [Nodes -> BOOLEAN]: RDS_RING_CONNECT_TIMEOUT_MS has passed since the REQ
  nxt,      \* [Nodes -> Nat]: next message of prog
  ring,     \* [Nodes -> Seq(Nat)]: messages of n in its peer's ring
  dgram,    \* [Nodes -> Seq(datagram)]: from n to its peer
  got,      \* [Nodes -> Seq(Nat)]: messages delivered at n
  pass      \* [Nodes -> {"idle", "ring", "sock"}]: where rds_ep_progress is

vars == <<prog, conf, geo, state, expired, nxt, ring, dgram, got, pass>>
envVars == <<prog, conf, geo>>

State == {"ABSENT", "NONE", "CONNECTING", "READY", "DISABLED"}
Msg(k) == [op |-> "MSG", k |-> k]
Ctrl(op) == [op |-> op, k |-> 0]

Init ==
  /\ prog \in Progs
  /\ conf \in [Nodes -> {"ok", "regfail", "off"}]
  /\ geo \in BOOLEAN
  /\ state = [n \in Nodes |-> "ABSENT"]
  /\ expired = [n \in Nodes |-> FALSE]
  /\ nxt = [n \in Nodes |-> 1]
  /\ ring = [n \in Nodes |-> <<>>]
  /\ dgram = [n \in Nodes |-> <<>>]
  /\ got = [n \in Nodes |-> <<>>]
  /\ pass = [n \in Nodes |-> "idle"]

\* State of the peer after rds_peer_find and, without one, rds_peer_create.
Found(n) ==
  IF state[n] # "ABSENT" THEN {state[n]}
  ELSE (IF "nomem" \in Faults THEN {"ABSENT"} ELSE {})
       \cup {CASE conf[n] = "off" -> "ABSENT"
               [] conf[n] = "regfail" -> "DISABLED"
               [] conf[n] = "ok" -> "NONE"}

\* rds_ring_send_ctrl ignores the result of sendmsg: the datagrams that go out.
CtrlSent(op, fault) == {<<Ctrl(op)>>} \cup (IF fault \in Faults THEN {<<>>} ELSE {})

(***************************************************************************)
(* Sending, under the endpoint lock                                        *)
(***************************************************************************)

Sending(n, kind) == pass[n] = "idle" /\ nxt[n] <= Len(prog[n]) /\ prog[n][nxt[n]] = kind

\* Mutant: hdr.op is not set.
EmitUnset(n) ==
  /\ dgram' = [dgram EXCEPT ![n] = Append(@, [op |-> "", k |-> nxt[n]])]
  /\ nxt' = [nxt EXCEPT ![n] = @ + 1]

\* rds_send_eager or the RTS datagram of rds_send_rndzv.
EmitDatagram(n) ==
  /\ dgram' = [dgram EXCEPT ![n] = Append(@, Msg(nxt[n]))]
  /\ nxt' = [nxt EXCEPT ![n] = @ + 1]

\* rds_ring_send returns -FI_ENOSYS: no peer object, or the ring is disabled.
SendNoRing(n) ==
  /\ Sending(n, "send")
  /\ \E s \in Found(n) \cap {"ABSENT", "DISABLED"} : state' = [state EXCEPT ![n] = s]
  /\ EmitDatagram(n)
  /\ UNCHANGED <<envVars, expired, ring, got, pass>>

\* Mutant: a message sent before the handshake is over takes the socket.
SendRequestSpills(n) ==
  /\ Sending(n, "send")
  /\ "NONE" \in Found(n)
  /\ state' = [state EXCEPT ![n] = "CONNECTING"]
  /\ dgram' = [dgram EXCEPT ![n] = @ \o <<Ctrl("REQ"), Msg(nxt[n])>>]
  /\ nxt' = [nxt EXCEPT ![n] = @ + 1]
  /\ UNCHANGED <<envVars, expired, ring, got, pass>>

\* The first send to a peer requests its ring and returns -FI_EAGAIN.
SendRequest(n) ==
  /\ Sending(n, "send")
  /\ "NONE" \in Found(n)
  /\ state' = [state EXCEPT ![n] = "CONNECTING"]
  /\ \E c \in CtrlSent("REQ", "req_lost") : dgram' = [dgram EXCEPT ![n] = @ \o c]
  /\ UNCHANGED <<envVars, expired, nxt, ring, got, pass>>

\* Mutant: the deadline is not looked at.
SendExpiredNever(n) == FALSE

\* A retry after the deadline gives the ring up and takes the socket, which may refuse.
SendExpired(n) ==
  /\ Sending(n, "send")
  /\ state[n] = "CONNECTING" /\ expired[n]
  /\ state' = [state EXCEPT ![n] = "DISABLED"]
  /\ EmitDatagram(n) \/ UNCHANGED <<dgram, nxt>>
  /\ UNCHANGED <<envVars, expired, ring, got, pass>>

\* The ring is READY and has room (a full ring returns -FI_EAGAIN).
SendOnRing(n) ==
  /\ Sending(n, "send")
  /\ state[n] = "READY"
  /\ Len(ring[n]) < Slots
  /\ ring' = [ring EXCEPT ![n] = Append(@, nxt[n])]
  /\ nxt' = [nxt EXCEPT ![n] = @ + 1]
  /\ UNCHANGED <<envVars, state, expired, dgram, got, pass>>

\* rds_generic_inject of more than ring_payload bytes does not ask for the ring.
Inject(n) ==
  /\ Sending(n, "inject")
  /\ EmitDatagram(n)
  /\ UNCHANGED <<envVars, state, expired, ring, got, pass>>

(***************************************************************************)
(* rds_ep_progress: the rings first, then the socket                       *)
(***************************************************************************)

PassBegin(n) ==
  /\ pass[n] = "idle"
  /\ pass' = [pass EXCEPT ![n] = "ring"]
  /\ UNCHANGED <<envVars, state, expired, nxt, ring, dgram, got>>

\* rds_ring_progress polls READY peers only.
Visible(n) == state[n] = "READY" /\ ring[Peer[n]] # <<>>

PollRing(n) ==
  /\ pass[n] = "ring" /\ Visible(n)
  /\ got' = [got EXCEPT ![n] = Append(@, Head(ring[Peer[n]]))]
  /\ ring' = [ring EXCEPT ![Peer[n]] = Tail(@)]
  /\ UNCHANGED <<envVars, state, expired, nxt, dgram, pass>>

PollDone(n) ==
  /\ pass[n] = "ring" /\ ~Visible(n)
  /\ pass' = [pass EXCEPT ![n] = "sock"]
  /\ UNCHANGED <<envVars, state, expired, nxt, ring, dgram, got>>

RecvMsg(n) ==
  /\ pass[n] = "sock" /\ dgram[Peer[n]] # <<>>
  /\ LET d == Head(dgram[Peer[n]])
     IN d.op = "MSG" /\ got' = [got EXCEPT ![n] = Append(@, d.k)]
  /\ dgram' = [dgram EXCEPT ![Peer[n]] = Tail(@)]
  /\ UNCHANGED <<envVars, state, expired, nxt, ring, pass>>

\* Mutant: the published geometry is not compared.
AnsweredAnyGeometry(n, s) == s \notin {"ABSENT", "DISABLED"}

\* A peer object with a registered ring and the same geometry completes the handshake.
Answered(n, s) == s \notin {"ABSENT", "DISABLED"} /\ geo

\* Mutant: a request that crosses one's own is not acknowledged.
RecvCtrlCrossing(n) ==
  /\ pass[n] = "sock" /\ dgram[Peer[n]] # <<>>
  /\ LET op == Head(dgram[Peer[n]]).op
     IN /\ op # "MSG"
        /\ \E s \in Found(n) :
             /\ state' = [state EXCEPT ![n] = IF Answered(n, s) THEN "READY"
                                              ELSE IF s = "ABSENT" THEN s ELSE "DISABLED"]
             /\ \E c \in IF Answered(n, s) /\ op = "REQ" /\ s = "NONE"
                         THEN CtrlSent("ACK", "ack_lost") ELSE {<<>>} :
                  dgram' = [dgram EXCEPT ![Peer[n]] = Tail(@), ![n] = @ \o c]
  /\ UNCHANGED <<envVars, expired, nxt, ring, got, pass>>

\* rds_ring_handle_ctrl
RecvCtrl(n) ==
  /\ pass[n] = "sock" /\ dgram[Peer[n]] # <<>>
  /\ LET op == Head(dgram[Peer[n]]).op
     IN /\ op # "MSG"
        /\ \E s \in Found(n) :
             /\ state' = [state EXCEPT ![n] = IF Answered(n, s) THEN "READY"
                                              ELSE IF s = "ABSENT" THEN s ELSE "DISABLED"]
             /\ \E c \in IF Answered(n, s) /\ op = "REQ"
                         THEN CtrlSent("ACK", "ack_lost") ELSE {<<>>} :
                  dgram' = [dgram EXCEPT ![Peer[n]] = Tail(@), ![n] = @ \o c]
  /\ UNCHANGED <<envVars, expired, nxt, ring, got, pass>>

\* recvmsg returns EAGAIN or the budget is spent.
PassEnd(n) ==
  /\ pass[n] = "sock"
  /\ pass' = [pass EXCEPT ![n] = "idle"]
  /\ UNCHANGED <<envVars, state, expired, nxt, ring, dgram, got>>

\* Some answer to n's request is still to come: its REQ is unread, or a control datagram
\* is on its way to n.
CtrlIn(q) == \E i \in 1 .. Len(q) : q[i].op # "MSG"
AnswerDue(n) == CtrlIn(dgram[n]) \/ CtrlIn(dgram[Peer[n]])

\* Time passes.  Without "late" every answer that is on its way is processed within
\* RDS_RING_CONNECT_TIMEOUT_MS (100 ms), an assumption on the peer and not on the code.
Deadline(n) ==
  /\ state[n] = "CONNECTING" /\ ~expired[n]
  /\ AnswerDue(n) => "late" \in Faults
  /\ expired' = [expired EXCEPT ![n] = TRUE]
  /\ UNCHANGED <<envVars, state, nxt, ring, dgram, got, pass>>

Send(n) ==
  SendNoRing(n) \/ SendRequest(n) \/ SendExpired(n) \/ SendOnRing(n) \/ Inject(n)

Next ==
  \/ \E n \in Nodes : SendNoRing(n)
  \/ \E n \in Nodes : SendRequest(n)
  \/ \E n \in Nodes : SendExpired(n)
  \/ \E n \in Nodes : SendOnRing(n)
  \/ \E n \in Nodes : Inject(n)
  \/ \E n \in Nodes : PassBegin(n)
  \/ \E n \in Nodes : PollRing(n)
  \/ \E n \in Nodes : PollDone(n)
  \/ \E n \in Nodes : RecvMsg(n)
  \/ \E n \in Nodes : RecvCtrl(n)
  \/ \E n \in Nodes : PassEnd(n)
  \/ \E n \in Nodes : Deadline(n)

Spec == Init /\ [][Next]_vars

\* The application progresses its CQ and retries its send; datagrams arrive; time passes.
Fairness ==
  \A n \in Nodes :
    /\ WF_vars(PassBegin(n)) /\ WF_vars(PollRing(n) \/ PollDone(n)) /\ WF_vars(PassEnd(n))
    /\ SF_vars(RecvMsg(n) \/ RecvCtrl(n)) /\ SF_vars(Send(n))
    /\ WF_vars(Deadline(n))

FairSpec == Spec /\ Fairness

(***************************************************************************)
(* Properties                                                              *)
(***************************************************************************)

Datagram == [op : {"MSG", "REQ", "ACK"}, k : Nat]

\* Every variable has the shape of the C object it stands for.
TypeOK ==
  /\ prog \in Progs
  /\ conf \in [Nodes -> {"ok", "regfail", "off"}] /\ geo \in BOOLEAN
  /\ state \in [Nodes -> State] /\ expired \in [Nodes -> BOOLEAN]
  /\ nxt \in [Nodes -> Nat]
  /\ ring \in [Nodes -> Seq(Nat)] /\ dgram \in [Nodes -> Seq(Datagram)]
  /\ got \in [Nodes -> Seq(Nat)]
  /\ pass \in [Nodes -> {"idle", "ring", "sock"}]

\* A message in a ring will be polled: its receiver is READY, or is still connecting and
\* has a control datagram on its way that makes it READY.  Its send has completed, so a
\* receiver that gives the ring up loses it silently (rds_ring_send after the deadline).
NoStrandedMessage ==
  \A n \in Nodes :
    ring[n] # <<>> => \/ state[Peer[n]] = "READY"
                      \/ state[Peer[n]] = "CONNECTING" /\ CtrlIn(dgram[n])

\* FI_ORDER_SAS: messages reach the matching engine of the receiver in the order sent,
\* none twice, whichever channel each of them took.
InOrderDelivery ==
  \A n \in Nodes : \A i, j \in 1 .. Len(got[n]) : i < j => got[n][i] < got[n][j]

\* An endpoint puts messages into a ring only if its owner registered and published it
\* with the same geometry: READY is not reached against a peer that cannot answer.
ReadyMeansUsable ==
  \A n \in Nodes : state[n] = "READY" => geo /\ \A p \in Nodes : conf[p] = "ok"

\* Everything the applications send is delivered, also when the request is lost or the peer
\* cannot offer a ring: a peer that does not answer costs a delay, not a hang
\* (RDS_RING_CONNECT_TIMEOUT_MS).  It takes every ACK that is sent to arrive in time; one
\* that is lost or late strands what its sender puts into the ring (NoStrandedMessage).
AllDelivered == \A n \in Nodes : <>(Len(got[Peer[n]]) = Len(prog[n]))
=============================================================================
