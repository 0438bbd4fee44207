------------------------------- MODULE RdsRing -------------------------------
(***************************************************************************)
(* The data plane of the eager RDMA ring (rds_eager.c, FI_RDS_EAGER_RDMA): *)
(* two endpoints whose rings are READY.  A message is staged locally and   *)
(* placed in the peer's ring by one RDMA write whose last word is the      *)
(* generation the receiver polls for; credit comes back piggybacked on     *)
(* reverse slots and by RDMA writes into the sender's credit cell.         *)
(*                                                                         *)
(* The adapter reads its source when it executes a write, not when the     *)
(* write is posted, and writes of different slots may land in any order.   *)
(* A message is known by its sequence number: tx_head when it was sent.    *)
(***************************************************************************)
EXTENDS Integers

CONSTANTS
  Nodes,       \* the two endpoints
  Peer,        \* [Nodes -> Nodes]
  Slots,       \* ring_slots of both (rds_ring_adopt refuses a peer with another number)
  GenMod,      \* 2^32: generations are uint32_t
  Congestible, \* endpoints whose posts may meet EAGAIN
  MaxSend      \* [Nodes -> Nat], a bound: messages each endpoint sends

ASSUME RingAssumption ==
  /\ Peer \in [Nodes -> Nodes] /\ \A n \in Nodes : Peer[n] # n /\ Peer[Peer[n]] = n
  /\ Slots \in Nat \ {0} /\ GenMod \in Nat \ {0, 1} /\ MaxSend \in [Nodes -> Nat]
  /\ Congestible \subseteq Nodes

VARIABLES
  tx_head,         \* [Nodes -> Nat]: slots sent (uint64_t, does not wrap)
  tx_tail,         \* [Nodes -> Nat]: slots known to be consumed
  credit_cell,     \* [Nodes -> Nat]: written by the peer
  stage,           \* [Nodes -> [slot index -> slot]]: tx_stage
  rx_ring,         \* [Nodes -> [slot index -> slot]]: written by the peer
  rx_head,         \* [Nodes -> Nat]: slots consumed
  rx_credit_sent,  \* [Nodes -> Nat]
  credit_tx,       \* [Nodes -> Nat]: source of the credit writes
  got,             \* [Nodes -> Nat]: number after the last message delivered
  polling,         \* [Nodes -> {"no", "poll", "drained"}]: rds_ring_poll_peer under the lock
  wr,              \* [Nodes -> slot writes in flight]
  cw,              \* [Nodes -> credit writes in flight, by the value posted]
  cong             \* endpoints whose posts are refused now

sendVars == <<tx_head, stage>>
recvVars == <<rx_head, got, polling>>
credVars == <<rx_credit_sent, credit_tx, cw>>
vars == <<sendVars, tx_tail, credit_cell, rx_ring, recvVars, credVars, wr, cong>>

Index == 0 .. Slots - 1
Slot == [gen : Nat, ack : Nat, msg : Nat]
NoSlot == [gen |-> 0, ack |-> 0, msg |-> 0]

Idx(h) == h % Slots

\* Mutant: the generation does not change from lap to lap.
GenFixed(h) == 1

\* The generation of the slot that carries message h, a uint32_t.
Gen(h) == ((h \div Slots) + 1) % GenMod

Max2(a, b) == IF a >= b THEN a ELSE b

Init ==
  /\ tx_head = [n \in Nodes |-> 0]
  /\ tx_tail = [n \in Nodes |-> 0]
  /\ credit_cell = [n \in Nodes |-> 0]
  /\ stage = [n \in Nodes |-> [i \in Index |-> NoSlot]]
  /\ rx_ring = [n \in Nodes |-> [i \in Index |-> NoSlot]]
  /\ rx_head = [n \in Nodes |-> 0]
  /\ rx_credit_sent = [n \in Nodes |-> 0]
  /\ credit_tx = [n \in Nodes |-> 0]
  /\ got = [n \in Nodes |-> 0]
  /\ polling = [n \in Nodes |-> "no"]
  /\ wr = [n \in Nodes |-> {}]
  /\ cw = [n \in Nodes |-> {}]
  /\ cong = {}

(***************************************************************************)
(* Sender                                                                  *)
(***************************************************************************)

\* Mutant: the credit cell is never looked at.
RefreshedNever(n) == tx_tail[n]

\* tx_tail after rds_ring_refresh_credit.
Refreshed(n) == Max2(tx_tail[n], credit_cell[n])

\* Mutant: the ring counts as full one slot too late.
RoomOffByOne(n) == tx_head[n] - Refreshed(n) <= Slots

Room(n) == tx_head[n] - Refreshed(n) < Slots

\* Mutant: the piggybacked credit counts the slot being polled.
AckEarly(n) == rx_head[n] + 1

\* slot->ack: the reverse credit a slot of n carries.
Ack(n) == rx_head[n]

\* rds_ring_send on a full ring: only the refreshed credit is kept, the caller retries.
SendFull(n) ==
  /\ polling[n] = "no" /\ tx_head[n] < MaxSend[n]
  /\ ~Room(n)
  /\ tx_tail' = [tx_tail EXCEPT ![n] = Refreshed(n)]
  /\ UNCHANGED <<sendVars, credit_cell, rx_ring, recvVars, credVars, wr, cong>>

\* rds_ring_send: stage the slot and post its write; when the post is refused the staged
\* slot is abandoned and the caller retries.
Send(n) ==
  /\ polling[n] = "no" /\ tx_head[n] < MaxSend[n]
  /\ Room(n)
  /\ tx_tail' = [tx_tail EXCEPT ![n] = Refreshed(n)]
  /\ stage' = [stage EXCEPT ![n][Idx(tx_head[n])] =
                 [gen |-> Gen(tx_head[n]), ack |-> Ack(n), msg |-> tx_head[n]]]
  /\ \/ /\ n \notin cong
        /\ wr' = [wr EXCEPT ![n] = @ \cup {[h |-> tx_head[n], part |-> "none"]}]
        /\ tx_head' = [tx_head EXCEPT ![n] = @ + 1]
     \/ n \in cong /\ UNCHANGED <<wr, tx_head>>
  /\ UNCHANGED <<credit_cell, rx_ring, recvVars, credVars, cong>>

(***************************************************************************)
(* Receiver                                                                *)
(***************************************************************************)

\* rds_ring_return_credit with rx_head = h: the cell is written by a post that may be
\* refused, and only a post that was taken is remembered.
ReturnCredit(n, h) ==
  /\ credit_tx' = [credit_tx EXCEPT ![n] = h]
  /\ \/ /\ n \notin cong
        /\ cw' = [cw EXCEPT ![n] = @ \cup {h}]
        /\ rx_credit_sent' = [rx_credit_sent EXCEPT ![n] = h]
     \/ n \in cong /\ UNCHANGED <<cw, rx_credit_sent>>

\* The slot rds_ring_poll_peer looks at next, and whether it has arrived.
Polled(n) == rx_ring[n][Idx(rx_head[n])]
Arrived(n) == Polled(n).gen = Gen(rx_head[n])

\* rds_ring_progress reaches the peer's ring.
PollBegin(n) ==
  /\ polling[n] = "no"
  /\ polling' = [polling EXCEPT ![n] = "poll"]
  /\ UNCHANGED <<sendVars, tx_tail, credit_cell, rx_ring, rx_head, got, credVars, wr, cong>>

\* One iteration of the loop of rds_ring_poll_peer: absorb the piggybacked credit,
\* deliver, and return credit once half a ring has been consumed.
PollSlot(n) ==
  /\ polling[n] # "no"
  /\ Arrived(n)
  /\ tx_tail' = [tx_tail EXCEPT ![n] = Max2(@, Polled(n).ack)]
  /\ got' = [got EXCEPT ![n] = Polled(n).msg + 1]
  /\ rx_head' = [rx_head EXCEPT ![n] = @ + 1]
  /\ polling' = [polling EXCEPT ![n] = "drained"]
  /\ IF rx_head[n] + 1 - rx_credit_sent[n] >= Slots \div 2
     THEN ReturnCredit(n, rx_head[n] + 1)
     ELSE UNCHANGED credVars
  /\ UNCHANGED <<sendVars, credit_cell, rx_ring, wr, cong>>

\* The loop ends: return what credit is left if anything was drained.
PollEnd(n) ==
  /\ polling[n] # "no"
  /\ ~Arrived(n)
  /\ polling' = [polling EXCEPT ![n] = "no"]
  /\ IF polling[n] = "drained" /\ rx_head[n] # rx_credit_sent[n]
     THEN ReturnCredit(n, rx_head[n])
     ELSE UNCHANGED credVars
  /\ UNCHANGED <<sendVars, tx_tail, credit_cell, rx_ring, rx_head, got, wr, cong>>

(***************************************************************************)
(* The adapter and the network, external to the provider                   *)
(***************************************************************************)

\* A slot write lands in ascending address order: everything but the trailing generation,
\* then the generation, each as the staging slot holds it at that time.
LandBody(n, w) ==
  LET i == Idx(w.h)
  IN /\ w.part = "none"
     /\ rx_ring' = [rx_ring EXCEPT ![Peer[n]][i] =
                      [stage[n][i] EXCEPT !.gen = rx_ring[Peer[n]][i].gen]]
     /\ wr' = [wr EXCEPT ![n] = (@ \ {w}) \cup {[w EXCEPT !.part = "body"]}]
     /\ UNCHANGED <<sendVars, tx_tail, credit_cell, recvVars, credVars, cong>>

LandGen(n, w) ==
  LET i == Idx(w.h)
  IN /\ w.part = "body"
     /\ rx_ring' = [rx_ring EXCEPT ![Peer[n]][i].gen = stage[n][i].gen]
     /\ wr' = [wr EXCEPT ![n] = @ \ {w}]
     /\ UNCHANGED <<sendVars, tx_tail, credit_cell, recvVars, credVars, cong>>

\* Credit writes of one endpoint land in the order posted; each carries what credit_tx
\* held at some time since its post.
LandCredit(n, v) ==
  /\ \A u \in cw[n] : v <= u
  /\ \E c \in v .. credit_tx[n] : credit_cell' = [credit_cell EXCEPT ![Peer[n]] = c]
  /\ cw' = [cw EXCEPT ![n] = @ \ {v}]
  /\ UNCHANGED <<sendVars, tx_tail, rx_ring, recvVars, rx_credit_sent, credit_tx, wr, cong>>

\* Congestion comes and goes.
Congest(n) ==
  /\ cong' = IF n \in cong THEN cong \ {n} ELSE cong \cup {n}
  /\ UNCHANGED <<sendVars, tx_tail, credit_cell, rx_ring, recvVars, credVars, wr>>

Next ==
  \/ \E n \in Nodes : SendFull(n)
  \/ \E n \in Nodes : Send(n)
  \/ \E n \in Nodes : PollBegin(n)
  \/ \E n \in Nodes : PollSlot(n)
  \/ \E n \in Nodes : PollEnd(n)
  \/ \E n \in Nodes : \E w \in wr[n] : LandBody(n, w)
  \/ \E n \in Nodes : \E w \in wr[n] : LandGen(n, w)
  \/ \E n \in Nodes : \E v \in cw[n] : LandCredit(n, v)
  \/ \E n \in Congestible : Congest(n)

Spec == Init /\ [][Next]_vars

\* The application polls its CQ and retries its send, and the adapter executes what was
\* posted.  The poll loop is left when no slot is there.
Fairness ==
  \A n \in Nodes :
    /\ WF_vars(PollBegin(n)) /\ WF_vars(PollSlot(n) \/ PollEnd(n))
    /\ SF_vars(Send(n)) /\ SF_vars(SendFull(n))
    /\ WF_vars(\E w \in wr[n] : LandBody(n, w) \/ LandGen(n, w))
    /\ WF_vars(\E v \in cw[n] : LandCredit(n, v))

FairSpec == Spec /\ Fairness

(***************************************************************************)
(* Properties                                                              *)
(***************************************************************************)

\* Every variable has the shape of the C object it stands for.
TypeOK ==
  /\ tx_head \in [Nodes -> Nat] /\ tx_tail \in [Nodes -> Nat]
  /\ credit_cell \in [Nodes -> Nat]
  /\ stage \in [Nodes -> [Index -> Slot]] /\ rx_ring \in [Nodes -> [Index -> Slot]]
  /\ rx_head \in [Nodes -> Nat] /\ rx_credit_sent \in [Nodes -> Nat]
  /\ credit_tx \in [Nodes -> Nat] /\ got \in [Nodes -> Nat]
  /\ polling \in [Nodes -> {"no", "poll", "drained"}]
  /\ wr \in [Nodes -> SUBSET [h : Nat, part : {"none", "body"}]]
  /\ cw \in [Nodes -> SUBSET Nat]
  /\ cong \subseteq Congestible

\* Credit never runs ahead of consumption, from whichever of its three carriers a sender
\* takes it: what it counts as free has been polled, and it never has more than a ring
\* of slots out (so tx_head - tx_tail, an unsigned difference, does not wrap).
CreditBehindConsumer ==
  \A n \in Nodes :
    /\ tx_tail[n] <= rx_head[Peer[n]] /\ credit_cell[n] <= rx_head[Peer[n]]
    /\ rx_head[Peer[n]] <= tx_head[n]
    /\ tx_head[n] - tx_tail[n] <= Slots

\* Whatever a poll would take for an arrived slot is the next message, complete: a slot
\* of an earlier lap or half a write is never taken, with generations modulo 2^32.
ArrivedIsNext ==
  \A n \in Nodes :
    Arrived(n) => /\ rx_head[n] < tx_head[Peer[n]]
                  /\ Polled(n).msg = rx_head[n]

\* A staging slot is not reused while the adapter may still read it: rds_ring_send asks
\* for no completion and relies on flow control alone.
StagingStable ==
  \A n \in Nodes : \A w \in wr[n] :
    /\ stage[n][Idx(w.h)].msg = w.h /\ stage[n][Idx(w.h)].gen = Gen(w.h)
    /\ \A x \in wr[n] : Idx(x.h) = Idx(w.h) => x = w

Fifo == INSTANCE RdsFifo WITH sent <- tx_head

\* The ring is a bounded FIFO per direction: no message is lost, duplicated, corrupted or
\* reordered (rds_ring_send, rds_ring_poll_peer against the abstract channel).
RingIsFifo == Fifo!FifoSpec

\* The peer of n has drained the ring and has not got the credit for it posted.
CreditWithheld(n) ==
  rx_head[Peer[n]] = tx_head[n] /\ rx_credit_sent[Peer[n]] # rx_head[Peer[n]]

\* Once posts are no longer refused, a sender that keeps retrying sends everything, unless
\* its peer has drained the ring and keeps the credit for it, whose post was refused:
\* nothing else can leave a sender waiting for ever (rds_ring_send,
\* rds_ring_return_credit, rds_ring_poll_peer).
StuckOnlyByRefusedCredit ==
  (<>[](cong = {})) =>
    \A n \in Nodes : <>(tx_head[n] = MaxSend[n]) \/ <>[]CreditWithheld(n)

\* Once posts are no longer refused, a sender that keeps retrying sends everything: a
\* full ring is only back-pressure (rds_ring_send, rds_ring_return_credit).
SenderNotStuck ==
  (<>[](cong = {})) => \A n \in Nodes : <>(tx_head[n] = MaxSend[n])
=============================================================================
