------------------------------- MODULE RdsFifo -------------------------------
(***************************************************************************)
(* What the eager ring promises each pair of endpoints: a bounded channel  *)
(* per direction that delivers every message once, in the order sent.      *)
(* Messages are numbered by their sender from 0, so a direction is known   *)
(* by how many were sent and by the number after the last one delivered.   *)
(***************************************************************************)
EXTENDS Naturals

CONSTANTS
  Nodes,
  Peer,    \* [Nodes -> Nodes]: the other end
  Slots    \* capacity of a direction

VARIABLES
  sent,    \* [Nodes -> Nat]: messages n has sent
  got      \* [Nodes -> Nat]: n has received exactly the messages 0 .. got[n] - 1

FifoInit == sent = [n \in Nodes |-> 0] /\ got = [n \in Nodes |-> 0]

FifoSend(n) ==
  /\ sent[n] - got[Peer[n]] < Slots
  /\ sent' = [sent EXCEPT ![n] = @ + 1]
  /\ UNCHANGED got

FifoDeliver(n) ==
  /\ got[n] < sent[Peer[n]]
  /\ got' = [got EXCEPT ![n] = @ + 1]
  /\ UNCHANGED sent

FifoNext == \E n \in Nodes : FifoSend(n) \/ FifoDeliver(n)

FifoSpec == FifoInit /\ [][FifoNext]_<<sent, got>>
=============================================================================
