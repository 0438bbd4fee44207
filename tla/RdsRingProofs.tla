---------------------------- MODULE RdsRingProofs ----------------------------
(***************************************************************************)
(* Proofs about RdsRing for every number of slots, generation width and    *)
(* number of messages.                                                     *)
(*                                                                         *)
(* First what they rest on: slot indices and generations, types, and one   *)
(* direction of the ring as a relation between the sender's counter, its   *)
(* staging ring, the writes in flight, the receiver's ring and counter.    *)
(***************************************************************************)
EXTENDS RdsRing, TLAPS

\* Leaves go to SMT unless they name another prover.
USE SMTT(60)

(***************************************************************************)
(* Slot indices and generations                                            *)
(***************************************************************************)

\* A number splits into lap and index.
LEMMA Split ==
  ASSUME NEW h \in Nat
  PROVE  /\ h \div Slots \in Nat /\ Idx(h) \in 0 .. Slots - 1
         /\ h = Slots * (h \div Slots) + Idx(h)
BY RingAssumption, Z3 DEF Idx, RingAssumption

\* Fewer than a ring apart, two messages share a slot only if they are the same.
LEMMA IdxInjective ==
  ASSUME NEW h \in Nat, NEW k \in Nat, h <= k, k - h < Slots, Idx(h) = Idx(k)
  PROVE  h = k
<1> DEFINE p == h \div Slots  q == k \div Slots
<1>a. Slots \in Nat \ {0}
  BY RingAssumption DEF RingAssumption
<1>b. p \in Nat /\ Idx(h) \in 0 .. Slots - 1 /\ h = Slots * p + Idx(h)
  BY Split
<1>c. q \in Nat /\ Idx(k) \in 0 .. Slots - 1 /\ k = Slots * q + Idx(k)
  BY Split
<1> HIDE DEF p, q
<1>1. p \in Nat /\ q \in Nat /\ Slots \in Nat \ {0}
  BY <1>a, <1>b, <1>c
<1>2. h = Slots * p + Idx(h) /\ k = Slots * q + Idx(h) /\ Idx(h) \in Nat
  BY <1>a, <1>b, <1>c
<1>3. k - h = Slots * (q - p)
  BY <1>1, <1>2
<1>4. CASE q = p
  BY <1>1, <1>2, <1>4
<1>5. CASE q > p
  BY <1>1, <1>3, <1>5
<1>6. CASE q < p
  BY <1>1, <1>3, <1>6
<1> QED BY <1>1, <1>4, <1>5, <1>6

\* One lap later the slot is the same and the generation another, modulo 2^32 or not.
LEMMA NextLap ==
  ASSUME NEW h \in Nat
  PROVE  Idx(h + Slots) = Idx(h) /\ Gen(h + Slots) # Gen(h)
<1> DEFINE q == h \div Slots
<1>a. Slots \in Nat \ {0} /\ GenMod \in Nat \ {0, 1}
  BY RingAssumption DEF RingAssumption
<1>b. q \in Nat
  BY Split
<1>1. Slots \in Nat \ {0} /\ GenMod \in Nat \ {0, 1} /\ h + Slots \in Nat /\ q \in Nat
  BY <1>a, <1>b
<1>2. (h + Slots) \div Slots = q + 1 /\ Idx(h + Slots) = Idx(h)
  <2> DEFINE t == (h + Slots) \div Slots  d == t - q
  <2>1. /\ t \in Nat /\ Idx(h + Slots) \in 0 .. Slots - 1
        /\ h + Slots = Slots * t + Idx(h + Slots)
    BY Split, <1>1, Zenon
  <2>2. Idx(h) \in 0 .. Slots - 1 /\ h = Slots * q + Idx(h)
    BY Split
  <2> HIDE DEF t, q
  <2>3. Slots * (d - 1) = Idx(h) - Idx(h + Slots) /\ d \in Int
    BY <1>1, <2>1, <2>2
  <2> HIDE DEF d
  <2>4. d = 1
    <3>1. CASE d > 1
      BY <1>1, <2>1, <2>2, <2>3, <3>1
    <3>2. CASE d < 1
      BY <1>1, <2>1, <2>2, <2>3, <3>2
    <3> QED BY <2>3, <3>1, <3>2
  <2> QED BY <1>1, <2>1, <2>2, <2>3, <2>4 DEF d, t
<1>3. \A x \in Nat : x % GenMod # (x + 1) % GenMod
  <2> SUFFICES ASSUME NEW x \in Nat, x % GenMod = (x + 1) % GenMod PROVE FALSE
    OBVIOUS
  <2> DEFINE a == x \div GenMod  b == (x + 1) \div GenMod  r == x % GenMod
  <2>1. a \in Int /\ b \in Int /\ r \in Int /\ x = GenMod * a + r /\ x + 1 = GenMod * b + r
    BY <1>1, Z3
  <2> HIDE DEF a, b, r
  <2>2. GenMod * (b - a) = 1
    BY <1>1, <2>1
  <2>3. CASE b - a > 0
    BY <1>1, <2>1, <2>2, <2>3
  <2>4. CASE b - a <= 0
    BY <1>1, <2>1, <2>2, <2>4
  <2> QED BY <2>1, <2>3, <2>4
<1> QED BY <1>1, <1>2, <1>3 DEF Gen

(***************************************************************************)
(* Type correctness                                                        *)
(***************************************************************************)

\* The constants, and the range of slot indices and generations.
LEMMA SlotFacts ==
  /\ Slots \in Nat \ {0} /\ GenMod \in Nat \ {0, 1}
  /\ Peer \in [Nodes -> Nodes] /\ \A n \in Nodes : Peer[n] # n /\ Peer[Peer[n]] = n
  /\ \A h \in Nat : Idx(h) \in Index /\ Gen(h) \in Nat
<1>1. /\ Slots \in Nat \ {0} /\ GenMod \in Nat \ {0, 1}
      /\ Peer \in [Nodes -> Nodes] /\ \A n \in Nodes : Peer[n] # n /\ Peer[Peer[n]] = n
  BY RingAssumption DEF RingAssumption
<1>2. \A h \in Nat : Idx(h) \in Index
  BY Split DEF Index
<1>3. \A x \in Nat : x % GenMod \in Nat
  BY <1>1, Z3
<1>4. \A h \in Nat : Gen(h) \in Nat
  <2> TAKE h \in Nat
  <2>1. (h \div Slots) + 1 \in Nat
    BY Split
  <2> QED BY <1>3, <2>1 DEF Gen
<1> QED BY <1>1, <1>2, <1>4

\* rds_ring_return_credit keeps the types.
LEMMA ReturnCreditType ==
  ASSUME TypeOK, NEW n \in Nodes, NEW h \in Nat, ReturnCredit(n, h)
  PROVE  /\ credit_tx' \in [Nodes -> Nat] /\ cw' \in [Nodes -> SUBSET Nat]
         /\ rx_credit_sent' \in [Nodes -> Nat]
<1>1. /\ credit_tx \in [Nodes -> Nat] /\ cw \in [Nodes -> SUBSET Nat]
      /\ rx_credit_sent \in [Nodes -> Nat]
  BY DEF TypeOK
<1>2. PICK y \in SUBSET Nat : y = cw[n] \cup {h}
  BY <1>1, Zenon
<1>3. credit_tx' \in [Nodes -> Nat] /\ rx_credit_sent' \in [Nodes -> Nat]
  BY <1>1 DEF ReturnCredit
<1>4. cw' = [cw EXCEPT ![n] = y] \/ cw' = cw
  BY <1>2 DEF ReturnCredit
<1>5. cw' \in [Nodes -> SUBSET Nat]
  BY <1>1, <1>4, ZenonT(60)
<1> QED BY <1>3, <1>5

Write == [h : Nat, part : {"none", "body"}]

\* Every step keeps the types.
LEMMA TypeStep == TypeOK /\ [Next]_vars => TypeOK'
<1> SUFFICES ASSUME TypeOK, [Next]_vars PROVE TypeOK'
  OBVIOUS
<1> USE DEF TypeOK, Write
<1>0. Peer \in [Nodes -> Nodes]
  BY SlotFacts
<1>1. ASSUME NEW n \in Nodes, SendFull(n) PROVE TypeOK'
  BY <1>1 DEF SendFull, Refreshed, Max2, sendVars, recvVars, credVars
<1>2. ASSUME NEW n \in Nodes, Send(n) PROVE TypeOK'
  <2>0. tx_head[n] \in Nat /\ Idx(tx_head[n]) \in Index /\ Gen(tx_head[n]) \in Nat
    BY SlotFacts
  <2>1. PICK x \in Slot :
          x = [gen |-> Gen(tx_head[n]), ack |-> Ack(n), msg |-> tx_head[n]]
    BY <2>0, Zenon DEF Ack, Slot
  <2>a. stage' = [stage EXCEPT ![n] = [stage[n] EXCEPT ![Idx(tx_head[n])] = x]]
    BY <1>2, <2>1 DEF Send
  <2>2. stage' \in [Nodes -> [Index -> Slot]]
    BY <2>0, <2>a
  <2>b. PICK u \in Write : u = [h |-> tx_head[n], part |-> "none"]
    BY <2>0, Zenon
  <2>c. \/ /\ wr' = [wr EXCEPT ![n] = wr[n] \cup {u}]
           /\ tx_head' = [tx_head EXCEPT ![n] = tx_head[n] + 1]
        \/ wr' = wr /\ tx_head' = tx_head
    BY <1>2, <2>b DEF Send
  <2>e. wr[n] \in SUBSET Write
    OBVIOUS
  <2>d. PICK y \in SUBSET Write : y = wr[n] \cup {u}
    BY <2>b, <2>e, Zenon
  <2>f. PICK t \in Nat : t = tx_head[n] + 1
    BY <2>0
  <2>3. wr' \in [Nodes -> SUBSET Write] /\ tx_head' \in [Nodes -> Nat]
    <3>1. CASE wr' = wr /\ tx_head' = tx_head
      BY <3>1
    <3>2. CASE wr' = [wr EXCEPT ![n] = y] /\ tx_head' = [tx_head EXCEPT ![n] = t]
      <4>1. wr' \in [Nodes -> SUBSET Write]
        BY <3>2
      <4>2. tx_head' \in [Nodes -> Nat]
        BY <3>2
      <4> QED BY <4>1, <4>2
    <3> QED BY <2>c, <2>d, <2>f, <3>1, <3>2
  <2>4. tx_tail' \in [Nodes -> Nat]
    BY <1>2 DEF Send, Refreshed, Max2
  <2> QED BY <1>2, <2>2, <2>3, <2>4 DEF Send, recvVars, credVars
<1>3. ASSUME NEW n \in Nodes, PollBegin(n) PROVE TypeOK'
  BY <1>3 DEF PollBegin, sendVars, credVars
<1>4. ASSUME NEW n \in Nodes, PollSlot(n) PROVE TypeOK'
  <2>0. rx_head[n] \in Nat /\ Idx(rx_head[n]) \in Index
    BY SlotFacts
  <2>1. Polled(n) \in Slot
    BY <2>0 DEF Polled
  <2>2. tx_tail' \in [Nodes -> Nat] /\ got' \in [Nodes -> Nat]
    BY <1>4, <2>1 DEF PollSlot, Max2, Slot
  <2>3. /\ credit_tx' \in [Nodes -> Nat] /\ cw' \in [Nodes -> SUBSET Nat]
        /\ rx_credit_sent' \in [Nodes -> Nat]
    <3>1. CASE ReturnCredit(n, rx_head[n] + 1)
      BY <2>0, <3>1, ReturnCreditType
    <3>2. CASE UNCHANGED credVars
      BY <3>2 DEF credVars
    <3> QED BY <1>4, <3>1, <3>2 DEF PollSlot
  <2> QED BY <1>4, <2>2, <2>3 DEF PollSlot, sendVars
<1>5. ASSUME NEW n \in Nodes, PollEnd(n) PROVE TypeOK'
  <2>1. /\ credit_tx' \in [Nodes -> Nat] /\ cw' \in [Nodes -> SUBSET Nat]
        /\ rx_credit_sent' \in [Nodes -> Nat]
    <3>1. CASE ReturnCredit(n, rx_head[n])
      BY <3>1, ReturnCreditType
    <3>2. CASE UNCHANGED credVars
      BY <3>2 DEF credVars
    <3> QED BY <1>5, <3>1, <3>2 DEF PollEnd
  <2> QED BY <1>5, <2>1, Zenon DEF PollEnd, sendVars
<1>6. ASSUME NEW n \in Nodes, NEW w \in wr[n], LandBody(n, w) PROVE TypeOK'
  <2>0. w \in Write /\ w.h \in Nat /\ Peer[n] \in Nodes
    BY <1>0
  <2>1. PICK i \in Index : i = Idx(w.h)
    BY <2>0, SlotFacts
  <2>a. stage[n][i] \in Slot /\ rx_ring[Peer[n]][i] \in Slot
    BY <2>0
  <2>2. PICK x \in Slot : x = [stage[n][i] EXCEPT !.gen = rx_ring[Peer[n]][i].gen]
    BY <2>a, Zenon DEF Slot
  <2>3. PICK u \in Write : u = [w EXCEPT !.part = "body"]
    BY <2>0, Zenon
  <2>4. /\ rx_ring' = [rx_ring EXCEPT ![Peer[n]] = [rx_ring[Peer[n]] EXCEPT ![i] = x]]
        /\ wr' = [wr EXCEPT ![n] = (@ \ {w}) \cup {u}]
    BY <1>6, <2>1, <2>2, <2>3 DEF LandBody
  <2>5. rx_ring' \in [Nodes -> [Index -> Slot]]
    BY <2>0, <2>4
  <2>6. wr' \in [Nodes -> SUBSET Write]
    BY <2>3, <2>4, Zenon
  <2> QED BY <1>6, <2>5, <2>6 DEF LandBody, sendVars, recvVars, credVars
<1>7. ASSUME NEW n \in Nodes, NEW w \in wr[n], LandGen(n, w) PROVE TypeOK'
  <2>0. w.h \in Nat /\ Peer[n] \in Nodes
    BY <1>0
  <2>1. PICK i \in Index : i = Idx(w.h)
    BY <2>0, SlotFacts
  <2>a. stage[n][i] \in Slot /\ rx_ring[Peer[n]][i] \in Slot
    BY <2>0
  <2>2. PICK x \in Slot : x = [rx_ring[Peer[n]][i] EXCEPT !.gen = stage[n][i].gen]
    BY <2>a, Zenon DEF Slot
  <2>4. /\ rx_ring' = [rx_ring EXCEPT ![Peer[n]] = [rx_ring[Peer[n]] EXCEPT ![i] = x]]
        /\ wr' = [wr EXCEPT ![n] = @ \ {w}]
    BY <1>7, <2>1, <2>2 DEF LandGen
  <2>5. rx_ring' \in [Nodes -> [Index -> Slot]]
    BY <2>0, <2>4
  <2>6. wr' \in [Nodes -> SUBSET Write]
    BY <2>4
  <2> QED BY <1>7, <2>5, <2>6 DEF LandGen, sendVars, recvVars, credVars
<1>8. ASSUME NEW n \in Nodes, NEW v \in cw[n], LandCredit(n, v) PROVE TypeOK'
  <2>0. v \in Nat /\ credit_tx[n] \in Nat /\ Peer[n] \in Nodes
    BY <1>0
  <2>a. PICK c \in v .. credit_tx[n] : credit_cell' = [credit_cell EXCEPT ![Peer[n]] = c]
    BY <1>8, Zenon DEF LandCredit
  <2>b. credit_cell' \in [Nodes -> Nat]
    BY <2>0, <2>a
  <2>c. PICK y \in SUBSET Nat : y = cw[n] \ {v}
    BY Zenon
  <2>d. cw' = [cw EXCEPT ![n] = y]
    BY <1>8, <2>c DEF LandCredit
  <2>1. credit_cell' \in [Nodes -> Nat] /\ cw' \in [Nodes -> SUBSET Nat]
    BY <2>b, <2>d
  <2> QED BY <1>8, <2>1 DEF LandCredit, sendVars, recvVars
<1>9. ASSUME NEW n \in Congestible, Congest(n) PROVE TypeOK'
  BY <1>9 DEF Congest, sendVars, recvVars, credVars
<1>10. CASE UNCHANGED vars
  BY <1>10 DEF vars, sendVars, recvVars, credVars
<1> QED
  BY <1>1, <1>2, <1>3, <1>4, <1>5, <1>6, <1>7, <1>8, <1>9, <1>10, Zenon DEF Next

(***************************************************************************)
(* One direction of the ring                                               *)
(***************************************************************************)

\* What holds between a sender with head th, staging st and writes W in flight, and a
\* receiver with ring and head rh: at most a ring is out; what is in flight is unpolled
\* and in flight once; unpolled messages are staged untouched; a slot of the next ring of
\* slots to poll has their generation only when the message is there, complete and no
\* longer in flight.
Direction(th, st, W, ring, rh) ==
  /\ rh <= th /\ th - rh <= Slots
  /\ \A w \in W : rh <= w.h /\ w.h < th
  /\ \A w \in W, x \in W : w.h = x.h => w = x
  /\ \A h \in rh .. th - 1 : st[Idx(h)].msg = h /\ st[Idx(h)].gen = Gen(h)
  /\ \A h \in rh .. rh + Slots - 1 :
       ring[Idx(h)].gen = Gen(h) =>
         h < th /\ ring[Idx(h)].msg = h /\ \A w \in W : w.h # h
  /\ \A w \in W : w.part = "body" => ring[Idx(w.h)].msg = w.h

\* Restaging the slot after the last one sent keeps a direction.
LEMMA StageKeeps ==
  ASSUME NEW th \in Nat, NEW rh \in Nat, NEW st \in [Index -> Slot], NEW s \in Slot,
         NEW ring \in [Index -> Slot], NEW W \in SUBSET Write,
         Direction(th, st, W, ring, rh), th - rh < Slots
  PROVE  Direction(th, [st EXCEPT ![Idx(th)] = s], W, ring, rh)
<1>1. Slots \in Nat \ {0} /\ Idx(th) \in Index
  BY SlotFacts
<1>2. ASSUME NEW h \in rh .. th - 1 PROVE Idx(h) \in Index /\ Idx(h) # Idx(th)
  <2>1. h \in Nat /\ h <= th /\ th - h < Slots /\ h # th
    BY <1>1 DEF Direction
  <2> QED BY <2>1, SlotFacts, IdxInjective
<1>3. \A h \in rh .. th - 1 : [st EXCEPT ![Idx(th)] = s][Idx(h)] = st[Idx(h)]
  BY <1>2
<1> QED BY <1>3 DEF Direction

\* Sending does.
LEMMA SendKeeps ==
  ASSUME NEW th \in Nat, NEW rh \in Nat, NEW st \in [Index -> Slot], NEW s \in Slot,
         NEW ring \in [Index -> Slot], NEW W \in SUBSET Write, NEW u \in Write,
         Direction(th, st, W, ring, rh), th - rh < Slots,
         s.msg = th, s.gen = Gen(th), u.h = th, u.part = "none"
  PROVE  Direction(th + 1, [st EXCEPT ![Idx(th)] = s], W \cup {u}, ring, rh)
<1> DEFINE sx == [st EXCEPT ![Idx(th)] = s]
<1>1. Slots \in Nat \ {0} /\ Idx(th) \in Index
  BY SlotFacts
<1>2. Direction(th, sx, W, ring, rh)
  BY StageKeeps, Zenon
<1>3. sx[Idx(th)] = s
  BY <1>1
<1> HIDE DEF sx
<1>4. \A w \in W : w.h \in Nat /\ rh <= w.h /\ w.h < th
  BY DEF Direction, Write
<1>5. rh <= th + 1 /\ (th + 1) - rh <= Slots
  BY <1>1 DEF Direction
<1>6. \A w \in W \cup {u} : rh <= w.h /\ w.h < th + 1
  BY <1>4 DEF Direction
<1>7. \A w \in W \cup {u}, x \in W \cup {u} : w.h = x.h => w = x
  BY <1>4 DEF Direction
<1>8. \A h \in rh .. (th + 1) - 1 : sx[Idx(h)].msg = h /\ sx[Idx(h)].gen = Gen(h)
  BY <1>2, <1>3 DEF Direction
<1>9. \A h \in rh .. rh + Slots - 1 :
        ring[Idx(h)].gen = Gen(h) =>
          h < th + 1 /\ ring[Idx(h)].msg = h /\ \A w \in W \cup {u} : w.h # h
  BY <1>1 DEF Direction
<1>10. \A w \in W \cup {u} : w.part = "body" => ring[Idx(w.h)].msg = w.h
  BY DEF Direction
<1> QED BY <1>5, <1>6, <1>7, <1>8, <1>9, <1>10 DEF Direction, sx

\* Polling an arrived slot does: its next lap has another generation.
LEMMA PollKeeps ==
  ASSUME NEW th \in Nat, NEW rh \in Nat, NEW st \in [Index -> Slot],
         NEW ring \in [Index -> Slot], NEW W \in SUBSET Write,
         Direction(th, st, W, ring, rh), ring[Idx(rh)].gen = Gen(rh)
  PROVE  Direction(th, st, W, ring, rh + 1) /\ rh < th /\ ring[Idx(rh)].msg = rh
<1>1. Slots \in Nat \ {0} /\ rh \in rh .. rh + Slots - 1
  BY SlotFacts
<1>2. rh < th /\ ring[Idx(rh)].msg = rh /\ \A w \in W : w.h # rh
  BY <1>1 DEF Direction
<1>3. \A w \in W : w.h \in Nat
  BY DEF Write
<1>4. \A w \in W : rh + 1 <= w.h /\ w.h < th
  BY <1>2, <1>3 DEF Direction
<1>5. \A h \in (rh + 1) .. th - 1 : st[Idx(h)].msg = h /\ st[Idx(h)].gen = Gen(h)
  BY <1>1 DEF Direction
<1>6. Idx(rh + Slots) = Idx(rh) /\ Gen(rh + Slots) # Gen(rh)
  BY NextLap
<1>7. \A h \in (rh + 1) .. (rh + 1) + Slots - 1 :
        h = rh + Slots \/ h \in rh .. rh + Slots - 1
  BY <1>1
<1>8. \A h \in (rh + 1) .. (rh + 1) + Slots - 1 :
        ring[Idx(h)].gen = Gen(h) =>
          h < th /\ ring[Idx(h)].msg = h /\ \A w \in W : w.h # h
  BY <1>6, <1>7 DEF Direction
<1>9. rh + 1 <= th /\ th - (rh + 1) <= Slots
  BY <1>1, <1>2 DEF Direction
<1> QED BY <1>2, <1>4, <1>5, <1>8, <1>9 DEF Direction

\* In one direction the slots of what is in flight and of what is to be polled differ.
LEMMA SlotOfWrite ==
  ASSUME NEW th \in Nat, NEW rh \in Nat, NEW st, NEW ring, NEW W \in SUBSET Write,
         Direction(th, st, W, ring, rh), NEW w \in W,
         NEW h \in rh .. rh + Slots - 1, Idx(h) = Idx(w.h)
  PROVE  h = w.h
<1>1. Slots \in Nat \ {0} /\ h \in Nat /\ w.h \in Nat
  BY SlotFacts DEF Write
<1>2. rh <= w.h /\ w.h < rh + Slots
  BY <1>1 DEF Direction
<1>3. CASE h <= w.h
  BY <1>1, <1>2, <1>3, IdxInjective
<1>4. CASE w.h <= h
  BY <1>1, <1>2, <1>4, IdxInjective
<1> QED BY <1>1, <1>3, <1>4

\* The body of a write landing keeps a direction.
LEMMA BodyKeeps ==
  ASSUME NEW th \in Nat, NEW rh \in Nat, NEW st \in [Index -> Slot],
         NEW ring \in [Index -> Slot], NEW W \in SUBSET Write,
         Direction(th, st, W, ring, rh), NEW w \in W, NEW u \in Write,
         w.part = "none", u.h = w.h, NEW s \in Slot,
         s.msg = st[Idx(w.h)].msg, s.gen = ring[Idx(w.h)].gen
  PROVE  Direction(th, st, (W \ {w}) \cup {u}, [ring EXCEPT ![Idx(w.h)] = s], rh)
<1> DEFINE rx == [ring EXCEPT ![Idx(w.h)] = s]  V == (W \ {w}) \cup {u}
<1>1. Slots \in Nat \ {0} /\ w.h \in Nat /\ Idx(w.h) \in Index
  BY SlotFacts DEF Write
<1>2. w.h \in rh .. th - 1 /\ th <= rh + Slots
  BY <1>1 DEF Direction
<1>3. s.msg = w.h
  BY <1>2 DEF Direction
<1>4. \A h \in Nat : Idx(h) \in Index
  BY SlotFacts
<1>5. rx[Idx(w.h)] = s /\ \A h \in Nat : Idx(h) # Idx(w.h) => rx[Idx(h)] = ring[Idx(h)]
  BY <1>1, <1>4
<1> HIDE DEF rx
<1>6. \A v \in V : v.h \in rh .. rh + Slots - 1 /\ v.h < th /\ rh <= v.h
  <2> TAKE v \in V
  <2>1. v = u \/ (v \in W /\ v.h \in Nat)
    BY DEF Write
  <2> QED BY <1>1, <1>2, <2>1 DEF Direction
<1>7. \A v \in V, x \in V : v.h = x.h => v = x
  BY DEF Direction
<1>8. \A v \in V : v.part = "body" => rx[Idx(v.h)].msg = v.h
  <2> SUFFICES ASSUME NEW v \in V, v.part = "body" PROVE rx[Idx(v.h)].msg = v.h
    OBVIOUS
  <2>1. CASE v = u
    BY <1>3, <1>5, <2>1
  <2>2. CASE v \in W /\ v # w
    <3>1. v.h # w.h /\ ring[Idx(v.h)].msg = v.h
      BY <2>2 DEF Direction
    <3>2. Idx(v.h) # Idx(w.h)
      BY <1>6, <3>1, SlotOfWrite
    <3> QED BY <1>5, <1>6, <3>1, <3>2
  <2> QED BY <2>1, <2>2
<1>9. ASSUME NEW h \in rh .. rh + Slots - 1, rx[Idx(h)].gen = Gen(h)
      PROVE  h < th /\ rx[Idx(h)].msg = h /\ \A v \in V : v.h # h
  <2>0. ring[Idx(h)].gen = Gen(h) =>
          h < th /\ ring[Idx(h)].msg = h /\ \A v \in W : v.h # h
    BY DEF Direction
  <2>1. ring[Idx(h)].gen = Gen(h)
    BY <1>5, <1>9
  <2>2. h # w.h
    BY <2>0, <2>1
  <2>3. Idx(h) # Idx(w.h)
    BY <2>2, SlotOfWrite, ZenonT(60)
  <2> QED BY <1>5, <2>0, <2>1, <2>2, <2>3
<1> HIDE DEF V
<1>10. Direction(th, st, V, rx, rh)
  BY <1>6, <1>7, <1>8, <1>9 DEF Direction
<1> QED BY <1>10 DEF rx, V

\* The generation landing does.
LEMMA GenKeeps ==
  ASSUME NEW th \in Nat, NEW rh \in Nat, NEW st \in [Index -> Slot],
         NEW ring \in [Index -> Slot], NEW W \in SUBSET Write,
         Direction(th, st, W, ring, rh), NEW w \in W, w.part = "body", NEW s \in Slot,
         s.msg = ring[Idx(w.h)].msg
  PROVE  Direction(th, st, W \ {w}, [ring EXCEPT ![Idx(w.h)] = s], rh)
<1> DEFINE rx == [ring EXCEPT ![Idx(w.h)] = s]  V == W \ {w}
<1>1. Slots \in Nat \ {0} /\ w.h \in Nat /\ Idx(w.h) \in Index
  BY SlotFacts DEF Write
<1>2. rh <= w.h /\ w.h < th /\ th <= rh + Slots /\ s.msg = w.h
  BY <1>1 DEF Direction
<1>4. \A h \in Nat : Idx(h) \in Index
  BY SlotFacts
<1>5. rx[Idx(w.h)] = s /\ \A h \in Nat : Idx(h) # Idx(w.h) => rx[Idx(h)] = ring[Idx(h)]
  BY <1>1, <1>4
<1> HIDE DEF rx
<1>6. \A v \in V : v.h \in rh .. rh + Slots - 1 /\ v.h < th /\ rh <= v.h /\ v.h # w.h
  <2> TAKE v \in V
  <2>1. v \in W /\ v # w /\ v.h \in Nat
    BY DEF Write
  <2> QED BY <1>1, <1>2, <2>1 DEF Direction
<1>7. \A v \in V, x \in V : v.h = x.h => v = x
  BY DEF Direction
<1>8. \A v \in V : v.part = "body" => rx[Idx(v.h)].msg = v.h
  <2> SUFFICES ASSUME NEW v \in V, v.part = "body" PROVE rx[Idx(v.h)].msg = v.h
    OBVIOUS
  <2>1. ring[Idx(v.h)].msg = v.h
    BY DEF Direction
  <2>2. Idx(v.h) # Idx(w.h)
    BY <1>6, SlotOfWrite
  <2> QED BY <1>5, <1>6, <2>1, <2>2
<1>9. ASSUME NEW h \in rh .. rh + Slots - 1, rx[Idx(h)].gen = Gen(h)
      PROVE  h < th /\ rx[Idx(h)].msg = h /\ \A v \in V : v.h # h
  <2>1. CASE h = w.h
    BY <1>2, <1>5, <1>6, <2>1
  <2>2. CASE h # w.h
    <3>1. Idx(h) # Idx(w.h)
      BY <2>2, SlotOfWrite
    <3>2. ring[Idx(h)].gen = Gen(h)
      BY <1>5, <1>9, <3>1
    <3> QED BY <1>5, <3>1, <3>2 DEF Direction
  <2> QED BY <2>1, <2>2
<1> HIDE DEF V
<1>10. Direction(th, st, V, rx, rh)
  BY <1>6, <1>7, <1>8, <1>9 DEF Direction
<1> QED BY <1>10 DEF rx, V

(***************************************************************************)
(* The inductive invariant                                                 *)
(***************************************************************************)

Directions ==
  \A n \in Nodes : Direction(tx_head[n], stage[n], wr[n], rx_ring[Peer[n]], rx_head[Peer[n]])

\* Every carrier of credit holds at most what was consumed.
Credits ==
  /\ \A n \in Nodes : tx_tail[n] <= rx_head[Peer[n]] /\ credit_cell[n] <= rx_head[Peer[n]]
  /\ \A n \in Nodes : tx_head[n] - tx_tail[n] <= Slots
  /\ \A n \in Nodes : credit_tx[n] <= rx_head[n]
  /\ \A n \in Nodes, i \in Index : stage[n][i].ack <= rx_head[n]
  /\ \A n \in Nodes, i \in Index : rx_ring[Peer[n]][i].ack <= rx_head[n]

RingInv == TypeOK /\ Directions /\ Credits /\ got = rx_head

\* The invariant of an unused ring.
LEMMA RingInit == Init => RingInv
<1> SUFFICES ASSUME Init PROVE RingInv
  OBVIOUS
<1>0. Slots \in Nat \ {0} /\ GenMod \in Nat \ {0, 1} /\ Peer \in [Nodes -> Nodes]
  BY SlotFacts
<1>1. NoSlot \in Slot
  BY DEF NoSlot, Slot
<1>2. TypeOK
  BY <1>1 DEF Init, TypeOK
<1>3. \A h \in 0 .. Slots - 1 : Gen(h) # 0 /\ Idx(h) \in Index
  <2> TAKE h \in 0 .. Slots - 1
  <2>1. h \div Slots = 0
    BY <1>0, Z3
  <2>2. (0 + 1) % GenMod = 1
    BY <1>0, Z3
  <2>3. Gen(h) = 1
    BY <2>1, <2>2 DEF Gen
  <2> QED BY <1>0, <2>3, SlotFacts
<1>4. ASSUME NEW n \in Nodes
      PROVE  Direction(tx_head[n], stage[n], wr[n], rx_ring[Peer[n]], rx_head[Peer[n]])
  <2>0. Peer[n] \in Nodes
    BY <1>0
  <2>1. /\ tx_head[n] = 0 /\ wr[n] = {} /\ rx_head[Peer[n]] = 0
        /\ rx_ring[Peer[n]] = [i \in Index |-> NoSlot]
    BY <2>0 DEF Init
  <2>2. \A i \in Index : rx_ring[Peer[n]][i].gen = 0
    BY <2>1 DEF NoSlot
  <2> QED BY <1>0, <1>3, <2>1, <2>2 DEF Direction
<1>5. Credits
  BY <1>0 DEF Credits, Init, NoSlot
<1> QED BY <1>2, <1>4, <1>5, Zenon DEF RingInv, Directions, Init

\* The room a sender sees is there.
LEMMA RoomIsReal ==
  ASSUME RingInv, NEW n \in Nodes
  PROVE  /\ Refreshed(n) \in Nat /\ Refreshed(n) <= rx_head[Peer[n]]
         /\ tx_tail[n] <= Refreshed(n)
         /\ Room(n) => tx_head[n] - rx_head[Peer[n]] < Slots
<1>1. Peer[n] \in Nodes /\ Slots \in Nat
  BY SlotFacts
<1>2. /\ tx_tail[n] \in Nat /\ credit_cell[n] \in Nat /\ rx_head[Peer[n]] \in Nat
      /\ tx_head[n] \in Nat
  BY <1>1, Zenon DEF RingInv, TypeOK
<1>3. tx_tail[n] <= rx_head[Peer[n]] /\ credit_cell[n] <= rx_head[Peer[n]]
  BY DEF RingInv, Credits
<1>4. Refreshed(n) \in Nat /\ Refreshed(n) <= rx_head[Peer[n]] /\ tx_tail[n] <= Refreshed(n)
  BY <1>2, <1>3 DEF Refreshed, Max2
<1> QED BY <1>1, <1>2, <1>4 DEF Room

\* Every step keeps every direction.
LEMMA DirectionsStep ==
  ASSUME RingInv, [Next]_vars
  PROVE  Directions'
<1>0. Peer \in [Nodes -> Nodes] /\ \A n \in Nodes : Peer[n] # n /\ Peer[Peer[n]] = n
  BY SlotFacts
<1>t. TypeOK
  BY DEF RingInv
<1> DEFINE Dir(d) == Direction(tx_head[d], stage[d], wr[d], rx_ring[Peer[d]], rx_head[Peer[d]])
<1>d. ASSUME NEW d \in Nodes
      PROVE  /\ Dir(d) /\ Peer[d] \in Nodes /\ Peer[Peer[d]] = d /\ Peer[d] # d
             /\ tx_head[d] \in Nat /\ stage[d] \in [Index -> Slot] /\ wr[d] \in SUBSET Write
             /\ rx_ring[Peer[d]] \in [Index -> Slot] /\ rx_head[Peer[d]] \in Nat
  BY <1>0, <1>t, Zenon DEF RingInv, Directions, TypeOK, Write
<1>f. ASSUME NEW d \in Nodes, tx_head'[d] = tx_head[d], stage'[d] = stage[d],
             wr'[d] = wr[d], rx_ring'[Peer[d]] = rx_ring[Peer[d]],
             rx_head'[Peer[d]] = rx_head[Peer[d]]
      PROVE  Dir(d)'
  BY <1>d, <1>f, Zenon
<1> SUFFICES ASSUME NEW d \in Nodes PROVE Dir(d)'
  BY Zenon DEF Directions
<1> HIDE DEF Dir
<1>1. ASSUME NEW n \in Nodes, SendFull(n) PROVE Dir(d)'
  BY <1>1, <1>f DEF SendFull, sendVars, recvVars
<1>2. ASSUME NEW n \in Nodes, Send(n) PROVE Dir(d)'
  <2>1. CASE d # n
    BY <1>2, <1>f, <1>t, <2>1, Zenon DEF Send, recvVars, TypeOK
  <2>2. CASE d = n
    <3>1. tx_head[n] - rx_head[Peer[n]] < Slots
      BY <1>2, RoomIsReal DEF Send
    <3>2. rx_head[n] \in Nat /\ Gen(tx_head[n]) \in Nat /\ tx_head[n] \in Nat
      BY <1>t, <1>d, SlotFacts DEF TypeOK
    <3>3. PICK s \in Slot :
            s = [gen |-> Gen(tx_head[n]), ack |-> Ack(n), msg |-> tx_head[n]]
      BY <3>2, Zenon DEF Ack, Slot
    <3>4. PICK u \in Write : u = [h |-> tx_head[n], part |-> "none"]
      BY <3>2, Zenon DEF Write
    <3>5. /\ s.msg = tx_head[n] /\ s.gen = Gen(tx_head[n])
          /\ u.h = tx_head[n] /\ u.part = "none"
      BY <3>3, <3>4, Zenon
    <3>6. /\ stage'[n] = [stage[n] EXCEPT ![Idx(tx_head[n])] = s]
          /\ rx_ring' = rx_ring /\ rx_head' = rx_head
      BY <1>2, <1>t, <3>3 DEF Send, recvVars, TypeOK
    <3>7. \/ wr'[n] = wr[n] \cup {u} /\ tx_head'[n] = tx_head[n] + 1
          \/ wr'[n] = wr[n] /\ tx_head'[n] = tx_head[n]
      BY <1>2, <1>t, <3>4, Zenon DEF Send, TypeOK
    <3>8. Direction(tx_head[n], stage[n], wr[n], rx_ring[Peer[n]], rx_head[Peer[n]])
      BY <1>d DEF Dir
    <3>9. /\ tx_head[n] \in Nat /\ stage[n] \in [Index -> Slot] /\ wr[n] \in SUBSET Write
          /\ rx_ring[Peer[n]] \in [Index -> Slot] /\ rx_head[Peer[n]] \in Nat
      BY <1>d
    <3>10. /\ Direction(tx_head[n], [stage[n] EXCEPT ![Idx(tx_head[n])] = s], wr[n],
                         rx_ring[Peer[n]], rx_head[Peer[n]])
           /\ Direction(tx_head[n] + 1, [stage[n] EXCEPT ![Idx(tx_head[n])] = s],
                         wr[n] \cup {u}, rx_ring[Peer[n]], rx_head[Peer[n]])
      BY <3>1, <3>5, <3>8, <3>9, StageKeeps, SendKeeps, ZenonT(60)
    <3> QED BY <2>2, <3>6, <3>7, <3>10, Zenon DEF Dir
  <2> QED BY <2>1, <2>2
<1>3. ASSUME NEW n \in Nodes, PollBegin(n) PROVE Dir(d)'
  BY <1>3, <1>f DEF PollBegin, sendVars
<1>4. ASSUME NEW n \in Nodes, PollSlot(n) PROVE Dir(d)'
  <2>1. CASE Peer[d] # n
    BY <1>4, <1>f, <1>t, <1>d, <2>1, Zenon DEF PollSlot, sendVars, TypeOK
  <2>2. CASE Peer[d] = n
    <3>1. rx_head'[n] = rx_head[n] + 1
      BY <1>4, <1>t DEF PollSlot, TypeOK
    <3>2. tx_head' = tx_head /\ stage' = stage /\ wr' = wr /\ rx_ring' = rx_ring
      BY <1>4 DEF PollSlot, sendVars
    <3>3. rx_ring[n][Idx(rx_head[n])].gen = Gen(rx_head[n])
      BY <1>4, Zenon DEF PollSlot, Arrived, Polled
    <3>4. Direction(tx_head[d], stage[d], wr[d], rx_ring[n], rx_head[n])
      BY <1>d, <2>2 DEF Dir
    <3>5. /\ tx_head[d] \in Nat /\ stage[d] \in [Index -> Slot] /\ wr[d] \in SUBSET Write
          /\ rx_ring[n] \in [Index -> Slot] /\ rx_head[n] \in Nat
      BY <1>d, <2>2, Zenon
    <3>6. Direction(tx_head[d], stage[d], wr[d], rx_ring[n], rx_head[n] + 1)
      BY <3>3, <3>4, <3>5, PollKeeps
    <3> QED BY <2>2, <3>1, <3>2, <3>6 DEF Dir
  <2> QED BY <2>1, <2>2, Zenon
<1>5. ASSUME NEW n \in Nodes, PollEnd(n) PROVE Dir(d)'
  BY <1>5, <1>f DEF PollEnd, sendVars
<1>6. ASSUME NEW n \in Nodes, NEW w \in wr[n], LandBody(n, w) PROVE Dir(d)'
  <2>0. w \in Write /\ w.h \in Nat
    BY <1>d DEF Write
  <2>1. CASE d # n
    <3>1. Peer[d] # Peer[n]
      BY <1>d, <2>1
    <3> QED BY <1>6, <1>f, <1>t, <1>d, <2>1, <3>1, Zenon DEF LandBody, sendVars, recvVars, TypeOK
  <2>2. CASE d = n
    <3>1. PICK i \in Index : i = Idx(w.h)
      BY <2>0, SlotFacts
    <3>2. stage[n][i] \in Slot /\ rx_ring[Peer[n]][i] \in Slot
      BY <1>d
    <3>3. PICK s \in Slot : s = [stage[n][i] EXCEPT !.gen = rx_ring[Peer[n]][i].gen]
      BY <3>2, Zenon DEF Slot
    <3>4. PICK u \in Write : u = [w EXCEPT !.part = "body"]
      BY <2>0, Zenon DEF Write
    <3>5. u.h = w.h /\ s.msg = stage[n][Idx(w.h)].msg /\ s.gen = rx_ring[Peer[n]][Idx(w.h)].gen
      BY <2>0, <3>1, <3>2, <3>3, <3>4 DEF Write, Slot
    <3>6. /\ rx_ring' = [rx_ring EXCEPT ![Peer[n]] = [rx_ring[Peer[n]] EXCEPT ![i] = s]]
          /\ wr' = [wr EXCEPT ![n] = (wr[n] \ {w}) \cup {u}]
          /\ tx_head' = tx_head /\ stage' = stage /\ rx_head' = rx_head /\ w.part = "none"
      BY <1>6, <3>1, <3>3, <3>4 DEF LandBody, sendVars, recvVars
    <3>7. /\ rx_ring'[Peer[n]] = [rx_ring[Peer[n]] EXCEPT ![Idx(w.h)] = s]
          /\ wr'[n] = (wr[n] \ {w}) \cup {u}
      BY <1>d, <1>t, <3>1, <3>6, Zenon DEF TypeOK
    <3>8. Direction(tx_head[n], stage[n], wr[n], rx_ring[Peer[n]], rx_head[Peer[n]])
      BY <1>d DEF Dir
    <3>9. /\ tx_head[n] \in Nat /\ stage[n] \in [Index -> Slot] /\ wr[n] \in SUBSET Write
          /\ rx_ring[Peer[n]] \in [Index -> Slot] /\ rx_head[Peer[n]] \in Nat
      BY <1>d, Zenon
    <3>10. Direction(tx_head[n], stage[n], (wr[n] \ {w}) \cup {u},
                     [rx_ring[Peer[n]] EXCEPT ![Idx(w.h)] = s], rx_head[Peer[n]])
      BY <3>5, <3>6, <3>8, <3>9, BodyKeeps, Zenon
    <3> QED BY <2>2, <3>6, <3>7, <3>10, Zenon DEF Dir
  <2> QED BY <2>1, <2>2
<1>7. ASSUME NEW n \in Nodes, NEW w \in wr[n], LandGen(n, w) PROVE Dir(d)'
  <2>0. w \in Write /\ w.h \in Nat
    BY <1>d DEF Write
  <2>1. CASE d # n
    <3>1. Peer[d] # Peer[n]
      BY <1>d, <2>1
    <3> QED BY <1>7, <1>f, <1>t, <1>d, <2>1, <3>1 DEF LandGen, sendVars, recvVars, TypeOK
  <2>2. CASE d = n
    <3>1. PICK i \in Index : i = Idx(w.h)
      BY <2>0, SlotFacts, Zenon
    <3>2. stage[n][i] \in Slot /\ rx_ring[Peer[n]][i] \in Slot
      BY <1>d
    <3>3. PICK s \in Slot : s = [rx_ring[Peer[n]][i] EXCEPT !.gen = stage[n][i].gen]
      BY <3>2, Zenon DEF Slot
    <3>5. s.msg = rx_ring[Peer[n]][Idx(w.h)].msg /\ s.gen = stage[n][Idx(w.h)].gen
      BY <3>1, <3>2, <3>3 DEF Slot
    <3>6. /\ rx_ring' = [rx_ring EXCEPT ![Peer[n]] = [rx_ring[Peer[n]] EXCEPT ![i] = s]]
          /\ wr' = [wr EXCEPT ![n] = wr[n] \ {w}]
          /\ tx_head' = tx_head /\ stage' = stage /\ rx_head' = rx_head /\ w.part = "body"
      BY <1>7, <3>1, <3>3 DEF LandGen, sendVars, recvVars
    <3>7. /\ rx_ring'[Peer[n]] = [rx_ring[Peer[n]] EXCEPT ![Idx(w.h)] = s]
          /\ wr'[n] = wr[n] \ {w}
      BY <1>d, <1>t, <3>1, <3>6, ZenonT(60) DEF TypeOK
    <3>8. Direction(tx_head[n], stage[n], wr[n], rx_ring[Peer[n]], rx_head[Peer[n]])
      BY <1>d, Zenon DEF Dir
    <3>9. /\ tx_head[n] \in Nat /\ stage[n] \in [Index -> Slot] /\ wr[n] \in SUBSET Write
          /\ rx_ring[Peer[n]] \in [Index -> Slot] /\ rx_head[Peer[n]] \in Nat
      BY <1>d
    <3>10. Direction(tx_head[n], stage[n], wr[n] \ {w},
                     [rx_ring[Peer[n]] EXCEPT ![Idx(w.h)] = s], rx_head[Peer[n]])
      BY <3>5, <3>6, <3>8, <3>9, GenKeeps, Zenon
    <3> QED BY <2>2, <3>6, <3>7, <3>10, Zenon DEF Dir
  <2> QED BY <2>1, <2>2
<1>8. ASSUME NEW n \in Nodes, NEW v \in cw[n], LandCredit(n, v) PROVE Dir(d)'
  BY <1>8, <1>f, Zenon DEF LandCredit, sendVars, recvVars
<1>9. ASSUME NEW n \in Congestible, Congest(n) PROVE Dir(d)'
  BY <1>9, <1>f DEF Congest, sendVars, recvVars
<1>10. CASE UNCHANGED vars
  BY <1>10, <1>f, Zenon DEF vars, sendVars, recvVars
<1> QED
  BY <1>1, <1>2, <1>3, <1>4, <1>5, <1>6, <1>7, <1>8, <1>9, <1>10 DEF Next

\* Every step keeps credit behind consumption.
LEMMA CreditsStep ==
  ASSUME RingInv, [Next]_vars
  PROVE  Credits'
<1>0. /\ Peer \in [Nodes -> Nodes] /\ \A n \in Nodes : Peer[n] # n /\ Peer[Peer[n]] = n
      /\ Slots \in Nat
  BY SlotFacts
<1>t. TypeOK /\ Credits
  BY DEF RingInv
<1>s. \A s \in Slot : s.ack \in Nat
  BY DEF Slot
<1>h. \A n \in Nodes : rx_head[Peer[n]] <= tx_head[n]
  BY Zenon DEF RingInv, Directions, Direction
<1>1. ASSUME NEW n \in Nodes, SendFull(n) PROVE Credits'
  <2>1. /\ tx_tail' = [tx_tail EXCEPT ![n] = Refreshed(n)]
        /\ UNCHANGED <<tx_head, stage, credit_cell, rx_ring, rx_head, credit_tx>>
    BY <1>1 DEF SendFull, sendVars, recvVars, credVars
  <2>2. Refreshed(n) \in Nat /\ Refreshed(n) <= rx_head[Peer[n]] /\ tx_tail[n] <= Refreshed(n)
    BY RoomIsReal, Zenon
  <2> QED BY <1>0, <1>t, <2>1, <2>2 DEF Credits, TypeOK
<1>2. ASSUME NEW n \in Nodes, Send(n) PROVE Credits'
  <2>1. /\ tx_tail' = [tx_tail EXCEPT ![n] = Refreshed(n)]
        /\ UNCHANGED <<credit_cell, rx_ring, rx_head, credit_tx>>
    BY <1>2 DEF Send, recvVars, credVars
  <2>2. /\ Refreshed(n) \in Nat /\ Refreshed(n) <= rx_head[Peer[n]]
        /\ tx_tail[n] <= Refreshed(n) /\ tx_head[n] - Refreshed(n) < Slots
    BY <1>2, RoomIsReal DEF Send, Room
  <2>3. rx_head[n] \in Nat /\ tx_head[n] \in Nat /\ Gen(tx_head[n]) \in Nat
        /\ Idx(tx_head[n]) \in Index
    BY <1>t, SlotFacts DEF TypeOK
  <2>4. PICK s \in Slot :
          s = [gen |-> Gen(tx_head[n]), ack |-> rx_head[n], msg |-> tx_head[n]]
    BY <2>3, Zenon DEF Slot
  <2>5. stage' = [stage EXCEPT ![n] = [stage[n] EXCEPT ![Idx(tx_head[n])] = s]]
    BY <1>2, <2>4, Zenon DEF Send, Ack
  <2>6. s.ack <= rx_head[n]
    BY <2>3, <2>4
  <2>7. \A d \in Nodes, i \in Index : stage'[d][i].ack <= rx_head'[d]
    BY <1>t, <2>1, <2>5, <2>6 DEF Credits, TypeOK
  <2>8. tx_head'[n] \in {tx_head[n], tx_head[n] + 1} /\ \A d \in Nodes \ {n} : tx_head'[d] = tx_head[d]
    BY <1>2, <1>t, Zenon DEF Send, TypeOK
  <2>9. \A d \in Nodes : tx_head'[d] - tx_tail'[d] <= Slots
    BY <1>0, <1>t, <2>1, <2>2, <2>3, <2>8 DEF Credits, TypeOK
  <2> QED BY <1>0, <1>t, <2>1, <2>2, <2>7, <2>9 DEF Credits, TypeOK
<1>3. ASSUME NEW n \in Nodes, PollBegin(n) PROVE Credits'
  BY <1>3, <1>t, ZenonT(60) DEF PollBegin, sendVars, credVars, Credits
<1>4. ASSUME NEW n \in Nodes, PollSlot(n) PROVE Credits'
  <2>1. /\ tx_tail' = [tx_tail EXCEPT ![n] = Max2(tx_tail[n], Polled(n).ack)]
        /\ rx_head' = [rx_head EXCEPT ![n] = rx_head[n] + 1]
        /\ UNCHANGED <<tx_head, stage, credit_cell, rx_ring>>
    BY <1>4, Zenon DEF PollSlot, sendVars
  <2>2. Idx(rx_head[n]) \in Index /\ rx_head[n] \in Nat
    BY <1>t, SlotFacts DEF TypeOK
  <2>3. Peer[n] \in Nodes /\ Peer[Peer[n]] = n
    BY <1>0, Zenon
  <2>4. Polled(n).ack \in Nat /\ Polled(n).ack <= rx_head[Peer[n]]
    BY <1>t, <1>s, <2>2, <2>3, ZenonT(60) DEF Polled, Credits, TypeOK
  <2>a. /\ tx_tail[n] \in Nat /\ rx_head[Peer[n]] \in Nat
        /\ tx_tail[n] <= rx_head[Peer[n]]
    BY <1>t, <2>3, Zenon DEF Credits, TypeOK
  <2>5. PICK t \in Nat : /\ t = Max2(tx_tail[n], Polled(n).ack)
                        /\ t <= rx_head[Peer[n]] /\ tx_tail[n] <= t
    BY <2>4, <2>a DEF Max2
  <2>6. \A d \in Nodes : rx_head'[d] \in Nat /\ rx_head[d] <= rx_head'[d]
    BY <1>t, <2>1, <2>2 DEF TypeOK
  <2>7. \A d \in Nodes : credit_tx'[d] <= rx_head'[d]
    <3>1. CASE ReturnCredit(n, rx_head[n] + 1)
      BY <1>t, <2>1, <2>2, <3>1 DEF ReturnCredit, Credits, TypeOK
    <3>2. CASE UNCHANGED credVars
      BY <1>t, <2>1, <2>2, <3>2 DEF credVars, Credits, TypeOK
    <3> QED BY <1>4, <3>1, <3>2, Zenon DEF PollSlot
  <2>8. \A d \in Nodes : /\ tx_tail'[d] \in Nat /\ tx_tail'[d] <= rx_head[Peer[d]]
                         /\ tx_tail[d] <= tx_tail'[d]
    BY <1>t, <2>1, <2>5 DEF Credits, TypeOK
  <2>9. \A d \in Nodes : /\ tx_tail'[d] <= rx_head'[Peer[d]] /\ credit_cell'[d] <= rx_head'[Peer[d]]
    BY <1>0, <1>t, <2>1, <2>6, <2>8 DEF Credits, TypeOK
  <2>10. \A d \in Nodes : tx_head'[d] - tx_tail'[d] <= Slots
    BY <1>0, <1>t, <2>1, <2>8 DEF Credits, TypeOK
  <2>11. \A d \in Nodes, i \in Index : stage[d][i].ack \in Nat /\ rx_ring[Peer[d]][i].ack \in Nat
    BY <1>0, <1>t, <1>s DEF TypeOK
  <2>12. \A d \in Nodes, i \in Index : stage'[d][i].ack <= rx_head'[d]
    BY <1>t, <2>1, <2>6, <2>11 DEF Credits, TypeOK
  <2>13. \A d \in Nodes, i \in Index : rx_ring'[Peer[d]][i].ack <= rx_head'[d]
    BY <1>t, <2>1, <2>6, <2>11 DEF Credits, TypeOK
  <2> QED BY <2>7, <2>9, <2>10, <2>12, <2>13 DEF Credits
<1>5. ASSUME NEW n \in Nodes, PollEnd(n) PROVE Credits'
  <2>1. UNCHANGED <<tx_head, stage, tx_tail, credit_cell, rx_ring, rx_head>>
    BY <1>5, Zenon DEF PollEnd, sendVars
  <2>2. \A d \in Nodes : credit_tx'[d] <= rx_head'[d]
    <3>0. credit_tx \in [Nodes -> Nat] /\ rx_head \in [Nodes -> Nat]
      BY <1>t DEF TypeOK
    <3>1. CASE ReturnCredit(n, rx_head[n])
      <4>1. credit_tx' = [credit_tx EXCEPT ![n] = rx_head[n]]
        BY <3>1, Zenon DEF ReturnCredit
      <4>2. \A d \in Nodes : credit_tx[d] <= rx_head[d]
        BY <1>t DEF Credits
      <4> QED BY <3>0, <2>1, <4>1, <4>2
    <3>2. CASE UNCHANGED credVars
      BY <1>t, <2>1, <3>2, Zenon DEF credVars, Credits
    <3> QED BY <1>5, <3>1, <3>2 DEF PollEnd
  <2> QED BY <1>t, <2>1, <2>2 DEF Credits
<1>r. ASSUME NEW n \in Nodes, NEW i \in Index, NEW s \in Slot, s.ack <= rx_head[n],
             rx_ring' = [rx_ring EXCEPT ![Peer[n]] = [rx_ring[Peer[n]] EXCEPT ![i] = s]],
             UNCHANGED <<tx_head, stage, tx_tail, credit_cell, rx_head, credit_tx>>
      PROVE  Credits'
  <2>1. \A d \in Nodes : Peer[d] \in Nodes /\ (Peer[d] = Peer[n] => d = n)
    BY <1>0, Zenon
  <2>2. \A d \in Nodes, j \in Index : rx_ring'[Peer[d]][j].ack <= rx_head'[d]
    BY <1>t, <1>r, <2>1 DEF Credits, TypeOK
  <2> QED BY <1>t, <1>r, <2>2 DEF Credits
<1>6. ASSUME NEW n \in Nodes, NEW w \in wr[n], LandBody(n, w) PROVE Credits'
  <2>0. w.h \in Nat /\ Peer[n] \in Nodes
    BY <1>0, <1>t DEF TypeOK
  <2>1. PICK i \in Index : i = Idx(w.h)
    BY <2>0, SlotFacts, Zenon
  <2>2. stage[n][i] \in Slot /\ rx_ring[Peer[n]][i] \in Slot /\ stage[n][i].ack <= rx_head[n]
    BY <1>t, <2>0 DEF TypeOK, Credits
  <2>3. PICK s \in Slot : s = [stage[n][i] EXCEPT !.gen = rx_ring[Peer[n]][i].gen]
    BY <2>2, Zenon DEF Slot
  <2>4. s.ack <= rx_head[n]
    BY <2>2, <2>3 DEF Slot
  <2>5. /\ rx_ring' = [rx_ring EXCEPT ![Peer[n]] = [rx_ring[Peer[n]] EXCEPT ![i] = s]]
        /\ UNCHANGED <<tx_head, stage, tx_tail, credit_cell, rx_head, credit_tx>>
    BY <1>6, <2>1, <2>3 DEF LandBody, sendVars, recvVars, credVars
  <2> QED BY <1>r, <2>4, <2>5, Zenon
<1>7. ASSUME NEW n \in Nodes, NEW w \in wr[n], LandGen(n, w) PROVE Credits'
  <2>0. w.h \in Nat /\ Peer[n] \in Nodes
    BY <1>0, <1>t DEF TypeOK
  <2>1. PICK i \in Index : i = Idx(w.h)
    BY <2>0, SlotFacts, Zenon
  <2>2. stage[n][i] \in Slot /\ rx_ring[Peer[n]][i] \in Slot /\ rx_ring[Peer[n]][i].ack <= rx_head[n]
    BY <1>t, <2>0 DEF TypeOK, Credits
  <2>3. PICK s \in Slot : s = [rx_ring[Peer[n]][i] EXCEPT !.gen = stage[n][i].gen]
    BY <2>2, Zenon DEF Slot
  <2>4. s.ack <= rx_head[n]
    BY <2>2, <2>3 DEF Slot
  <2>5. /\ rx_ring' = [rx_ring EXCEPT ![Peer[n]] = [rx_ring[Peer[n]] EXCEPT ![i] = s]]
        /\ UNCHANGED <<tx_head, stage, tx_tail, credit_cell, rx_head, credit_tx>>
    BY <1>7, <2>1, <2>3, Zenon DEF LandGen, sendVars, recvVars, credVars
  <2> QED BY <1>r, <2>4, <2>5, Zenon
<1>8. ASSUME NEW n \in Nodes, NEW v \in cw[n], LandCredit(n, v) PROVE Credits'
  <2>0. v \in Nat /\ Peer[n] \in Nodes /\ Peer[Peer[n]] = n /\ credit_tx[n] \in Nat /\ rx_head[n] \in Nat
    BY <1>0, <1>t DEF TypeOK
  <2>1. PICK c \in v .. credit_tx[n] : credit_cell' = [credit_cell EXCEPT ![Peer[n]] = c]
    BY <1>8, ZenonT(60) DEF LandCredit
  <2>2. c \in Nat /\ c <= rx_head[n]
    BY <1>t, <2>0, <2>1 DEF Credits
  <2>3. UNCHANGED <<tx_head, stage, tx_tail, rx_ring, rx_head, credit_tx>>
    BY <1>8, Zenon DEF LandCredit, sendVars, recvVars
  <2>4. \A d \in Nodes : credit_cell'[d] <= rx_head'[Peer[d]]
    BY <1>t, <2>0, <2>1, <2>2, <2>3, Zenon DEF Credits, TypeOK
  <2> QED BY <1>t, <2>3, <2>4 DEF Credits
<1>9. ASSUME NEW n \in Congestible, Congest(n) PROVE Credits'
  BY <1>9, <1>t, Zenon DEF Congest, sendVars, recvVars, credVars, Credits
<1>10. CASE UNCHANGED vars
  BY <1>10, <1>t DEF vars, sendVars, recvVars, credVars, Credits
<1> QED
  BY <1>1, <1>2, <1>3, <1>4, <1>5, <1>6, <1>7, <1>8, <1>9, <1>10 DEF Next

\* What a poll delivers is the message its head counts.
LEMMA GotStep ==
  ASSUME RingInv, [Next]_vars
  PROVE  got' = rx_head'
<1>t. TypeOK /\ got = rx_head
  BY DEF RingInv
<1>1. ASSUME NEW n \in Nodes, PollSlot(n) PROVE got' = rx_head'
  <2>1. PICK d \in Nodes : d = Peer[n] /\ Peer[d] = n
    BY SlotFacts, Zenon
  <2>2. Direction(tx_head[d], stage[d], wr[d], rx_ring[n], rx_head[n])
    BY <2>1 DEF RingInv, Directions
  <2>3. /\ tx_head[d] \in Nat /\ stage[d] \in [Index -> Slot] /\ wr[d] \in SUBSET Write
        /\ rx_ring[n] \in [Index -> Slot] /\ rx_head[n] \in Nat
    BY <1>t, Zenon DEF TypeOK, Write
  <2>4. rx_ring[n][Idx(rx_head[n])].gen = Gen(rx_head[n])
    BY <1>1, Zenon DEF PollSlot, Arrived, Polled
  <2>5. rx_ring[n][Idx(rx_head[n])].msg = rx_head[n]
    BY <2>2, <2>3, <2>4, PollKeeps
  <2>6. got' = [got EXCEPT ![n] = rx_head[n] + 1] /\ rx_head' = [rx_head EXCEPT ![n] = rx_head[n] + 1]
    BY <1>1, <2>5 DEF PollSlot, Polled
  <2> QED BY <1>t, <2>6
<1>2. CASE UNCHANGED <<got, rx_head>>
  BY <1>2, <1>t
<1> QED
  BY <1>1, <1>2, Zenon DEF Next, vars, SendFull, Send, PollBegin, PollEnd, LandBody, LandGen,
     LandCredit, Congest, recvVars

\* The inductive invariant holds in every reachable state.
LEMMA RingAlways == Spec => []RingInv
<1>1. RingInv /\ [Next]_vars => RingInv'
  <2> SUFFICES ASSUME RingInv, [Next]_vars PROVE RingInv'
    OBVIOUS
  <2>1. TypeOK'
    BY TypeStep DEF RingInv
  <2>2. Directions' /\ Credits' /\ got' = rx_head'
    BY DirectionsStep, CreditsStep, GotStep
  <2> QED BY <2>1, <2>2 DEF RingInv
<1> QED BY RingInit, <1>1, PTL DEF Spec

(***************************************************************************)
(* Theorems                                                                *)
(***************************************************************************)

\* Credit never runs ahead of consumption and a sender never has more than a ring of slots
\* out (rds_ring_refresh_credit, rds_ring_return_credit), for any number of slots and
\* messages.
THEOREM CreditSafe == Spec => [](TypeOK /\ CreditBehindConsumer)
<1>1. RingInv => TypeOK /\ CreditBehindConsumer
  BY Zenon DEF RingInv, Credits, Directions, Direction, CreditBehindConsumer
<1> QED BY RingAlways, <1>1, PTL

\* What a poll takes for an arrived slot is the next message, complete (rds_ring_poll_peer),
\* whatever the width of the generation, two values included.
THEOREM PolledIsNext == Spec => []ArrivedIsNext
<1>1. ASSUME RingInv, NEW n \in Nodes, Arrived(n)
      PROVE  rx_head[n] < tx_head[Peer[n]] /\ Polled(n).msg = rx_head[n]
  <2>1. PICK d \in Nodes : d = Peer[n] /\ Peer[d] = n
    BY SlotFacts, Zenon
  <2>2. Direction(tx_head[d], stage[d], wr[d], rx_ring[n], rx_head[n])
    BY <1>1, <2>1 DEF RingInv, Directions
  <2>3. /\ tx_head[d] \in Nat /\ stage[d] \in [Index -> Slot] /\ wr[d] \in SUBSET Write
        /\ rx_ring[n] \in [Index -> Slot] /\ rx_head[n] \in Nat
    BY <1>1 DEF RingInv, TypeOK, Write
  <2>4. rx_ring[n][Idx(rx_head[n])].gen = Gen(rx_head[n])
    BY <1>1, Zenon DEF Arrived, Polled
  <2>5. rx_head[n] < tx_head[d] /\ rx_ring[n][Idx(rx_head[n])].msg = rx_head[n]
    BY <2>2, <2>3, <2>4, PollKeeps
  <2> QED BY <2>1, <2>5 DEF Polled
<1>2. RingInv => ArrivedIsNext
  BY <1>1 DEF ArrivedIsNext
<1> QED BY RingAlways, <1>2, PTL

\* No staging slot is reused while a write from it is in flight (rds_ring_send).
THEOREM StagingSafe == Spec => []StagingStable
<1>1. ASSUME RingInv, NEW n \in Nodes, NEW w \in wr[n]
      PROVE  /\ stage[n][Idx(w.h)].msg = w.h /\ stage[n][Idx(w.h)].gen = Gen(w.h)
             /\ \A x \in wr[n] : Idx(x.h) = Idx(w.h) => x = w
  <2>1. PICK p \in Nodes : p = Peer[n]
    BY SlotFacts, Zenon
  <2>2. Direction(tx_head[n], stage[n], wr[n], rx_ring[p], rx_head[p])
    BY <1>1, <2>1 DEF RingInv, Directions
  <2>3. /\ tx_head[n] \in Nat /\ wr[n] \in SUBSET Write /\ rx_head[p] \in Nat
    BY <1>1 DEF RingInv, TypeOK, Write
  <2>4. \A x \in wr[n] : x.h \in Nat /\ rx_head[p] <= x.h /\ x.h < tx_head[n]
    BY <2>2, <2>3, ZenonT(60) DEF Direction, Write
  <2>5. Slots \in Nat /\ tx_head[n] - rx_head[p] <= Slots
    BY <2>2, SlotFacts, Zenon DEF Direction
  <2>6. \A x \in wr[n] : x.h \in rx_head[p] .. rx_head[p] + Slots - 1
    BY <2>3, <2>4, <2>5
  <2>7. w.h \in rx_head[p] .. tx_head[n] - 1
    BY <2>3, <2>4
  <2>8. stage[n][Idx(w.h)].msg = w.h /\ stage[n][Idx(w.h)].gen = Gen(w.h)
    BY <2>2, <2>7, Zenon DEF Direction
  <2>9. ASSUME NEW x \in wr[n], Idx(x.h) = Idx(w.h) PROVE x = w
    <3>1. x.h = w.h
      BY <2>2, <2>3, <2>6, <2>9, SlotOfWrite, Zenon
    <3> QED BY <2>2, <3>1, Zenon DEF Direction
  <2> QED BY <2>8, <2>9
<1>2. RingInv => StagingStable
  BY <1>1 DEF StagingStable
<1> QED BY RingAlways, <1>2, PTL

\* The ring implements the bounded FIFO channel of RdsFifo in each direction: sends and
\* polls (rds_ring_send, rds_ring_poll_peer) are its steps, everything else stutters.
THEOREM RingImplementsFifo == Spec => RingIsFifo
<1>1. Init => Fifo!FifoInit
  BY DEF Init, Fifo!FifoInit
<1>2. RingInv /\ [Next]_vars => [Fifo!FifoNext]_<<tx_head, got>>
  <2> SUFFICES ASSUME RingInv, [Next]_vars PROVE [Fifo!FifoNext]_<<tx_head, got>>
    OBVIOUS
  <2>t. TypeOK /\ got = rx_head
    BY Zenon DEF RingInv
  <2>1. ASSUME NEW n \in Nodes, Send(n) PROVE [Fifo!FifoNext]_<<tx_head, got>>
    <3>1. tx_head[n] - rx_head[Peer[n]] < Slots
      BY <2>1, RoomIsReal DEF Send
    <3>2. CASE tx_head' = [tx_head EXCEPT ![n] = @ + 1]
      <4>1. Fifo!FifoSend(n)
        BY <2>1, <2>t, <3>1, <3>2, Zenon DEF Send, recvVars, Fifo!FifoSend
      <4> QED BY <4>1, Zenon DEF Fifo!FifoNext
    <3>3. CASE UNCHANGED tx_head
      BY <2>1, <3>3 DEF Send, recvVars
    <3> QED BY <2>1, <3>2, <3>3, Zenon DEF Send
  <2>2. ASSUME NEW n \in Nodes, PollSlot(n) PROVE [Fifo!FifoNext]_<<tx_head, got>>
    <3>1. PICK d \in Nodes : d = Peer[n] /\ Peer[d] = n
      BY SlotFacts, Zenon
    <3>2. Direction(tx_head[d], stage[d], wr[d], rx_ring[n], rx_head[n])
      BY <3>1 DEF RingInv, Directions
    <3>3. /\ tx_head[d] \in Nat /\ stage[d] \in [Index -> Slot] /\ wr[d] \in SUBSET Write
          /\ rx_ring[n] \in [Index -> Slot] /\ rx_head[n] \in Nat
      BY <2>t, Zenon DEF TypeOK, Write
    <3>4. rx_ring[n][Idx(rx_head[n])].gen = Gen(rx_head[n])
      BY <2>2, Zenon DEF PollSlot, Arrived, Polled
    <3>5. rx_head[n] < tx_head[d] /\ rx_ring[n][Idx(rx_head[n])].msg = rx_head[n]
      BY <3>2, <3>3, <3>4, PollKeeps
    <3>6. got' = [got EXCEPT ![n] = rx_head[n] + 1] /\ UNCHANGED tx_head
      BY <2>2, <3>5, Zenon DEF PollSlot, Polled, sendVars
    <3>7. Fifo!FifoDeliver(n)
      BY <2>t, <3>1, <3>5, <3>6 DEF Fifo!FifoDeliver
    <3> QED BY <3>7 DEF Fifo!FifoNext
  <2>3. CASE UNCHANGED <<tx_head, got>>
    BY <2>3
  <2> QED
    BY <2>1, <2>2, <2>3, Zenon DEF Next, vars, SendFull, PollBegin, PollEnd, LandBody, LandGen,
       LandCredit, Congest, recvVars, sendVars
<1> QED BY <1>1, <1>2, RingAlways, PTL DEF Spec, RingIsFifo, Fifo!FifoSpec
=============================================================================
