------------------------------ MODULE RdsRndzv ------------------------------
(***************************************************************************)
(* The rendezvous protocol of the RDS provider over the datagram socket    *)
(* (the default, FI_RDS_EAGER_RDMA=0): rds_send_rndzv ships an RTS, the    *)
(* receiver matches it and issues one RDMA READ per source segment, and a  *)
(* FIN lets the sender complete and release its source registration.       *)
(* READs and FINs that the socket refuses with EAGAIN are parked on        *)
(* ep->deferred and retried at the head of every progress pass.            *)
(*                                                                         *)
(* A transfer is named by its message and a posted receive by its          *)
(* descriptor, so op ids and pending-op tokens need no representation.     *)
(* What tag and address matching decides is the relation Matches (module   *)
(* RdsMatch models the matching lists themselves); a buffer size is the    *)
(* number of source segments it has room for.                              *)
(***************************************************************************)
EXTENDS Naturals, FiniteSets

CONSTANTS
  Nodes,        \* endpoints
  Msgs,         \* rendezvous sends the application may submit
  Recvs,        \* receives the application may post
  NoMsg,        \* "no message": value of bound[r] before a match
  Src, Dst,     \* [Msgs -> Nodes]
  Owner,        \* [Recvs -> Nodes]: the endpoint a receive is posted on
  NSeg,         \* [Msgs -> Nat]: source segments (chunks of at most 1 MiB)
  Room,         \* [Recvs -> Nat]: segments that fit in the receive buffer
  Matches,      \* SUBSET (Recvs \X Msgs)
  Silent,       \* operations submitted without FI_COMPLETION
  Before,       \* submission order of the application, a relation on operations
  MaxInflight,  \* rds_rndzv_max_inflight
  CongPairs,    \* <<n, d>>: sends from n to d may meet EAGAIN
  Faults        \* subset of FaultKinds the environment may inject

FaultKinds == {"nomem", "post_err", "dma_err", "fin_lost"}

ASSUME RndzvAssumption ==
  /\ NoMsg \notin Msgs
  /\ Src \in [Msgs -> Nodes] /\ Dst \in [Msgs -> Nodes]
  /\ Owner \in [Recvs -> Nodes]
  /\ NSeg \in [Msgs -> Nat] /\ Room \in [Recvs -> Nat]
  /\ Matches \subseteq Recvs \X Msgs
  /\ \A p \in Matches : Owner[p[1]] = Dst[p[2]]
  /\ MaxInflight \in Nat
  /\ IsFiniteSet(Msgs) /\ IsFiniteSet(Recvs)
  /\ CongPairs \subseteq Nodes \X Nodes

VARIABLES
  tx,             \* [Msgs -> {"idle","sent","done"}]: "sent" while the RNDZV_TX op is pending
  txCq,           \* [Msgs -> Nat]: send completions written to the CQ
  inflight,       \* [Nodes -> Nat]: ep->rndzv_tx_inflight
  wire,           \* RTS and FIN datagrams in the network (RDS loses and duplicates none)
  rxs,            \* [Recvs -> state of the receive]
  bound,          \* [Recvs -> message it was matched with]
  seg_remaining,  \* [Recvs -> Nat]: pend->seg_remaining
  seg_deferred,   \* [Recvs -> Nat]: pend->seg_deferred
  error,          \* [Recvs -> BOOLEAN]: pend->error # 0
  rxCq,           \* [Recvs -> Nat]: receive completions written to the CQ
  unexp,          \* messages on the unexpected lists
  dread,          \* [Recvs -> set of segments]: RDS_DEFERRED_READ entries
  dfin,           \* messages whose FIN is an RDS_DEFERRED_FIN entry of Dst[m]
  hca,            \* [Recvs -> set of segments]: READs the adapter is executing
  ntf,            \* [Recvs -> set of segments]: queued RDS_CMSG_RDMA_STATUS
  data,           \* [Recvs -> set of segments]: bytes placed in the user buffer
  cong,           \* <<n, d>>: destination d currently refuses sends of n
  draining        \* [Nodes -> BOOLEAN]: a progress pass holds the endpoint lock

txVars  == <<tx, txCq, inflight>>
rxVars  == <<rxs, bound, seg_remaining, seg_deferred, error, rxCq>>
kernVars == <<hca, ntf, data>>
vars == <<txVars, wire, rxVars, unexp, dread, dfin, kernVars, cong, draining>>

Datagram == [op : {"RTS", "FIN"}, m : Msgs]
RTS(m) == [op |-> "RTS", m |-> m]
FIN(m) == [op |-> "FIN", m |-> m]

Min2(a, b) == IF a <= b THEN a ELSE b

\* Mutant: rds_start_rndzv_read forgets FI_ETRUNC.
TruncatedNever(r, m) == FALSE

\* Segments read for m into r: the loop runs while off < effective.
Planned(r, m) == 1 .. Min2(NSeg[m], Room[r])
Truncated(r, m) == NSeg[m] > Room[r]

\* Everything op must follow in the application's program has been submitted.
Submitted(op) == IF op \in Msgs THEN tx[op] # "idle" ELSE rxs[op] # "new"
InOrder(op) == \A p \in Before : p[2] = op => Submitted(p[1])

\* Application calls run under the endpoint lock, so never inside a pass.
AppMayCall(n) == ~draining[n]

Init ==
  /\ tx = [m \in Msgs |-> "idle"]
  /\ txCq = [m \in Msgs |-> 0]
  /\ inflight = [n \in Nodes |-> 0]
  /\ wire = {}
  /\ rxs = [r \in Recvs |-> "new"]
  /\ bound = [r \in Recvs |-> NoMsg]
  /\ seg_remaining = [r \in Recvs |-> 0]
  /\ seg_deferred = [r \in Recvs |-> 0]
  /\ error = [r \in Recvs |-> FALSE]
  /\ rxCq = [r \in Recvs |-> 0]
  /\ unexp = {}
  /\ dread = [r \in Recvs |-> {}]
  /\ dfin = {}
  /\ hca = [r \in Recvs |-> {}]
  /\ ntf = [r \in Recvs |-> {}]
  /\ data = [r \in Recvs |-> {}]
  /\ cong = {}
  /\ draining = [n \in Nodes |-> FALSE]

(***************************************************************************)
(* Sender                                                                  *)
(***************************************************************************)

\* Mutant: the cap is compared with > instead of >=.
SendRndzvPastCap(m) ==
  /\ AppMayCall(Src[m]) /\ InOrder(m)
  /\ tx[m] = "idle"
  /\ inflight[Src[m]] <= MaxInflight
  /\ tx' = [tx EXCEPT ![m] = "sent"]
  /\ inflight' = [inflight EXCEPT ![Src[m]] = @ + 1]
  /\ wire' = wire \cup {RTS(m)}
  /\ UNCHANGED <<txCq, rxVars, unexp, dread, dfin, kernVars, cong, draining>>

\* rds_send_rndzv when the RTS is accepted.  Every failing path (cap reached,
\* registration or allocation failure, EAGAIN on the RTS) undoes what it did and
\* returns an error to the application, which leaves the state as it was.
SendRndzv(m) ==
  /\ AppMayCall(Src[m]) /\ InOrder(m)
  /\ tx[m] = "idle"
  /\ inflight[Src[m]] < MaxInflight
  /\ tx' = [tx EXCEPT ![m] = "sent"]
  /\ inflight' = [inflight EXCEPT ![Src[m]] = @ + 1]
  /\ wire' = wire \cup {RTS(m)}
  /\ UNCHANGED <<txCq, rxVars, unexp, dread, dfin, kernVars, cong, draining>>

\* Mutant: rds_pending_complete forgets the flow-control slot.
HandleFinKeepsSlot(m) ==
  /\ draining[Src[m]]
  /\ FIN(m) \in wire
  /\ wire' = wire \ {FIN(m)}
  /\ tx' = [tx EXCEPT ![m] = "done"]
  /\ txCq' = [txCq EXCEPT ![m] = IF m \in Silent THEN @ ELSE @ + 1]
  /\ UNCHANGED <<inflight, rxVars, unexp, dread, dfin, kernVars, cong, draining>>

\* rds_handle_inbound on a FIN: rds_pending_find, then rds_pending_complete.
HandleFin(m) ==
  /\ draining[Src[m]]
  /\ FIN(m) \in wire
  /\ wire' = wire \ {FIN(m)}
  /\ IF tx[m] = "sent"
     THEN /\ tx' = [tx EXCEPT ![m] = "done"]
          /\ txCq' = [txCq EXCEPT ![m] = IF m \in Silent THEN @ ELSE @ + 1]
          /\ inflight' = [inflight EXCEPT ![Src[m]] = IF @ > 0 THEN @ - 1 ELSE @]
     ELSE UNCHANGED txVars
  /\ UNCHANGED <<rxVars, unexp, dread, dfin, kernVars, cong, draining>>

(***************************************************************************)
(* Receiver                                                                *)
(***************************************************************************)

\* What the socket does with each FIN of fins that n hands it: takes it, refuses it
\* with EAGAIN (the FIN is parked), or fails hard / parking runs out of memory (lost).
FinOutcomes(fins) ==
  {o \in [fins -> {"sent", "parked", "lost"}] :
     \A m \in fins : /\ o[m] = "parked" => <<Dst[m], Src[m]>> \in cong
                     /\ o[m] = "lost" => "fin_lost" \in Faults}

\* Mutant: a refused FIN is dropped instead of parked.
SendFinsDropRefused(fins, w, d) ==
  \E o \in FinOutcomes(fins) :
    /\ wire' = w \cup {FIN(m) : m \in {x \in fins : o[x] = "sent"}}
    /\ dfin' = d

\* rds_send_fin for every message of fins; w and d are wire and dfin without them.
SendFins(fins, w, d) ==
  \E o \in FinOutcomes(fins) :
    /\ wire' = w \cup {FIN(m) : m \in {x \in fins : o[x] = "sent"}}
    /\ dfin' = d \cup {m \in fins : o[m] = "parked"}

\* Mutant: FI_COMPLETION suppresses errors as well.
RxEntrySilentError(r, err) == IF r \in Silent THEN 0 ELSE 1

\* rds_cq_write_rx: suppressed without FI_COMPLETION unless there is an error.
RxEntry(r, err) == IF r \in Silent /\ ~err THEN 0 ELSE 1

\* What the socket does with a READ posted for r's message m: "again" is EAGAIN and
\* the READ is parked, "err" a hard error or no memory to park it.
ReadOutcomes(segs, m) ==
  {o \in [segs -> {"ok", "again", "err"}] :
     \A i \in segs : /\ o[i] = "again" => <<Dst[m], Src[m]>> \in cong
                     /\ o[i] = "err" => "post_err" \in Faults}
Took(o, v) == {i \in DOMAIN o : o[i] = v}

\* rds_start_rndzv_read, no memory for the pending op: FIN and an error entry.
StartReadNoMem(r, m, w) ==
  /\ "nomem" \in Faults
  /\ rxs' = [rxs EXCEPT ![r] = "done"]
  /\ bound' = [bound EXCEPT ![r] = m]
  /\ error' = [error EXCEPT ![r] = TRUE]
  /\ rxCq' = [rxCq EXCEPT ![r] = @ + 1]
  /\ SendFins({m}, w, dfin)
  /\ UNCHANGED <<seg_remaining, seg_deferred, dread, hca>>

\* Mutant: parking a READ does not count it in seg_deferred.
StartReadPostUncounted(r, m, w) ==
  \E o \in ReadOutcomes(Planned(r, m), m) :
    LET ok    == Took(o, "ok")
        again == Took(o, "again")
        err   == Truncated(r, m) \/ Took(o, "err") # {}
        fin   == ok = {} /\ again = {}
    IN /\ bound' = [bound EXCEPT ![r] = m]
       /\ seg_remaining' = [seg_remaining EXCEPT ![r] = Cardinality(ok)]
       /\ error' = [error EXCEPT ![r] = err]
       /\ hca' = [hca EXCEPT ![r] = ok]
       /\ dread' = [dread EXCEPT ![r] = again]
       /\ rxs' = [rxs EXCEPT ![r] = IF fin THEN "done" ELSE "reading"]
       /\ rxCq' = [rxCq EXCEPT ![r] = IF fin THEN @ + RxEntry(r, err) ELSE @]
       /\ SendFins(IF fin THEN {m} ELSE {}, w, dfin)
       /\ UNCHANGED seg_deferred

\* rds_start_rndzv_read: one READ per segment, then rds_rndzv_rx_finalize at once if
\* none is in flight and none is parked.
StartReadPost(r, m, w) ==
  \E o \in ReadOutcomes(Planned(r, m), m) :
    LET ok    == Took(o, "ok")
        again == Took(o, "again")
        err   == Truncated(r, m) \/ Took(o, "err") # {}
        fin   == ok = {} /\ again = {}
    IN /\ bound' = [bound EXCEPT ![r] = m]
       /\ seg_remaining' = [seg_remaining EXCEPT ![r] = Cardinality(ok)]
       /\ seg_deferred' = [seg_deferred EXCEPT ![r] = Cardinality(again)]
       /\ error' = [error EXCEPT ![r] = err]
       /\ hca' = [hca EXCEPT ![r] = ok]
       /\ dread' = [dread EXCEPT ![r] = again]
       /\ rxs' = [rxs EXCEPT ![r] = IF fin THEN "done" ELSE "reading"]
       /\ rxCq' = [rxCq EXCEPT ![r] = IF fin THEN @ + RxEntry(r, err) ELSE @]
       /\ SendFins(IF fin THEN {m} ELSE {}, w, dfin)

StartRead(r, m, w) == StartReadNoMem(r, m, w) \/ StartReadPost(r, m, w)

Posted(m) == {r \in Recvs : rxs[r] = "posted" /\ <<r, m>> \in Matches}

\* rds_handle_inbound on an RTS that a posted receive matches.
HandleRtsMatched(m) ==
  /\ draining[Dst[m]]
  /\ RTS(m) \in wire
  /\ \E r \in Posted(m) : StartRead(r, m, wire \ {RTS(m)})
  /\ UNCHANGED <<txVars, unexp, ntf, data, cong, draining>>

\* rds_handle_inbound on an RTS no posted receive matches: rds_enqueue_unexp, or a FIN
\* when it cannot be buffered.
HandleRtsUnexpected(m) ==
  /\ draining[Dst[m]]
  /\ RTS(m) \in wire
  /\ Posted(m) = {}
  /\ \/ /\ unexp' = unexp \cup {m}
        /\ wire' = wire \ {RTS(m)}
        /\ UNCHANGED dfin
     \/ /\ "nomem" \in Faults
        /\ SendFins({m}, wire \ {RTS(m)}, dfin)
        /\ UNCHANGED unexp
  /\ UNCHANGED <<txVars, rxVars, dread, kernVars, cong, draining>>

\* Mutant: rds_match_unexp leaves the entry on its list.
PostRecvKeepsUnexp(r) ==
  /\ AppMayCall(Owner[r]) /\ InOrder(r)
  /\ rxs[r] = "new"
  /\ LET ux == {m \in unexp : <<r, m>> \in Matches}
     IN \/ \E m \in ux : StartRead(r, m, wire)
        \/ /\ ux = {}
           /\ rxs' = [rxs EXCEPT ![r] = "posted"]
           /\ UNCHANGED <<bound, seg_remaining, seg_deferred, error, rxCq,
                          dread, dfin, wire, hca>>
  /\ UNCHANGED <<txVars, unexp, ntf, data, cong, draining>>

\* Mutant: rds_post_recv does not search the unexpected list.
PostRecvBlind(r) ==
  /\ AppMayCall(Owner[r]) /\ InOrder(r)
  /\ rxs[r] = "new"
  /\ rxs' = [rxs EXCEPT ![r] = "posted"]
  /\ UNCHANGED <<bound, seg_remaining, seg_deferred, error, rxCq, unexp, dread, dfin,
                 wire, kernVars, txVars, cong, draining>>

\* rds_post_recv: take a matching unexpected message, else join the posted list.
PostRecv(r) ==
  /\ AppMayCall(Owner[r]) /\ InOrder(r)
  /\ rxs[r] = "new"
  /\ LET ux == {m \in unexp : <<r, m>> \in Matches}
     IN \/ \E m \in ux : /\ unexp' = unexp \ {m}
                         /\ StartRead(r, m, wire)
        \/ /\ ux = {}
           /\ rxs' = [rxs EXCEPT ![r] = "posted"]
           /\ UNCHANGED <<bound, seg_remaining, seg_deferred, error, rxCq,
                          unexp, dread, dfin, wire, hca>>
  /\ UNCHANGED <<txVars, ntf, data, cong, draining>>

\* rds_ep_cancel of a receive still on the posted list.
Cancel(r) ==
  /\ AppMayCall(Owner[r])
  /\ rxs[r] = "posted"
  /\ rxs' = [rxs EXCEPT ![r] = "done"]
  /\ rxCq' = [rxCq EXCEPT ![r] = @ + 1]
  /\ UNCHANGED <<txVars, wire, bound, seg_remaining, seg_deferred, error, unexp,
                 dread, dfin, kernVars, cong, draining>>

\* Mutant: the last status finalizes although READs are still parked.
HandleNotifyIgnoresParked(r, i) ==
  /\ draining[Owner[r]]
  /\ i \in ntf[r]
  /\ ntf' = [ntf EXCEPT ![r] = @ \ {i}]
  /\ LET live == rxs[r] = "reading"
         err  == error[r] \/ (live /\ i \notin data[r])
         fin  == live /\ seg_remaining[r] = 1
     IN /\ error' = [error EXCEPT ![r] = err]
        /\ seg_remaining' = [seg_remaining EXCEPT ![r] =
                                IF live /\ @ > 0 THEN @ - 1 ELSE @]
        /\ rxs' = [rxs EXCEPT ![r] = IF fin THEN "done" ELSE @]
        /\ rxCq' = [rxCq EXCEPT ![r] = IF fin THEN @ + RxEntry(r, err) ELSE @]
        /\ SendFins(IF fin THEN {bound[r]} ELSE {}, wire, dfin)
  /\ UNCHANGED <<txVars, bound, seg_deferred, unexp, dread, hca, data, cong, draining>>

\* rds_handle_rdma_notify: a failed READ is one whose segment was not placed.
HandleNotify(r, i) ==
  /\ draining[Owner[r]]
  /\ i \in ntf[r]
  /\ ntf' = [ntf EXCEPT ![r] = @ \ {i}]
  /\ LET live == rxs[r] = "reading"
         err  == error[r] \/ (live /\ i \notin data[r])
         fin  == live /\ seg_remaining[r] = 1 /\ seg_deferred[r] = 0
     IN /\ error' = [error EXCEPT ![r] = err]
        /\ seg_remaining' = [seg_remaining EXCEPT ![r] =
                                IF live /\ @ > 0 THEN @ - 1 ELSE @]
        /\ rxs' = [rxs EXCEPT ![r] = IF fin THEN "done" ELSE @]
        /\ rxCq' = [rxCq EXCEPT ![r] = IF fin THEN @ + RxEntry(r, err) ELSE @]
        /\ SendFins(IF fin THEN {bound[r]} ELSE {}, wire, dfin)
  /\ UNCHANGED <<txVars, bound, seg_deferred, unexp, dread, hca, data, cong, draining>>

(***************************************************************************)
(* Progress pass                                                           *)
(***************************************************************************)

\* Parked entries of n; a READ whose pending op is gone is discarded by the walk.
ParkedFins(n) == {m \in dfin : Dst[m] = n}
Live(n) == {r \in Recvs : Owner[r] = n /\ rxs[r] = "reading"}
Orphans(n) == {r \in Recvs : Owner[r] = n /\ rxs[r] # "reading"}
ParkedReads(n) == UNION {{r} \X dread[r] : r \in Live(n)}

\* Mutant: the walk stops at the first refusal, so an entry may stay parked because of
\* another destination.
RetryOutcomesHeadOfLine(n) ==
  {o \in [ParkedReads(n) -> {"ok", "again", "err"}] :
     \A p \in ParkedReads(n) :
       /\ o[p] = "again" => \E d \in Nodes : <<n, d>> \in cong
       /\ o[p] = "err" => "post_err" \in Faults}

\* Outcome of retrying every parked READ of n: an entry stays parked only while its own
\* destination still refuses it.
RetryOutcomes(n) ==
  {o \in [ParkedReads(n) -> {"ok", "again", "err"}] :
     \A p \in ParkedReads(n) :
       /\ o[p] = "again" => <<n, Src[bound[p[1]]]>> \in cong
       /\ o[p] = "err" => "post_err" \in Faults}
TookOf(o, r, v) == {p[2] : p \in {q \in DOMAIN o : q[1] = r /\ o[q] = v}}

\* The entries of r that leave the queue, the counters and the error after the walk, and
\* the receives it finalizes.
Gone(o, r) == TookOf(o, r, "ok") \cup TookOf(o, r, "err")
Rem(o, r) == seg_remaining[r] + Cardinality(TookOf(o, r, "ok"))
Dfr(o, r) == seg_deferred[r] - Cardinality(Gone(o, r))
Bad(o, r) == error[r] \/ TookOf(o, r, "err") # {}
Final(o, n) == {r \in Live(n) : Gone(o, r) # {} /\ Rem(o, r) = 0 /\ Dfr(o, r) = 0}

\* rds_progress_deferred: walk the whole queue.  The counters of a receive reach zero
\* with its last parked entry, so the walk finalizes it at most once and what it does
\* is a function of the outcomes; the order of the entries does not matter.
Reissue(n) ==
  \E o \in RetryOutcomes(n) :
    /\ hca' = [r \in Recvs |-> hca[r] \cup TookOf(o, r, "ok")]
    /\ dread' = [r \in Recvs |-> IF r \in Orphans(n) THEN {} ELSE dread[r] \ Gone(o, r)]
    /\ seg_remaining' = [r \in Recvs |-> Rem(o, r)]
    /\ seg_deferred' = [r \in Recvs |-> Dfr(o, r)]
    /\ error' = [r \in Recvs |-> Bad(o, r)]
    /\ rxs' = [r \in Recvs |-> IF r \in Final(o, n) THEN "done" ELSE rxs[r]]
    /\ rxCq' = [r \in Recvs |-> IF r \in Final(o, n) THEN rxCq[r] + RxEntry(r, Bad(o, r))
                                                     ELSE rxCq[r]]
    /\ SendFins(ParkedFins(n) \cup {bound[r] : r \in Final(o, n)}, wire,
                dfin \ ParkedFins(n))

\* rds_ep_progress takes the lock and retries the parked operations first.
PassBegin(n) ==
  /\ ~draining[n]
  /\ draining' = [draining EXCEPT ![n] = TRUE]
  /\ Reissue(n)
  /\ UNCHANGED <<txVars, bound, unexp, ntf, data, cong>>

\* recvmsg returns EAGAIN (what is on its way has not arrived) or the budget is spent.
PassEnd(n) ==
  /\ draining[n]
  /\ draining' = [draining EXCEPT ![n] = FALSE]
  /\ UNCHANGED <<txVars, wire, rxVars, unexp, dread, dfin, kernVars, cong>>

(***************************************************************************)
(* The adapter and the network, external to the provider                   *)
(***************************************************************************)

\* A READ ends: its bytes are in the user buffer and a status is queued, or it failed.
HcaRead(r, i) ==
  /\ i \in hca[r]
  /\ hca' = [hca EXCEPT ![r] = @ \ {i}]
  /\ ntf' = [ntf EXCEPT ![r] = @ \cup {i}]
  /\ \/ data' = [data EXCEPT ![r] = @ \cup {i}]
     \/ "dma_err" \in Faults /\ UNCHANGED data
  /\ UNCHANGED <<txVars, wire, rxVars, unexp, dread, dfin, cong, draining>>

\* Congestion of one destination comes and goes.
Congest(p) ==
  /\ cong' = IF p \in cong THEN cong \ {p} ELSE cong \cup {p}
  /\ UNCHANGED <<txVars, wire, rxVars, unexp, dread, dfin, kernVars, draining>>

Next ==
  \/ \E m \in Msgs : SendRndzv(m)
  \/ \E m \in Msgs : HandleFin(m)
  \/ \E m \in Msgs : HandleRtsMatched(m)
  \/ \E m \in Msgs : HandleRtsUnexpected(m)
  \/ \E r \in Recvs : PostRecv(r)
  \/ \E r \in Recvs : Cancel(r)
  \/ \E r \in Recvs : \E i \in ntf[r] : HandleNotify(r, i)
  \/ \E n \in Nodes : PassBegin(n)
  \/ \E n \in Nodes : PassEnd(n)
  \/ \E r \in Recvs : \E i \in hca[r] : HcaRead(r, i)
  \/ \E p \in CongPairs : Congest(p)

Spec == Init /\ [][Next]_vars

(***************************************************************************)
(* Fairness: the application keeps calling fi_cq_read, so passes begin and *)
(* end; a polling socket with something queued returns it (a finite set of *)
(* transfers makes that enough for each of them); the adapter ends every   *)
(* READ.  Nothing is assumed of congestion.                                *)
(***************************************************************************)

\* One iteration of the recvmsg loop of rds_ep_progress on n.
Receive(n) ==
  \/ \E m \in Msgs : Src[m] = n /\ HandleFin(m)
  \/ \E m \in Msgs : Dst[m] = n /\ (HandleRtsMatched(m) \/ HandleRtsUnexpected(m))
  \/ \E r \in Recvs : Owner[r] = n /\ \E i \in ntf[r] : HandleNotify(r, i)

Fairness ==
  /\ \A n \in Nodes : WF_vars(PassBegin(n)) /\ WF_vars(PassEnd(n)) /\ SF_vars(Receive(n))
  /\ \A r \in Recvs : WF_vars(\E i \in hca[r] : HcaRead(r, i))

FairSpec == Spec /\ Fairness

\* The application also goes on with its program: it retries a throttled send and posts
\* its receives.
Program(n) ==
  \/ \E m \in Msgs : Src[m] = n /\ SendRndzv(m)
  \/ \E r \in Recvs : Owner[r] = n /\ PostRecv(r)

FairAppSpec == FairSpec /\ \A n \in Nodes : SF_vars(Program(n))

(***************************************************************************)
(* Properties                                                              *)
(***************************************************************************)

RecvState == {"new", "posted", "reading", "done"}

\* Every variable has the shape of the C object it stands for.
TypeOK ==
  /\ tx \in [Msgs -> {"idle", "sent", "done"}]
  /\ txCq \in [Msgs -> Nat]
  /\ inflight \in [Nodes -> Nat]
  /\ wire \subseteq Datagram
  /\ rxs \in [Recvs -> RecvState]
  /\ bound \in [Recvs -> Msgs \cup {NoMsg}]
  /\ seg_remaining \in [Recvs -> Nat]
  /\ seg_deferred \in [Recvs -> Nat]
  /\ error \in [Recvs -> BOOLEAN]
  /\ rxCq \in [Recvs -> Nat]
  /\ unexp \subseteq Msgs
  /\ dread \in [Recvs -> SUBSET Nat]
  /\ dfin \subseteq Msgs
  /\ hca \in [Recvs -> SUBSET Nat]
  /\ ntf \in [Recvs -> SUBSET Nat]
  /\ data \in [Recvs -> SUBSET Nat]
  /\ cong \subseteq CongPairs
  /\ draining \in [Nodes -> BOOLEAN]

Outstanding(r) == dread[r] \cup hca[r] \cup ntf[r]

\* The counters that decide when a receive finalizes agree with the kernel and the
\* deferred queue: seg_remaining READs are executing or have an unread status, and
\* seg_deferred READs are parked (rds_start_rndzv_read, rds_handle_rdma_notify and
\* rds_progress_deferred update them in different calls).
SegmentAccounting ==
  \A r \in Recvs :
    /\ dread[r] \cap (hca[r] \cup ntf[r]) = {} /\ hca[r] \cap ntf[r] = {}
    /\ rxs[r] = "reading" => /\ seg_remaining[r] = Cardinality(hca[r] \cup ntf[r])
                             /\ seg_deferred[r] = Cardinality(dread[r])
                             /\ seg_remaining[r] + seg_deferred[r] > 0

\* While a READ of a message is parked, executing or unacknowledged, the sender still
\* holds the source registration (its RNDZV_TX op is pending) and no FIN that could end
\* it exists: rds_rndzv_rx_finalize is never early.
SourceHeldDuringReads ==
  \A r \in Recvs :
    Outstanding(r) # {} => /\ rxs[r] = "reading" /\ bound[r] \in Msgs
                           /\ tx[bound[r]] = "sent"
                           /\ FIN(bound[r]) \notin wire /\ bound[r] \notin dfin

\* A receive that completes without error has every segment that fits its buffer, and
\* the whole message: truncation and failed READs are always reported.
CompleteOrError ==
  \A r \in Recvs :
    rxs[r] = "done" /\ bound[r] # NoMsg /\ ~error[r] => data[r] = 1 .. NSeg[bound[r]]

\* ep->rndzv_tx_inflight counts the rendezvous sends awaiting a FIN and respects the cap.
InflightExact ==
  \A n \in Nodes : /\ inflight[n] = Cardinality({m \in Msgs : Src[m] = n /\ tx[m] = "sent"})
                    /\ inflight[n] <= MaxInflight

\* Every operation gets exactly one completion, when it ends and not before
\* (rds_pending_complete, rds_rndzv_rx_finalize, rds_ep_cancel); operations submitted
\* without FI_COMPLETION get one only on error.
OneCompletion ==
  /\ \A m \in Msgs : txCq[m] = IF tx[m] = "done" /\ m \notin Silent THEN 1 ELSE 0
  /\ \A r \in Recvs :
       rxCq[r] = IF rxs[r] = "done" /\ (r \notin Silent \/ error[r] \/ bound[r] = NoMsg)
                 THEN 1 ELSE 0

\* The places a submitted transfer can be: its RTS travels, it waits unexpected, a
\* receive reads it, its FIN is parked or travels.
Places(m) ==
  ({"rts"} \X ({RTS(m)} \cap wire)) \cup ({"fin"} \X ({FIN(m)} \cap wire))
  \cup ({"unexp"} \X ({m} \cap unexp)) \cup ({"parked"} \X ({m} \cap dfin))
  \cup ({"recv"} \X {r \in Recvs : rxs[r] = "reading" /\ bound[r] = m})

\* A transfer is in at most one place, and in none before it is sent or after it is
\* done: it is never matched twice, acknowledged twice, or acknowledged while it is read.
OnePlace ==
  \A m \in Msgs : /\ \A p, q \in Places(m) : p = q
                   /\ tx[m] # "sent" => Places(m) = {}

\* No receive waits on the posted list while a message it matches waits on the
\* unexpected list (rds_post_recv and rds_handle_inbound each search the other list).
NoMissedMatch ==
  \A r \in Recvs, m \in Msgs :
    ~(rxs[r] = "posted" /\ m \in unexp /\ <<r, m>> \in Matches)

ClearPath(m) == <<Dst[m], Src[m]>> \notin cong
Matched(m) == \E r \in Recvs : bound[r] = m

\* Congestion is per destination: a matched transfer whose own path stays clear completes
\* at the sender, whatever the other destinations refuse (rds_progress_deferred walks the
\* whole queue and rds_send_fin never waits behind it).
TransferCompletes ==
  \A m \in Msgs : (<>[]ClearPath(m)) => (Matched(m) ~> tx[m] = "done")

\* A pending send always has something on its way that will end it, so nothing but its
\* source registration can depend on a FIN that was dropped (rds_defer_fin).
NoOrphanedSend == \A m \in Msgs : tx[m] = "sent" => Places(m) # {}

Cancelled(r) == rxs[r] = "done" /\ bound[r] = NoMsg

\* The cap on rendezvous sends only delays: unless a receive is cancelled or congestion
\* lasts for ever, every send the application submits is accepted in the end (the flow
\* control comment of rds_send_rndzv).
ThrottleOnlyDelays ==
  (<>[](cong = {})) /\ [](\A r \in Recvs : ~Cancelled(r))
    => \A m \in Msgs : <>(tx[m] # "idle")
=============================================================================
