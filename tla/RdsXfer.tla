-------------------------------- MODULE RdsXfer ------------------------------
(***************************************************************************)
(* Everything one endpoint moves by RDMA, down to the bytes: fi_write and  *)
(* fi_read in chunks of at most 1 MiB, fi_inject_write from a bounce       *)
(* buffer, and the READs of a rendezvous receive, with the completion      *)
(* queue of OfiCq they report to.                                          *)
(*                                                                         *)
(* Calls and progress passes run under ep->lock (phase); the adapter       *)
(* executes what was posted at any time, and other threads read the CQ.    *)
(* A byte is known by its place in the whole transfer (the remote side)    *)
(* and by its buffer and offset in the local iov.  FINs are counted here;  *)
(* their delivery is module RdsRndzv.                                      *)
(***************************************************************************)
EXTENDS OfiCq, RdsIov, FiniteSets

CONSTANTS
  NOps,     \* operations the application may start
  Inputs,   \* Inputs[o]: set of [kind, iov, src, comp] operation o may be
  Faults    \* subset of {"refuse", "again", "dma", "nomem", "cq_nomem"}

Kinds == {"write", "read", "inject", "recv", "eager"}

Ops == 1 .. NOps

ASSUME XferAssumption ==
  /\ NOps \in Nat
  /\ \A o \in Ops : \A i \in Inputs[o] : i.kind \in Kinds /\ i.comp \in BOOLEAN /\ (i.kind = "inject" => ~i.comp)

NoInput == [kind |-> "none", iov |-> <<>>, src |-> <<>>, comp |-> FALSE]

VARIABLES
  phase,   \* who holds ep->lock: "free", "issue" (cur), "retry" and "drain" of progress
  cur,     \* the operation whose posting loop is running, or 0
  walk,    \* where rds_progress_deferred is in ep->deferred
  in,      \* [Ops -> what was asked]
  st,      \* [Ops -> "new", "issuing", "pending", "done", "refused"]
  pend,    \* [Ops -> rds_pending and the variables of the posting loop]
  parked,  \* ep->deferred, the READs
  wire,    \* chunks the kernel accepted and the adapter has not executed
  notes,   \* RDS_CMSG_RDMA_STATUS messages queued on the socket
  moved,   \* [Ops -> set of <<remote byte, local byte>> the adapter copied]
  fins,    \* [Ops -> FINs handed to the socket]
  rep,     \* rep[n + 1]: the operation completion number n of the CQ is about
  lost     \* operations whose completion the CQ had no memory for

callVars == <<phase, cur, walk>>
kernVars == <<wire, notes, moved>>
repVars == <<cqVars, rep, lost>>
vars == <<callVars, in, st, pend, parked, kernVars, fins, repVars>>

NoPend == [live |-> FALSE, off |-> 0, seg |-> 1, rem |-> 0, def |-> 0, err |-> FALSE]

Total(i) == IovLen(i.iov)

\* MIN(hdr->size, rx->total_len) of a receive
Effective(i) == IF i.kind = "recv" THEN Smaller(IovLen(i.src), Total(i)) ELSE Total(i)

Init ==
  /\ CqInit
  /\ phase = "free" /\ cur = 0 /\ walk = 0
  /\ in = [o \in Ops |-> NoInput] /\ st = [o \in Ops |-> "new"]
  /\ pend = [o \in Ops |-> NoPend]
  /\ parked = <<>> /\ wire = {} /\ notes = {}
  /\ moved = [o \in Ops |-> {}] /\ fins = [o \in Ops |-> 0]
  /\ rep = <<>> /\ lost = {}

(***************************************************************************)
(* Chunks and completions                                                  *)
(***************************************************************************)

\* A chunk that moves the bytes from remote byte from on to or from pieces.
Chunk(o, from, pieces) == [op |-> o, from |-> from, pieces |-> pieces]

\* The local bytes of pieces, in order.
Cells(pieces) ==
  FlattenSeq([k \in 1 .. Len(pieces) |->
    [b \in 1 .. pieces[k].len |-> <<pieces[k].iov, pieces[k].at + b - 1>>]])

\* Where byte at of source buffer k is in the message a rendezvous carries.
InMessage(src, k, at) == IovLen(SubSeq(src, 1, k - 1)) + at

\* The byte of iov with p bytes before it, by its definition.
CellAt(iov, p) ==
  CHOOSE c \in (1 .. Len(iov)) \X (0 .. p) :
    c[2] < iov[c[1]] /\ IovLen(SubSeq(iov, 1, c[1] - 1)) + c[2] = p

\* Every byte of the transfer at its place, and no other.
Whole(i) == {<<p, CellAt(i.iov, p)>> : p \in 0 .. Effective(i) - 1}

\* rds_cq_write_tx, rds_cq_write_rx: neither looks at what the CQ returns.
Report(o, err) ==
  \/ /\ CqWrite(err)
     /\ rep' = Append(rep, o)
     /\ UNCHANGED lost
  \/ /\ "cq_nomem" \in Faults
     /\ CqWriteFails(err)
     /\ lost' = lost \cup {o}
     /\ UNCHANGED rep

\* Mutant: FI_COMPLETION suppresses the errors of a receive as well.
FinalizeSilentError(o, p) ==
  /\ fins' = [fins EXCEPT ![o] = @ + 1]
  /\ IF in[o].comp THEN Report(o, p.err) ELSE UNCHANGED repVars
  /\ pend' = [pend EXCEPT ![o] = [p EXCEPT !.live = FALSE]]
  /\ st' = [st EXCEPT ![o] = "done"]

\* rds_rndzv_rx_finalize of the receive o whose pending op is p.
Finalize(o, p) ==
  /\ fins' = [fins EXCEPT ![o] = @ + 1]
  /\ IF in[o].comp \/ p.err THEN Report(o, p.err) ELSE UNCHANGED repVars
  /\ pend' = [pend EXCEPT ![o] = [p EXCEPT !.live = FALSE]]
  /\ st' = [st EXCEPT ![o] = "done"]

\* rds_pending_complete of the RMA operation o.
Complete(o, p) ==
  /\ IF in[o].comp THEN Report(o, p.err) ELSE UNCHANGED repVars
  /\ pend' = [pend EXCEPT ![o] = [p EXCEPT !.live = FALSE]]
  /\ st' = [st EXCEPT ![o] = "done"]
  /\ UNCHANGED fins

(***************************************************************************)
(* fi_write, fi_read, fi_inject_write                                      *)
(***************************************************************************)

\* Of operations that may be the same, the first starts first.
Start(o, i) ==
  /\ phase = "free" /\ st[o] = "new"
  /\ \A q \in 1 .. o - 1 : Inputs[q] = Inputs[o] => st[q] # "new"
  /\ in' = [in EXCEPT ![o] = i]

\* rds_rma_common up to its loop.
RmaCall(o, i) ==
  /\ i.kind \in {"write", "read"}
  /\ Start(o, i)
  /\ phase' = "issue" /\ cur' = o
  /\ st' = [st EXCEPT ![o] = "issuing"]
  /\ pend' = [pend EXCEPT ![o] = [NoPend EXCEPT !.live = TRUE]]
  /\ UNCHANGED <<walk, parked, kernVars, fins, repVars>>

\* No memory for the pending op (or the bounce buffer): the call returns -FI_ENOMEM.
CallNoMem(o, i) ==
  /\ "nomem" \in Faults
  /\ i.kind \in {"write", "read", "inject"}
  /\ Start(o, i)
  /\ st' = [st EXCEPT ![o] = "refused"]
  /\ UNCHANGED <<callVars, pend, parked, kernVars, fins, repVars>>

\* The loop of rds_rma_common is over; failed if ret is set.
RmaReturn(o, failed) ==
  LET p == pend[o]
  IN  /\ phase' = "free" /\ cur' = 0
      /\ IF p.rem = 0
         THEN /\ pend' = [pend EXCEPT ![o].live = FALSE]
              /\ st' = [st EXCEPT ![o] = IF failed THEN "refused" ELSE "done"]
         ELSE /\ pend' = [pend EXCEPT ![o].err = p.err \/ failed]
              /\ st' = [st EXCEPT ![o] = "pending"]
      /\ UNCHANGED <<walk, in, parked, kernVars, fins, repVars>>

Issuing(o, kinds) == phase = "issue" /\ cur = o /\ in[o].kind \in kinds

RmaSlice(o) ==
  Slice(in[o].iov, pend[o].off, Smaller(Total(in[o]) - pend[o].off, SegMax))

\* An iteration whose chunk the socket accepts.
RmaPost(o) ==
  /\ Issuing(o, {"write", "read"}) /\ pend[o].off < Total(in[o])
  /\ PieceLen(RmaSlice(o)) > 0
  /\ wire' = wire \cup {Chunk(o, pend[o].off, RmaSlice(o))}
  /\ pend' = [pend EXCEPT ![o].rem = @ + 1, ![o].off = @ + PieceLen(RmaSlice(o))]
  /\ UNCHANGED <<callVars, in, st, parked, notes, moved, fins, repVars>>

\* An iteration that breaks: the socket refuses the chunk, with EAGAIN or an error.
RmaBreak(o) ==
  /\ Issuing(o, {"write", "read"}) /\ pend[o].off < Total(in[o])
  /\ "refuse" \in Faults \/ PieceLen(RmaSlice(o)) = 0
  /\ RmaReturn(o, TRUE)

RmaEnd(o) ==
  /\ Issuing(o, {"write", "read"}) /\ pend[o].off >= Total(in[o])
  /\ RmaReturn(o, FALSE)

\* rds_inject_write: the bounce buffer lives as long as the pending op.
Inject(o, i) ==
  /\ i.kind = "inject"
  /\ Start(o, i)
  /\ \/ /\ st' = [st EXCEPT ![o] = "pending"]
        /\ pend' = [pend EXCEPT ![o] = [NoPend EXCEPT !.live = TRUE, !.rem = 1]]
        /\ wire' = wire \cup {Chunk(o, 0, <<Piece(1, 0, Total(i))>>)}
     \/ /\ "refuse" \in Faults
        /\ st' = [st EXCEPT ![o] = "refused"]
        /\ UNCHANGED <<pend, wire>>
  /\ UNCHANGED <<callVars, parked, notes, moved, fins, repVars>>

\* rds_send_eager: sendmsg takes the payload, and the completion is written at once.
SendEager(o, i) ==
  /\ i.kind = "eager"
  /\ Start(o, i)
  /\ st' = [st EXCEPT ![o] = "done"]
  /\ moved' = [moved EXCEPT ![o] = Whole(i)]
  /\ IF i.comp THEN Report(o, FALSE) ELSE UNCHANGED repVars
  /\ UNCHANGED <<callVars, pend, parked, wire, notes, fins>>

(***************************************************************************)
(* The READs of a rendezvous receive                                       *)
(***************************************************************************)

\* rds_start_rndzv_read up to its loop; a message longer than the buffer is FI_ETRUNC.
RecvMatch(o, i) ==
  /\ i.kind = "recv"
  /\ Start(o, i)
  /\ phase' = "issue" /\ cur' = o
  /\ st' = [st EXCEPT ![o] = "issuing"]
  /\ pend' = [pend EXCEPT ![o] = [NoPend EXCEPT !.live = TRUE,
                                                !.err = IovLen(i.src) > Total(i)]]
  /\ UNCHANGED <<walk, parked, kernVars, fins, repVars>>

\* No memory for the pending op: FIN, and an error whatever the flags.
RecvNoMem(o, i) ==
  /\ "nomem" \in Faults
  /\ i.kind = "recv"
  /\ Start(o, i)
  /\ st' = [st EXCEPT ![o] = "done"]
  /\ fins' = [fins EXCEPT ![o] = @ + 1]
  /\ pend' = [pend EXCEPT ![o].err = TRUE]
  /\ Report(o, TRUE)
  /\ UNCHANGED <<callVars, parked, kernVars>>

More(o) == pend[o].seg <= Len(Segments(in[o].src)) /\ pend[o].off < Effective(in[o])

ThisLen(o) ==
  Smaller(Segments(in[o].src)[pend[o].seg].len, Effective(in[o]) - pend[o].off)

\* The READ of segment seg into the next ThisLen bytes of the buffer.
RecvChunk(o) ==
  LET s == Segments(in[o].src)[pend[o].seg]
  IN  Chunk(o, InMessage(in[o].src, s.iov, s.at), Slice(in[o].iov, pend[o].off, ThisLen(o)))

\* Mutant: a parked READ is not counted.
RecvPostUncounted(o, res) ==
  LET p == [pend[o] EXCEPT !.off = @ + ThisLen(o), !.seg = @ + 1]
  IN  /\ Issuing(o, {"recv"}) /\ More(o)
      /\ \/ /\ res = "ok"
            /\ wire' = wire \cup {RecvChunk(o)}
            /\ pend' = [pend EXCEPT ![o] = [p EXCEPT !.rem = @ + 1]]
            /\ UNCHANGED parked
         \/ /\ res = "again" /\ "again" \in Faults
            /\ parked' = Append(parked, RecvChunk(o))
            /\ pend' = [pend EXCEPT ![o] = p]
            /\ UNCHANGED wire
      /\ UNCHANGED <<callVars, in, st, notes, moved, fins, repVars>>

\* One iteration: the READ is accepted, parked after EAGAIN, or given up.
RecvPost(o, res) ==
  LET p == [pend[o] EXCEPT !.off = @ + ThisLen(o), !.seg = @ + 1]
  IN  /\ Issuing(o, {"recv"}) /\ More(o)
      /\ \/ /\ res = "ok"
            /\ wire' = wire \cup {RecvChunk(o)}
            /\ pend' = [pend EXCEPT ![o] = [p EXCEPT !.rem = @ + 1]]
            /\ UNCHANGED parked
         \/ /\ res = "again" /\ "again" \in Faults
            /\ parked' = Append(parked, RecvChunk(o))
            /\ pend' = [pend EXCEPT ![o] = [p EXCEPT !.def = @ + 1]]
            /\ UNCHANGED wire
         \/ /\ res = "refuse" /\ "refuse" \in Faults
            /\ pend' = [pend EXCEPT ![o] = [p EXCEPT !.err = TRUE]]
            /\ UNCHANGED <<parked, wire>>
      /\ UNCHANGED <<callVars, in, st, notes, moved, fins, repVars>>

\* Mutant: the receive is finalized as soon as no READ is in flight.
IdleUnlessParked(p) == p.rem = 0

\* Nothing in flight and nothing parked.
Idle(p) == p.rem = 0 /\ p.def = 0

RecvEnd(o) ==
  /\ Issuing(o, {"recv"}) /\ ~More(o)
  /\ phase' = "free" /\ cur' = 0
  /\ IF Idle(pend[o])
     THEN Finalize(o, pend[o])
     ELSE /\ st' = [st EXCEPT ![o] = "pending"]
          /\ UNCHANGED <<pend, fins, repVars>>
  /\ UNCHANGED <<walk, in, parked, kernVars>>

(***************************************************************************)
(* Progress                                                                *)
(***************************************************************************)

\* rds_ep_progress takes the lock and enters rds_progress_deferred.
ProgressBegin ==
  /\ phase = "free"
  /\ phase' = "retry" /\ walk' = 1
  /\ UNCHANGED <<cur, in, st, pend, parked, kernVars, fins, repVars>>

\* Mutant: the walk goes on from the entry after the one it removed.
RetrySkips(res) ==
  LET c == parked[walk]
  IN  /\ phase = "retry" /\ walk <= Len(parked) /\ res = "ok"
      /\ wire' = wire \cup {c}
      /\ parked' = RemoveAt(parked, walk)
      /\ pend' = [pend EXCEPT ![c.op].def = @ - 1, ![c.op].rem = @ + 1]
      /\ walk' = walk + 1
      /\ UNCHANGED <<phase, cur, in, notes, moved, st, fins, repVars>>

\* One READ of ep->deferred is posted again.
Retry(res) ==
  LET c == parked[walk]
      p == [pend[c.op] EXCEPT !.def = @ - 1]
      failed == [p EXCEPT !.err = TRUE]
  IN  /\ phase = "retry" /\ walk <= Len(parked)
      /\ \/ /\ res = "again" /\ "again" \in Faults
            /\ walk' = walk + 1
            /\ UNCHANGED <<pend, parked, wire, st, fins, repVars>>
         \/ /\ res = "ok"
            /\ wire' = wire \cup {c}
            /\ parked' = RemoveAt(parked, walk)
            /\ pend' = [pend EXCEPT ![c.op] = [p EXCEPT !.rem = @ + 1]]
            /\ UNCHANGED <<walk, st, fins, repVars>>
         \/ /\ res = "refuse" /\ "refuse" \in Faults
            /\ parked' = RemoveAt(parked, walk)
            /\ IF pend[c.op].live /\ Idle(failed)
               THEN Finalize(c.op, failed)
               ELSE /\ pend' = [pend EXCEPT ![c.op] = failed]
                    /\ UNCHANGED <<st, fins, repVars>>
            /\ UNCHANGED <<walk, wire>>
      /\ UNCHANGED <<phase, cur, in, notes, moved>>

RetryEnd ==
  /\ phase = "retry" /\ walk > Len(parked)
  /\ phase' = "drain" /\ walk' = 0
  /\ UNCHANGED <<cur, in, st, pend, parked, kernVars, fins, repVars>>

\* rds_handle_rdma_notify: one completion of the adapter, found by its token.
Notify(n) ==
  LET o == n.chunk.op
      p == [pend[o] EXCEPT !.err = @ \/ ~n.ok, !.rem = IF @ > 0 THEN @ - 1 ELSE @]
  IN  /\ phase = "drain" /\ n \in notes
      /\ notes' = notes \ {n}
      /\ IF ~pend[o].live
         THEN UNCHANGED <<pend, st, fins, repVars>>
         ELSE IF pend[o].rem = 0 \/ p.rem > 0
         THEN /\ pend' = [pend EXCEPT ![o] = p]
              /\ UNCHANGED <<st, fins, repVars>>
         ELSE IF in[o].kind # "recv" THEN Complete(o, p)
         ELSE IF Idle(p) THEN Finalize(o, p)
         ELSE /\ pend' = [pend EXCEPT ![o] = p]
              /\ UNCHANGED <<st, fins, repVars>>
      /\ UNCHANGED <<callVars, in, parked, wire, moved>>

\* The socket has nothing more (a pass takes up to RDS_PROGRESS_BUDGET messages, more than
\* the chunks of NOps operations).
ProgressEnd ==
  /\ phase = "drain" /\ notes = {}
  /\ phase' = "free"
  /\ UNCHANGED <<cur, walk, in, st, pend, parked, kernVars, fins, repVars>>

(***************************************************************************)
(* The kernel and the adapter (external)                                   *)
(***************************************************************************)

\* The adapter executes a chunk; with an error it copies nothing.
Execute(c, ok) ==
  /\ c \in wire
  /\ ok \/ "dma" \in Faults
  /\ wire' = wire \ {c}
  /\ notes' = notes \cup {[chunk |-> c, ok |-> ok]}
  /\ moved' = IF ok
              THEN [moved EXCEPT ![c.op] = @ \cup
                      {<<c.from + j - 1, Cells(c.pieces)[j]>> : j \in 1 .. PieceLen(c.pieces)}]
              ELSE moved
  /\ UNCHANGED <<callVars, in, st, pend, parked, fins, repVars>>

(***************************************************************************)
(* The specification                                                       *)
(***************************************************************************)

Calls ==
  \E o \in Ops : \E i \in Inputs[o] :
    \/ RmaCall(o, i) \/ CallNoMem(o, i) \/ Inject(o, i) \/ SendEager(o, i)
    \/ RecvMatch(o, i) \/ RecvNoMem(o, i)

IssueStep ==
  \E o \in Ops : \/ RmaPost(o) \/ RmaBreak(o) \/ RmaEnd(o) \/ RecvEnd(o)
                 \/ \E res \in {"ok", "again", "refuse"} : RecvPost(o, res)

RetryStep == (\E res \in {"ok", "again", "refuse"} : Retry(res)) \/ RetryEnd

Adapter == \E c \in wire, ok \in BOOLEAN : Execute(c, ok)

\* Other threads in fi_cq_read and fi_cq_readerr.
ReadCq ==
  /\ CqRead
  /\ UNCHANGED <<callVars, in, st, pend, parked, kernVars, fins, rep, lost>>

Progress == ProgressBegin \/ RetryStep \/ (\E n \in notes : Notify(n)) \/ ProgressEnd

Next == Calls \/ IssueStep \/ Progress \/ Adapter \/ ReadCq

Spec == Init /\ [][Next]_vars

(***************************************************************************)
(* Properties                                                              *)
(***************************************************************************)

\* Types, and a retry never walks past the end of ep->deferred while it removes entries
\* (rds_msg.c:639-684).
XferTypeOK ==
  /\ CqTypeOK
  /\ phase \in {"free", "issue", "retry", "drain"} /\ cur \in Ops \cup {0}
  /\ walk \in 0 .. Len(parked) + 1
  /\ \A o \in Ops : in[o] \in Inputs[o] \cup {NoInput}
  /\ st \in [Ops -> {"new", "issuing", "pending", "done", "refused"}]
  /\ pend \in [Ops -> [live : BOOLEAN, off : Nat, seg : Nat, rem : Nat, def : Nat,
                       err : BOOLEAN]]
  /\ fins \in [Ops -> Nat] /\ lost \subseteq Ops
  /\ rep \in Seq(Ops) /\ Len(rep) = nwr

\* A completion without error means the bytes are there: however the buffers are
\* scattered, whatever was split, parked, retried or refused on the way, the adapter has
\* put exactly the right bytes in exactly the right places (rds_iov_slice, the loops of
\* rds_rma_common and rds_start_rndzv_read, rds_handle_rdma_notify).
ReportedMeansMoved ==
  \A n \in 0 .. nwr - 1 :
    n \notin errs => moved[rep[n + 1]] = Whole(in[rep[n + 1]])

About(S, o) == Cardinality({c \in S : c.op = o})
Parked(o) == Cardinality({k \in 1 .. Len(parked) : parked[k].op = o})

\* seg_remaining counts the chunks whose notification is still to come and seg_deferred
\* the parked READs, and a pending operation has one of them: it ends with its last
\* chunk, not before, and never waits for a notification that will not come.
CountsExact ==
  \A o \in Ops :
    /\ st[o] = "pending" => pend[o].rem + pend[o].def > 0
    /\ pend[o].rem = About(wire, o) + Cardinality({n \in notes : n.chunk.op = o})
    /\ pend[o].def = Parked(o)

\* Once an operation ended, was reported, was refused, or had its FIN sent, the adapter has
\* nothing left to do in its buffer and none of its READs will be posted again: the
\* application may reuse the buffer, the bounce buffer of an inject, which nothing reports,
\* may be freed, and the sender may deregister (rds_pending_complete,
\* rds_rndzv_rx_finalize, the refusals of rds_rma_common).
BufferAtRest ==
  \A o \in Ops :
    \/ \E n \in 1 .. Len(rep) : rep[n] = o
    \/ st[o] \in {"done", "refused"} \/ fins[o] > 0
    => /\ \A c \in wire : c.op # o
       /\ Parked(o) = 0

Entries(o) == Cardinality({n \in 1 .. Len(rep) : rep[n] = o})

\* What the manual pages ask for: an accepted operation that ended has an entry in the CQ
\* if one was requested (FI_COMPLETION), and whatever was requested if it failed.
\* Operations the CQ had no memory for are set aside.
Due(o) == st[o] = "done" /\ (in[o].comp \/ pend[o].err) /\ o \notin lost

\* Every operation whose entry is due has it: one of zero bytes as well, which is a valid
\* transfer, and a failed one that requested no completion.  The code breaks this twice:
\* rds_rma_common frees the pending operation when there was no chunk to issue, and
\* rds_pending_complete keeps the errors of silent operations to itself.
ReportedWhenDue == \A o \in Ops : Due(o) => Entries(o) = 1

\* No operation is in the CQ twice, and none before it ended, when its call returned an
\* error, or when nothing is due.  Receives, and RMA and sends that move bytes and requested
\* a completion, are there once they ended, as data or as an error (what is left of
\* ReportedWhenDue).  A receive has sent one FIN when it ended and none before
\* (rds_pending_complete, rds_rndzv_rx_finalize).
ReportedOnce ==
  \A o \in Ops :
    /\ Entries(o) <= 1
    /\ Entries(o) = 1 => Due(o)
    /\ Due(o) /\ (in[o].kind = "recv" \/ (in[o].comp /\ Total(in[o]) > 0)) => Entries(o) = 1
    /\ fins[o] = IF st[o] = "done" /\ in[o].kind = "recv" THEN 1 ELSE 0

\* The table rds_send_rndzv allocates is exactly the one its loop fills, and its segments
\* are the message in order: what a receiver reads by their offsets (segs, mr_cnt).
TableFilled ==
  \A o \in Ops :
    LET segs == Segments(in[o].src)
    IN  /\ Len(segs) = NSeg(in[o].src)
        /\ \A k \in 1 .. Len(segs) :
             /\ segs[k].len \in 1 .. SegMax
             /\ InMessage(in[o].src, segs[k].iov, segs[k].at) = PieceLen(SubSeq(segs, 1, k - 1))
=============================================================================
