# TLA+ models of the RDS libfabric provider

The system is the RDS provider under `src/rds-provider/prov/rds/src` (about 4300 lines of
C): reliable datagram endpoints of libfabric on top of kernel RDS sockets. `src/libfabric`
is third-party code, and its `prov/rds` is a copy of the same provider. Of it, the
completion queue and the registration cache are modelled, because the provider's guarantees
rest on them. File names without a directory below are in the provider's directory;
util_cq.c and util_mr_cache.c are in `src/libfabric/prov/util/src`, ofi_util.h in
`src/libfabric/include`.

## 1. The system

| Part | Code | What it does |
|---|---|---|
| Eager datagrams | `rds_send_eager`, `rds_deliver_eager` (rds_msg.c) | Small messages: header and payload in one datagram, complete on `sendmsg`. |
| Rendezvous | `rds_send_rndzv`, `rds_start_rndzv_read`, `rds_handle_rdma_notify`, `rds_rndzv_rx_finalize` (rds_msg.c) | Large messages: the sender registers its buffer in segments of at most 1 MiB and sends an RTS; the receiver issues one RDMA READ per segment and answers with a FIN, on which the sender completes and releases the registration. |
| Deferred queue | `rds_defer_fin`, `rds_defer_read`, `rds_progress_deferred` (rds_msg.c) | FINs and READs the socket refuses with EAGAIN are parked and retried. |
| Matching | `rds_match_posted`, `rds_match_unexp`, `rds_post_recv`, `rds_enqueue_unexp` (rds_msg.c), `rds_ep_cancel` (rds_ep.c) | Posted receives and unexpected messages, one list each for tagged and untagged traffic. |
| Eager ring | rds_eager.c | Optional (`FI_RDS_EAGER_RDMA=1`): small messages and RTSs are RDMA-written into a ring in the peer's memory, which it polls. |
| Ring handshake | `rds_ring_handle_ctrl`, `rds_ring_send` (rds_eager.c) | REQ and ACK publish the rings; a peer that cannot answer is served over datagrams. |
| Progress | `rds_ep_progress` (rds_progress.c) | Every `fi_cq_read`: deferred queue, rings, then the socket, under the endpoint lock. |
| RMA | rds_rma.c | `fi_read`/`fi_write` in chunks of 1 MiB under one pending operation. |
| Registration | rds_mr.c, util_mr_cache.c | `RDS_GET_MR`, and a cache of source registrations per domain: a tree of intervals, use counts, an LRU list, invalidation when memory is unmapped. |
| Completion queue | rds_cq.c, util_cq.c, ofi_util.h | A ring of entries with a list for errors and overflow. |
| Endpoint, domain | rds_ep.c, rds_domain.c | Socket, buffers, life cycle. |
| Fabric, attributes, parameters | rds_fabric.c, rds_attr.c, rds_init.c | Thin wrappers and constants. |

An endpoint has one lock. Application calls and a whole progress pass run under it, so
what interleaves is: calls and passes of different endpoints, the adapter executing posted
RDMA, the network, and the application between passes. The endpoints of a domain also share
the registration cache, whose lock (mm_lock) is dropped while memory is pinned and unpinned,
and CQs, which have a lock of their own.

## 2. Modules

| Module | Models | Built on |
|---|---|---|
| `RdsRndzv` | rendezvous and deferred queue of any number of endpoints | |
| `RdsRndzvProofs` | proofs about it: the counters, then where a transfer is, what completes and the cap | `RdsRndzv` |
| `RdsMatch` | matching lists of one endpoint | |
| `RdsMatchProofs` | proofs about it: lists, places, order | `RdsMatch` |
| `RdsFifo` | what the ring promises: a bounded FIFO per direction | |
| `RdsRing` | ring data plane of two READY endpoints | `RdsFifo` (refinement) |
| `RdsRingProofs` | proofs about it: slots and one direction, then the theorems | `RdsRing` |
| `RdsPeer` | handshake, deadline and choice of channel of two endpoints | uses what `RdsRing` promises |
| `RdsPeerProofs` | proofs about it: what a step does to an endpoint, the handshake, the order | `RdsPeer` |
| `OfiCompletions` | what a CQ promises: a FIFO of completions | |
| `OfiCq` | the CQ: ring and overflow list | `OfiCompletions` (refinement) |
| `OfiCqProofs` | proofs about it: the layout of the queue, then the refinement | `OfiCq` |
| `RdsIov` | `rds_iov_slice`, the segment table of an RTS, as operators | |
| `RdsXfer` | everything one endpoint moves by RDMA, to the byte, with its CQ | `RdsIov`, `OfiCq` |
| `RdsMrTypes` | pages, entries and registrations held, shared by the next ones | |
| `RdsMrCache` | the registration cache and the callbacks that pin and unpin | `RdsMrTypes` |
| `RdsMr` | who holds registrations: sends, FINs, closes | `RdsMrCache` |
| `RdsMrProofs`, `RdsMrCookies`, `RdsMrTheorems` | proofs about it: types, the tree, use counts and lists; then cookies and what the kernel has pinned; then the theorems | `RdsMr` |
| `MCRndzv`, `MCMatch`, `MCRing`, `MCPeer`, `MCXfer`, `MCMr` | instances for TLC | |

### RdsRndzv

A transfer is a member of `Msgs`, a receive a member of `Recvs`. The pending operation of
the sender is `tx[m] = "sent"`: as long as it holds, the source registration does.
`rxs`, `bound`, `seg_remaining`, `seg_deferred` and `error` are the receiver's pending
operation; `dread` and `dfin` the two kinds of entries of `ep->deferred`; `hca`, `ntf` and
`data` the READs in the adapter, the statuses not yet read and the bytes placed. Data is
abstracted to which segments are in the buffer; what matching decides is the relation
`Matches`.

| Action | Code |
|---|---|
| `SendRndzv` | `rds_send_rndzv` accepted; a refused call undoes everything and is no step |
| `HandleRtsMatched`, `HandleRtsUnexpected`, `HandleFin` | `rds_handle_inbound` |
| `PostRecv`, `Cancel` | `rds_post_recv`, `rds_ep_cancel` |
| `HandleNotify` | `rds_handle_rdma_notify` |
| `PassBegin`, `PassEnd` | `rds_ep_progress` with `rds_progress_deferred` (`Reissue`) |
| `HcaRead`, `Congest` | adapter and network, external |

`Faults` selects what the environment may do: `nomem` (an allocation fails), `post_err` (a
READ cannot be posted), `dma_err` (a READ fails), `fin_lost` (a FIN cannot be sent or
parked). Congestion is per pair of endpoints, as in the kernel.

### RdsMatch

Lists are sequences, tags sets of bits (so that the ignore mask is set inclusion), the
address of a source is resolved against the AV when its message arrives. Actions:
`ArriveMatched`, `ArriveUnexpected` (`rds_handle_inbound`), `PostWaits`, `PostMatched`
(`rds_post_recv`), `Cancel`, `InsertAv` (the application's `fi_av_insert`). `postSeq`
and `arrSeq` record the order of posts and arrivals for the properties.

### RdsRing

A message is its sequence number, a slot its generation, piggybacked credit and message.
`stage`, `rx_ring`, `credit_cell` and `credit_tx` are the memory the adapter reads and
writes; a posted write stays in `wr` (or `cw`) until it lands. It lands in two steps, the
generation last, and each step copies what the staging slot holds at that time, so that
early reuse would be seen. Slot writes of different slots land in any order, which is more
than the transport allows. Generations are counted modulo `GenMod` (2^32 in the code).

| Action | Code |
|---|---|
| `Send`, `SendFull` | `rds_ring_send` on a READY peer, with `rds_ring_refresh_credit` |
| `PollBegin`, `PollSlot`, `PollEnd` | `rds_ring_progress`, an iteration and the end of the loop of `rds_ring_poll_peer`, with `rds_ring_return_credit` |
| `LandBody`, `LandGen`, `LandCredit`, `Congest` | adapter and network, external |

### RdsPeer

The ring is a FIFO (what `RdsRing` implements) that is polled only while its reader is
READY; the socket is a second FIFO. `conf` and `geo` are the configurations the handshake
can meet: registration fails, peer cap reached or ring off, geometries that differ.
`Faults`: `nomem` (a transient failure of `rds_peer_create`), `req_lost`, `ack_lost`,
and `late` (the deadline may pass while an answer is on its way). The deadline is 100 ms
(`RDS_RING_CONNECT_TIMEOUT_MS`); without `late` an answer that was sent is taken to be
processed within it. That is an assumption about the peer and the network: nothing in the
code makes it so, and a peer that does not call `fi_cq_read` for 100 ms breaks it.

### OfiCq

`buf`, `rcnt` and `wcnt` are the circular queue, `aux` the list; a slot marked `aux` is a
place holder for the list entries written at its place. Completions are numbered, so that the
refinement of `OfiCompletions` says that each is read once, in order, errors only through
`fi_cq_readerr`. A read is a loop (`ReadBegin`, `ReadSlot`, `ReadAux`, `ReadStops`) under
the CQ lock. A write may find no memory (`CqWriteFails`); the provider ignores that.

### RdsXfer

An operation is `fi_write`, `fi_read`, `fi_inject_write`, a rendezvous receive whose RTS
matched, or an eager send. Its buffers are lists of lengths; a byte is a buffer and an
offset, and `moved` collects the pairs of remote and local byte the adapter has copied.

| Action | Code |
|---|---|
| `RmaCall`, `RmaPost`, `RmaBreak`, `RmaEnd`, `CallNoMem` | `rds_rma_common`: its entry, one chunk posted or refused, its end; no memory |
| `Inject` | `rds_inject_write` |
| `RecvMatch`, `RecvPost`, `RecvEnd`, `RecvNoMem` | `rds_start_rndzv_read`, per READ: accepted, EAGAIN (parked) or failed |
| `SendEager` | `rds_send_eager` |
| `ProgressBegin`, `Retry`, `RetryEnd`, `Notify`, `ProgressEnd` | `rds_ep_progress`, `rds_progress_deferred`, `rds_handle_rdma_notify` |
| `Execute` | adapter, external |
| `ReadCq` | reads of the CQ, by any thread |

It overlaps with `RdsRndzv` on purpose. There a receive is a set of segments and the subject
is the exchange between endpoints; here there is one endpoint, and the subject is whether
slicing, chunks and counters add up to the bytes and the completion reported.

### RdsMrCache and RdsMr

Memory is a row of pages, an iov an interval of them. `slot` is the pool of cache entries;
an entry is in the tree when `node` holds. `lru` with `ahead`, `dead` and `count` are the
lists and counters of util_mr_cache.c, `kernel` what is pinned behind each cookie, `regEp`
and `regDest` the fields of the domain through which the callbacks find a socket and a
destination. Every stretch of code under mm_lock is one step and so is each call out of it,
so that searches, registrations, evictions and conflicts of several endpoints interleave
where they can. `Unmap` is the memory monitor. `add_region` may fail for good (`CreateRefused`)
or with EAGAIN, which the kernel may answer while there is no connection to register through
(`CreateAgain`): the error path is the same, but the search starts again without a flush.

`RdsMr` adds the calls: `SendRndzv`, then per chunk `CacheGet` and `CacheGot` or
`RegInternal`, `PostRts`; `RegFails` and `PostFails` lead through `err_unreg`; `Fin` and
`EpClose` release with `Put`; `EpEnable`, `CloseSocket` and `DomainClose` are the life cycle.
The number of sends is not bounded, only how many are pending at once (the code's own cap).

Two constants are premises about the environment, both real restrictions:

- `Reissue = FALSE`: the kernel does not give out a cookie again while a freed pool entry
  remembers it. After a failed `add_region`, `util_mr_free_entry` calls `delete_region` with
  whatever cookie the pool entry held before (util_mr_cache.c:301); with `Reissue = TRUE`
  TLC finds `CookieCoversChunk` violated, since that may be a live registration of another
  send.
- `LenderLast = TRUE`: the endpoint that lends its socket to the domain is closed last and
  not replaced. Closing it drops the kernel's registrations while the entries stay in the
  cache (rds_ep.c:254); with `LenderLast = FALSE` TLC finds `CookieCoversChunk` violated.

Run `mr` takes both as said. Of the proofs only those of `CookieCoversChunk` and `NothingLeaks`
assume them; types, tree, use counts and lists hold with both left open.

## 3. Runs

Passing runs; deadlock is checked except where an execution may end (`match_safety`, `mr`).

| Run | Instance | Checks |
|---|---|---|
| `rndzv_safety` | 3 endpoints, 3 messages of 1-2 segments, 3 receives (one too small, one empty, one without FI_COMPLETION), cap 2, all faults | `SegmentAccounting`, `SourceHeldDuringReads`, `CompleteOrError`, `InflightExact`, `OneCompletion`, `OnePlace`, `NoMissedMatch` |
| `rndzv_live` | one receiver, two senders, both paths back may be congested, one sender past a cap of 1 | `TransferCompletes`, `NoOrphanedSend`, `ThrottleOnlyDelays` |
| `ring_safety` | 2 slots, generations modulo 2, 5 messages one way and 1 back; posts of the receiver of the five (its credit and its own message) may be refused | `CreditBehindConsumer`, `ArrivedIsNext`, `StagingStable`, `RingIsFifo` (refinement), `StuckOnlyByRefusedCredit` |
| `peer_handshake` | 3 and 2 messages, or sends against injects, every configuration of both ends, lost REQs; answers arrive in time | `NoStrandedMessage`, `InOrderDelivery`, `ReadyMeansUsable`, `AllDelivered` |
| `match_safety` | 2 sources, 4 messages, 4 receives with wildcards, cancel, drops | `NoOvertaking`, `OldestReceiveFirst`, `NoMissedMatch`, `OnePlaceEach` |
| `xfer` | any two of a write, a read, an empty write, an inject and two receives, on fragmented buffers with empty ones among them, and an eager send; chunks of 2 bytes and 2 pieces, CQ ring of 2; all faults | `ReportedMeansMoved`, `CountsExact`, `BufferAtRest`, `ReportedOnce`, `TableFilled`, `CqAsserts`, `CqIsQueue` (refinement) |
| `mr` | 2 endpoints sending equal, nested and overlapping buffers of 3 pages without end, a cache of 2 entries, with and without the cache, all faults, EAGAIN of the kernel among them | `UseCountsExact`, `CacheListsExact`, `TreeOrdered`, `CookieCoversChunk`, `NothingLeaks`, `CallsReturn` |

The type invariants of `RdsRndzv` and `RdsRing` are only proved, those of the other modules are
checked in their runs. The bounds are chosen so that the cases that matter
occur: more messages than the cap, a receive of several segments of which some are parked,
some executing and some failed; more than two laps of the ring with generations that repeat
after two; both ends requesting at once; two receives that accept the same message and two
messages that one receive accepts; transfers of no chunk, one chunk and several, cut by the
piece limit as well as by the length; more completions than the CQ has slots; fewer cache
entries than buffers, so that evictions, conflicts and a pool that runs out all occur. A
larger instance of `mr` (4 pool entries, 1.46 million states, safety only) also passed; it is
not kept as a run because it asks nothing new.

Runs in which TLC finds what the code says of itself violated:

| Run | Property | What happens |
|---|---|---|
| `rndzv_send_first` | `ThrottleOnlyDelays` | Two ranks that post receives after their throttled sends wait for each other; rds_msg.c:838 says there is no deadlock. |
| `ring_credit_refused` | `SenderNotStuck` | A refused credit write is not repeated once the ring is full and drained; rds_eager.c:500 says a lagging sender eventually sees progress. |
| `peer_answer_missed` | `NoStrandedMessage` | The ACK is lost, since nobody looks at what its `sendmsg` returns, or it comes after the deadline: messages of the READY peer stay in a ring that is not polled. Each of the two faults is enough (TLC shows the lost ACK, which is the shorter trace). |
| `xfer_unreported` | `ReportedWhenDue` | A write of zero bytes with FI_COMPLETION returns 0 and never completes; fi_rma(3) allows zero bytes and promises an entry. |
| `mr_sub_buffer` | `SegmentNamesChunk` | A chunk that hits a larger cached registration is announced with offset 0 of it, so the receiver reads the wrong bytes. |

`ReportedOnce` of run `xfer` is what is left of `ReportedWhenDue`: every operation at most once
and only when due, and receives, sends and RMA that move bytes and asked for a completion
exactly once.

`SenderNotStuck` holds when the receiver's credit writes are always taken (`MCRingLive.cfg`).
`StuckOnlyByRefusedCredit` says how far it fails otherwise: once congestion has ended, a sender
is stuck only if its receiver has drained the ring and owes it credit. With posts of both ends
refused the properties of `ring_safety` hold as well (`MCRingBoth.cfg`, 520,620 states; the
liveness property takes TLC five minutes there, which is why the run refuses one end's only).

The same kind of disagreement, smaller, kept as configurations to reproduce with TLC and not
as runs:

| Configuration | Property | What happens |
|---|---|---|
| `MCRndzvFinLost.cfg` | `NoOrphanedSend` | A FIN that cannot be parked is gone: the send never completes and keeps its slot of the cap. The comment at rds_msg.c:212 speaks of a leaked registration only. |
| `MCXferSilentError.cfg` | `ReportedWhenDue` | Without the zero-byte write: an inject, or a write that asked for no completion, that fails in the adapter is not reported; fi_cq(3) and fi_endpoint(3) say errors always are. |
| `MCPeerInject.cfg` | `InOrderDelivery` | An inject longer than a slot takes the socket past messages in the ring; rds_msg.c:1077 says injects share the channel for ordering. |
| `MCMatchLateAv.cfg` | `NoOvertaking` | A message that arrived before its source was in the AV is passed over by directed receives. |
| `MCMrAgain.cfg` | `ReturnsAnyway` | A send whose registration the kernel keeps answering with EAGAIN stays in the search loop, with the endpoint lock held. |
| `MCMrDest.cfg` | `RegisteredForDest` | `reg_dest` belongs to the domain; rds_mr.c:289 calls its use safe because the caller holds ep->lock, which another endpoint does not. |

## 4. Fairness

The provider has manual progress: everything depends on the application calling
`fi_cq_read`. The liveness runs assume that it does (weak fairness of the beginning and the
end of passes and of polls), that the adapter executes what was posted (weak fairness), and
that a datagram in the network is received in some pass (strong fairness, because the
socket is looked at only inside a pass). `FairAppSpec` and the ring and peer runs also
assume that the application retries a call that returned `-FI_EAGAIN`, as libfabric asks;
strong fairness, since calls are excluded during passes. Nothing is assumed of congestion;
where a property needs it to end, the property says so (`ClearPath`, `cong = {}`).

`mr` assumes only that a call that is running goes on running (`WF_vars(Call(t))`): nothing
makes an application send, a FIN arrive or an endpoint close. `CallsReturn` is therefore
about the retry loop of the cache search: it ends unless endpoints start new calls for ever or
the kernel answers that endpoint's registrations with EAGAIN for ever. The second exception is
the code's: nothing bounds that retry (`MCMrAgain.cfg`).

`AllDelivered` holds in `peer_handshake`, where every answer arrives in time; lost requests and
peers without a ring cost a delay. With a lost or late answer messages are stranded.

`RdsXfer` has no liveness property. That every operation ends is checked, under congestion,
in `rndzv_live` for receives; for RMA the same instance with fairness was too large for TLC.

## 5. Proofs

Checked by TLAPS for all values of the constants.

`RdsRndzvProofs` (any endpoints, messages, segments, receives, faults, congestion):

- `RndzvStaysTyped`, `CountersExact`: `TypeOK` and `SegmentAccounting`. The invariant `Counted` adds to them
  that a receive has outstanding READs only while it is reading and is then bound to a
  message, and that the sets of READs are finite, so that `Cardinality` can be computed.
- `SourceHeld` and `TransferInOnePlace`: `SourceHeldDuringReads` and `OnePlace`. The
  invariant `Located` says for each pair of places (RTS, unexpected, reading, FIN parked,
  FIN travelling) that a transfer is not in both, and that in each of them its sender is
  waiting. Every step that ends a receive goes through the lemma `FinishLocated`.
- `ReceiveCompleteOrError`, `CompletedOnce`, `CapRespected`, `MatchNotMissed`:
  `CompleteOrError`, `OneCompletion`, `InflightExact` and `NoMissedMatch`. The invariant
  `Sound` adds to `Counted` that the segments placed and those outstanding together are the
  message unless the receive has an error (`Delivery`; `CompleteOrError` alone says nothing
  of a receive that is still reading), and the number of completions as a function of the
  state (`RecvReported`, `SendReported`).
- `PendingSendEnds`: `NoOrphanedSend`, from `NoneLost`, under the assumption that `fin_lost`
  is not in `Faults`. Without it the property is false (`MCRndzvFinLost.cfg`), so this says
  that losing a FIN is the only way a transfer gets lost.

`RdsMatchProofs` (any sources, messages, receives, tags, masks, address vector and faults):

- `MatchStaysTyped`, `EverythingInOnePlace`: `TypeOK` and `OnePlaceEach`. The invariant `ListInv` says that a
  list holds only its own entries, in the order of arrival or of posting, which makes them
  distinct; `Placed` that a message or receive is in one of its places, whichever list that is.
- `MatchedInOrder`, `OldestReceiveUsed`, `MatchNeverMissed`: `NoOvertaking`,
  `OldestReceiveFirst` and `NoMissedMatch`, under the assumption `KnownSources` that directed receives name sources that were in the address
  vector from the start; without it `NoOvertaking` is false (`MCMatchLateAv.cfg`).
  `NoOvertaking` is not inductive as it stands, because it speaks of the messages of one
  source while a list holds those of all; `InTurn` is the same across sources. That a search
  returns the first entry which fits is `FirstFacts`, by well-foundedness of the naturals.

`RdsRingProofs` (any number of slots and messages, any generation modulus above 1):

- `CreditSafe`, `PolledIsNext`, `StagingSafe`: `CreditBehindConsumer`, `ArrivedIsNext`,
  `StagingStable`.
- `RingImplementsFifo`: `Spec => RingIsFifo`, the refinement of `RdsFifo`.

The argument is the operator `Direction(th, st, W, ring, rh)`, a relation on the values of
one direction: at most a ring of messages is out, writes in flight are for unpolled
messages and for different ones, unpolled messages are staged untouched, and among the next
`Slots` slots to be polled one has its expected generation only if its message has landed
completely. One lemma per kind of step (`StageKeeps`, `SendKeeps`, `PollKeeps`,
`BodyKeeps`, `GenKeeps`) shows that it is kept; they rest on `IdxInjective` (less than a
ring apart, messages have different slots) and `NextLap` (the next lap has another
generation, whatever the modulus). `Credits` bounds each carrier of credit by what was
consumed, which is what gives a sender that sees room real room (`RoomIsReal`).

`RdsPeerProofs` (any programs, ring sizes, configurations of the two ends):

- `PeerStaysTyped`, `ReadyIsUsable`: `TypeOK` and `ReadyMeansUsable`, under all faults. The invariant `Usable`
  adds that only an endpoint with a ring asks or answers, and that a ring with messages
  belongs to a READY sender.
- `RingIsPolled`: `NoStrandedMessage`, under the assumption that `late` and `ack_lost` are not
  in `Faults`; with either it is false (`peer_answer_missed`). The invariant `Handshake` says
  what a request or an answer on its way implies for its sender, and that the peer of a READY
  endpoint is READY or connecting with an answer coming, which keeps its deadline from passing.
- `DeliveredInOrder`: `InOrderDelivery`, for programs that do not mix slot-sized sends with
  longer injects (`Unmixed`; otherwise it is false, `MCPeerInject.cfg`) and without a transient
  failure of `rds_peer_create` (`nomem`). Lost and late answers are allowed. The invariant is
  `Flow`, a relation on the values of one direction (delivered, in the ring, in the socket are
  ascending, and delivered comes first), and `Apart`: socket and ring never hold messages at
  the same time, because DISABLED and READY are both final.

`Moves` describes a step as one endpoint sees it (its state, its socket, its ring, its
deadline); the handshake invariants follow from it without looking at actions.

`OfiCqProofs` (a ring of any size, any writes, errors and reads):

- `CqAssertsHold`: the asserts of the CQ code. `CqIsQueueHolds`: `CqSpec => CqIsQueue`, the
  refinement of `OfiCompletions`. Both are about the CQ alone (`CqSpec`); that the endpoint of
  `RdsXfer` uses it only through these steps is checked by TLC.

The invariant `CqInv` lays out the queue (`Layout`): unread places hold completions in order,
a place holder stands exactly where the list has entries, the list is ordered by place and
number, and slots and list together are the unread numbers without gaps. From it follows
which of the two holds the oldest completion (`HeadNormal`, `HeadAux`).

`RdsMrProofs`, `RdsMrCookies` and `RdsMrTheorems` (any endpoints, messages, pages, pool, cache
limits and faults; any choice of `Reissue` and `LenderLast` unless said otherwise):

- `TreeStaysOrdered`: `TreeOrdered`, from the types (`ShapeHolds`) and the fact that only the
  insertion adds to the tree, after its conflict check under the same lock.
- `SearchMissesNothing`: the two comparisons the tree is searched with are monotone along
  its order. The model reads matches off the whole tree; this is why a descent finds the same.
- `UseCountsStayExact`: `UseCountsExact`. The invariant `Inv` adds where each endpoint is in
  its call (`Phases`: what it has in hand, what it is freeing, which operations are its own),
  that an entry being freed has no holder and is on one list only, that idle entries have use
  count 0, and that holders are finitely many. One lemma per kind of step (a hit, a creation, a
  conflict, a flush, a put) says what it does to counts and holders as values.
- `HeldEntriesStayLive`: an entry that a send holds is allocated and nobody is freeing it.
- `ListsStayExact`: `CacheListsExact`. `ListsInv` adds to `Inv` the sums behind the four
  counters (`Tally`), the order of `lru`, and what a closed domain has left (`Shut`).
- `CookiesCoverChunks` and `RegistrationsOwned`: `CookieCoversChunk` and `NothingLeaks`, assuming
  `LenderLast` and `~Reissue`, without which both are false. `CookieInv` says that the
  cookies of the pool entries are distinct, that the kernel's registrations are those of
  the entries in use (`CookiesOwned`), all on the socket lent to the domain (`Lent`), and that
  entries of the tree pin the pages the application has now (`Current`); without the cache, that
  a registration belongs to one chunk (`BypassOwned`). `NothingLeaks` asks for owners that are
  live: a chunk held belongs to a send in progress, being put back or waiting for its FIN
  (`HeldByLive`, from `Phases`), and an entry in use is held by such a chunk or by a search, or
  is on a list the cache frees from (`EntriesKept`, from the use counts and the lists). An
  entry still being registered is in no tree and on no list; it stays current because the
  application does not unmap a buffer that it is sending (`InUse`).
- `MrStaysTyped`: `MrTypeOK`, from all of it: that no counter runs below zero is a consequence of
  the counts, not of the guards.

What the proofs use of cardinalities is carried along as `CardFacts` and discharged in the last
module of each chain from the library's theorems about finite sets.

Assumptions: `RndzvAssumption`, `MatchAssumption`, `RingAssumption`, `PeerAssumption`,
`CqAssumption`, `IovAssumption`, `XferAssumption`, `MrAssumption` and `SendAssumption`, which say how the constants are typed, that
a receive only matches messages sent to its endpoint, that no message is sent twice, that there
is at least one page of memory, that an inject asks for no completion, and that the two
endpoints of a ring or a handshake are each other's peer. TLC evaluates them in every run of
the module. Where a theorem assumes more, it says so in its statement.

Only model-checked: all liveness properties (`TransferCompletes`, `ThrottleOnlyDelays`,
`StuckOnlyByRefusedCredit`, `AllDelivered`, `CallsReturn`), since fairness is out of the prover's
reach; and the properties of `RdsXfer` itself (`XferTypeOK`, `ReportedMeansMoved`, `CountsExact`,
`BufferAtRest`, `ReportedOnce`, `TableFilled`), which rest on what the slicing loops compute for
every buffer, an induction over data that the prover's library theorems do not give.
`NoOrphanedSend` of `rndzv_live` is an invariant and proved. The properties that TLC
finds violated are about what the code says of itself and have no proof.

## 6. Not modelled

- Wire formats, bounds checks on received headers, logging, the sockaddr handling.
- `rds_deliver_eager` (a copy and its truncation) and the size in bytes of RTSs.
- `fi_mr_reg` of the application (`rds_regattr`): one registration with one owner, whose
  life is the application's; the registrations of the ring, which live as long as the peer.
- Waiting on a CQ (`fi_cq_sread`, wait objects), counters, setname and getname.
- Closing an endpoint with receives posted (frees memory), closing a domain that is in use.
- A memory monitor that fails (`valid` returning false): the model has one that notifies.
- Parameters, attributes, the fabric: read once or constant.
- In `RdsPeer`: an RTS too long for a slot takes the socket although the peer is READY,
  which docs/ARCHITECTURE.md describes as the one edge case of the ordering rule.
- The transient failure of `rds_peer_create` is not part of the passing instances: with it
  a message takes the socket and the next one the ring.
- The kernel: datagrams are reliable and ordered per pair of sockets, as RDS promises.
  Crashes of a process are not handled by the provider and not modelled.

The models cover the files of the provider that have state. `src/libfabric` is a complete
libfabric with some thirty other providers, which this one never runs.

## 7. Open work

1. Composition: rendezvous over the ring (RTS in a slot, FIN as a datagram).
2. Liveness of `RdsXfer` on an instance small enough for TLC, and proofs of its invariants.
3. `rds_deliver_eager` against the receive buffers of `RdsIov`.
