-------------------------------- MODULE RdsMr --------------------------------
(***************************************************************************)
(* Who holds registrations, and for how long: rendezvous sends register    *)
(* every chunk of the source before the RTS goes out and release them on   *)
(* the FIN, on an error, or when the endpoint closes; endpoints lend their *)
(* socket to the domain, whose cache (RdsMrCache) registers on it.         *)
(*                                                                         *)
(* All steps of one endpoint are serialised by its ep->lock; endpoints of  *)
(* the domain interleave.  A send may be posted at any time, so the number *)
(* of sends is not bounded.                                                *)
(***************************************************************************)
EXTENDS RdsMrCache, Sequences

CONSTANTS
  Messages,     \* Messages[t]: the sources t may send, as sequences of chunks
  Dests,        \* Dests[t]: peers t sends to
  MaxInflight,  \* rds_rndzv_max_inflight
  LenderLast    \* the endpoint lent to the domain is closed last, and not replaced

ASSUME SendAssumption ==
  /\ MaxInflight \in Nat /\ LenderLast \in BOOLEAN
  /\ \A t \in Eps : Messages[t] \subseteq Seq(Iovs)

VARIABLES
  cacheOn,   \* domain->cache_enabled
  open,      \* the domain is open
  msg,       \* [Eps -> the source being sent]
  dest,      \* [Eps -> where to]
  op,        \* [Eps -> the pending operation of that send, 0 when there is none]
  k,         \* [Eps -> chunks registered so far]
  held,      \* [Eps -> registrations held: the cmrs or mrs of all operations]
  pend,      \* [Eps -> operations whose FIN has not come]
  rel,       \* [Eps -> operations whose registrations are being released]
  closing    \* [Eps -> rds_ep_close is running]

callVars == <<msg, dest, op, k>>
sendVars == <<cacheOn, open, callVars, held, pend, rel, closing>>
vars == <<mrVars, sendVars>>

CookieOf(h) == IF cacheOn THEN slot[h.id].cookie ELSE h.id

Init ==
  /\ CacheInit
  /\ cacheOn \in BOOLEAN
  /\ open = TRUE
  /\ msg = [t \in Eps |-> <<>>]
  /\ dest = [t \in Eps |-> NoDest]
  /\ op = [t \in Eps |-> 0]
  /\ k = [t \in Eps |-> 0]
  /\ held = [t \in Eps |-> {}]
  /\ pend = [t \in Eps |-> {}]
  /\ rel = [t \in Eps |-> {}]
  /\ closing = [t \in Eps |-> FALSE]

-----------------------------------------------------------------------------
(* rds_send_rndzv *)

\* Refused with -FI_EAGAIN at the cap; operations are numbered from 1 to the cap.
SendRndzv(t) ==
  /\ pc[t] = "idle"
  /\ \E o \in (1 .. MaxInflight) \ pend[t] :
       /\ \A q \in (1 .. MaxInflight) \ pend[t] : o <= q
       /\ op' = [op EXCEPT ![t] = o]
  /\ \E m \in Messages[t], d \in Dests[t] :
       /\ msg' = [msg EXCEPT ![t] = m]
       /\ dest' = [dest EXCEPT ![t] = d]
  /\ Goto(t, "chunk")
  /\ UNCHANGED <<cacheVars, kernel, regEp, regDest, findVars, cacheOn, open, k, held, pend, rel, closing>>

NextChunk(t) == msg[t][k[t] + 1]

AtChunk(t) == pc[t] = "chunk" /\ k[t] < Len(msg[t])

\* the chunk is registered: segs[k] and cmrs[k] or mrs[k]
Took(t, id) ==
  /\ held' = [held EXCEPT ![t] = @ \cup {Hold(op[t], k[t] + 1, NextChunk(t), id)}]
  /\ k' = [k EXCEPT ![t] = @ + 1]
  /\ UNCHANGED <<cacheOn, open, msg, dest, op, pend, rel, closing>>

\* rds_reg_cache_get up to the call of ofi_mr_cache_search
CacheGet(t) ==
  /\ AtChunk(t)
  /\ cacheOn
  /\ regDest' = dest[t]
  /\ want' = [want EXCEPT ![t] = NextChunk(t)]
  /\ Goto(t, "search")
  /\ UNCHANGED <<cacheVars, kernel, regEp, ent, flist, lruToo, after, sendVars>>

\* rds_reg_cache_get after a successful search
CacheGot(t) ==
  /\ pc[t] = "ret"
  /\ regDest' = NoDest
  /\ Took(t, ent[t])
  /\ SearchReturns(t)
  /\ Goto(t, "chunk")
  /\ UNCHANGED <<cacheVars, kernel, regEp>>

\* rds_reg_internal: the endpoint's own socket, a cookie for this chunk only
RegInternal(t) ==
  /\ AtChunk(t)
  /\ ~cacheOn
  /\ \E c \in Cookies :
       /\ kernel[c] = NoReg
       /\ \A d \in Cookies : kernel[d] = NoReg => c <= d
       /\ kernel' = [kernel EXCEPT ![c] = Registration(NextChunk(t), t, dest[t])]
       /\ Took(t, c)
  /\ UNCHANGED <<cacheVars, regEp, regDest, pc, findVars>>

CallReturns(t) ==
  /\ msg' = [msg EXCEPT ![t] = <<>>]
  /\ dest' = [dest EXCEPT ![t] = NoDest]
  /\ op' = [op EXCEPT ![t] = 0]
  /\ k' = [k EXCEPT ![t] = 0]

\* Mutant: the chunk that failed keeps the registrations made before it.
ErrUnregKeeps(t) ==
  /\ CallReturns(t)
  /\ Goto(t, "put")
  /\ UNCHANGED <<cacheVars, kernel, regEp, cacheOn, open, held, pend, rel, closing>>

\* err_unreg: give back what was registered so far
ErrUnreg(t) ==
  /\ rel' = [rel EXCEPT ![t] = {op[t]}]
  /\ CallReturns(t)
  /\ Goto(t, "put")
  /\ UNCHANGED <<cacheVars, kernel, regEp, cacheOn, open, held, pend, closing>>

\* a chunk cannot be registered
RegFails(t) ==
  /\ \/ pc[t] = "fail" /\ regDest' = NoDest /\ SearchReturns(t)
     \/ AtChunk(t) /\ ~cacheOn /\ "kernel" \in Faults /\ UNCHANGED <<regDest, findVars>>
  /\ ErrUnreg(t)

\* the segment the RTS carries for a chunk
Segment(h) == [cookie |-> CookieOf(h), off |-> 0, len |-> Len1(h.iov)]

AllGot(t) == pc[t] = "chunk" /\ k[t] = Len(msg[t])

\* the RTS is on its way; the pending operation owns the registrations
PostRts(t) ==
  /\ AllGot(t)
  /\ pend' = [pend EXCEPT ![t] = @ \cup {op[t]}]
  /\ CallReturns(t)
  /\ Goto(t, "idle")
  /\ UNCHANGED <<cacheVars, kernel, regEp, regDest, findVars, cacheOn, open, held, rel, closing>>

\* no pending entry, a full ring or a refused sendmsg
PostFails(t) ==
  /\ AllGot(t)
  /\ "rts" \in Faults
  /\ ErrUnreg(t)
  /\ UNCHANGED <<regDest, findVars>>

-----------------------------------------------------------------------------
(* Release *)

\* the FIN of a send: rds_pending_release_mrs
Fin(t) ==
  /\ pc[t] = "idle"
  /\ \E o \in pend[t] :
       /\ rel' = [rel EXCEPT ![t] = {o}]
       /\ pend' = [pend EXCEPT ![t] = @ \ {o}]
  /\ Goto(t, "put")
  /\ UNCHANGED <<cacheVars, kernel, regEp, regDest, findVars, cacheOn, open, callVars, held, closing>>

ToPut(t) == {h \in held[t] : h.op \in rel[t]}

Before(g, h) == g.op < h.op \/ (g.op = h.op /\ g.n < h.n)

\* rds_reg_cache_put, or rds_mr_put of the only reference, of one registration
Put(t) ==
  /\ pc[t] = "put"
  /\ \E h \in ToPut(t) :
       /\ \A g \in ToPut(t) : ~Before(g, h)
       /\ held' = [held EXCEPT ![t] = @ \ {h}]
       /\ IF cacheOn
          THEN CacheDelete(t, h.id, "put") /\ UNCHANGED kernel
          ELSE kernel' = KernelFree(kernel, t, h.id) /\ UNCHANGED <<cacheVars, pc, findVars>>
  /\ UNCHANGED <<regEp, regDest, cacheOn, open, callVars, pend, rel, closing>>

PutDone(t) ==
  /\ pc[t] = "put"
  /\ ToPut(t) = {}
  /\ ~closing[t]
  /\ rel' = [rel EXCEPT ![t] = {}]
  /\ Goto(t, "idle")
  /\ UNCHANGED <<cacheVars, kernel, regEp, regDest, findVars, cacheOn, open, callVars, held, pend, closing>>

-----------------------------------------------------------------------------
(* Endpoints and the domain *)

\* FI_ENABLE lends the socket of the first endpoint
EpEnable(t) ==
  /\ pc[t] = "off"
  /\ open
  /\ LenderLast => (regEp # NoEp \/ \A u \in Eps : pc[u] = "off")
  /\ regEp' = IF regEp = NoEp THEN t ELSE regEp
  /\ Goto(t, "idle")
  /\ UNCHANGED <<cacheVars, kernel, regDest, findVars, sendVars>>

\* rds_ep_close up to rds_ep_flush_lists, which releases what pending operations hold
EpClose(t) ==
  /\ pc[t] = "idle"
  /\ (LenderLast /\ regEp = t) => \A u \in Eps \ {t} : pc[u] \in {"off", "closed"}
  /\ regEp' = IF regEp = t THEN NoEp ELSE regEp
  /\ rel' = [rel EXCEPT ![t] = pend[t]]
  /\ pend' = [pend EXCEPT ![t] = {}]
  /\ closing' = [closing EXCEPT ![t] = TRUE]
  /\ Goto(t, "put")
  /\ UNCHANGED <<cacheVars, kernel, regDest, findVars, cacheOn, open, callVars, held>>

\* closing the socket drops every registration made on it
CloseSocket(t) ==
  /\ pc[t] = "put"
  /\ ToPut(t) = {}
  /\ closing[t]
  /\ kernel' = [c \in Cookies |-> IF kernel[c].sock = t THEN NoReg ELSE kernel[c]]
  /\ rel' = [rel EXCEPT ![t] = {}]
  /\ Goto(t, "closed")
  /\ UNCHANGED <<cacheVars, regEp, regDest, findVars, cacheOn, open, callVars, held, pend, closing>>

\* rds_domain_close after every endpoint: ofi_mr_cache_cleanup flushes until nothing is
\* left, and there is no endpoint to unpin with.
DomainClose ==
  /\ open
  /\ \A t \in Eps : pc[t] \in {"off", "closed"}
  /\ open' = FALSE
  /\ slot' = [e \in Slots |-> IF e \in lru \cup dead THEN FreeSlot(slot[e].cookie) ELSE slot[e]]
  /\ count' = Uncached(count, lru)
  /\ lru' = {} /\ ahead' = {} /\ dead' = {}
  /\ UNCHANGED <<kernel, regEp, regDest, pc, findVars, cacheOn, callVars, held, pend, rel, closing>>

\* The application may give back a page no send in progress reads.
InUse(p) ==
  \E t \in Eps :
    \/ \E h \in held[t] : p \in PagesOf(h.iov)
    \/ \E n \in DOMAIN msg[t] : p \in PagesOf(msg[t][n])

UnmapPage ==
  /\ open
  /\ \E p \in Pages : ~InUse(p) /\ Unmap(p)
  /\ UNCHANGED sendVars

Call(t) ==
  \/ CacheStep(t) /\ UNCHANGED sendVars
  \/ CacheGet(t) \/ CacheGot(t) \/ RegInternal(t) \/ RegFails(t)
  \/ PostRts(t) \/ PostFails(t)
  \/ Put(t) \/ PutDone(t) \/ CloseSocket(t)

Start(t) == SendRndzv(t) \/ Fin(t) \/ EpEnable(t) \/ EpClose(t)

Next ==
  \/ \E t \in Eps : Call(t) \/ Start(t)
  \/ DomainClose
  \/ UnmapPage

Spec == Init /\ [][Next]_vars

\* A call that runs is scheduled again; nobody has to start one.
FairSpec == Spec /\ \A t \in Eps : WF_vars(Call(t))

-----------------------------------------------------------------------------
(* Properties *)

Labels == {"off", "idle", "chunk", "search", "lookup", "create", "insert", "ret",
           "flush", "free", "fail", "put", "closed"}

\* The state of the cache, the kernel and the endpoints has its type, cookies in pool slots
\* included, and no counter runs below zero (rds_mr.c:198, util_mr_cache.c:142, 253, 297).
MrTypeOK ==
  /\ slot \in [Slots -> [used : BOOLEAN, iov : Iovs, use : Nat, node : BOOLEAN, cookie : Cookies]]
  /\ lru \subseteq Slots /\ ahead \subseteq lru \X lru /\ dead \subseteq Slots
  /\ count \in [cnt : Nat, size : Nat, ucnt : Nat, usize : Nat]
  /\ \A c \in Cookies : kernel[c] # NoReg =>
       kernel[c].iov \in Iovs /\ kernel[c].pages \subseteq Pages /\ kernel[c].sock \in Eps
  /\ regEp \in Eps \cup {NoEp}
  /\ pc \in [Eps -> Labels]
  /\ \A t \in Eps : flist[t] \subseteq Slots /\ (pc[t] = "free" <=> flist[t] # {})
  /\ \A t \in Eps : \A h \in held[t] : h.iov \in Iovs

\* the references of endpoint t: one per registered chunk, and the one a search is about
\* to return
References(t) ==
  held[t] \cup (IF pc[t] \in {"insert", "ret"} THEN {Hold(0, 0, NoIov, ent[t])} ELSE {})

Holders(e) == UNION {{t} \X {h \in References(t) : h.id = e} : t \in Eps}

Freeing == UNION {flist[t] : t \in Eps}

\* use_cnt of an entry is the number of chunks, over all sends of all endpoints, that hold
\* it, whatever searches, conflicts, error paths and FINs interleave
\* (util_mr_cache.c:251, 299, 418; rds_msg.c:119-125, 988-994).
UseCountsExact ==
  cacheOn => \A e \in Slots : (slot[e].used /\ e \notin Freeing) => slot[e].use = Cardinality(Holders(e))

Orphans == {e \in Slots : slot[e].used /\ ~slot[e].node /\ slot[e].use > 0 /\ e \notin Freeing
                          /\ \A t \in Eps : ~(pc[t] = "insert" /\ ent[t] = e)}

\* Every entry is on exactly the list its state asks for, no list names a freed entry, and
\* the four counters are exact, so that the asserts of ofi_mr_cache_cleanup hold when the
\* domain closes (util_mr_cache.c:127-158, 243-262, 529-532).
CacheListsExact ==
  /\ lru = {e \in Tree : slot[e].use = 0}
  /\ \A e, f \in lru : e # f => (<<e, f>> \in ahead <=> <<f, e>> \notin ahead)
  /\ dead = {e \in Slots : slot[e].used /\ ~slot[e].node /\ slot[e].use = 0 /\ e \notin Freeing}
  /\ count = [cnt |-> Cardinality(Tree), size |-> SizeOf(Tree),
              ucnt |-> Cardinality(Orphans), usize |-> SizeOf(Orphans)]
  /\ \A t, u \in Eps : t # u => flist[t] \cap flist[u] = {}
  /\ ~open => count = [cnt |-> 0, size |-> 0, ucnt |-> 0, usize |-> 0]

\* No two entries of the tree are nested: the comparison the tree is searched with orders
\* only such entries (util_mr_cache.c:56-72), and two endpoints may register the same or
\* nested buffers at once (264-272).
TreeOrdered == \A e, f \in Tree : FindWithin(slot[e].iov, slot[f].iov) = 0 => e = f

\* The cookie of every chunk a send in progress holds is registered, covers the chunk, and
\* pins the pages the application has there now: "a recycled address never returns a stale
\* cookie" (rds_mr.c:166-169).
CookieCoversChunk ==
  \A t \in Eps : \A h \in held[t] \ ToPut(t) :
    LET r == kernel[CookieOf(h)] IN
    r # NoReg /\ IovWithin(h.iov, r.iov) /\ PagesOf(h.iov) \subseteq r.pages

\* Operations of t that will give back what they hold: the FIN is to come, err_unreg or
\* rds_pending_release_mrs runs, or the call is still registering.
LiveOps(t) == pend[t] \cup rel[t] \cup {op[t]}

\* An entry the cache frees by itself, or that a chunk of a live operation or a search holds.
EntryKept(e) ==
  \/ e \in lru \cup dead \cup Freeing
  \/ \E t \in Eps : \E h \in References(t) : h.id = e /\ h.op \in LiveOps(t) \cup {0}

\* Every chunk held belongs to an operation that will give it back, and every registration
\* in the kernel has one owner that will unpin it, a pool entry that something keeps or such
\* a chunk, until its socket is being closed; none outlives its socket
\* (rds_mr.c:133-139, 153-160, 203-212; rds_msg.c:988; rds_ep.c:254).
NothingLeaks ==
  /\ \A t \in Eps : \A h \in held[t] : h.op \in LiveOps(t)
  /\ cacheOn => \A e \in Slots : slot[e].used => EntryKept(e)
  /\ \A c \in Cookies : (kernel[c] # NoReg /\ ~(closing[kernel[c].sock] /\ pc[kernel[c].sock] # "closed")) =>
       IF cacheOn
       THEN Cardinality({e \in Slots : slot[e].used /\ slot[e].cookie = c}) = 1
       ELSE Cardinality({x \in UNION {{t} \X held[t] : t \in Eps} : x[2].id = c}) = 1

AtRest(t) == pc[t] \in {"off", "idle", "closed"}

\* A call of an endpoint returns, unless endpoints start new calls for ever or the kernel
\* answers its registrations with EAGAIN for ever: but for that answer, which nothing
\* bounds, the search restarts only after another endpoint inserted an entry or a flush
\* freed one (util_mr_cache.c:383-412).
CallsReturn ==
  \A t \in Eps :
    \/ []<>AtRest(t)
    \/ []<><<\E u \in Eps : Start(u)>>_vars
    \/ []<><<CreateAgain(t)>>_vars

\* A call returns whatever the kernel answers, unless endpoints start new calls for ever:
\* false where the kernel keeps answering EAGAIN.
ReturnsAnyway ==
  \A t \in Eps : []<>AtRest(t) \/ []<><<\E u \in Eps : Start(u)>>_vars

\* The receiver, which reads len bytes at off behind the cookie, reads the chunk the
\* application sent (rds_msg.c:905-907).
SegmentNamesChunk ==
  \A t \in Eps : \A h \in held[t] :
    h.op \in pend[t] => kernel[Segment(h).cookie].iov.lo + Segment(h).off = h.iov.lo

\* A region is registered for the destination of the send that asked for it
\* (rds_mr.c:184-194, 288-294).
RegisteredForDest ==
  \A t \in Eps : pc[t] = "insert" => kernel[slot[ent[t]].cookie].dest = dest[t]
=============================================================================
