------------------------------ MODULE RdsMrCache -----------------------------
(***************************************************************************)
(* The registration cache of a domain: libfabric's util_mr_cache.c with    *)
(* the two callbacks of rds_mr.c that pin and unpin memory in the kernel.  *)
(*                                                                         *)
(* Endpoints share the cache, each under its own ep->lock.  Every stretch  *)
(* of code under mm_lock is one step; between two of them the other        *)
(* endpoints and the memory monitor run, in particular while a new entry   *)
(* is registered and while evicted entries are freed.                      *)
(*                                                                         *)
(* Memory is a row of pages; an iov is an interval of them.  A tree node   *)
(* is found by an interval comparison (util_mr_find_within), whose answer  *)
(* is 0 for any two nested intervals: when several entries match, which    *)
(* one the red-black tree returns depends on its shape, hence \E.          *)
(***************************************************************************)
EXTENDS RdsMrTypes, FiniteSets

CONSTANTS
  MaxCnt,    \* cached_max_cnt
  MaxSize,   \* cached_max_size, in pages
  Faults,    \* subset of {"pool", "kernel", "again", "rbnode", "subscribe", "rts"}
  Reissue    \* may the kernel reissue a cookie that a freed pool slot still holds?

Cookies == 1 .. NSlots + 1
NoEp == "no endpoint"
NoDest == "no dest"
NoReg == [iov |-> NoIov, pages |-> {}, sock |-> NoEp, dest |-> NoDest]

ASSUME MrAssumption ==
  /\ NPages \in Nat \ {0} /\ NSlots \in Nat /\ MaxCnt \in Nat /\ MaxSize \in Nat
  /\ NoEp \notin Eps /\ Reissue \in BOOLEAN

VARIABLES
  slot,      \* [Slots -> struct ofi_mr_entry with its struct rds_cached_mr]
  lru,       \* the entries on lru_list
  ahead,     \* its order: <<e, f>> when e comes before f
  dead,      \* dead_region_list; its order only decides which entry is freed first
  count,     \* cached_cnt, cached_size, uncached_cnt, uncached_size
  kernel,    \* [Cookies -> the registration behind the cookie, or NoReg]
  regEp,     \* domain->reg_ep, whose socket the callbacks use
  regDest,   \* domain->reg_dest
  pc,        \* [Eps -> where the endpoint's call is]
  want,      \* [Eps -> the iov looked up]
  ent,       \* [Eps -> the entry in hand]
  flist,     \* [Eps -> entries taken off the lists, to be freed without mm_lock]
  lruToo,    \* [Eps -> flush_lru]
  after      \* [Eps -> where the call goes on when flist is empty]

cacheVars == <<slot, lru, ahead, dead, count>>
findVars == <<want, ent, flist, lruToo, after>>
mrVars == <<cacheVars, kernel, regEp, regDest, pc, findVars>>

FreeSlot(c) == [used |-> FALSE, iov |-> NoIov, use |-> 0, node |-> FALSE, cookie |-> c]

CacheInit ==
  /\ slot = [e \in Slots |-> FreeSlot(e)]
  /\ lru = {} /\ ahead = {} /\ dead = {}
  /\ count = [cnt |-> 0, size |-> 0, ucnt |-> 0, usize |-> 0]
  /\ kernel = [c \in Cookies |-> NoReg]
  /\ regEp = NoEp /\ regDest = NoDest
  /\ pc = [t \in Eps |-> "off"]
  /\ want = [t \in Eps |-> NoIov]
  /\ ent = [t \in Eps |-> 0]
  /\ flist = [t \in Eps |-> {}]
  /\ lruToo = [t \in Eps |-> FALSE]
  /\ after = [t \in Eps |-> "none"]

\* the variables of a search are gone when it returns
SearchReturns(t) ==
  /\ want' = [want EXCEPT ![t] = NoIov]
  /\ ent' = [ent EXCEPT ![t] = 0]
  /\ lruToo' = [lruToo EXCEPT ![t] = FALSE]
  /\ after' = [after EXCEPT ![t] = "none"]
  /\ UNCHANGED flist

Goto(t, label) == pc' = [pc EXCEPT ![t] = label]

-----------------------------------------------------------------------------
(* Intervals and the tree *)

Len1(i) == i.hi - i.lo + 1
PagesOf(i) == i.lo .. i.hi

ShiftedLeft(i, j) == i.lo < j.lo /\ i.hi < j.hi
ShiftedRight(i, j) == i.lo > j.lo /\ i.hi > j.hi
IovWithin(i, j) == i.lo >= j.lo /\ i.hi <= j.hi

\* util_mr_find_within and util_mr_find_overlap: the sign of key i against node j
FindWithin(i, j) == IF ShiftedLeft(i, j) THEN -1 ELSE IF ShiftedRight(i, j) THEN 1 ELSE 0
FindOverlap(i, j) == IF i.hi < j.lo THEN -1 ELSE IF i.lo > j.hi THEN 1 ELSE 0

Tree == {e \in Slots : slot[e].node}
Matches(i) == {e \in Tree : FindWithin(i, slot[e].iov) = 0}

Full(c) == c.cnt >= MaxCnt \/ c.size >= MaxSize

\* the pages of the entries of S, counted once per entry
SizeOf(S) == Cardinality(UNION {{e} \X PagesOf(slot[e].iov) : e \in S})

\* Mutant: the size of an evicted entry is not taken off cached_size.
UncachedCountOnly(c, S) == [c EXCEPT !.cnt = @ - Cardinality(S)]

\* util_mr_uncache_entry_storage for every entry of S
Uncached(c, S) == [c EXCEPT !.cnt = @ - Cardinality(S), !.size = @ - SizeOf(S)]

\* Mutant: nobody counts the entries in use outside the tree.
OrphanedUncounted(c, S) == c

\* an entry that leaves the tree while in use is counted until its last put
Orphaned(c, S) == [c EXCEPT !.ucnt = @ + Cardinality(S), !.usize = @ + SizeOf(S)]

OutOfTree(S) == [e \in Slots |-> IF e \in S THEN [slot[e] EXCEPT !.node = FALSE] ELSE slot[e]]

\* dlist_remove and dlist_insert_tail on lru_list
LruRemove(S) ==
  /\ lru' = lru \ S
  /\ ahead' = {p \in ahead : p[1] \notin S /\ p[2] \notin S}

LruInsertTail(e) ==
  /\ lru' = lru \cup {e}
  /\ ahead' = ahead \cup (lru \X {e})

\* util_mr_uncache_entry for every entry of S
UncacheEntries(S) ==
  LET idle == {e \in S : slot[e].use = 0} IN
  /\ slot' = OutOfTree(S)
  /\ LruRemove(idle)
  /\ dead' = dead \cup idle
  /\ count' = Orphaned(Uncached(count, S), S \ idle)

-----------------------------------------------------------------------------
(* The kernel, and the callbacks of rds_mr.c *)

Registration(i, sock, dest) == [iov |-> i, pages |-> PagesOf(i), sock |-> sock, dest |-> dest]

\* RDS_FREE_MR finds a cookie among those of its own socket only
KernelFree(k, sock, c) == IF k[c] # NoReg /\ k[c].sock = sock THEN [k EXCEPT ![c] = NoReg] ELSE k

DeleteRegion(k, c) == IF regEp # NoEp THEN KernelFree(k, regEp, c) ELSE k

\* A cookie no other pool slot remembers.  Names of cookies do not matter, so the kernel
\* may be taken to give the slot its own old cookie again whenever it can.
Unshared(e) == {c \in Cookies : kernel[c] = NoReg /\ \A f \in Slots \ {e} : slot[f].cookie # c}

Issued(e) ==
  CASE Reissue -> {c \in Cookies : kernel[c] = NoReg}
    [] ~Reissue /\ slot[e].cookie \in Unshared(e) -> {slot[e].cookie}
    [] OTHER -> {c \in Unshared(e) : \A d \in Unshared(e) : c <= d}

-----------------------------------------------------------------------------
(* ofi_mr_cache_search *)

\* Lines 384-390: full, or regions left to free, so flush before the lookup.
SearchFlush(t) ==
  /\ pc[t] = "search"
  /\ Full(count) \/ dead # {}
  /\ lruToo' = [lruToo EXCEPT ![t] = Full(count)]
  /\ after' = [after EXCEPT ![t] = "lookup"]
  /\ Goto(t, "flush")
  /\ UNCHANGED <<cacheVars, kernel, regEp, regDest, want, ent, flist>>

AtLookup(t) == pc[t] = "lookup" \/ (pc[t] = "search" /\ ~Full(count) /\ dead = {})

\* Mutant: an entry that is already in use is handed out without another reference.
HitUncounted(t, e) ==
  /\ slot' = [slot EXCEPT ![e].use = 1]
  /\ LruRemove({e})

\* use_cnt++, and off the lru_list
HitEntry(t, e) ==
  /\ slot' = [slot EXCEPT ![e].use = @ + 1]
  /\ LruRemove(IF slot[e].use = 0 THEN {e} ELSE {})

Hit(t) ==
  /\ AtLookup(t)
  /\ \E e \in Matches(want[t]) :
       /\ IovWithin(want[t], slot[e].iov)
       /\ HitEntry(t, e)
       /\ ent' = [ent EXCEPT ![t] = e]
  /\ Goto(t, "ret")
  /\ UNCHANGED <<dead, count, kernel, regEp, regDest, want, flist, lruToo, after>>

\* Whatever is nested in the new region is purged from the tree.
Miss(t) ==
  /\ AtLookup(t)
  /\ Matches(want[t]) # {} => \E e \in Matches(want[t]) : ~IovWithin(want[t], slot[e].iov)
  /\ UncacheEntries(Matches(want[t]))
  /\ Goto(t, "create")
  /\ UNCHANGED <<kernel, regEp, regDest, findVars>>

-----------------------------------------------------------------------------
(* util_mr_cache_create *)

FreeSlots == {e \in Slots : ~slot[e].used}

\* the pool's next entry
PoolHead(e) == e \in FreeSlots /\ \A f \in FreeSlots : e <= f

NewEntry(t, c) == [used |-> TRUE, iov |-> want[t], use |-> 1, node |-> FALSE, cookie |-> c]

Create(t) ==
  /\ pc[t] = "create"
  /\ regEp # NoEp
  /\ \E e \in Slots :
       /\ PoolHead(e)
       /\ \E c \in Issued(e) :
            /\ kernel' = [kernel EXCEPT ![c] = Registration(want[t], regEp, regDest)]
            /\ slot' = [slot EXCEPT ![e] = NewEntry(t, c)]
       /\ ent' = [ent EXCEPT ![t] = e]
  /\ Goto(t, "insert")
  /\ UNCHANGED <<lru, ahead, dead, count, regEp, regDest, want, flist, lruToo, after>>

\* Back in the search with an error: ofi_mr_cache_flush(cache, true), then again.
CreateError(t) ==
  /\ lruToo' = [lruToo EXCEPT ![t] = TRUE]
  /\ after' = [after EXCEPT ![t] = "search"]
  /\ Goto(t, "flush")
  /\ UNCHANGED <<lru, ahead, dead, count, regEp, regDest, want, ent, flist>>

CreateNoEntry(t) ==
  /\ pc[t] = "create"
  /\ "pool" \in Faults \/ FreeSlots = {}
  /\ CreateError(t)
  /\ UNCHANGED <<slot, kernel>>

\* add_region fails; util_mr_free_entry still calls delete_region, with the cookie the
\* pool slot had from its previous use.
CreateRefused(t) ==
  /\ pc[t] = "create"
  /\ "kernel" \in Faults \/ regEp = NoEp
  /\ \E e \in Slots : PoolHead(e) /\ kernel' = DeleteRegion(kernel, slot[e].cookie)
  /\ CreateError(t)
  /\ UNCHANGED slot

\* add_region returns the kernel's -EAGAIN as it is: ofi_mr_cache_search takes it for a
\* conflict and restarts at once, with no flush and no limit.
CreateAgain(t) ==
  /\ pc[t] = "create"
  /\ "again" \in Faults
  /\ regEp # NoEp
  /\ \E e \in Slots : PoolHead(e) /\ kernel' = DeleteRegion(kernel, slot[e].cookie)
  /\ Goto(t, "search")
  /\ UNCHANGED <<cacheVars, regEp, regDest, findVars>>

\* no rbnode: the fresh registration is dropped again
CreateNoNode(t) ==
  /\ pc[t] = "create"
  /\ "rbnode" \in Faults
  /\ regEp # NoEp
  /\ \E e \in Slots :
       /\ PoolHead(e)
       /\ \E c \in Issued(e) : slot' = [slot EXCEPT ![e] = FreeSlot(c)]
  /\ CreateError(t)
  /\ UNCHANGED kernel

\* Mutant: insert without looking for what another endpoint inserted meanwhile.
ConflictNever(t) == FALSE

\* Lines 318-322, under mm_lock again
Conflict(t) == Matches(slot[ent[t]].iov) # {}

\* -FI_EAGAIN: free the entry and restart the search
InsertConflict(t) ==
  /\ pc[t] = "insert"
  /\ Conflict(t)
  /\ flist' = [flist EXCEPT ![t] = {ent[t]}]
  /\ after' = [after EXCEPT ![t] = "search"]
  /\ Goto(t, "free")
  /\ UNCHANGED <<cacheVars, kernel, regEp, regDest, want, ent, lruToo>>

\* no room in the cache: a registration for this caller alone
InsertFull(t) ==
  /\ pc[t] = "insert"
  /\ ~Conflict(t)
  /\ Full(count)
  /\ count' = Orphaned(count, {ent[t]})
  /\ Goto(t, "ret")
  /\ UNCHANGED <<slot, lru, ahead, dead, kernel, regEp, regDest, findVars>>

Cached(c, e) == [c EXCEPT !.cnt = @ + 1, !.size = @ + Len1(slot[e].iov)]

Insert(t) ==
  /\ pc[t] = "insert"
  /\ ~Conflict(t)
  /\ ~Full(count)
  /\ slot' = [slot EXCEPT ![ent[t]].node = TRUE]
  /\ count' = Cached(count, ent[t])
  /\ Goto(t, "ret")
  /\ UNCHANGED <<lru, ahead, dead, kernel, regEp, regDest, findVars>>

\* the monitor cannot watch the region: out of the tree again, kept for this caller
InsertUnwatched(t) ==
  /\ pc[t] = "insert"
  /\ "subscribe" \in Faults
  /\ ~Conflict(t)
  /\ ~Full(count)
  /\ count' = Orphaned(Uncached(Cached(count, ent[t]), {ent[t]}), {ent[t]})
  /\ Goto(t, "ret")
  /\ UNCHANGED <<slot, lru, ahead, dead, kernel, regEp, regDest, findVars>>

-----------------------------------------------------------------------------
(* ofi_mr_cache_flush, util_mr_free_entry, ofi_mr_cache_delete, ofi_mr_cache_notify *)

\* The loop pops from the front until the cache is no longer full: an entry goes if it is
\* the first one, or if the cache is still full without all those ahead of it.
Evicted(flush_lru) ==
  {e \in lru : flush_lru /\ LET front == {f \in lru : <<f, e>> \in ahead}
                            IN  front = {} \/ Full(Uncached(count, front))}

\* Mutant: a failed registration is retried whether or not the flush freed anything.
FlushNextAlways(t, taken) == after[t]

\* where the call goes on; the search gives up when there was nothing to free
FlushNext(t, taken) == IF taken = {} /\ after[t] = "search" THEN "fail" ELSE after[t]

Flush(t) ==
  /\ pc[t] = "flush"
  /\ LET old == Evicted(lruToo[t])
         taken == dead \cup old
     IN  /\ slot' = OutOfTree(old)
         /\ LruRemove(old)
         /\ count' = Uncached(count, old)
         /\ dead' = {}
         /\ flist' = [flist EXCEPT ![t] = taken]
         /\ after' = [after EXCEPT ![t] = IF taken = {} THEN "none" ELSE @]
         /\ Goto(t, IF taken = {} THEN FlushNext(t, taken) ELSE "free")
         /\ lruToo' = [lruToo EXCEPT ![t] = FALSE]
  /\ UNCHANGED <<kernel, regEp, regDest, want, ent>>

\* util_mr_free_entry without mm_lock: unpin, then back to the pool
FreeEntry(t) ==
  /\ pc[t] = "free"
  /\ \E e \in flist[t] :
       /\ \A f \in flist[t] : e <= f
       /\ kernel' = DeleteRegion(kernel, slot[e].cookie)
       /\ slot' = [slot EXCEPT ![e] = FreeSlot(slot[e].cookie)]
       /\ flist' = [flist EXCEPT ![t] = @ \ {e}]
       /\ Goto(t, IF flist[t] = {e} THEN after[t] ELSE "free")
       /\ after' = [after EXCEPT ![t] = IF flist[t] = {e} THEN "none" ELSE @]
       /\ ent' = [ent EXCEPT ![t] = 0]
  /\ UNCHANGED <<lru, ahead, dead, count, regEp, regDest, want, lruToo>>

CacheStep(t) ==
  \/ SearchFlush(t) \/ Hit(t) \/ Miss(t)
  \/ Create(t) \/ CreateNoEntry(t) \/ CreateRefused(t) \/ CreateAgain(t) \/ CreateNoNode(t)
  \/ InsertConflict(t) \/ InsertFull(t) \/ Insert(t) \/ InsertUnwatched(t)
  \/ Flush(t) \/ FreeEntry(t)

\* ofi_mr_cache_delete: one reference less; the last one frees an entry that is out of
\* the tree, and goes on at next after that.
CacheDelete(t, e, next) ==
  LET last == slot[e].use = 1
      gone == last /\ ~slot[e].node
  IN  /\ slot' = [slot EXCEPT ![e].use = @ - 1]
      /\ IF last /\ slot[e].node THEN LruInsertTail(e) ELSE UNCHANGED <<lru, ahead>>
      /\ count' = IF gone THEN [count EXCEPT !.ucnt = @ - 1, !.usize = @ - Len1(slot[e].iov)] ELSE count
      /\ flist' = [flist EXCEPT ![t] = IF gone THEN {e} ELSE {}]
      /\ after' = [after EXCEPT ![t] = IF gone THEN next ELSE "none"]
      /\ Goto(t, IF gone THEN "free" ELSE next)
      /\ UNCHANGED <<dead, want, ent, lruToo>>

\* Mutant: an entry in use is left in the tree.
NotifiedIdle(p) == {e \in Tree : FindOverlap([lo |-> p, hi |-> p], slot[e].iov) = 0 /\ slot[e].use = 0}

\* the entries ofi_mr_cache_notify removes for page p
Notified(p) == {e \in Tree : FindOverlap([lo |-> p, hi |-> p], slot[e].iov) = 0}

\* The application gives page p back; the monitor tells the cache first.  A registration
\* that still covers p pins the old page.
Unmap(p) ==
  /\ UncacheEntries(Notified(p))
  /\ kernel' = [c \in Cookies |->
                  IF kernel[c] = NoReg THEN NoReg ELSE [kernel[c] EXCEPT !.pages = @ \ {p}]]
  /\ UNCHANGED <<regEp, regDest, pc, findVars>>
=============================================================================
