---------------------------- MODULE RdsMrCookies -----------------------------
(***************************************************************************)
(* The cookies of RdsMr: what holds of the kernel's registrations, their   *)
(* owners and the chunks of the sends, as relations on values, and how one *)
(* kind of step keeps each.  RdsMrTheorems puts them together.             *)
(*                                                                         *)
(* With the cache, the cookies of the pool entries are distinct, the       *)
(* kernel's registrations are those of the entries in use, all on the      *)
(* socket lent to the domain, and the pages of an entry in the tree are    *)
(* all current.  Without it, a registration belongs to one chunk.          *)
(***************************************************************************)
EXTENDS RdsMrProofs

\* Leaves go to SMT unless they name another prover.
USE SMTT(60)

-----------------------------------------------------------------------------
(* What holds of the kernel, the socket lent and the chunks *)

\* a registration, or none
Regd(r) == r.sock \in Eps
Regs(d) == [iov : Iovs, pages : SUBSET Pages, sock : Eps, dest : {d}]
RegOK(r) == r = NoReg \/ r \in Regs(r.dest)

\* K is a state of the kernel
KTyped(K) == K = [c \in Cookies |-> K[c]] /\ \A c \in Cookies : RegOK(K[c])

HeldIovs(H) == \A t \in Eps : \A h \in H[t] : h.iov \in Iovs

KernelOK ==
  /\ KTyped(kernel)
  /\ regEp \in Eps \cup {NoEp}
  /\ HeldIovs(held)
  /\ \A t \in Eps : pc[t] = "free" => flist[t] # {}

\* the socket lent to the domain is that of an endpoint that is neither off nor closing,
\* and there is one while any endpoint is in use
Lent ==
  /\ regEp # NoEp => pc[regEp] # "off" /\ ~closing[regEp]
  /\ regEp = NoEp => \A t \in Eps : pc[t] = "off" \/ closing[t]

Reg(e) == kernel[slot[e].cookie]

CookiesOwned ==
  /\ \A e, f \in Slots : slot[e].cookie = slot[f].cookie => e = f
  /\ \A e \in Slots : slot[e].used =>
       /\ \E t \in Eps : pc[t] # "off"
       /\ regEp # NoEp => Reg(e).sock = regEp /\ Reg(e).iov = slot[e].iov
  /\ \A c \in Cookies : Regd(kernel[c]) =>
       \/ regEp = kernel[c].sock /\ \E e \in Slots : slot[e].used /\ slot[e].cookie = c
       \/ regEp = NoEp /\ closing[kernel[c].sock] /\ pc[kernel[c].sock] # "closed"

InCall(t) ==
  \/ pc[t] \in {"search", "lookup", "create", "insert", "ret", "flush"}
  \/ pc[t] = "free" /\ after[t] # "put"

\* a search is for the next chunk
Wanted == \A t \in Eps : InCall(t) => k[t] < Len(msg[t]) /\ want[t] = NextChunk(t)

\* entry e covers chunk i, and pins its pages
Covers(e, i) == IovWithin(i, slot[e].iov) /\ PagesOf(i) \subseteq Reg(e).pages

Current ==
  regEp # NoEp =>
    /\ \A e \in Slots : slot[e].node => Reg(e).pages = PagesOf(slot[e].iov)
    /\ \A t \in Eps : \A h \in held[t] : Covers(h.id, h.iov)
    /\ \A t \in Eps : pc[t] \in {"insert", "ret"} => Covers(ent[t], want[t])
    /\ \A t \in Eps : pc[t] = "insert" =>
         slot[ent[t]].iov = want[t] /\ Reg(ent[t]).pages = PagesOf(want[t])

\* without the cache: who holds what for which operation
Owns(t) ==
  /\ pc[t] = "chunk" <=> op[t] # 0
  /\ pc[t] # "put" => rel[t] = {}
  /\ \A h \in held[t] : h.op # 0 /\ h.op \in pend[t] \cup rel[t] \cup {op[t]}

\* the chunk of h is registered on the socket of t, with the pages it has now
Pinned(t, h) ==
  /\ h.id \in Cookies /\ kernel[h.id].sock = t
  /\ kernel[h.id].iov = h.iov /\ PagesOf(h.iov) \subseteq kernel[h.id].pages

PinsOwned ==
  /\ \A t \in Eps : \A h \in held[t] : Pinned(t, h) /\ \A g \in held[t] : g.id = h.id => g = h
  /\ \A c \in Cookies : Regd(kernel[c]) => \E h \in held[kernel[c].sock] : h.id = c

BypassOwned == PinsOwned /\ \A t \in Eps : Owns(t)

CookieInv ==
  /\ ListsInv /\ KernelOK
  /\ cacheOn => Wanted
  /\ LenderLast => Lent
  /\ cacheOn /\ LenderLast /\ ~Reissue => CookiesOwned /\ Current
  /\ ~cacheOn => BypassOwned

-----------------------------------------------------------------------------
(* The kernel's operations *)

\* There is memory, so the interval of an empty entry is one of memory.
LEMMA IovsAll == Intervals = Iovs
<1>1. NoIov \in Iovs
  BY MrAssumption DEF MrAssumption, NoIov, Iovs, Pages
<1> QED BY <1>1, Zenon DEF Intervals

\* An interval of memory has pages of memory.
LEMMA PagesOfIov ==
  ASSUME NEW i \in Iovs
  PROVE  PagesOf(i) \subseteq Pages /\ i.lo \in Nat /\ i.hi \in Nat /\ i.lo <= i.hi
<1>1. NPages \in Nat
  BY MrAssumption DEF MrAssumption
<1>2. i.lo \in Pages /\ i.hi \in Pages /\ i.lo <= i.hi
  BY Zenon DEF Iovs
<1> DEFINE a == i.lo
           b == i.hi
<1>3. a \in 1 .. NPages /\ b \in 1 .. NPages /\ a <= b
  BY <1>2, Zenon DEF Pages
<1> HIDE DEF a, b
<1>4. a .. b \subseteq 1 .. NPages /\ a \in Nat /\ b \in Nat
  BY <1>1, <1>3
<1> QED BY <1>3, <1>4, Zenon DEF a, b, Pages, PagesOf

\* NoReg is no registration.
LEMMA NoRegIs == ~Regd(NoReg) /\ RegOK(NoReg) /\ NoReg.sock = NoEp
<1>1. NoReg.sock = NoEp
  BY Zenon DEF NoReg
<1>2. NoEp \notin Eps
  BY MrAssumption, Zenon DEF MrAssumption
<1> QED BY <1>1, <1>2, Zenon DEF Regd, RegOK

\* Every other state of a cookie is one.
LEMMA RegdIs ==
  ASSUME NEW r, RegOK(r)
  PROVE  r # NoReg <=> Regd(r)
BY NoRegIs, Zenon DEF RegOK, Regs, Regd

\* cookie c now stands for interval i, registered on socket s
Added(c, i, s) ==
  /\ KTyped(kernel')
  /\ kernel'[c].iov = i /\ kernel'[c].pages = PagesOf(i) /\ kernel'[c].sock = s
  /\ \A b \in Cookies : b # c => kernel'[b] = kernel[b]

\* RDS_GET_MR.
LEMMA IssueIs ==
  ASSUME KTyped(kernel), NEW c \in Cookies, NEW i \in Iovs, NEW s \in Eps, NEW d,
         kernel' = [kernel EXCEPT ![c] = Registration(i, s, d)]
  PROVE  Added(c, i, s)
<1> DEFINE r == Registration(i, s, d)
<1>1. r.iov = i /\ r.pages = PagesOf(i) /\ r.sock = s /\ r.dest = d
  BY Zenon DEF Registration
<1>2. r \in Regs(d)
  BY PagesOfIov, Zenon DEF Registration, Regs
<1>3. RegOK(r) /\ Regd(r)
  BY <1>1, <1>2, Zenon DEF RegOK, Regd
<1>4. kernel = [b \in Cookies |-> kernel[b]] /\ kernel' = [kernel EXCEPT ![c] = r]
  BY Zenon DEF KTyped
<1> HIDE DEF r
<1>5. /\ kernel'[c] = r /\ \A b \in Cookies : b # c => kernel'[b] = kernel[b]
      /\ kernel' = [b \in Cookies |-> kernel'[b]]
  BY <1>4, Zenon
<1>6. KTyped(kernel')
  BY <1>3, <1>5, Zenon DEF KTyped
<1> QED BY <1>1, <1>5, <1>6, Zenon DEF Added

\* RDS_FREE_MR.
LEMMA FreeIs ==
  ASSUME NEW K, KTyped(K), NEW c \in Cookies, NEW s
  PROVE  LET K2 == KernelFree(K, s, c) IN
         /\ KTyped(K2)
         /\ Regd(K[c]) /\ K[c].sock = s => K2[c] = NoReg
         /\ ~Regd(K[c]) \/ K[c].sock # s => K2 = K
         /\ \A b \in Cookies : b # c => K2[b] = K[b]
<1>1. Regd(K[c]) <=> K[c] # NoReg
  BY RegdIs, Zenon DEF KTyped
<1>2. CASE Regd(K[c]) /\ K[c].sock = s
  <2> DEFINE K2 == [K EXCEPT ![c] = NoReg]
  <2>1. KernelFree(K, s, c) = K2
    BY <1>1, <1>2, Zenon DEF KernelFree
  <2>2. K = [b \in Cookies |-> K[b]]
    BY Zenon DEF KTyped
  <2>3. K2[c] = NoReg /\ (\A b \in Cookies : b # c => K2[b] = K[b]) /\ K2 = [b \in Cookies |-> K2[b]]
    BY <2>2, Zenon
  <2> HIDE DEF K2
  <2>4. KTyped(K2)
    BY <2>3, NoRegIs, Zenon DEF KTyped
  <2> QED BY <1>2, <2>1, <2>3, <2>4, Zenon
<1>3. CASE ~(Regd(K[c]) /\ K[c].sock = s)
  <2>1. KernelFree(K, s, c) = K
    BY <1>1, <1>3, Zenon DEF KernelFree
  <2> QED BY <1>3, <2>1, Zenon
<1> QED BY <1>2, <1>3, Zenon

\* delete_region.
LEMMA DeleteIs ==
  ASSUME NEW c \in Cookies, KTyped(kernel)
  PROVE  LET K2 == DeleteRegion(kernel, c) IN
         /\ KTyped(K2)
         /\ regEp # NoEp /\ Regd(kernel[c]) /\ kernel[c].sock = regEp => K2[c] = NoReg
         /\ regEp = NoEp \/ ~Regd(kernel[c]) \/ kernel[c].sock # regEp => K2 = kernel
         /\ \A b \in Cookies : b # c => K2[b] = kernel[b]
<1>1. CASE regEp = NoEp
  <2>1. DeleteRegion(kernel, c) = kernel
    BY <1>1, Zenon DEF DeleteRegion
  <2> QED BY <1>1, <2>1, Zenon
<1>2. CASE regEp # NoEp
  <2>1. DeleteRegion(kernel, c) = KernelFree(kernel, regEp, c)
    BY <1>2, Zenon DEF DeleteRegion
  <2> DEFINE K2 == KernelFree(kernel, regEp, c)
  <2>2. /\ KTyped(K2)
        /\ Regd(kernel[c]) /\ kernel[c].sock = regEp => K2[c] = NoReg
        /\ ~Regd(kernel[c]) \/ kernel[c].sock # regEp => K2 = kernel
        /\ \A b \in Cookies : b # c => K2[b] = kernel[b]
    BY FreeIs
  <2> QED BY <1>2, <2>1, <2>2, Zenon
<1> QED BY <1>1, <1>2, Zenon

\* Closing a socket.
LEMMA DropIs ==
  ASSUME KTyped(kernel), NEW s, kernel' = [c \in Cookies |-> IF kernel[c].sock = s THEN NoReg ELSE kernel[c]]
  PROVE  /\ KTyped(kernel')
         /\ \A c \in Cookies : /\ kernel[c].sock # s => kernel'[c] = kernel[c]
                               /\ kernel[c].sock = s => kernel'[c] = NoReg
<1>1. /\ \A c \in Cookies : /\ kernel[c].sock # s => kernel'[c] = kernel[c]
                            /\ kernel[c].sock = s => kernel'[c] = NoReg
      /\ kernel' = [c \in Cookies |-> kernel'[c]]
  BY Zenon
<1> QED BY <1>1, NoRegIs, Zenon DEF KTyped

\* A page given back.
LEMMA LoseIs ==
  ASSUME KTyped(kernel), NEW p,
         kernel' = [c \in Cookies |->
                 IF kernel[c] = NoReg THEN NoReg ELSE [kernel[c] EXCEPT !.pages = @ \ {p}]]
  PROVE  /\ KTyped(kernel')
         /\ \A c \in Cookies : /\ kernel'[c].sock = kernel[c].sock /\ kernel'[c].iov = kernel[c].iov
                               /\ Regd(kernel[c]) => kernel'[c].pages = kernel[c].pages \ {p}
                               /\ Regd(kernel'[c]) <=> Regd(kernel[c])
<1>1. kernel' = [c \in Cookies |-> kernel'[c]]
  BY Zenon
<1>2. ASSUME NEW c \in Cookies
      PROVE  /\ RegOK(kernel'[c]) /\ kernel'[c].sock = kernel[c].sock /\ kernel'[c].iov = kernel[c].iov
             /\ Regd(kernel[c]) => kernel'[c].pages = kernel[c].pages \ {p}
  <2>1. RegOK(kernel[c])
    BY Zenon DEF KTyped
  <2>2. CASE kernel[c] = NoReg
    <3>1. kernel'[c] = NoReg
      BY <2>2, Zenon
    <3> QED BY <2>2, <3>1, NoRegIs, Zenon
  <2>3. CASE kernel[c] # NoReg
    <3> DEFINE r == kernel[c]
               q == [r EXCEPT !.pages = r.pages \ {p}]
    <3>1. kernel'[c] = q
      BY <2>3, Zenon
    <3>2. r \in Regs(r.dest)
      BY <2>1, <2>3, Zenon DEF RegOK
    <3> HIDE DEF r
    <3>4. /\ q.iov = r.iov /\ q.sock = r.sock /\ q.dest = r.dest /\ q.pages = r.pages \ {p}
          /\ q \in Regs(r.dest)
      BY <3>2, Zenon DEF Regs
    <3> HIDE DEF q
    <3>5. RegOK(q)
      BY <3>4, Zenon DEF RegOK
    <3> QED BY <3>1, <3>4, <3>5, Zenon DEF r
  <2> QED BY <2>2, <2>3, Zenon
<1>3. KTyped(kernel')
  BY <1>1, <1>2, Zenon DEF KTyped
<1> QED BY <1>2, <1>3, Zenon DEF Regd

\* A cookie the kernel issues is of no registration, and no other slot remembers it.
LEMMA IssuedIs ==
  ASSUME NEW e, NEW c \in Issued(e)
  PROVE  /\ c \in Cookies /\ kernel[c] = NoReg
         /\ ~Reissue => \A f \in Slots : f # e => slot[f].cookie # c
<1>0. Reissue \in BOOLEAN
  BY MrAssumption, Zenon DEF MrAssumption
<1>1. CASE Reissue
  <2>1. c \in {b \in Cookies : kernel[b] = NoReg}
    BY <1>1, Zenon DEF Issued
  <2> QED BY <1>1, <2>1, Zenon
<1>2. CASE ~Reissue
  <2>1. c \in Unshared(e)
    <3>1. CASE slot[e].cookie \in Unshared(e)
      <4>1. Issued(e) = {slot[e].cookie}
        BY <1>2, <3>1 DEF Issued
      <4> QED BY <3>1, <4>1, Zenon
    <3>2. CASE slot[e].cookie \notin Unshared(e)
      <4>1. Issued(e) = {b \in Unshared(e) : \A d \in Unshared(e) : b <= d}
        BY <1>2, <3>2 DEF Issued
      <4> QED BY <4>1, Zenon
    <3> QED BY <3>1, <3>2, Zenon
  <2> QED BY <2>1, Zenon DEF Unshared
<1> QED BY <1>0, <1>1, <1>2, Zenon

-----------------------------------------------------------------------------
(* The state has its type *)

FreeBusy == \A t \in Eps : pc[t] = "free" => flist[t] # {}

\* A step of one endpoint keeps the others' lists of entries to free.
LEMMA BusyMoves ==
  ASSUME FreeBusy, NEW t \in Eps, \A u \in Eps : u # t => pc'[u] = pc[u] /\ flist'[u] = flist[u],
         pc'[t] = "free" => flist'[t] # {}
  PROVE  FreeBusy'
BY Zenon DEF FreeBusy

\* An endpoint frees entries only while it has some.
LEMMA BusyCache ==
  ASSUME Shape, FreeBusy, NEW t \in Eps, CacheStep(t) \/ Put(t) \/ LeavesCache(t)
  PROVE  FreeBusy'
<1>a. /\ pc \in [Eps -> Labels \cup {"none"}] /\ after \in [Eps -> {"none", "lookup", "search", "put"}]
      /\ flist \in [Eps -> SUBSET Nat]
  BY Zenon DEF Shape
<1>1. CASE \/ SearchFlush(t) \/ Hit(t) \/ Miss(t) \/ Create(t) \/ CreateNoEntry(t) \/ CreateRefused(t)
           \/ CreateAgain(t) \/ CreateNoNode(t) \/ InsertFull(t) \/ Insert(t) \/ InsertUnwatched(t)
  <2>1. flist' = flist /\ \E l \in {"flush", "ret", "create", "insert", "search"} : pc' = [pc EXCEPT ![t] = l]
    <3>1. CASE SearchFlush(t) \/ Hit(t) \/ Miss(t)
      BY <3>1, ZenonT(60) DEF SearchFlush, Hit, Miss, Goto, findVars
    <3>2. CASE Create(t) \/ CreateNoEntry(t) \/ CreateRefused(t) \/ CreateAgain(t) \/ CreateNoNode(t)
      BY <3>2, ZenonT(60)
         DEF Create, CreateNoEntry, CreateRefused, CreateAgain, CreateNoNode, CreateError, Goto, findVars
    <3>3. CASE InsertFull(t) \/ Insert(t) \/ InsertUnwatched(t)
      BY <3>3, ZenonT(60) DEF InsertFull, Insert, InsertUnwatched, Goto, findVars
    <3> QED BY <1>1, <3>1, <3>2, <3>3, Zenon
  <2>2. pc'[t] # "free" /\ \A u \in Eps : u # t => pc'[u] = pc[u]
    BY <2>1, <1>a, ZenonT(60)
  <2> QED BY <2>1, <2>2, BusyMoves, Zenon
<1>2. CASE InsertConflict(t)
  <2>1. flist' = [flist EXCEPT ![t] = {ent[t]}] /\ pc' = [pc EXCEPT ![t] = "free"]
    BY <1>2, Zenon DEF InsertConflict, Goto
  <2> QED BY <2>1, <1>a, BusyMoves, ZenonT(60)
<1>3. CASE Flush(t)
  <2>1. PICK S : /\ pc' = [pc EXCEPT ![t] = IF S = {} THEN FlushNext(t, S) ELSE "free"]
                 /\ flist' = [flist EXCEPT ![t] = S]
    BY <1>3, Zenon DEF Flush, Goto
  <2>2. FlushNext(t, S) # "free"
    BY <1>a, ZenonT(60) DEF FlushNext
  <2>3. /\ flist'[t] = S /\ pc'[t] = IF S = {} THEN FlushNext(t, S) ELSE "free"
        /\ \A u \in Eps : u # t => pc'[u] = pc[u] /\ flist'[u] = flist[u]
    BY <2>1, <1>a, Zenon
  <2> QED BY <2>2, <2>3, BusyMoves, ZenonT(60)
<1>4. CASE FreeEntry(t)
  <2>1. PICK e \in flist[t] : /\ pc' = [pc EXCEPT ![t] = IF flist[t] = {e} THEN after[t] ELSE "free"]
                              /\ flist' = [flist EXCEPT ![t] = @ \ {e}]
    BY <1>4, ZenonT(60) DEF FreeEntry, Goto
  <2>2. after[t] # "free"
    BY <1>a, ZenonT(60)
  <2>3. /\ flist'[t] = flist[t] \ {e} /\ pc'[t] = IF flist[t] = {e} THEN after[t] ELSE "free"
        /\ \A u \in Eps : u # t => pc'[u] = pc[u] /\ flist'[u] = flist[u]
    BY <2>1, <1>a, Zenon
  <2>4. pc'[t] = "free" => flist'[t] # {}
    BY <2>2, <2>3, ZenonT(60)
  <2> QED BY <2>3, <2>4, BusyMoves, ZenonT(60)
<1>5. CASE Put(t)
  <2>1. CASE UNCHANGED <<pc, findVars>>
    BY <2>1, ZenonT(60) DEF FreeBusy, findVars
  <2>2. CASE \E e : CacheDelete(t, e, "put")
    <3>1. PICK e : CacheDelete(t, e, "put")
      BY <2>2, Zenon
    <3> DEFINE gone == slot[e].use = 1 /\ ~slot[e].node
    <3>2. /\ pc' = [pc EXCEPT ![t] = IF gone THEN "free" ELSE "put"]
          /\ flist' = [flist EXCEPT ![t] = IF gone THEN {e} ELSE {}]
      BY <3>1, Zenon DEF CacheDelete, Goto
    <3> HIDE DEF gone
    <3>3. /\ flist'[t] = (IF gone THEN {e} ELSE {}) /\ pc'[t] = IF gone THEN "free" ELSE "put"
          /\ \A u \in Eps : u # t => pc'[u] = pc[u] /\ flist'[u] = flist[u]
      BY <3>2, <1>a, Zenon
    <3>4. pc'[t] = "free" => flist'[t] # {}
      BY <3>3, ZenonT(60)
    <3> QED BY <3>3, <3>4, BusyMoves, Zenon
  <2> QED BY <1>5, <2>1, <2>2, Zenon DEF Put
<1>6. CASE LeavesCache(t)
  <2>1. /\ flist' = flist /\ \A u \in Eps : u # t => pc'[u] = pc[u]
        /\ pc'[t] \in {"idle", "chunk", "search", "put", "closed"}
    BY <1>6, LeavesCacheIs, ZenonT(60)
  <2> QED BY <2>1, BusyMoves, ZenonT(60)
<1> QED BY <1>1, <1>2, <1>3, <1>4, <1>5, <1>6, ZenonT(60) DEF CacheStep

\* The kernel through the steps of the cache.
LEMMA KernelCache ==
  ASSUME Shape, KernelOK, NEW t \in Eps, CacheStep(t), flist[t] \subseteq Slots
  PROVE  KTyped(kernel') /\ regEp' = regEp
<1>a. KTyped(kernel) /\ regEp \in Eps \cup {NoEp}
  BY Zenon DEF KernelOK
<1>b. \A e \in Slots : slot[e].cookie \in Cookies
  BY Zenon DEF Shape, Entries
<1>1. CASE SearchFlush(t) \/ Hit(t) \/ Miss(t) \/ CreateNoEntry(t) \/ CreateNoNode(t)
  BY <1>1, <1>a, ZenonT(60) DEF SearchFlush, Hit, Miss, CreateNoEntry, CreateNoNode, CreateError
<1>2. CASE InsertConflict(t) \/ InsertFull(t) \/ Insert(t) \/ InsertUnwatched(t) \/ Flush(t)
  BY <1>2, <1>a, ZenonT(60) DEF InsertConflict, InsertFull, Insert, InsertUnwatched, Flush
<1>3. CASE Create(t)
  <2>1. PICK e \in Slots : \E c \in Issued(e) : kernel' = [kernel EXCEPT ![c] = Registration(want[t], regEp, regDest)]
    BY <1>3, ZenonT(60) DEF Create
  <2>2. PICK c \in Issued(e) : kernel' = [kernel EXCEPT ![c] = Registration(want[t], regEp, regDest)]
    BY <2>1, Zenon
  <2>3. c \in Cookies
    BY IssuedIs, Zenon
  <2>4. want[t] \in Iovs /\ regEp \in Eps /\ regEp' = regEp
    BY <1>3, <1>a, IovsAll, ZenonT(60) DEF Create, Shape
  <2>5. Added(c, want[t], regEp)
    BY <2>2, <2>3, <2>4, <1>a, IssueIs, Zenon
  <2> QED BY <2>4, <2>5, Zenon DEF Added
<1>4. CASE CreateRefused(t) \/ CreateAgain(t)
  <2>1. PICK e \in Slots : kernel' = DeleteRegion(kernel, slot[e].cookie)
    BY <1>4, ZenonT(60) DEF CreateRefused, CreateAgain
  <2>2. regEp' = regEp
    BY <1>4, ZenonT(60) DEF CreateRefused, CreateAgain, CreateError
  <2> QED BY <2>1, <2>2, <1>a, <1>b, DeleteIs, Zenon
<1>5. CASE FreeEntry(t)
  <2>1. PICK e \in flist[t] : kernel' = DeleteRegion(kernel, slot[e].cookie) /\ slot' = [slot EXCEPT ![e] = FreeSlot(slot[e].cookie)]
    BY <1>5, ZenonT(60) DEF FreeEntry
  <2>2. regEp' = regEp
    BY <1>5, ZenonT(60) DEF FreeEntry
  <2> QED BY <2>1, <2>2, <1>a, <1>b, DeleteIs, Zenon
<1> QED BY <1>1, <1>2, <1>3, <1>4, <1>5, ZenonT(60) DEF CacheStep

-----------------------------------------------------------------------------
(* What a search is for *)

Outlook(t) == /\ \A u \in Eps : u # t => pc'[u] = pc[u] /\ after'[u] = after[u] /\ ent'[u] = ent[u]
              /\ want' = want

\* A step of the cache is one endpoint's, and stays within its call.
LEMMA CacheStepIs ==
  ASSUME Shape, NEW t \in Eps, CacheStep(t)
  PROVE  /\ Outlook(t)
         /\ pc[t] \in {"search", "lookup", "create", "insert", "flush", "free"}
         /\ pc[t] = "free" /\ after[t] = "put" => pc'[t] = "put" \/ (pc'[t] = "free" /\ after'[t] = "put")
         /\ pc'[t] \notin {"off", "closed"}
<1>a. /\ pc \in [Eps -> Labels \cup {"none"}] /\ after \in [Eps -> {"none", "lookup", "search", "put"}]
      /\ ent \in [Eps -> Nat]
  BY Zenon DEF Shape
<1>1. CASE FreeEntry(t)
  <2>1. PICK e \in flist[t] :
          /\ pc' = [pc EXCEPT ![t] = IF flist[t] = {e} THEN after[t] ELSE "free"]
          /\ after' = [after EXCEPT ![t] = IF flist[t] = {e} THEN "none" ELSE @]
          /\ ent' = [ent EXCEPT ![t] = 0]
    BY <1>1, ZenonT(60) DEF FreeEntry, Goto
  <2>2. pc[t] = "free" /\ want' = want
    BY <1>1, Zenon DEF FreeEntry
  <2>3. /\ pc'[t] = IF flist[t] = {e} THEN after[t] ELSE "free"
        /\ after'[t] = IF flist[t] = {e} THEN "none" ELSE after[t]
        /\ \A u \in Eps : u # t => pc'[u] = pc[u] /\ after'[u] = after[u] /\ ent'[u] = ent[u]
    BY <2>1, <1>a, Zenon
  <2>4. after[t] \in {"none", "lookup", "search", "put"}
    BY <1>a, Zenon
  <2> QED BY <2>2, <2>3, <2>4, ZenonT(60) DEF Outlook
<1>2. CASE ~FreeEntry(t)
  <2>1. /\ pc[t] \in {"search", "lookup", "create", "insert", "flush"} /\ want' = want
        /\ \E l : pc' = [pc EXCEPT ![t] = l] /\ l \notin {"off", "closed"}
        /\ after' = after \/ \E l : after' = [after EXCEPT ![t] = l]
        /\ ent' = ent \/ \E l : ent' = [ent EXCEPT ![t] = l]
    <3>1. CASE SearchFlush(t) \/ Hit(t) \/ Miss(t)
      BY <3>1, ZenonT(60) DEF SearchFlush, Hit, Miss, AtLookup, Goto, findVars
    <3>2. CASE Create(t) \/ CreateNoEntry(t) \/ CreateRefused(t) \/ CreateAgain(t) \/ CreateNoNode(t)
      BY <3>2, ZenonT(60)
         DEF Create, CreateNoEntry, CreateRefused, CreateAgain, CreateNoNode, CreateError, Goto, findVars
    <3>3. CASE InsertConflict(t) \/ InsertFull(t) \/ Insert(t) \/ InsertUnwatched(t)
      BY <3>3, ZenonT(60) DEF InsertConflict, InsertFull, Insert, InsertUnwatched, Goto, findVars
    <3>4. CASE Flush(t)
      <4>1. PICK S : /\ pc' = [pc EXCEPT ![t] = IF S = {} THEN FlushNext(t, S) ELSE "free"]
                     /\ \E l : after' = [after EXCEPT ![t] = l]
        BY <3>4, Zenon DEF Flush, Goto
      <4> DEFINE l == IF S = {} THEN FlushNext(t, S) ELSE "free"
      <4>2. l \notin {"off", "closed"}
        BY <1>a, ZenonT(60) DEF FlushNext
      <4>3. pc[t] = "flush" /\ UNCHANGED <<want, ent>>
        BY <3>4, Zenon DEF Flush
      <4>4. pc' = [pc EXCEPT ![t] = l]
        BY <4>1, Zenon
      <4> HIDE DEF l
      <4> QED BY <4>1, <4>2, <4>3, <4>4, ZenonT(60)
    <3> QED BY <1>2, <3>1, <3>2, <3>3, <3>4, Zenon DEF CacheStep
  <2>2. /\ pc'[t] \notin {"off", "closed"}
        /\ \A u \in Eps : u # t => pc'[u] = pc[u] /\ after'[u] = after[u] /\ ent'[u] = ent[u]
    BY <2>1, <1>a, ZenonT(60)
  <2> QED BY <2>1, <2>2, ZenonT(60) DEF Outlook
<1> QED BY <1>1, <1>2, Zenon

\* The calls of the others go on as they were.
LEMMA WantedMoves ==
  ASSUME Wanted, NEW t \in Eps,
         \A u \in Eps : u # t => /\ pc'[u] = pc[u] /\ after'[u] = after[u] /\ want'[u] = want[u]
                                 /\ k'[u] = k[u] /\ msg'[u] = msg[u],
         InCall(t)' => k'[t] < Len(msg'[t]) /\ want'[t] = NextChunk(t)'
  PROVE  Wanted'
<1> SUFFICES ASSUME NEW u \in Eps, InCall(u)' PROVE k'[u] < Len(msg'[u]) /\ want'[u] = NextChunk(u)'
  BY Zenon DEF Wanted
<1>1. CASE u = t
  BY <1>1, Zenon
<1>2. CASE u # t
  <2>1. InCall(u)
    BY <1>2, Zenon DEF InCall
  <2> QED BY <1>2, <2>1, Zenon DEF Wanted, NextChunk
<1> QED BY <1>1, <1>2, Zenon

\* A step of the cache changes neither the chunk nor the search for it.
LEMMA WantedCache ==
  ASSUME Shape, Wanted, NEW t \in Eps, CacheStep(t), UNCHANGED sendVars
  PROVE  Wanted'
<1>1. UNCHANGED <<msg, k, want>> /\ \A u \in Eps : u # t => pc'[u] = pc[u] /\ after'[u] = after[u]
  BY CacheStepIs, ZenonT(60) DEF Outlook, sendVars, callVars
<1>2. InCall(t)' => InCall(t)
  <2>1. /\ pc[t] \in {"search", "lookup", "create", "insert", "flush", "free"}
        /\ pc[t] = "free" /\ after[t] = "put" => pc'[t] = "put" \/ (pc'[t] = "free" /\ after'[t] = "put")
    BY CacheStepIs, ZenonT(60)
  <2> QED BY <2>1, ZenonT(60) DEF InCall
<1>3. InCall(t)' => k'[t] < Len(msg'[t]) /\ want'[t] = NextChunk(t)'
  BY <1>1, <1>2, Zenon DEF Wanted, NextChunk
<1> QED BY <1>1, <1>3, WantedMoves, Zenon

\* A search starts for the next chunk, and the next chunk changes only outside a search.
LEMMA WantedSend ==
  ASSUME Shape, cacheOn, Wanted, NEW t \in Eps, LeavesCache(t) \/ Put(t)
  PROVE  Wanted'
<1>a. /\ pc \in [Eps -> Labels \cup {"none"}] /\ after \in [Eps -> {"none", "lookup", "search", "put"}]
      /\ want \in [Eps -> Intervals] /\ msg \in [Eps -> Seq(Iovs)] /\ k \in [Eps -> Nat]
  BY Zenon DEF Shape
<1>1. /\ after' = after \/ \E x : after' = [after EXCEPT ![t] = x]
      /\ want' = want \/ \E x : want' = [want EXCEPT ![t] = x]
      /\ msg' = msg \/ \E x : msg' = [msg EXCEPT ![t] = x]
      /\ k' = k \/ \E x : k' = [k EXCEPT ![t] = x]
  <2>1. CASE SendRndzv(t) \/ PostRts(t)
    BY <2>1, ZenonT(60) DEF SendRndzv, PostRts, CallReturns, findVars
  <2>2. CASE CacheGet(t) \/ CacheGot(t) \/ RegInternal(t)
    BY <2>2, ZenonT(60) DEF CacheGet, CacheGot, RegInternal, Took, SearchReturns, findVars, sendVars, callVars
  <2>3. CASE RegFails(t) \/ PostFails(t)
    BY <2>3, ZenonT(60) DEF RegFails, PostFails, ErrUnreg, CallReturns, SearchReturns, findVars
  <2>4. CASE Fin(t) \/ PutDone(t) \/ CloseSocket(t) \/ EpEnable(t) \/ EpClose(t)
    BY <2>4, ZenonT(60) DEF Fin, PutDone, CloseSocket, EpEnable, EpClose, findVars, sendVars, callVars
  <2>5. CASE Put(t)
    BY <2>5, ZenonT(60) DEF Put, CacheDelete, findVars, callVars
  <2> QED BY <2>1, <2>2, <2>3, <2>4, <2>5, Zenon DEF LeavesCache
<1>2. \A u \in Eps : u # t => after'[u] = after[u] /\ want'[u] = want[u] /\ k'[u] = k[u] /\ msg'[u] = msg[u]
  BY <1>1, <1>a, ZenonT(60)
<1>3. CASE CacheGet(t)
  <2>1. /\ k[t] < Len(msg[t]) /\ want'[t] = NextChunk(t) /\ UNCHANGED <<msg, k>>
        /\ \A u \in Eps : u # t => pc'[u] = pc[u]
    BY <1>3, <1>a, ZenonT(60) DEF CacheGet, AtChunk, Goto, sendVars, callVars
  <2>2. k'[t] < Len(msg'[t]) /\ want'[t] = NextChunk(t)'
    BY <2>1, Zenon DEF NextChunk
  <2> QED BY <1>2, <2>1, <2>2, WantedMoves, Zenon
<1>4. CASE ~CacheGet(t)
  <2>1. ~InCall(t)' /\ \A u \in Eps : u # t => pc'[u] = pc[u]
    <3>1. CASE LeavesCache(t)
      <4>1. \/ SendRndzv(t) \/ CacheGot(t) \/ RegInternal(t) \/ RegFails(t) \/ PostRts(t) \/ PostFails(t)
            \/ Fin(t) \/ PutDone(t) \/ CloseSocket(t) \/ EpEnable(t) \/ EpClose(t)
        BY <1>4, <3>1, Zenon DEF LeavesCache
      <4>2. ~RegInternal(t)
        BY Zenon DEF RegInternal
      <4>3. \E l \in {"idle", "chunk", "put", "closed"} : pc' = [pc EXCEPT ![t] = l]
        <5>1. CASE SendRndzv(t) \/ PostRts(t) \/ CacheGot(t)
          BY <5>1, ZenonT(60) DEF SendRndzv, PostRts, CacheGot, Goto
        <5>2. CASE RegFails(t) \/ PostFails(t)
          BY <5>2, ZenonT(60) DEF RegFails, PostFails, ErrUnreg, Goto
        <5>3. CASE Fin(t) \/ PutDone(t) \/ CloseSocket(t) \/ EpEnable(t) \/ EpClose(t)
          BY <5>3, ZenonT(60) DEF Fin, PutDone, CloseSocket, EpEnable, EpClose, Goto
        <5> QED BY <4>1, <4>2, <5>1, <5>2, <5>3, Zenon
      <4> QED BY <4>3, <1>a, ZenonT(60) DEF InCall
    <3>2. CASE Put(t)
      <4>1. \/ pc' = [pc EXCEPT ![t] = "free"] /\ after' = [after EXCEPT ![t] = "put"]
            \/ pc' = [pc EXCEPT ![t] = "put"] /\ after' = [after EXCEPT ![t] = "none"]
        BY <3>2, ZenonT(60) DEF Put, CacheDelete, Goto
      <4> QED BY <4>1, <1>a, ZenonT(60) DEF InCall
    <3> QED BY <3>1, <3>2, Zenon
  <2> QED BY <1>2, <2>1, WantedMoves, Zenon
<1> QED BY <1>3, <1>4, Zenon

\* The kernel, the socket lent and the chunks held through the steps of sends and endpoints.
LEMMA KernelSend ==
  ASSUME Shape, KernelOK, NEW t \in Eps, LeavesCache(t) \/ Put(t),
         pc[t] = "ret" => k[t] < Len(msg[t]),
         ~cacheOn => \A h \in held[t] : h.id \in Cookies
  PROVE  KTyped(kernel') /\ regEp' \in Eps \cup {NoEp} /\ HeldIovs(held')
<1>a. KTyped(kernel) /\ regEp \in Eps \cup {NoEp} /\ HeldIovs(held)
  BY Zenon DEF KernelOK
<1>b. held = [u \in Eps |-> held[u]] /\ msg \in [Eps -> Seq(Iovs)] /\ k \in [Eps -> Nat]
  BY Zenon DEF Shape, HeldOK
<1>c. k[t] < Len(msg[t]) => NextChunk(t) \in Iovs
  <2>1. msg[t] \in Seq(Iovs) /\ k[t] \in Nat
    BY <1>b, Zenon
  <2> DEFINE m == msg[t]
             n == k[t]
  <2>2. m \in Seq(Iovs) /\ n \in Nat
    BY <2>1, Zenon
  <2> HIDE DEF m, n
  <2>3. n < Len(m) => m[n + 1] \in Iovs
    BY <2>2
  <2> QED BY <2>3, Zenon DEF m, n, NextChunk
<1>d. ASSUME NEW id, k[t] < Len(msg[t]), Took(t, id) PROVE HeldIovs(held')
  <2> DEFINE h == Hold(op[t], k[t] + 1, NextChunk(t), id)
  <2>1. held' = [held EXCEPT ![t] = @ \cup {h}]
    BY <1>d, Zenon DEF Took
  <2>2. h.iov \in Iovs
    BY <1>c, <1>d, Zenon DEF Hold
  <2> HIDE DEF h
  <2>3. held'[t] = held[t] \cup {h} /\ \A u \in Eps : u # t => held'[u] = held[u]
    BY <2>1, <1>b, Zenon
  <2> QED BY <2>2, <2>3, <1>a, ZenonT(60) DEF HeldIovs
<1>1. CASE SendRndzv(t) \/ PostRts(t) \/ Fin(t) \/ PutDone(t)
  BY <1>1, <1>a, ZenonT(60) DEF SendRndzv, PostRts, Fin, PutDone
<1>2. CASE CacheGet(t) \/ RegFails(t) \/ PostFails(t)
  BY <1>2, <1>a, ZenonT(60) DEF CacheGet, RegFails, PostFails, ErrUnreg, sendVars
<1>3. CASE EpEnable(t) \/ EpClose(t)
  <2>1. UNCHANGED <<kernel, held>> /\ regEp' \in {t, NoEp, regEp}
    BY <1>3, ZenonT(60) DEF EpEnable, EpClose, sendVars
  <2> QED BY <2>1, <1>a, ZenonT(60)
<1>4. CASE CacheGot(t)
  <2>1. pc[t] = "ret" /\ UNCHANGED <<kernel, regEp>> /\ \E id : Took(t, id)
    BY <1>4, Zenon DEF CacheGot
  <2>2. k[t] < Len(msg[t])
    BY <2>1, Zenon
  <2> QED BY <2>1, <2>2, <1>a, <1>d, Zenon
<1>5. CASE RegInternal(t)
  <2>1. k[t] < Len(msg[t]) /\ regEp' = regEp
    BY <1>5, Zenon DEF RegInternal, AtChunk
  <2>2. PICK c \in Cookies : kernel' = [kernel EXCEPT ![c] = Registration(NextChunk(t), t, dest[t])] /\ Took(t, c)
    BY <1>5, Zenon DEF RegInternal
  <2>3. Added(c, NextChunk(t), t)
    BY <2>1, <2>2, <1>a, <1>c, IssueIs, Zenon
  <2> QED BY <2>1, <2>2, <2>3, <1>a, <1>d, Zenon DEF Added
<1>6. CASE CloseSocket(t)
  <2>1. /\ kernel' = [c \in Cookies |-> IF kernel[c].sock = t THEN NoReg ELSE kernel[c]]
        /\ UNCHANGED <<regEp, held>>
    BY <1>6, Zenon DEF CloseSocket
  <2>2. KTyped(kernel')
    BY <2>1, <1>a, DropIs, Zenon
  <2> QED BY <2>1, <2>2, <1>a, Zenon
<1>7. CASE Put(t)
  <2>1. PICK h \in held[t] : /\ held' = [held EXCEPT ![t] = @ \ {h}]
                             /\ kernel' = kernel \/ (~cacheOn /\ kernel' = KernelFree(kernel, t, h.id))
    BY <1>7, ZenonT(60) DEF Put, ToPut
  <2>2. regEp' = regEp
    BY <1>7, Zenon DEF Put
  <2>3. KTyped(kernel')
    <3>1. ASSUME ~cacheOn PROVE KTyped(KernelFree(kernel, t, h.id))
      BY <3>1, <1>a, FreeIs
    <3> QED BY <2>1, <3>1, <1>a, Zenon
  <2>4. held'[t] \subseteq held[t] /\ \A u \in Eps : u # t => held'[u] = held[u]
    BY <2>1, <1>b, Zenon
  <2>5. HeldIovs(held')
    BY <2>4, <1>a, ZenonT(60) DEF HeldIovs
  <2> QED BY <2>2, <2>3, <2>5, <1>a, Zenon
<1> QED BY <1>1, <1>2, <1>3, <1>4, <1>5, <1>6, <1>7, Zenon DEF LeavesCache

\* The domain's close, an unmap and stuttering.
LEMMA KernelRest ==
  ASSUME KernelOK, DomainClose \/ UnmapPage \/ UNCHANGED vars
  PROVE  KernelOK'
<1>a. KTyped(kernel) /\ regEp \in Eps \cup {NoEp} /\ HeldIovs(held)
  BY Zenon DEF KernelOK
<1>1. UNCHANGED <<regEp, held, pc, flist>>
  BY ZenonT(60) DEF DomainClose, UnmapPage, Unmap, vars, mrVars, findVars, sendVars
<1>2. KTyped(kernel')
  <2>1. CASE UnmapPage
    <3>1. PICK p : kernel' = [c \in Cookies |->
                     IF kernel[c] = NoReg THEN NoReg ELSE [kernel[c] EXCEPT !.pages = @ \ {p}]]
      BY <2>1, Zenon DEF UnmapPage, Unmap
    <3> QED BY <3>1, <1>a, LoseIs, Zenon
  <2>2. CASE DomainClose \/ UNCHANGED vars
    BY <2>2, <1>a, ZenonT(60) DEF DomainClose, vars, mrVars
  <2> QED BY <2>1, <2>2, Zenon
<1> QED BY <1>1, <1>2, ZenonT(60) DEF KernelOK, HeldIovs

-----------------------------------------------------------------------------
(* The socket lent to the domain *)

\* A step that neither lends nor takes back the socket.
LEMMA LentMoves ==
  ASSUME KernelOK, Lent, NEW t \in Eps, regEp' = regEp, closing' = closing,
         \A u \in Eps : u # t => pc'[u] = pc[u], pc[t] # "off", pc'[t] # "off"
  PROVE  Lent'
BY ZenonT(60) DEF Lent, KernelOK

\* While an endpoint is in use there is a socket to register on.
LEMMA LentStep ==
  ASSUME Shape, Shut, KernelOK, closing \in [Eps -> BOOLEAN], LenderLast, Lent, NEW t \in Eps,
         (CacheStep(t) /\ UNCHANGED sendVars) \/ LeavesCache(t) \/ Put(t)
  PROVE  Lent'
<1>a. pc \in [Eps -> Labels \cup {"none"}] /\ NoEp \notin Eps
  BY MrAssumption, Zenon DEF MrAssumption, Shape
<1>b. \A u \in Eps : Gate(u)
  BY Zenon DEF Shut
<1>1. CASE CacheStep(t) /\ UNCHANGED sendVars
  <2>1. (\A u \in Eps : u # t => pc'[u] = pc[u]) /\ pc[t] # "off" /\ pc'[t] # "off"
    BY <1>1, CacheStepIs, ZenonT(60) DEF Outlook
  <2>2. regEp' = regEp
    <3>1. CASE SearchFlush(t) \/ Hit(t) \/ Miss(t) \/ Flush(t) \/ FreeEntry(t)
      BY <3>1, ZenonT(60) DEF SearchFlush, Hit, Miss, Flush, FreeEntry
    <3>2. CASE Create(t) \/ CreateNoEntry(t) \/ CreateRefused(t) \/ CreateAgain(t) \/ CreateNoNode(t)
      BY <3>2, ZenonT(60) DEF Create, CreateNoEntry, CreateRefused, CreateAgain, CreateNoNode, CreateError
    <3>3. CASE InsertConflict(t) \/ InsertFull(t) \/ Insert(t) \/ InsertUnwatched(t)
      BY <3>3, ZenonT(60) DEF InsertConflict, InsertFull, Insert, InsertUnwatched
    <3> QED BY <1>1, <3>1, <3>2, <3>3, Zenon DEF CacheStep
  <2> QED BY <1>1, <2>1, <2>2, LentMoves, ZenonT(60) DEF sendVars
<1>2. CASE EpEnable(t)
  <2>1. /\ pc[t] = "off" /\ (regEp # NoEp \/ \A u \in Eps : pc[u] = "off")
        /\ regEp' = IF regEp = NoEp THEN t ELSE regEp
        /\ pc' = [pc EXCEPT ![t] = "idle"] /\ closing' = closing
    BY <1>2, ZenonT(60) DEF EpEnable, Goto, sendVars
  <2>2. pc'[t] = "idle" /\ \A u \in Eps : u # t => pc'[u] = pc[u]
    BY <2>1, <1>a, Zenon
  <2>3. ~closing[t]
    BY <2>1, <1>b, ZenonT(60) DEF Gate
  <2>4. regEp' # NoEp
    BY <2>1, <1>a, Zenon
  <2>5. pc'[regEp'] # "off" /\ ~closing'[regEp']
    <3>1. CASE regEp = NoEp
      BY <3>1, <2>1, <2>2, <2>3, ZenonT(60)
    <3>2. CASE regEp # NoEp
      <4>1. regEp \in Eps /\ pc[regEp] # "off" /\ ~closing[regEp] /\ regEp' = regEp
        BY <3>2, <2>1, ZenonT(60) DEF Lent, KernelOK
      <4> QED BY <4>1, <2>1, <2>2, ZenonT(60)
    <3> QED BY <3>1, <3>2, Zenon
  <2> QED BY <2>4, <2>5, Zenon DEF Lent
<1>3. CASE EpClose(t)
  <2>1. /\ pc[t] = "idle" /\ (regEp = t => \A u \in Eps \ {t} : pc[u] \in {"off", "closed"})
        /\ regEp' = IF regEp = t THEN NoEp ELSE regEp
        /\ pc' = [pc EXCEPT ![t] = "put"] /\ closing' = [closing EXCEPT ![t] = TRUE]
    BY <1>3, ZenonT(60) DEF EpClose, Goto
  <2>2. /\ pc'[t] = "put" /\ closing'[t] /\ ~closing[t]
        /\ \A u \in Eps : u # t => pc'[u] = pc[u] /\ closing'[u] = closing[u]
    BY <2>1, <1>a, <1>b, ZenonT(60) DEF Gate
  <2>3. regEp # NoEp
    BY <2>1, <2>2, ZenonT(60) DEF Lent
  <2>4. CASE regEp = t
    <3>1. \A u \in Eps : u # t => pc[u] = "off" \/ closing[u]
      BY <2>1, <2>4, <1>b, ZenonT(60) DEF Gate
    <3> QED BY <2>1, <2>2, <2>4, <3>1, ZenonT(60) DEF Lent
  <2>5. CASE regEp # t
    <3>1. regEp \in Eps /\ pc[regEp] # "off" /\ ~closing[regEp] /\ regEp' = regEp
      BY <2>1, <2>3, <2>5, ZenonT(60) DEF Lent, KernelOK
    <3>2. pc'[regEp] # "off" /\ ~closing'[regEp]
      BY <2>2, <2>5, <3>1, Zenon
    <3> QED BY <2>3, <3>1, <3>2, Zenon DEF Lent
  <2> QED BY <2>4, <2>5, Zenon
<1>4. CASE ~EpEnable(t) /\ ~EpClose(t) /\ (LeavesCache(t) \/ Put(t))
  <2>1. UNCHANGED <<regEp, closing>> /\ pc[t] # "off"
    <3>1. CASE SendRndzv(t) \/ PostRts(t)
      BY <3>1, ZenonT(60) DEF SendRndzv, PostRts, AllGot
    <3>2. CASE CacheGet(t) \/ CacheGot(t) \/ RegInternal(t)
      BY <3>2, ZenonT(60) DEF CacheGet, CacheGot, RegInternal, Took, AtChunk, sendVars
    <3>3. CASE RegFails(t) \/ PostFails(t)
      BY <3>3, ZenonT(60) DEF RegFails, PostFails, ErrUnreg, AtChunk, AllGot
    <3>4. CASE Fin(t) \/ PutDone(t) \/ CloseSocket(t) \/ Put(t)
      BY <3>4, ZenonT(60) DEF Fin, PutDone, CloseSocket, Put
    <3> QED BY <1>4, <3>1, <3>2, <3>3, <3>4, Zenon DEF LeavesCache
  <2>2. pc'[t] # "off" /\ \A u \in Eps : u # t => pc'[u] = pc[u]
    <3>1. CASE LeavesCache(t)
      BY <3>1, LeavesCacheIs, ZenonT(60)
    <3>2. CASE Put(t)
      <4>1. pc' = pc \/ \E l \in {"free", "put"} : pc' = [pc EXCEPT ![t] = l]
        BY <3>2, ZenonT(60) DEF Put, CacheDelete, Goto
      <4> QED BY <4>1, <2>1, <1>a, ZenonT(60)
    <3> QED BY <1>4, <3>1, <3>2, Zenon
  <2> QED BY <2>1, <2>2, LentMoves, Zenon
<1> QED BY <1>1, <1>2, <1>3, <1>4, Zenon DEF LeavesCache

\* The rest leaves the endpoints alone.
LEMMA LentRest ==
  ASSUME Lent, DomainClose \/ UnmapPage \/ UNCHANGED vars
  PROVE  Lent'
<1>1. UNCHANGED <<regEp, pc, closing>>
  BY ZenonT(60) DEF DomainClose, UnmapPage, Unmap, vars, mrVars, sendVars
<1> QED BY <1>1, ZenonT(60) DEF Lent

-----------------------------------------------------------------------------
(* Cookies and entries *)

\* sl2 has the registrations of slot
KeepsCookies(sl2) ==
  \A e \in Slots : sl2[e].used = slot[e].used /\ sl2[e].iov = slot[e].iov /\ sl2[e].cookie = slot[e].cookie

\* nobody goes off, and no socket is closed
Steady ==
  \A u \in Eps : /\ pc[u] # "off" => pc'[u] # "off"
                 /\ closing[u] /\ pc[u] # "closed" => closing'[u] /\ pc'[u] # "closed"

\* A step that registers and unpins nothing.
LEMMA OwnedKept ==
  ASSUME Shape, CookiesOwned, KeepsCookies(slot'), Steady, regEp' = regEp,
         \A c \in Cookies : kernel'[c].sock = kernel[c].sock /\ kernel'[c].iov = kernel[c].iov
  PROVE  CookiesOwned'
<1>0. \A e \in Slots : slot[e].cookie \in Cookies
  BY Zenon DEF Shape, Entries
<1>1. ASSUME NEW e \in Slots, NEW f \in Slots, slot'[e].cookie = slot'[f].cookie PROVE e = f
  <2>1. slot[e].cookie = slot[f].cookie
    BY <1>1, Zenon DEF KeepsCookies
  <2> QED BY <2>1, Zenon DEF CookiesOwned
<1>2. ASSUME NEW e \in Slots, slot'[e].used
      PROVE  /\ \E t \in Eps : pc'[t] # "off"
             /\ regEp' # NoEp => kernel'[slot'[e].cookie].sock = regEp' /\ kernel'[slot'[e].cookie].iov = slot'[e].iov
  <2>1. slot[e].used /\ slot'[e].iov = slot[e].iov /\ slot'[e].cookie = slot[e].cookie
    BY <1>2, Zenon DEF KeepsCookies
  <2>2. \E t \in Eps : pc'[t] # "off"
    BY <2>1, ZenonT(60) DEF CookiesOwned, Steady
  <2>3. regEp # NoEp => Reg(e).sock = regEp /\ Reg(e).iov = slot[e].iov
    BY <2>1, Zenon DEF CookiesOwned
  <2>4. regEp # NoEp => kernel[slot[e].cookie].sock = regEp /\ kernel[slot[e].cookie].iov = slot[e].iov
    BY <2>3, Zenon DEF Reg
  <2> QED BY <2>1, <2>2, <2>4, <1>0, Zenon
<1>3. ASSUME NEW c \in Cookies, Regd(kernel'[c])
      PROVE  \/ regEp' = kernel'[c].sock /\ \E e \in Slots : slot'[e].used /\ slot'[e].cookie = c
             \/ regEp' = NoEp /\ closing'[kernel'[c].sock] /\ pc'[kernel'[c].sock] # "closed"
  <2>1. Regd(kernel[c]) /\ kernel'[c].sock = kernel[c].sock
    BY <1>3, Zenon DEF Regd
  <2>2. CASE regEp = kernel[c].sock /\ \E e \in Slots : slot[e].used /\ slot[e].cookie = c
    BY <2>1, <2>2, ZenonT(60) DEF KeepsCookies
  <2>3. CASE regEp = NoEp /\ closing[kernel[c].sock] /\ pc[kernel[c].sock] # "closed"
    <3>1. kernel[c].sock \in Eps
      BY <2>1, Zenon DEF Regd
    <3> QED BY <2>1, <2>3, <3>1, ZenonT(60) DEF Steady
  <2> QED BY <2>1, <2>2, <2>3, Zenon DEF CookiesOwned
<1> QED BY <1>1, <1>2, <1>3, ZenonT(60) DEF CookiesOwned, Reg

\* Only closing a socket ends the closing of an endpoint.
LEMMA SteadyStep ==
  ASSUME Shape, Shut, closing \in [Eps -> BOOLEAN], NEW t \in Eps,
         (CacheStep(t) /\ UNCHANGED sendVars) \/ (LeavesCache(t) /\ ~CloseSocket(t)) \/ Put(t)
  PROVE  Steady
<1>a. pc \in [Eps -> Labels \cup {"none"}]
  BY Zenon DEF Shape
<1>1. (\A u \in Eps : u # t => pc'[u] = pc[u]) /\ pc'[t] \notin {"off", "closed"}
  <2>1. CASE CacheStep(t)
    BY <2>1, CacheStepIs, ZenonT(60) DEF Outlook
  <2>2. CASE LeavesCache(t) /\ ~CloseSocket(t)
    <3>1. (\A u \in Eps : u # t => pc'[u] = pc[u]) /\ pc'[t] \in {"idle", "chunk", "search", "put", "closed"}
      BY <2>2, LeavesCacheIs, ZenonT(60)
    <3>2. pc'[t] # "closed"
      <4>1. CASE SendRndzv(t) \/ CacheGet(t) \/ CacheGot(t) \/ PostRts(t) \/ Fin(t) \/ PutDone(t)
                 \/ EpEnable(t) \/ EpClose(t)
        <5>1. \E l \in {"chunk", "search", "idle", "put"} : pc' = [pc EXCEPT ![t] = l]
          BY <4>1, ZenonT(60) DEF SendRndzv, CacheGet, CacheGot, PostRts, Fin, PutDone, EpEnable, EpClose, Goto
        <5> QED BY <5>1, <1>a, ZenonT(60)
      <4>2. CASE RegFails(t) \/ PostFails(t)
        <5>1. pc' = [pc EXCEPT ![t] = "put"]
          BY <4>2, ZenonT(60) DEF RegFails, PostFails, ErrUnreg, Goto
        <5> QED BY <5>1, <1>a, ZenonT(60)
      <4>3. CASE RegInternal(t)
        BY <4>3, ZenonT(60) DEF RegInternal, AtChunk
      <4> QED BY <2>2, <4>1, <4>2, <4>3, Zenon DEF LeavesCache
    <3> QED BY <3>1, <3>2, Zenon
  <2>3. CASE Put(t)
    <3>1. pc[t] = "put" /\ (pc' = pc \/ \E l \in {"free", "put"} : pc' = [pc EXCEPT ![t] = l])
      BY <2>3, ZenonT(60) DEF Put, CacheDelete, Goto
    <3> QED BY <3>1, <1>a, ZenonT(60)
  <2> QED BY <2>1, <2>2, <2>3, Zenon
<1>2. closing' = closing \/ closing' = [closing EXCEPT ![t] = TRUE]
  <2>1. CASE SendRndzv(t) \/ PostRts(t) \/ Fin(t) \/ PutDone(t) \/ Put(t) \/ EpClose(t)
    BY <2>1, ZenonT(60) DEF SendRndzv, PostRts, Fin, PutDone, Put, EpClose
  <2>2. CASE CacheGet(t) \/ CacheGot(t) \/ RegInternal(t)
    BY <2>2, ZenonT(60) DEF CacheGet, CacheGot, RegInternal, Took, sendVars
  <2>3. CASE RegFails(t) \/ PostFails(t) \/ EpEnable(t) \/ UNCHANGED sendVars
    BY <2>3, ZenonT(60) DEF RegFails, PostFails, ErrUnreg, EpEnable, sendVars
  <2> QED BY <2>1, <2>2, <2>3, Zenon DEF LeavesCache
<1>3. \A u \in Eps : closing[u] => closing'[u]
  BY <1>2, Zenon
<1> QED BY <1>1, <1>3, ZenonT(60) DEF Steady

\* In a state where a socket is lent, the kernel's registrations are those of the entries.
LEMMA OwnedWhileLent ==
  ASSUME KernelOK, CookiesOwned, regEp # NoEp, NEW c \in Cookies, Regd(kernel[c])
  PROVE  regEp = kernel[c].sock /\ \E e \in Slots : slot[e].used /\ slot[e].cookie = c
BY Zenon DEF CookiesOwned

\* A slot nobody uses has no registration behind its cookie.
LEMMA FreeSlotClean ==
  ASSUME Shape, KernelOK, CookiesOwned, regEp # NoEp, NEW e \in Slots, ~slot[e].used
  PROVE  ~Regd(kernel[slot[e].cookie])
<1> SUFFICES ASSUME Regd(kernel[slot[e].cookie]) PROVE FALSE
  BY Zenon
<1>1. slot[e].cookie \in Cookies
  BY Zenon DEF Shape, Entries
<1>2. PICK f \in Slots : slot[f].used /\ slot[f].cookie = slot[e].cookie
  BY <1>1, OwnedWhileLent, Zenon
<1>3. f = e
  BY <1>2, Zenon DEF CookiesOwned
<1> QED BY <1>2, <1>3, Zenon

\* A new entry gets a cookie of its own.
LEMMA OwnedCreate ==
  ASSUME Shape, KernelOK, CookiesOwned, ~Reissue, NEW t \in Eps, Create(t), Steady
  PROVE  CookiesOwned'
<1>1. PICK e \in Slots : /\ PoolHead(e)
                         /\ \E c \in Issued(e) :
                              /\ kernel' = [kernel EXCEPT ![c] = Registration(want[t], regEp, regDest)]
                              /\ slot' = [slot EXCEPT ![e] = NewEntry(t, c)]
  BY ZenonT(60) DEF Create
<1>2. PICK c \in Issued(e) : /\ kernel' = [kernel EXCEPT ![c] = Registration(want[t], regEp, regDest)]
                             /\ slot' = [slot EXCEPT ![e] = NewEntry(t, c)]
  BY <1>1, Zenon
<1>3. ~slot[e].used /\ regEp # NoEp /\ regEp' = regEp /\ pc[t] = "create"
  BY <1>1, ZenonT(60) DEF Create, PoolHead, FreeSlots
<1>4. want[t] \in Iovs /\ regEp \in Eps /\ KTyped(kernel)
  BY <1>3, IovsAll, ZenonT(60) DEF Shape, KernelOK
<1>5. c \in Cookies /\ kernel[c] = NoReg /\ \A f \in Slots : f # e => slot[f].cookie # c
  BY IssuedIs, Zenon
<1>6. /\ kernel'[c].iov = want[t] /\ kernel'[c].sock = regEp
      /\ \A b \in Cookies : b # c => kernel'[b] = kernel[b]
  <2>1. Added(c, want[t], regEp)
    BY <1>2, <1>4, <1>5, IssueIs, Zenon
  <2> QED BY <2>1, Zenon DEF Added
<1>7. /\ slot'[e].used /\ slot'[e].iov = want[t] /\ slot'[e].cookie = c
      /\ \A f \in Slots : f # e => slot'[f] = slot[f]
  <2>1. slot'[e] = NewEntry(t, c) /\ \A f \in Slots : f # e => slot'[f] = slot[f]
    BY <1>2, Zenon DEF Shape
  <2>2. NewEntry(t, c).used /\ NewEntry(t, c).iov = want[t] /\ NewEntry(t, c).cookie = c
    BY Zenon DEF NewEntry
  <2> QED BY <2>1, <2>2, Zenon
<1>8. \A f \in Slots : slot[f].cookie \in Cookies
  BY Zenon DEF Shape, Entries
<1>9. ASSUME NEW f \in Slots, NEW g \in Slots, slot'[f].cookie = slot'[g].cookie PROVE f = g
  <2>1. CASE f = e
    <3>1. g = e \/ slot'[g].cookie # slot'[f].cookie
      BY <2>1, <1>5, <1>7, Zenon
    <3> QED BY <2>1, <3>1, <1>9, Zenon
  <2>3. CASE g = e
    <3>1. f = e \/ slot'[g].cookie # slot'[f].cookie
      BY <2>3, <1>5, <1>7, Zenon
    <3> QED BY <2>3, <3>1, <1>9, Zenon
  <2>2. CASE f # e /\ g # e
    <3>1. slot[f].cookie = slot[g].cookie
      BY <2>2, <1>7, <1>9, Zenon
    <3> QED BY <3>1, Zenon DEF CookiesOwned
  <2> QED BY <2>1, <2>2, <2>3, Zenon
<1>10. ASSUME NEW f \in Slots, slot'[f].used
       PROVE  /\ \E u \in Eps : pc'[u] # "off"
              /\ regEp' # NoEp => kernel'[slot'[f].cookie].sock = regEp' /\ kernel'[slot'[f].cookie].iov = slot'[f].iov
  <2>1. \E u \in Eps : pc'[u] # "off"
    BY <1>3, ZenonT(60) DEF Steady
  <2>2. CASE f = e
    BY <2>1, <2>2, <1>3, <1>6, <1>7, Zenon
  <2>3. CASE f # e
    <3>1. slot'[f] = slot[f] /\ kernel'[slot[f].cookie] = kernel[slot[f].cookie]
      BY <2>3, <1>5, <1>6, <1>7, <1>8, Zenon
    <3>2. kernel[slot[f].cookie].sock = regEp /\ kernel[slot[f].cookie].iov = slot[f].iov
      BY <3>1, <1>3, <1>10, Zenon DEF CookiesOwned, Reg
    <3> QED BY <2>1, <3>1, <3>2, <1>3, Zenon
  <2> QED BY <2>2, <2>3, Zenon
<1>11. ASSUME NEW b \in Cookies, Regd(kernel'[b])
       PROVE  regEp' = kernel'[b].sock /\ \E f \in Slots : slot'[f].used /\ slot'[f].cookie = b
  <2>1. CASE b = c
    BY <2>1, <1>3, <1>6, <1>7, Zenon
  <2>2. CASE b # c
    <3>1. kernel'[b] = kernel[b]
      BY <2>2, <1>6, Zenon
    <3>2. regEp = kernel[b].sock /\ \E f \in Slots : slot[f].used /\ slot[f].cookie = b
      BY <3>1, <1>11, <1>3, OwnedWhileLent, Zenon
    <3>3. PICK f \in Slots : slot[f].used /\ slot[f].cookie = b
      BY <3>2, Zenon
    <3>4. f # e
      BY <3>3, <1>3, Zenon
    <3>5. slot'[f].used /\ slot'[f].cookie = b
      BY <3>3, <3>4, <1>7, Zenon
    <3> QED BY <3>1, <3>2, <3>5, <1>3, Zenon
  <2> QED BY <2>1, <2>2, Zenon
<1> QED BY <1>9, <1>10, <1>11, ZenonT(60) DEF CookiesOwned, Reg

\* A slot that only remembers another cookie changes nothing.
LEMMA OwnedNoNode ==
  ASSUME Shape, KernelOK, CookiesOwned, ~Reissue, NEW t \in Eps, CreateNoNode(t), Steady
  PROVE  CookiesOwned'
<1>1. PICK e \in Slots : PoolHead(e) /\ \E c \in Issued(e) : slot' = [slot EXCEPT ![e] = FreeSlot(c)]
  BY ZenonT(60) DEF CreateNoNode
<1>2. PICK c \in Issued(e) : slot' = [slot EXCEPT ![e] = FreeSlot(c)]
  BY <1>1, Zenon
<1>3. ~slot[e].used /\ regEp # NoEp /\ UNCHANGED <<kernel, regEp>>
  BY <1>1, ZenonT(60) DEF CreateNoNode, CreateError, PoolHead, FreeSlots
<1>4. \A f \in Slots : f # e => slot[f].cookie # c
  BY IssuedIs, Zenon
<1>5. ~slot'[e].used /\ slot'[e].cookie = c /\ \A f \in Slots : f # e => slot'[f] = slot[f]
  <2>1. slot'[e] = FreeSlot(c) /\ \A f \in Slots : f # e => slot'[f] = slot[f]
    BY <1>2, Zenon DEF Shape
  <2>2. ~FreeSlot(c).used /\ FreeSlot(c).cookie = c
    BY Zenon DEF FreeSlot
  <2> QED BY <2>1, <2>2, Zenon
<1>6. ASSUME NEW f \in Slots, NEW g \in Slots, slot'[f].cookie = slot'[g].cookie PROVE f = g
  <2>1. CASE f = e
    <3>1. g = e \/ slot'[g].cookie # slot'[f].cookie
      BY <2>1, <1>4, <1>5, Zenon
    <3> QED BY <2>1, <3>1, <1>6, Zenon
  <2>3. CASE g = e
    <3>1. f = e \/ slot'[g].cookie # slot'[f].cookie
      BY <2>3, <1>4, <1>5, Zenon
    <3> QED BY <2>3, <3>1, <1>6, Zenon
  <2>2. CASE f # e /\ g # e
    <3>1. slot[f].cookie = slot[g].cookie
      BY <2>2, <1>5, <1>6, Zenon
    <3> QED BY <3>1, Zenon DEF CookiesOwned
  <2> QED BY <2>1, <2>2, <2>3, Zenon
<1>7. ASSUME NEW f \in Slots, slot'[f].used
      PROVE  /\ \E u \in Eps : pc'[u] # "off"
             /\ regEp' # NoEp => kernel'[slot'[f].cookie].sock = regEp' /\ kernel'[slot'[f].cookie].iov = slot'[f].iov
  <2>1. slot'[f] = slot[f] /\ slot[f].used
    BY <1>5, <1>7, Zenon
  <2> QED BY <2>1, <1>3, ZenonT(60) DEF CookiesOwned, Reg, Steady
<1>8. ASSUME NEW b \in Cookies, Regd(kernel'[b])
      PROVE  regEp' = kernel'[b].sock /\ \E f \in Slots : slot'[f].used /\ slot'[f].cookie = b
  <2>1. regEp = kernel[b].sock /\ \E f \in Slots : slot[f].used /\ slot[f].cookie = b
    BY <1>3, <1>8, OwnedWhileLent, Zenon
  <2>2. PICK f \in Slots : slot[f].used /\ slot[f].cookie = b
    BY <2>1, Zenon
  <2>3. slot'[f] = slot[f]
    BY <2>2, <1>3, <1>5, Zenon
  <2> QED BY <2>1, <2>2, <2>3, <1>3, Zenon
<1> QED BY <1>6, <1>7, <1>8, ZenonT(60) DEF CookiesOwned, Reg

\* An entry goes back to the pool with its registration, if there is a socket to unpin with.
LEMMA OwnedFree ==
  ASSUME Shape, KernelOK, CookiesOwned, NEW t \in Eps, FreeEntry(t), Steady,
         \A e \in flist[t] : e \in Slots /\ slot[e].used
  PROVE  CookiesOwned'
<1>1. PICK e \in flist[t] : /\ kernel' = DeleteRegion(kernel, slot[e].cookie)
                            /\ slot' = [slot EXCEPT ![e] = FreeSlot(slot[e].cookie)]
  BY ZenonT(60) DEF FreeEntry
<1>2. e \in Slots /\ slot[e].used /\ slot[e].cookie \in Cookies /\ regEp' = regEp /\ KTyped(kernel)
  BY ZenonT(60) DEF FreeEntry, Shape, Entries, KernelOK
<1>3. ~slot'[e].used /\ slot'[e].cookie = slot[e].cookie /\ \A f \in Slots : f # e => slot'[f] = slot[f]
  <2>1. slot'[e] = FreeSlot(slot[e].cookie) /\ \A f \in Slots : f # e => slot'[f] = slot[f]
    BY <1>1, <1>2, Zenon DEF Shape
  <2>2. ~FreeSlot(slot[e].cookie).used /\ FreeSlot(slot[e].cookie).cookie = slot[e].cookie
    BY Zenon DEF FreeSlot
  <2> QED BY <2>1, <2>2, Zenon
<1>4. /\ regEp # NoEp /\ Regd(kernel[slot[e].cookie]) /\ kernel[slot[e].cookie].sock = regEp
           => kernel'[slot[e].cookie] = NoReg
      /\ regEp = NoEp => kernel' = kernel
      /\ \A b \in Cookies : b # slot[e].cookie => kernel'[b] = kernel[b]
  BY <1>1, <1>2, DeleteIs, Zenon
<1>5. ASSUME NEW f \in Slots, NEW g \in Slots, slot'[f].cookie = slot'[g].cookie PROVE f = g
  <2>1. slot'[f].cookie = slot[f].cookie /\ slot'[g].cookie = slot[g].cookie
    BY <1>3, Zenon
  <2> QED BY <2>1, <1>5, Zenon DEF CookiesOwned
<1>6. ASSUME NEW f \in Slots, slot'[f].used
      PROVE  /\ \E u \in Eps : pc'[u] # "off"
             /\ regEp' # NoEp => kernel'[slot'[f].cookie].sock = regEp' /\ kernel'[slot'[f].cookie].iov = slot'[f].iov
  <2>1. f # e /\ slot'[f] = slot[f] /\ slot[f].used
    BY <1>3, <1>6, Zenon
  <2>2. slot[f].cookie # slot[e].cookie /\ slot[f].cookie \in Cookies
    BY <2>1, <1>2, ZenonT(60) DEF CookiesOwned, Shape, Entries
  <2>3. kernel'[slot[f].cookie] = kernel[slot[f].cookie]
    BY <2>2, <1>4, Zenon
  <2>4. regEp # NoEp => kernel[slot[f].cookie].sock = regEp /\ kernel[slot[f].cookie].iov = slot[f].iov
    BY <2>1, Zenon DEF CookiesOwned, Reg
  <2>5. \E u \in Eps : pc'[u] # "off"
    BY <2>1, ZenonT(60) DEF CookiesOwned, Steady
  <2> QED BY <2>1, <2>3, <2>4, <2>5, <1>2, Zenon
<1>7. ASSUME NEW b \in Cookies, Regd(kernel'[b])
      PROVE  \/ regEp' = kernel'[b].sock /\ \E f \in Slots : slot'[f].used /\ slot'[f].cookie = b
             \/ regEp' = NoEp /\ closing'[kernel'[b].sock] /\ pc'[kernel'[b].sock] # "closed"
  <2>1. CASE regEp = NoEp
    <3>1. kernel'[b] = kernel[b] /\ kernel[b].sock \in Eps /\ regEp # kernel[b].sock
      BY <2>1, <1>4, <1>7, MrAssumption, Zenon DEF Regd, MrAssumption
    <3>2. closing[kernel[b].sock] /\ pc[kernel[b].sock] # "closed"
      BY <3>1, Zenon DEF CookiesOwned, Regd
    <3> QED BY <2>1, <3>1, <3>2, <1>2, Zenon DEF Steady
  <2>2. CASE regEp # NoEp
    <3>1. b # slot[e].cookie
      <4>1. kernel[slot[e].cookie].sock = regEp
        BY <2>2, <1>2, Zenon DEF CookiesOwned, Reg
      <4>2. Regd(kernel[slot[e].cookie])
        BY <4>1, <2>2, Zenon DEF Regd, KernelOK
      <4>3. kernel'[slot[e].cookie] = NoReg
        BY <2>2, <4>1, <4>2, <1>4, Zenon
      <4> QED BY <4>3, <1>7, NoRegIs, Zenon
    <3>2. kernel'[b] = kernel[b]
      BY <3>1, <1>4, Zenon
    <3>3. regEp = kernel[b].sock /\ \E f \in Slots : slot[f].used /\ slot[f].cookie = b
      BY <2>2, <3>2, <1>7, OwnedWhileLent, Zenon
    <3>4. PICK f \in Slots : slot[f].used /\ slot[f].cookie = b
      BY <3>3, Zenon
    <3>5. f # e
      BY <3>1, <3>4, Zenon
    <3>6. slot'[f].used /\ slot'[f].cookie = b
      BY <3>4, <3>5, <1>3, Zenon
    <3> QED BY <3>2, <3>3, <3>6, <1>2, Zenon
  <2> QED BY <2>1, <2>2, Zenon
<1> QED BY <1>5, <1>6, <1>7, ZenonT(60) DEF CookiesOwned, Reg

\* Use counts and the tree are apart from registrations.
LEMMA KeptIn ==
  ASSUME slot \in [Slots -> Entries]
  PROVE  /\ KeepsCookies(slot)
         /\ \A e, n : KeepsCookies([slot EXCEPT ![e].use = n])
         /\ \A e : KeepsCookies([slot EXCEPT ![e].node = TRUE])
         /\ \A S : KeepsCookies(OutOfTree(S))
<1>1. KeepsCookies(slot)
  BY Zenon DEF KeepsCookies
<1>2. ASSUME NEW e, NEW n PROVE KeepsCookies([slot EXCEPT ![e].use = n])
  BY ZenonT(60) DEF KeepsCookies, Entries
<1>3. ASSUME NEW e PROVE KeepsCookies([slot EXCEPT ![e].node = TRUE])
  BY ZenonT(60) DEF KeepsCookies, Entries
<1>4. ASSUME NEW S PROVE KeepsCookies(OutOfTree(S))
  BY ZenonT(60) DEF KeepsCookies, Entries, OutOfTree
<1> QED BY <1>1, <1>2, <1>3, <1>4, Zenon

\* The steps of the cache that register and unpin nothing.
LEMMA QuietCache ==
  ASSUME Shape, NEW t \in Eps, CacheStep(t),
         ~Create(t), ~CreateRefused(t), ~CreateAgain(t), ~CreateNoNode(t), ~FreeEntry(t)
  PROVE  KeepsCookies(slot') /\ UNCHANGED <<kernel, regEp>>
<1>a. slot \in [Slots -> Entries]
  BY Zenon DEF Shape
<1>1. CASE Hit(t)
  <2>1. PICK e : slot' = [slot EXCEPT ![e].use = @ + 1]
    BY <1>1, ZenonT(60) DEF Hit, HitEntry
  <2>2. KeepsCookies(slot')
    BY <2>1, <1>a, KeptIn, Zenon
  <2> QED BY <2>2, <1>1, Zenon DEF Hit
<1>2. CASE Miss(t)
  <2>1. slot' = OutOfTree(Matches(want[t])) /\ UNCHANGED <<kernel, regEp>>
    BY <1>2, Zenon DEF Miss, UncacheEntries
  <2> QED BY <2>1, <1>a, KeptIn, Zenon
<1>3. CASE Insert(t)
  <2>1. slot' = [slot EXCEPT ![ent[t]].node = TRUE] /\ UNCHANGED <<kernel, regEp>>
    BY <1>3, Zenon DEF Insert
  <2> QED BY <2>1, <1>a, KeptIn, Zenon
<1>4. CASE Flush(t)
  <2>1. PICK S : slot' = OutOfTree(S)
    BY <1>4, Zenon DEF Flush
  <2>2. KeepsCookies(slot')
    BY <2>1, <1>a, KeptIn, Zenon
  <2> QED BY <2>2, <1>4, Zenon DEF Flush
<1>5. CASE SearchFlush(t) \/ CreateNoEntry(t) \/ InsertConflict(t) \/ InsertFull(t) \/ InsertUnwatched(t)
  <2>1. UNCHANGED <<slot, kernel, regEp>>
    BY <1>5, ZenonT(60)
       DEF SearchFlush, CreateNoEntry, CreateError, InsertConflict, InsertFull, InsertUnwatched, cacheVars
  <2> QED BY <2>1, <1>a, KeptIn, Zenon
<1> QED BY <1>1, <1>2, <1>3, <1>4, <1>5, Zenon DEF CacheStep

\* Releasing a chunk and the steps of a send register and unpin nothing in the cache.
LEMMA QuietSend ==
  ASSUME Shape, cacheOn, NEW t \in Eps, (LeavesCache(t) /\ ~CloseSocket(t)) \/ Put(t)
  PROVE  KeepsCookies(slot') /\ kernel' = kernel
<1>a. slot \in [Slots -> Entries]
  BY Zenon DEF Shape
<1>1. CASE LeavesCache(t) /\ ~CloseSocket(t)
  <2>1. slot' = slot
    BY <1>1, LeavesCacheIs, ZenonT(60) DEF cacheVars
  <2>2. ~RegInternal(t)
    BY Zenon DEF RegInternal
  <2>3. kernel' = kernel
    <3>1. CASE SendRndzv(t) \/ CacheGet(t) \/ CacheGot(t) \/ PostRts(t) \/ Fin(t) \/ PutDone(t)
               \/ EpEnable(t) \/ EpClose(t)
      BY <3>1, ZenonT(60) DEF SendRndzv, CacheGet, CacheGot, PostRts, Fin, PutDone, EpEnable, EpClose
    <3>2. CASE RegFails(t) \/ PostFails(t)
      BY <3>2, ZenonT(60) DEF RegFails, PostFails, ErrUnreg
    <3> QED BY <1>1, <2>2, <3>1, <3>2, Zenon DEF LeavesCache
  <2> QED BY <2>1, <2>3, <1>a, KeptIn, Zenon
<1>2. CASE Put(t)
  <2>1. PICK e : slot' = [slot EXCEPT ![e].use = @ - 1] /\ kernel' = kernel
    BY <1>2, ZenonT(60) DEF Put, CacheDelete
  <2> QED BY <2>1, <1>a, KeptIn, Zenon
<1> QED BY <1>1, <1>2, Zenon

Ground ==
  /\ Shape /\ Shut /\ closing \in [Eps -> BOOLEAN] /\ KernelOK
  /\ Phases /\ CountInv /\ Lent

\* A refused registration unpins nothing.
LEMMA RefusedIs ==
  ASSUME Shape, KernelOK, CookiesOwned, NEW t \in Eps, CreateRefused(t) \/ CreateAgain(t)
  PROVE  UNCHANGED <<slot, kernel, regEp>>
<1>1. PICK e \in Slots : PoolHead(e) /\ kernel' = DeleteRegion(kernel, slot[e].cookie)
  BY ZenonT(60) DEF CreateRefused, CreateAgain
<1>2. slot' = slot /\ regEp' = regEp
  BY ZenonT(60) DEF CreateRefused, CreateAgain, CreateError, cacheVars
<1>3. slot[e].cookie \in Cookies /\ ~slot[e].used /\ KTyped(kernel)
  BY <1>1, ZenonT(60) DEF Shape, Entries, PoolHead, FreeSlots, KernelOK
<1>4. regEp = NoEp \/ ~Regd(kernel[slot[e].cookie])
  BY <1>3, FreeSlotClean, Zenon
<1>5. kernel' = kernel
  BY <1>1, <1>3, <1>4, DeleteIs, Zenon
<1> QED BY <1>2, <1>5, Zenon

\* Cookies and entries through the steps of the cache.
LEMMA OwnedCache ==
  ASSUME Ground, ~Reissue, CookiesOwned, NEW t \in Eps, CacheStep(t), UNCHANGED sendVars
  PROVE  CookiesOwned'
<1>a. Shape /\ KernelOK /\ Steady
  BY SteadyStep, Zenon DEF Ground
<1>1. CASE Create(t) \/ CreateNoNode(t)
  BY <1>1, <1>a, OwnedCreate, OwnedNoNode, Zenon
<1>2. CASE FreeEntry(t)
  <2>1. \A e \in flist[t] : e \in Slots /\ slot[e].used
    BY Zenon DEF Ground, CountInv, Counted, Lists
  <2> QED BY <1>2, <1>a, <2>1, OwnedFree, Zenon
<1>3. CASE CreateRefused(t) \/ CreateAgain(t)
  <2>1. UNCHANGED <<slot, kernel, regEp>>
    BY <1>3, <1>a, RefusedIs, Zenon
  <2>2. KeepsCookies(slot')
    BY <2>1, <1>a, KeptIn, Zenon DEF Shape
  <2> QED BY <2>1, <2>2, <1>a, OwnedKept, Zenon
<1>4. CASE ~Create(t) /\ ~CreateRefused(t) /\ ~CreateAgain(t) /\ ~CreateNoNode(t) /\ ~FreeEntry(t)
  <2>1. KeepsCookies(slot') /\ UNCHANGED <<kernel, regEp>>
    BY <1>4, <1>a, QuietCache, Zenon
  <2> QED BY <2>1, <1>a, OwnedKept, Zenon
<1> QED BY <1>1, <1>2, <1>3, <1>4, Zenon

\* The first endpoint lends its socket before anything is registered.
LEMMA OwnedEnable ==
  ASSUME Ground, LenderLast, CookiesOwned, NEW t \in Eps, EpEnable(t), Steady, KeepsCookies(slot'), kernel' = kernel
  PROVE  CookiesOwned'
<1>1. /\ regEp # NoEp \/ \A u \in Eps : pc[u] = "off"
      /\ regEp' = IF regEp = NoEp THEN t ELSE regEp
  BY ZenonT(60) DEF EpEnable
<1>2. CASE regEp # NoEp
  BY <1>1, <1>2, OwnedKept, Zenon DEF Ground
<1>3. CASE regEp = NoEp
  <2>1. \A e \in Slots : ~slot[e].used /\ ~slot'[e].used
    BY <1>1, <1>3, ZenonT(60) DEF CookiesOwned, KeepsCookies
  <2>2. \A u \in Eps : ~closing[u]
    BY <1>1, <1>3, ZenonT(60) DEF Ground, Shut, Gate
  <2>3. \A c \in Cookies : ~Regd(kernel[c])
    <3> SUFFICES ASSUME NEW c \in Cookies, Regd(kernel[c]) PROVE FALSE
      BY Zenon
    <3>1. kernel[c].sock \in Eps /\ kernel[c].sock # NoEp
      BY MrAssumption, Zenon DEF Regd, MrAssumption
    <3> QED BY <3>1, <1>3, <2>2, Zenon DEF CookiesOwned
  <2>4. ASSUME NEW e \in Slots, NEW f \in Slots, slot'[e].cookie = slot'[f].cookie PROVE e = f
    <3>1. slot[e].cookie = slot[f].cookie
      BY <2>4, Zenon DEF KeepsCookies
    <3> QED BY <3>1, Zenon DEF CookiesOwned
  <2> QED BY <2>1, <2>3, <2>4, ZenonT(60) DEF CookiesOwned
<1> QED BY <1>2, <1>3, Zenon

\* When the lender closes, what is left in the kernel is on its socket.
LEMMA OwnedClose ==
  ASSUME Ground, LenderLast, CookiesOwned, NEW t \in Eps, EpClose(t), Steady, KeepsCookies(slot'), kernel' = kernel
  PROVE  CookiesOwned'
<1>1. /\ pc[t] = "idle" /\ regEp' = (IF regEp = t THEN NoEp ELSE regEp)
      /\ closing' = [closing EXCEPT ![t] = TRUE] /\ pc' = [pc EXCEPT ![t] = "put"]
  BY ZenonT(60) DEF EpClose, Goto
<1>2. CASE regEp # t
  BY <1>1, <1>2, OwnedKept, Zenon DEF Ground
<1>3. CASE regEp = t
  <2>0. NoEp \notin Eps
    BY MrAssumption, Zenon DEF MrAssumption
  <2>1. regEp' = NoEp /\ closing'[t] /\ pc'[t] = "put"
    BY <1>1, <1>3, ZenonT(60) DEF Ground, Shape
  <2>2. ASSUME NEW e \in Slots, NEW f \in Slots, slot'[e].cookie = slot'[f].cookie PROVE e = f
    <3>1. slot[e].cookie = slot[f].cookie
      BY <2>2, Zenon DEF KeepsCookies
    <3> QED BY <3>1, Zenon DEF CookiesOwned
  <2>3. \E u \in Eps : pc'[u] # "off"
    BY <2>1, Zenon
  <2>4. ASSUME NEW c \in Cookies, Regd(kernel'[c]) PROVE kernel'[c].sock = t
    <3>1. regEp # NoEp
      BY <1>3, <2>0, Zenon
    <3> QED BY <2>4, <3>1, <1>3, OwnedWhileLent, Zenon DEF Ground
  <2>5. ASSUME NEW c \in Cookies, Regd(kernel'[c])
        PROVE  regEp' = NoEp /\ closing'[kernel'[c].sock] /\ pc'[kernel'[c].sock] # "closed"
    <3>1. kernel'[c].sock = t
      BY <2>4, <2>5, Zenon
    <3> QED BY <2>1, <3>1, ZenonT(60)
  <2> QED BY <2>1, <2>2, <2>3, <2>5, ZenonT(60) DEF CookiesOwned
<1> QED BY <1>2, <1>3, Zenon

\* The socket that closes is not the one lent.
LEMMA OwnedDrop ==
  ASSUME Ground, CookiesOwned, NEW t \in Eps, CloseSocket(t)
  PROVE  CookiesOwned'
<1>a. Shape /\ KernelOK /\ KTyped(kernel) /\ \A e \in Slots : slot[e].cookie \in Cookies
  BY Zenon DEF Ground, Shape, Entries, KernelOK
<1>1. /\ kernel' = [c \in Cookies |-> IF kernel[c].sock = t THEN NoReg ELSE kernel[c]]
      /\ UNCHANGED <<slot, regEp, closing>> /\ pc' = [pc EXCEPT ![t] = "closed"] /\ closing[t]
  BY ZenonT(60) DEF CloseSocket, cacheVars, Goto
<1>2. \A c \in Cookies : (kernel[c].sock # t => kernel'[c] = kernel[c]) /\ (kernel[c].sock = t => kernel'[c] = NoReg)
  BY <1>1, <1>a, DropIs, Zenon
<1>3. pc'[t] = "closed" /\ \A u \in Eps : u # t => pc'[u] = pc[u]
  BY <1>1, <1>a, Zenon DEF Shape
<1>4. regEp # t
  <2>1. NoEp \notin Eps
    BY MrAssumption, Zenon DEF MrAssumption
  <2> QED BY <2>1, <1>1, ZenonT(60) DEF Ground, Lent
<1>5. ASSUME NEW e \in Slots, slot[e].used
      PROVE  /\ \E u \in Eps : pc'[u] # "off"
             /\ regEp # NoEp => kernel'[slot[e].cookie].sock = regEp /\ kernel'[slot[e].cookie].iov = slot[e].iov
  <2>1. \E u \in Eps : pc'[u] # "off"
    BY <1>3, ZenonT(60)
  <2>2. regEp # NoEp => kernel[slot[e].cookie].sock = regEp /\ kernel[slot[e].cookie].iov = slot[e].iov
    BY <1>5, Zenon DEF CookiesOwned, Reg
  <2>3. regEp # NoEp => kernel'[slot[e].cookie] = kernel[slot[e].cookie]
    BY <2>2, <1>2, <1>4, <1>a, Zenon
  <2> QED BY <2>1, <2>2, <2>3, Zenon
<1>6. ASSUME NEW c \in Cookies, Regd(kernel'[c])
      PROVE  \/ regEp = kernel'[c].sock /\ \E e \in Slots : slot[e].used /\ slot[e].cookie = c
             \/ regEp = NoEp /\ closing[kernel'[c].sock] /\ pc'[kernel'[c].sock] # "closed"
  <2>1. kernel[c].sock # t /\ kernel'[c] = kernel[c]
    BY <1>2, <1>6, NoRegIs, Zenon
  <2>2. Regd(kernel[c]) /\ kernel[c].sock \in Eps
    BY <2>1, <1>6, Zenon DEF Regd
  <2>3. pc'[kernel[c].sock] = pc[kernel[c].sock]
    BY <2>1, <2>2, <1>3, Zenon
  <2> QED BY <2>1, <2>2, <2>3, Zenon DEF CookiesOwned
<1>7. \A e, f \in Slots : slot[e].cookie = slot[f].cookie => e = f
  BY Zenon DEF CookiesOwned
<1> QED BY <1>1, <1>5, <1>6, <1>7, ZenonT(60) DEF CookiesOwned, Reg

\* Cookies and entries through the steps of sends and endpoints.
LEMMA OwnedSend ==
  ASSUME Ground, cacheOn, LenderLast, CookiesOwned, NEW t \in Eps, LeavesCache(t) \/ Put(t)
  PROVE  CookiesOwned'
<1>1. CASE CloseSocket(t)
  BY <1>1, OwnedDrop, Zenon
<1>2. CASE ~CloseSocket(t)
  <2>1. Shape /\ KernelOK /\ Steady /\ KeepsCookies(slot') /\ kernel' = kernel
    BY <1>2, SteadyStep, QuietSend, Zenon DEF Ground
  <2>2. CASE EpEnable(t)
    BY <2>1, <2>2, OwnedEnable, Zenon
  <2>3. CASE EpClose(t)
    BY <2>1, <2>3, OwnedClose, Zenon
  <2>4. CASE ~EpEnable(t) /\ ~EpClose(t)
    <3>1. regEp' = regEp
      <4>1. CASE SendRndzv(t) \/ CacheGet(t) \/ CacheGot(t) \/ RegInternal(t) \/ PostRts(t)
        BY <4>1, ZenonT(60) DEF SendRndzv, CacheGet, CacheGot, RegInternal, PostRts
      <4>2. CASE RegFails(t) \/ PostFails(t) \/ Fin(t) \/ PutDone(t) \/ Put(t)
        BY <4>2, ZenonT(60) DEF RegFails, PostFails, ErrUnreg, Fin, PutDone, Put
      <4> QED BY <1>2, <2>4, <4>1, <4>2, Zenon DEF LeavesCache
    <3> QED BY <2>1, <3>1, OwnedKept, Zenon
  <2> QED BY <2>2, <2>3, <2>4, Zenon
<1> QED BY <1>1, <1>2, Zenon

\* The domain closes after every socket; an unmap only changes pages.
LEMMA OwnedRest ==
  ASSUME Ground, CookiesOwned, DomainClose \/ UnmapPage \/ UNCHANGED vars
  PROVE  CookiesOwned'
<1>a. Shape /\ KernelOK /\ KTyped(kernel) /\ slot \in [Slots -> Entries]
  BY Zenon DEF Ground, Shape, KernelOK
<1>b. UNCHANGED <<regEp, pc, closing>>
  BY ZenonT(60) DEF DomainClose, UnmapPage, Unmap, vars, mrVars, sendVars
<1>c. Steady
  BY <1>b, Zenon DEF Steady
<1>1. CASE UNCHANGED vars
  <2>1. UNCHANGED <<slot, kernel>>
    BY <1>1, Zenon DEF vars, mrVars, cacheVars
  <2>2. KeepsCookies(slot')
    BY <2>1, <1>a, KeptIn, Zenon
  <2> QED BY <2>1, <2>2, <1>a, <1>b, <1>c, OwnedKept, Zenon
<1>2. CASE UnmapPage
  <2>1. PICK p : /\ kernel' = [c \in Cookies |->
                      IF kernel[c] = NoReg THEN NoReg ELSE [kernel[c] EXCEPT !.pages = @ \ {p}]]
                 /\ slot' = OutOfTree(Notified(p))
    BY <1>2, Zenon DEF UnmapPage, Unmap, UncacheEntries
  <2>2. \A c \in Cookies : kernel'[c].sock = kernel[c].sock /\ kernel'[c].iov = kernel[c].iov
    BY <2>1, <1>a, LoseIs, Zenon
  <2>3. KeepsCookies(slot')
    BY <2>1, <1>a, KeptIn, Zenon
  <2> QED BY <2>2, <2>3, <1>a, <1>b, <1>c, OwnedKept, Zenon
<1>3. CASE DomainClose
  <2>1. /\ \A u \in Eps : pc[u] \in {"off", "closed"}
        /\ kernel' = kernel
        /\ slot' = [e \in Slots |-> IF e \in lru \cup dead THEN FreeSlot(slot[e].cookie) ELSE slot[e]]
    BY <1>3, Zenon DEF DomainClose
  <2>2. regEp = NoEp
    <3>1. regEp # NoEp => regEp \in Eps /\ pc[regEp] # "off" /\ ~closing[regEp]
      BY ZenonT(60) DEF Ground, Lent, KernelOK
    <3>2. \A u \in Eps : pc[u] = "closed" => closing[u]
      BY Zenon DEF Ground, Shut, Gate
    <3> QED BY <2>1, <3>1, <3>2, ZenonT(60)
  <2>3. \A e \in Slots : slot'[e].cookie = slot[e].cookie /\ (slot'[e].used => slot[e].used)
    <3> SUFFICES ASSUME NEW e \in Slots PROVE slot'[e].cookie = slot[e].cookie /\ (slot'[e].used => slot[e].used)
      BY Zenon
    <3>1. CASE e \in lru \cup dead
      <4>1. slot'[e] = FreeSlot(slot[e].cookie)
        BY <2>1, <3>1, Zenon
      <4>2. ~FreeSlot(slot[e].cookie).used /\ FreeSlot(slot[e].cookie).cookie = slot[e].cookie
        BY Zenon DEF FreeSlot
      <4> QED BY <4>1, <4>2, Zenon
    <3>2. CASE e \notin lru \cup dead
      BY <2>1, <3>2, Zenon
    <3> QED BY <3>1, <3>2, Zenon
  <2>4. ASSUME NEW e \in Slots, NEW f \in Slots, slot'[e].cookie = slot'[f].cookie PROVE e = f
    <3>1. slot[e].cookie = slot[f].cookie
      BY <2>3, <2>4, Zenon
    <3> QED BY <3>1, Zenon DEF CookiesOwned
  <2>5. \A e \in Slots : slot'[e].used => \E u \in Eps : pc'[u] # "off"
    BY <2>3, <1>b, ZenonT(60) DEF CookiesOwned
  <2>6. ASSUME NEW c \in Cookies, Regd(kernel[c])
        PROVE  closing[kernel[c].sock] /\ pc[kernel[c].sock] # "closed"
    <3>1. kernel[c].sock \in Eps /\ kernel[c].sock # NoEp
      BY <2>6, MrAssumption, Zenon DEF Regd, MrAssumption
    <3> QED BY <2>2, <2>6, <3>1, Zenon DEF CookiesOwned
  <2> QED BY <1>b, <2>1, <2>2, <2>4, <2>5, <2>6, ZenonT(60) DEF CookiesOwned
<1> QED BY <1>1, <1>2, <1>3, Zenon
=============================================================================
