---------------------------- MODULE RdsMrTheorems ----------------------------
(***************************************************************************)
(* The theorems about the registration cache: the cookies of the entries   *)
(* in the tree are current, the steps keep the whole invariant, and what   *)
(* follows from it in every reachable state.                               *)
(***************************************************************************)
EXTENDS RdsMrCookies

\* Leaves go to SMT unless they name another prover.
USE SMTT(60)

-----------------------------------------------------------------------------
(* What cookies cover *)

LiveEntry(e) == e \in Slots /\ slot[e].used /\ NotFreeing(flist, e)

\* What is in the tree, held or in hand is allocated, and nobody frees it.
LEMMA LiveAre ==
  ASSUME CountInv
  PROVE  /\ \A e \in Slots : slot[e].node => LiveEntry(e)
         /\ \A u \in Eps : \A h \in held[u] : LiveEntry(h.id)
         /\ \A u \in Eps : pc[u] \in {"insert", "ret"} => LiveEntry(ent[u])
<1>1. \A e \in Slots : slot[e].node => LiveEntry(e)
  BY ZenonT(60) DEF CountInv, Counted, Lists, LiveEntry, NotFreeing
<1>2. \A u \in Eps : \A r \in Refs[u] : LiveEntry(r.id)
  BY Zenon DEF CountInv, Counted, Live, LiveEntry
<1>3. \A u \in Eps : \A h \in held[u] : h \in Refs[u]
  BY Zenon DEF Refs, References
<1>4. ASSUME NEW u \in Eps, pc[u] \in {"insert", "ret"} PROVE LiveEntry(ent[u])
  <2>1. InHand(ent[u]) \in Refs[u]
    BY <1>4, RefsAre, ZenonT(60)
  <2>2. InHand(ent[u]).id = ent[u]
    BY Zenon DEF InHand, Hold
  <2> QED BY <2>1, <2>2, <1>2, Zenon
<1> QED BY <1>1, <1>2, <1>3, <1>4, Zenon

\* entry e has the registration it had
Stays(e) == /\ slot'[e].iov = slot[e].iov /\ slot'[e].cookie = slot[e].cookie
            /\ kernel'[slot[e].cookie] = kernel[slot[e].cookie]

\* what was covered still is
StillCurrent ==
  /\ \A e \in Slots : slot[e].node /\ slot'[e].node => Reg(e)'.pages = PagesOf(slot'[e].iov)
  /\ \A u \in Eps : \A h \in held[u] :
       IovWithin(h.iov, slot'[h.id].iov) /\ PagesOf(h.iov) \subseteq kernel'[slot'[h.id].cookie].pages
  /\ \A u \in Eps : pc[u] \in {"insert", "ret"} =>
       IovWithin(want[u], slot'[ent[u]].iov) /\ PagesOf(want[u]) \subseteq kernel'[slot'[ent[u]].cookie].pages
  /\ \A u \in Eps : pc[u] = "insert" =>
       slot'[ent[u]].iov = want[u] /\ kernel'[slot'[ent[u]].cookie].pages = PagesOf(want[u])

\* A step that keeps the registrations of the live entries.
LEMMA StillMoves ==
  ASSUME CountInv, Current, regEp # NoEp, \A e \in Slots : LiveEntry(e) => Stays(e)
  PROVE  StillCurrent
<1>a. /\ \A e \in Slots : slot[e].node => Stays(e)
      /\ \A u \in Eps : \A h \in held[u] : Stays(h.id)
      /\ \A u \in Eps : pc[u] \in {"insert", "ret"} => Stays(ent[u])
  BY LiveAre, ZenonT(60) DEF LiveEntry
<1>1. ASSUME NEW e \in Slots, slot[e].node PROVE Reg(e)'.pages = PagesOf(slot'[e].iov)
  <2>1. Reg(e).pages = PagesOf(slot[e].iov) /\ Stays(e)
    BY <1>1, <1>a, Zenon DEF Current
  <2> QED BY <2>1, Zenon DEF Stays, Reg
<1>2. ASSUME NEW u \in Eps, NEW h \in held[u]
      PROVE  IovWithin(h.iov, slot'[h.id].iov) /\ PagesOf(h.iov) \subseteq kernel'[slot'[h.id].cookie].pages
  <2>1. Covers(h.id, h.iov) /\ Stays(h.id)
    BY <1>a, Zenon DEF Current
  <2> QED BY <2>1, ZenonT(60) DEF Stays, Reg, Covers
<1>3. ASSUME NEW u \in Eps, pc[u] \in {"insert", "ret"}
      PROVE  IovWithin(want[u], slot'[ent[u]].iov) /\ PagesOf(want[u]) \subseteq kernel'[slot'[ent[u]].cookie].pages
  <2>1. Covers(ent[u], want[u]) /\ Stays(ent[u])
    BY <1>3, <1>a, Zenon DEF Current
  <2> QED BY <2>1, ZenonT(60) DEF Stays, Reg, Covers
<1>4. ASSUME NEW u \in Eps, pc[u] = "insert"
      PROVE  slot'[ent[u]].iov = want[u] /\ kernel'[slot'[ent[u]].cookie].pages = PagesOf(want[u])
  <2>1. slot[ent[u]].iov = want[u] /\ Reg(ent[u]).pages = PagesOf(want[u]) /\ Stays(ent[u])
    BY <1>4, <1>a, ZenonT(60) DEF Current
  <2> QED BY <2>1, ZenonT(60) DEF Stays, Reg
<1> QED BY <1>1, <1>2, <1>3, <1>4, ZenonT(60) DEF StillCurrent

\* From what was covered to what is: an endpoint's new chunk and the entry in its hand.
LEMMA CurrentMoves ==
  ASSUME StillCurrent, NEW t \in Eps,
         \A u \in Eps : u # t => /\ pc'[u] = pc[u] /\ ent'[u] = ent[u] /\ want'[u] = want[u]
                                 /\ held'[u] = held[u],
         \A e \in Slots : slot'[e].node => slot[e].node \/ Reg(e)'.pages = PagesOf(slot'[e].iov),
         \A h \in held'[t] : h \in held[t] \/ Covers(h.id, h.iov)',
         pc'[t] \in {"insert", "ret"} => Covers(ent[t], want[t])',
         pc'[t] = "insert" => slot'[ent'[t]].iov = want'[t] /\ Reg(ent[t])'.pages = PagesOf(want'[t])
  PROVE  Current'
<1>1. ASSUME NEW e \in Slots, slot'[e].node PROVE Reg(e)'.pages = PagesOf(slot'[e].iov)
  BY <1>1, Zenon DEF StillCurrent
<1>2. ASSUME NEW u \in Eps, NEW h \in held'[u] PROVE Covers(h.id, h.iov)'
  <2>1. ASSUME h \in held[u] PROVE Covers(h.id, h.iov)'
    BY <2>1, Zenon DEF StillCurrent, Covers, Reg
  <2> QED BY <2>1, Zenon
<1>3. ASSUME NEW u \in Eps, pc'[u] \in {"insert", "ret"} PROVE Covers(ent[u], want[u])'
  <2>1. CASE u = t
    BY <1>3, <2>1, Zenon
  <2>2. CASE u # t
    <3>1. pc[u] \in {"insert", "ret"} /\ ent'[u] = ent[u] /\ want'[u] = want[u]
      BY <1>3, <2>2, Zenon
    <3> QED BY <3>1, Zenon DEF StillCurrent, Covers, Reg
  <2> QED BY <2>1, <2>2, Zenon
<1>4. ASSUME NEW u \in Eps, pc'[u] = "insert"
      PROVE  slot'[ent'[u]].iov = want'[u] /\ Reg(ent[u])'.pages = PagesOf(want'[u])
  <2>1. CASE u = t
    BY <1>4, <2>1, Zenon
  <2>2. CASE u # t
    <3>1. pc[u] = "insert" /\ ent'[u] = ent[u] /\ want'[u] = want[u]
      BY <1>4, <2>2, Zenon
    <3> QED BY <3>1, Zenon DEF StillCurrent, Reg
  <2> QED BY <2>1, <2>2, Zenon
<1> QED BY <1>1, <1>2, <1>3, <1>4, ZenonT(60) DEF Current

\* A step of the cache keeps the registrations of the live entries.
LEMMA LiveStay ==
  ASSUME Ground, ~Reissue, CookiesOwned, regEp # NoEp, NEW t \in Eps, CacheStep(t)
  PROVE  \A f \in Slots : LiveEntry(f) => Stays(f)
<1>a. /\ Shape /\ KernelOK /\ KTyped(kernel) /\ slot \in [Slots -> Entries]
      /\ \A e \in Slots : slot[e].cookie \in Cookies
  BY Zenon DEF Ground, Shape, Entries, KernelOK
<1> SUFFICES ASSUME NEW f \in Slots, LiveEntry(f) PROVE Stays(f)
  BY Zenon
<1>b. slot[f].used /\ f \notin flist[t]
  BY Zenon DEF LiveEntry, NotFreeing
<1>1. CASE Create(t)
  <2>1. PICK e \in Slots : /\ PoolHead(e)
                           /\ \E c \in Issued(e) :
                                /\ kernel' = [kernel EXCEPT ![c] = Registration(want[t], regEp, regDest)]
                                /\ slot' = [slot EXCEPT ![e] = NewEntry(t, c)]
    BY <1>1, ZenonT(60) DEF Create
  <2>2. PICK c \in Issued(e) : /\ kernel' = [kernel EXCEPT ![c] = Registration(want[t], regEp, regDest)]
                               /\ slot' = [slot EXCEPT ![e] = NewEntry(t, c)]
    BY <2>1, Zenon
  <2>3. f # e
    BY <1>b, <2>1, Zenon DEF PoolHead, FreeSlots
  <2>4. c \in Cookies /\ \A g \in Slots : g # e => slot[g].cookie # c
    BY IssuedIs, Zenon
  <2>5. slot[f].cookie # c /\ slot[f].cookie \in Cookies
    BY <2>3, <2>4, <1>a, Zenon
  <2>6. slot'[f] = slot[f]
    BY <2>2, <2>3, <1>a, Zenon
  <2>7. kernel = [b \in Cookies |-> kernel[b]]
    BY <1>a, Zenon DEF KTyped
  <2>8. kernel'[slot[f].cookie] = kernel[slot[f].cookie]
    BY <2>2, <2>5, <2>7, Zenon
  <2> QED BY <2>6, <2>8, Zenon DEF Stays
<1>2. CASE CreateNoNode(t)
  <2>1. PICK e \in Slots : PoolHead(e) /\ \E c \in Issued(e) : slot' = [slot EXCEPT ![e] = FreeSlot(c)]
    BY <1>2, ZenonT(60) DEF CreateNoNode
  <2>2. f # e
    BY <1>b, <2>1, Zenon DEF PoolHead, FreeSlots
  <2>3. slot'[f] = slot[f]
    BY <2>1, <2>2, <1>a, Zenon
  <2>4. kernel' = kernel
    BY <1>2, Zenon DEF CreateNoNode
  <2> QED BY <2>3, <2>4, Zenon DEF Stays
<1>3. CASE FreeEntry(t)
  <2>1. PICK e \in flist[t] : /\ kernel' = DeleteRegion(kernel, slot[e].cookie)
                              /\ slot' = [slot EXCEPT ![e] = FreeSlot(slot[e].cookie)]
    BY <1>3, ZenonT(60) DEF FreeEntry
  <2>2. e \in Slots /\ slot[e].cookie \in Cookies
    BY <1>a, Zenon DEF Ground, CountInv, Counted, Lists
  <2>3. f # e
    BY <1>b, Zenon
  <2>4. slot'[f] = slot[f]
    BY <2>1, <2>3, <1>a, Zenon
  <2>5. slot[f].cookie # slot[e].cookie
    BY <2>2, <2>3, Zenon DEF CookiesOwned
  <2>6. \A b \in Cookies : b # slot[e].cookie => kernel'[b] = kernel[b]
    BY <2>1, <2>2, <1>a, DeleteIs, Zenon
  <2> QED BY <2>4, <2>5, <2>6, <1>a, Zenon DEF Stays
<1>4. CASE CreateRefused(t) \/ CreateAgain(t)
  BY <1>4, <1>a, RefusedIs, Zenon DEF Stays
<1>5. CASE ~Create(t) /\ ~CreateRefused(t) /\ ~CreateAgain(t) /\ ~CreateNoNode(t) /\ ~FreeEntry(t)
  BY <1>5, <1>a, QuietCache, Zenon DEF Stays, KeepsCookies
<1> QED BY <1>1, <1>2, <1>3, <1>4, <1>5, Zenon

\* What contains an interval contains its pages.
LEMMA WithinPages ==
  ASSUME NEW i \in Iovs, NEW j \in Iovs
  PROVE  /\ IovWithin(i, j) => PagesOf(i) \subseteq PagesOf(j)
         /\ IovWithin(i, i)
<1>1. i.lo \in Nat /\ i.hi \in Nat /\ j.lo \in Nat /\ j.hi \in Nat
  BY PagesOfIov, Zenon
<1> DEFINE a == i.lo
           b == i.hi
           c == j.lo
           d == j.hi
<1>2. a \in Nat /\ b \in Nat /\ c \in Nat /\ d \in Nat
  BY <1>1, Zenon
<1> HIDE DEF a, b, c, d
<1>3. (a >= c /\ b <= d => a .. b \subseteq c .. d) /\ a >= a /\ b <= b
  BY <1>2
<1> QED BY <1>3, Zenon DEF a, b, c, d, IovWithin, PagesOf

\* What is covered stays covered through the steps of the cache.
LEMMA CurrentCache ==
  ASSUME Ground, ~Reissue, CookiesOwned, Current, NEW t \in Eps, CacheStep(t), UNCHANGED sendVars
  PROVE  Current'
<1>a. /\ Shape /\ KernelOK /\ CountInv /\ slot \in [Slots -> Entries]
      /\ pc \in [Eps -> Labels \cup {"none"}] /\ ent \in [Eps -> Nat] /\ want \in [Eps -> Iovs]
  BY IovsAll, ZenonT(60) DEF Ground, Shape
<1>0. regEp' = regEp
  <2>1. flist[t] \subseteq Slots
    BY Zenon DEF Ground, CountInv, Counted, Lists
  <2> QED BY <2>1, <1>a, KernelCache, Zenon
<1>1. CASE regEp = NoEp
  BY <1>0, <1>1, Zenon DEF Current
<1>2. CASE regEp # NoEp
  <2>1. StillCurrent
    BY <1>2, <1>a, LiveStay, StillMoves, Zenon
  <2>2. \A u \in Eps : u # t => pc'[u] = pc[u] /\ ent'[u] = ent[u] /\ want'[u] = want[u]
    BY <1>a, CacheStepIs, ZenonT(60) DEF Outlook
  <2>3. held' = held /\ want' = want
    BY <1>a, CacheStepIs, ZenonT(60) DEF sendVars, Outlook
  <2>4. CASE Insert(t)
    <3>1. /\ pc[t] = "insert" /\ pc' = [pc EXCEPT ![t] = "ret"] /\ ent' = ent
          /\ slot' = [slot EXCEPT ![ent[t]].node = TRUE]
      BY <2>4, ZenonT(60) DEF Insert, Goto, findVars
    <3>2. pc'[t] = "ret" /\ \A e \in Slots : e # ent[t] => slot'[e] = slot[e]
      BY <3>1, <1>a, Zenon
    <3>3. Covers(ent[t], want[t])'
      BY <2>1, <2>3, <3>1, ZenonT(60) DEF StillCurrent, Covers, Reg
    <3>4. slot'[ent[t]].iov = want[t] /\ Reg(ent[t])'.pages = PagesOf(want[t])
      BY <2>1, <3>1, ZenonT(60) DEF StillCurrent, Reg
    <3>5. ASSUME NEW e \in Slots, slot'[e].node PROVE slot[e].node \/ Reg(e)'.pages = PagesOf(slot'[e].iov)
      <4>1. CASE e = ent[t]
        <5>1. Reg(e)'.pages = PagesOf(want[t]) /\ slot'[e].iov = want[t]
          BY <4>1, <3>1, <3>4, Zenon
        <5> QED BY <5>1, Zenon
      <4>2. CASE e # ent[t]
        BY <4>2, <3>2, <3>5, Zenon
      <4> QED BY <4>1, <4>2, Zenon
    <3>6. pc'[t] # "insert"
      BY <3>2, Zenon
    <3> QED BY <2>1, <2>2, <2>3, <3>3, <3>5, <3>6, CurrentMoves, Zenon
  <2>5. CASE ~Insert(t)
    <3>1. \A e \in Slots : slot'[e].node => slot[e].node
      <4>1. Call(t)
        BY Zenon DEF Call
      <4> QED BY <2>5, <4>1, <1>a, OnlyInsertEnters, Zenon DEF NoneEnters
    <3>2. CASE Hit(t)
      <4>1. PICK e \in Matches(want[t]) : /\ IovWithin(want[t], slot[e].iov)
                                          /\ slot' = [slot EXCEPT ![e].use = @ + 1]
                                          /\ ent' = [ent EXCEPT ![t] = e]
        BY <3>2, ZenonT(60) DEF Hit, HitEntry
      <4>2. e \in Slots /\ slot[e].node
        BY Zenon DEF Matches, Tree
      <4>3. pc'[t] = "ret" /\ ent'[t] = e
        BY <3>2, <4>1, <1>a, ZenonT(60) DEF Hit, Goto
      <4>4. Stays(e)
        BY <4>2, <1>2, <1>a, LiveAre, LiveStay, Zenon
      <4>5. Reg(e).pages = PagesOf(slot[e].iov)
        BY <4>2, <1>2, Zenon DEF Current
      <4>6. want[t] \in Iovs /\ slot[e].iov \in Iovs
        BY <4>2, <1>a, IovsAll, Zenon DEF Entries
      <4>7. PagesOf(want[t]) \subseteq PagesOf(slot[e].iov)
        BY <4>1, <4>6, WithinPages, Zenon
      <4>8. Covers(ent[t], want[t])'
        <5>1. IovWithin(want[t], slot'[e].iov) /\ PagesOf(want[t]) \subseteq kernel'[slot'[e].cookie].pages
          BY <4>1, <4>4, <4>5, <4>7, ZenonT(60) DEF Reg, Stays
        <5> QED BY <5>1, <4>3, <2>3, ZenonT(60) DEF Covers, Reg
      <4>9. pc'[t] # "insert"
        BY <4>3, Zenon
      <4> QED BY <2>1, <2>2, <2>3, <3>1, <4>8, <4>9, CurrentMoves, Zenon
    <3>3. CASE Create(t)
      <4>1. PICK e \in Slots : /\ ent' = [ent EXCEPT ![t] = e]
                               /\ \E c \in Issued(e) :
                                    /\ kernel' = [kernel EXCEPT ![c] = Registration(want[t], regEp, regDest)]
                                    /\ slot' = [slot EXCEPT ![e] = NewEntry(t, c)]
        BY <3>3, ZenonT(60) DEF Create
      <4>2. PICK c \in Issued(e) : /\ kernel' = [kernel EXCEPT ![c] = Registration(want[t], regEp, regDest)]
                                   /\ slot' = [slot EXCEPT ![e] = NewEntry(t, c)]
        BY <4>1, Zenon
      <4>3. want[t] \in Iovs /\ regEp \in Eps /\ KTyped(kernel) /\ c \in Cookies
        BY <1>a, <1>2, IssuedIs, ZenonT(60) DEF KernelOK
      <4>4. Added(c, want[t], regEp)
        BY <4>2, <4>3, IssueIs, Zenon
      <4>5. slot'[e].iov = want[t] /\ slot'[e].cookie = c
        <5>1. slot'[e] = NewEntry(t, c)
          BY <4>2, <1>a, Zenon
        <5>2. NewEntry(t, c).iov = want[t] /\ NewEntry(t, c).cookie = c
          BY Zenon DEF NewEntry
        <5> QED BY <5>1, <5>2, Zenon
      <4>6. ent'[t] = e
        BY <4>1, <1>a, Zenon
      <4>7. slot'[ent'[t]].iov = want'[t] /\ Reg(ent[t])'.pages = PagesOf(want'[t])
        <5>1. kernel'[slot'[e].cookie].pages = PagesOf(want[t])
          BY <4>4, <4>5, Zenon DEF Added
        <5> QED BY <5>1, <4>5, <4>6, <2>3, ZenonT(60) DEF Reg
      <4>8. Covers(ent[t], want[t])'
        <5>1. IovWithin(want[t], want[t])
          BY <4>3, WithinPages, Zenon
        <5> QED BY <5>1, <4>7, <2>3, ZenonT(60) DEF Covers
      <4> QED BY <2>1, <2>2, <2>3, <3>1, <4>7, <4>8, CurrentMoves, Zenon
    <3>4. CASE InsertFull(t) \/ InsertUnwatched(t)
      <4>1. pc[t] = "insert" /\ pc' = [pc EXCEPT ![t] = "ret"] /\ ent' = ent
        BY <3>4, ZenonT(60) DEF InsertFull, InsertUnwatched, Goto, findVars
      <4>2. pc'[t] # "insert"
        BY <4>1, <1>a, Zenon
      <4>3. Covers(ent[t], want[t])'
        BY <2>1, <2>3, <4>1, ZenonT(60) DEF StillCurrent, Covers, Reg
      <4> QED BY <2>1, <2>2, <2>3, <3>1, <4>2, <4>3, CurrentMoves, Zenon
    <3>5. CASE ~(Hit(t) \/ Create(t) \/ InsertFull(t) \/ InsertUnwatched(t))
      <4>1. pc'[t] \notin {"insert", "ret"}
        <5>1. CASE \/ SearchFlush(t) \/ Miss(t) \/ CreateNoEntry(t) \/ CreateRefused(t) \/ CreateAgain(t)
                   \/ CreateNoNode(t) \/ InsertConflict(t)
          <6>1. \E l \in {"flush", "create", "free", "search"} : pc' = [pc EXCEPT ![t] = l]
            BY <5>1, ZenonT(60)
               DEF SearchFlush, Miss, CreateNoEntry, CreateRefused, CreateAgain, CreateNoNode, CreateError,
                   InsertConflict, Goto
          <6> QED BY <6>1, <1>a, ZenonT(60)
        <5>2. CASE Flush(t)
          <6>1. PICK S : pc' = [pc EXCEPT ![t] = IF S = {} THEN FlushNext(t, S) ELSE "free"]
            BY <5>2, Zenon DEF Flush, Goto
          <6>2. FlushNext(t, S) \notin {"insert", "ret"}
            BY <1>a, ZenonT(60) DEF FlushNext, Shape
          <6>3. pc'[t] = IF S = {} THEN FlushNext(t, S) ELSE "free"
            BY <6>1, <1>a, Zenon
          <6> QED BY <6>2, <6>3, ZenonT(60)
        <5>3. CASE FreeEntry(t)
          <6>1. PICK e : pc' = [pc EXCEPT ![t] = IF flist[t] = {e} THEN after[t] ELSE "free"]
            BY <5>3, ZenonT(60) DEF FreeEntry, Goto
          <6>2. after[t] \notin {"insert", "ret"}
            BY <1>a, ZenonT(60) DEF Shape
          <6>3. pc'[t] = IF flist[t] = {e} THEN after[t] ELSE "free"
            BY <6>1, <1>a, Zenon
          <6> QED BY <6>2, <6>3, ZenonT(60)
        <5> QED BY <2>5, <3>5, <5>1, <5>2, <5>3, Zenon DEF CacheStep
      <4>2. pc'[t] # "insert"
        BY <4>1, Zenon
      <4> QED BY <2>1, <2>2, <2>3, <3>1, <4>1, <4>2, CurrentMoves, Zenon
    <3> QED BY <3>2, <3>3, <3>4, <3>5, Zenon
  <2> QED BY <2>4, <2>5, Zenon
<1> QED BY <1>1, <1>2, Zenon

\* Who a step of a send or of an endpoint leaves alone.
LEMMA SendMoves ==
  ASSUME Shape, cacheOn, NEW t \in Eps, LeavesCache(t) \/ Put(t)
  PROVE  /\ \A u \in Eps : u # t => /\ pc'[u] = pc[u] /\ ent'[u] = ent[u] /\ want'[u] = want[u]
                                    /\ held'[u] = held[u]
         /\ pc'[t] \notin {"insert", "ret"}
         /\ ~CacheGot(t) => held'[t] \subseteq held[t]
<1>a. /\ pc \in [Eps -> Labels \cup {"none"}] /\ ent \in [Eps -> Nat] /\ want \in [Eps -> Intervals]
      /\ held = [u \in Eps |-> held[u]]
  BY Zenon DEF Shape, HeldOK
<1>1. want' = want \/ \E x : want' = [want EXCEPT ![t] = x]
  <2>1. CASE SendRndzv(t) \/ PostRts(t)
    BY <2>1, ZenonT(60) DEF SendRndzv, PostRts, findVars
  <2>2. CASE CacheGet(t) \/ CacheGot(t) \/ RegInternal(t)
    BY <2>2, ZenonT(60) DEF CacheGet, CacheGot, RegInternal, SearchReturns, findVars
  <2>3. CASE RegFails(t) \/ PostFails(t)
    BY <2>3, ZenonT(60) DEF RegFails, PostFails, SearchReturns, findVars
  <2>4. CASE Fin(t) \/ PutDone(t) \/ CloseSocket(t) \/ EpEnable(t) \/ EpClose(t)
    BY <2>4, ZenonT(60) DEF Fin, PutDone, CloseSocket, EpEnable, EpClose, findVars
  <2>5. CASE Put(t)
    BY <2>5, ZenonT(60) DEF Put, CacheDelete, findVars
  <2> QED BY <2>1, <2>2, <2>3, <2>4, <2>5, Zenon DEF LeavesCache
<1>2. /\ held' = held \/ \E x : held' = [held EXCEPT ![t] = x]
      /\ ~CacheGot(t) => held'[t] \subseteq held[t]
  <2>1. CASE SendRndzv(t) \/ PostRts(t) \/ CacheGet(t)
    <3>1. held' = held
      BY <2>1, ZenonT(60) DEF SendRndzv, PostRts, CacheGet, sendVars
    <3> QED BY <3>1, Zenon
  <2>2. CASE CacheGot(t)
    BY <2>2, ZenonT(60) DEF CacheGot, Took
  <2>3. CASE RegFails(t) \/ PostFails(t)
    <3>1. held' = held
      BY <2>3, ZenonT(60) DEF RegFails, PostFails, ErrUnreg
    <3> QED BY <3>1, Zenon
  <2>4. CASE Fin(t) \/ PutDone(t) \/ CloseSocket(t) \/ EpEnable(t) \/ EpClose(t)
    <3>1. held' = held
      BY <2>4, ZenonT(60) DEF Fin, PutDone, CloseSocket, EpEnable, EpClose, sendVars
    <3> QED BY <3>1, Zenon
  <2>5. CASE Put(t)
    <3>1. PICK h : held' = [held EXCEPT ![t] = @ \ {h}]
      BY <2>5, Zenon DEF Put
    <3>2. held'[t] = held[t] \ {h}
      BY <3>1, <1>a, Zenon
    <3>3. held'[t] \subseteq held[t]
      BY <3>2, Zenon
    <3> QED BY <3>1, <3>3, Zenon
  <2>6. ~RegInternal(t)
    BY Zenon DEF RegInternal
  <2> QED BY <2>1, <2>2, <2>3, <2>4, <2>5, <2>6, Zenon DEF LeavesCache
<1>3. (\A u \in Eps : u # t => pc'[u] = pc[u] /\ ent'[u] = ent[u]) /\ pc'[t] \notin {"insert", "ret"}
  <2>1. CASE LeavesCache(t)
    BY <2>1, LeavesCacheIs, ZenonT(60)
  <2>2. CASE Put(t)
    <3>1. PICK h : CacheDelete(t, h.id, "put")
      BY <2>2, Zenon DEF Put
    <3>2. (\E l \in {"free", "put"} : pc' = [pc EXCEPT ![t] = l]) /\ ent' = ent
      BY <3>1, ZenonT(60) DEF CacheDelete, Goto
    <3> QED BY <3>2, <1>a, ZenonT(60)
  <2> QED BY <2>1, <2>2, Zenon
<1>4. \A u \in Eps : u # t => want'[u] = want[u] /\ held'[u] = held[u]
  BY <1>1, <1>2, <1>a, ZenonT(60)
<1> QED BY <1>2, <1>3, <1>4, Zenon

\* Only two steps change which socket is lent.
LEMMA LentKept ==
  ASSUME NEW t \in Eps, LeavesCache(t) \/ Put(t), ~EpEnable(t)
  PROVE  regEp' \in {regEp, NoEp}
<1>1. CASE SendRndzv(t) \/ CacheGet(t) \/ CacheGot(t) \/ RegInternal(t) \/ PostRts(t)
  BY <1>1, ZenonT(60) DEF SendRndzv, CacheGet, CacheGot, RegInternal, PostRts
<1>2. CASE RegFails(t) \/ PostFails(t) \/ Fin(t) \/ PutDone(t) \/ Put(t)
  BY <1>2, ZenonT(60) DEF RegFails, PostFails, ErrUnreg, Fin, PutDone, Put
<1>3. CASE CloseSocket(t) \/ EpClose(t)
  BY <1>3, ZenonT(60) DEF CloseSocket, EpClose
<1> QED BY <1>1, <1>2, <1>3, Zenon DEF LeavesCache

\* The first endpoint finds an empty cache.
LEMMA CurrentEnable ==
  ASSUME Ground, LenderLast, CookiesOwned, regEp = NoEp, NEW t \in Eps, EpEnable(t)
  PROVE  Current'
<1>1. /\ \A u \in Eps : pc[u] = "off" /\ UNCHANGED <<slot, held>>
      /\ pc' = [pc EXCEPT ![t] = "idle"]
  BY ZenonT(60) DEF EpEnable, Goto, cacheVars, sendVars
<1>2. \A u \in Eps : pc'[u] \in {"idle", "off"}
  BY <1>1, ZenonT(60) DEF Ground, Shape
<1>3. \A e \in Slots : ~slot[e].used
  BY <1>1, ZenonT(60) DEF CookiesOwned
<1>4. (\A e \in Slots : ~slot[e].node) /\ \A u \in Eps : \A h \in held[u] : FALSE
  BY <1>3, LiveAre, ZenonT(60) DEF LiveEntry, Ground
<1>5. (\A e \in Slots : ~slot'[e].node) /\ \A u \in Eps : \A h \in held'[u] : FALSE
  BY <1>1, <1>4, MrAssumption, Zenon DEF MrAssumption
<1>6. \A u \in Eps : pc'[u] \notin {"insert", "ret"} /\ pc'[u] # "insert"
  BY <1>2, ZenonT(60)
<1> QED BY <1>5, <1>6, Zenon DEF Current

\* What is covered stays covered through the steps of sends and endpoints.
LEMMA CurrentSend ==
  ASSUME Ground, cacheOn, LenderLast, CookiesOwned, Wanted, Current,
         NEW t \in Eps, LeavesCache(t) \/ Put(t)
  PROVE  Current'
<1>a. Shape /\ KernelOK /\ CountInv /\ KTyped(kernel) /\ \A e \in Slots : slot[e].cookie \in Cookies
  BY Zenon DEF Ground, Shape, Entries, KernelOK
<1>1. CASE EpEnable(t) /\ regEp = NoEp
  BY <1>1, CurrentEnable, Zenon
<1>2. CASE regEp' = NoEp
  BY <1>2, Zenon DEF Current
<1>3. CASE regEp # NoEp
  <2>1. \A f \in Slots : LiveEntry(f) => Stays(f)
    <3>1. CASE CloseSocket(t)
      <4>1. /\ kernel' = [c \in Cookies |-> IF kernel[c].sock = t THEN NoReg ELSE kernel[c]]
            /\ slot' = slot /\ closing[t]
        BY <3>1, ZenonT(60) DEF CloseSocket, cacheVars
      <4>2. \A c \in Cookies : kernel[c].sock # t => kernel'[c] = kernel[c]
        BY <4>1, <1>a, DropIs, Zenon
      <4>3. regEp # t
        BY <4>1, <1>3, ZenonT(60) DEF Ground, Lent
      <4> SUFFICES ASSUME NEW f \in Slots, LiveEntry(f) PROVE Stays(f)
        BY Zenon
      <4>4. kernel[slot[f].cookie].sock = regEp
        BY <1>3, Zenon DEF LiveEntry, CookiesOwned, Reg
      <4>5. kernel'[slot[f].cookie] = kernel[slot[f].cookie]
        BY <4>2, <4>3, <4>4, <1>a, Zenon
      <4> QED BY <4>1, <4>5, Zenon DEF Stays
    <3>2. CASE ~CloseSocket(t)
      BY <3>2, <1>a, QuietSend, Zenon DEF Stays, KeepsCookies
    <3> QED BY <3>1, <3>2, Zenon
  <2>2. StillCurrent
    BY <2>1, <1>3, <1>a, StillMoves, Zenon
  <2>3. \A e \in Slots : slot'[e].node => slot[e].node
    <3>1. CASE LeavesCache(t)
      BY <3>1, <1>a, LeavesCacheIs, ZenonT(60) DEF cacheVars
    <3>2. CASE Put(t)
      <4>1. Call(t)
        BY <3>2, Zenon DEF Call
      <4>2. ~Insert(t)
        <5>1. pc[t] # "insert"
          BY <3>2, ZenonT(60) DEF Put
        <5> QED BY <5>1, Zenon DEF Insert
      <4> QED BY <4>1, <4>2, <1>a, OnlyInsertEnters, Zenon DEF NoneEnters
    <3> QED BY <3>1, <3>2, Zenon
  <2>4. ASSUME NEW h \in held'[t] PROVE h \in held[t] \/ Covers(h.id, h.iov)'
    <3>1. CASE CacheGot(t)
      <4>1. pc[t] = "ret" /\ held' = [held EXCEPT ![t] = @ \cup {Hold(op[t], k[t] + 1, NextChunk(t), ent[t])}]
        BY <3>1, ZenonT(60) DEF CacheGot, Took
      <4>2. want[t] = NextChunk(t)
        BY <4>1, ZenonT(60) DEF Wanted, InCall
      <4>3. CASE h = Hold(op[t], k[t] + 1, NextChunk(t), ent[t])
        <5>1. h.id = ent[t] /\ h.iov = want[t]
          BY <4>2, <4>3, Zenon DEF Hold
        <5>2. IovWithin(want[t], slot'[ent[t]].iov) /\ PagesOf(want[t]) \subseteq kernel'[slot'[ent[t]].cookie].pages
          BY <2>2, <4>1, ZenonT(60) DEF StillCurrent
        <5> QED BY <5>1, <5>2, Zenon DEF Covers, Reg
      <4>4. CASE h # Hold(op[t], k[t] + 1, NextChunk(t), ent[t])
        <5>1. held'[t] = held[t] \cup {Hold(op[t], k[t] + 1, NextChunk(t), ent[t])}
          BY <4>1, <1>a, Zenon DEF Shape, HeldOK
        <5> QED BY <5>1, <4>4, Zenon
      <4> QED BY <4>3, <4>4, Zenon
    <3>2. CASE ~CacheGot(t)
      BY <3>2, <1>a, SendMoves, Zenon
    <3> QED BY <3>1, <3>2, Zenon
  <2>5. /\ \A u \in Eps : u # t => /\ pc'[u] = pc[u] /\ ent'[u] = ent[u] /\ want'[u] = want[u]
                                   /\ held'[u] = held[u]
        /\ pc'[t] \notin {"insert", "ret"}
    BY <1>a, SendMoves, Zenon
  <2>6. pc'[t] # "insert"
    BY <2>5, Zenon
  <2> QED BY <2>2, <2>3, <2>4, <2>5, <2>6, CurrentMoves, Zenon
<1> QED BY <1>1, <1>2, <1>3, LentKept, ZenonT(60)

\* What is covered stays covered when the domain closes and when a page is unmapped: the
\* entries over the page leave the tree, and no send in progress reads it.
LEMMA CurrentRest ==
  ASSUME Ground, CookiesOwned, Wanted, Current, DomainClose \/ UnmapPage \/ UNCHANGED vars
  PROVE  Current'
<1>a. Shape /\ KernelOK /\ CountInv /\ KTyped(kernel) /\ slot \in [Slots -> Entries]
  BY Zenon DEF Ground, Shape, KernelOK
<1>b. UNCHANGED <<regEp, pc, ent, want, held>>
  BY ZenonT(60) DEF DomainClose, UnmapPage, Unmap, vars, mrVars, sendVars, findVars
<1>0. CASE regEp = NoEp
  BY <1>0, <1>b, Zenon DEF Current
<1>1. CASE UNCHANGED vars
  <2>1. UNCHANGED <<slot, kernel>>
    BY <1>1, Zenon DEF vars, mrVars, cacheVars
  <2> QED BY <2>1, <1>b, ZenonT(60) DEF Current, Covers, Reg
<1>2. CASE DomainClose
  <2>1. \A u \in Eps : pc[u] \in {"off", "closed"}
    BY <1>2, Zenon DEF DomainClose
  <2>2. regEp # NoEp => regEp \in Eps /\ pc[regEp] # "off" /\ ~closing[regEp]
    BY ZenonT(60) DEF Ground, Lent, KernelOK
  <2>3. \A u \in Eps : pc[u] = "closed" => closing[u]
    BY Zenon DEF Ground, Shut, Gate
  <2>4. regEp = NoEp
    BY <2>1, <2>2, <2>3, ZenonT(60)
  <2> QED BY <1>0, <2>4, Zenon
<1>3. CASE UnmapPage /\ regEp # NoEp
  <2>1. PICK p \in Pages : /\ ~InUse(p)
                           /\ kernel' = [c \in Cookies |->
                                IF kernel[c] = NoReg THEN NoReg ELSE [kernel[c] EXCEPT !.pages = @ \ {p}]]
                           /\ slot' = OutOfTree(Notified(p))
    BY <1>3, Zenon DEF UnmapPage, Unmap, UncacheEntries
  <2>2. \A c \in Cookies : Regd(kernel[c]) => kernel'[c].pages = kernel[c].pages \ {p}
    BY <2>1, <1>a, LoseIs, Zenon
  <2>3. KeepsCookies(slot')
    BY <2>1, <1>a, KeptIn, Zenon
  <2>4. ASSUME NEW e, LiveEntry(e)
        PROVE  slot'[e].iov = slot[e].iov /\ kernel'[slot'[e].cookie].pages = kernel[slot[e].cookie].pages \ {p}
    <3>1. e \in Slots /\ slot[e].used /\ slot'[e].iov = slot[e].iov /\ slot'[e].cookie = slot[e].cookie
      BY <2>3, <2>4, Zenon DEF KeepsCookies, LiveEntry
    <3>2. slot[e].cookie \in Cookies /\ kernel[slot[e].cookie].sock = regEp /\ regEp \in Eps
      BY <1>3, <1>a, <3>1, ZenonT(60) DEF CookiesOwned, Reg, Entries, KernelOK
    <3>3. Regd(kernel[slot[e].cookie])
      BY <3>2, Zenon DEF Regd
    <3> QED BY <2>2, <3>1, <3>2, <3>3, Zenon
  <2>5. /\ \A e \in Slots : slot[e].node => LiveEntry(e)
        /\ \A u \in Eps : \A h \in held[u] : LiveEntry(h.id)
        /\ \A u \in Eps : pc[u] \in {"insert", "ret"} => LiveEntry(ent[u])
    BY <1>a, LiveAre, Zenon
  <2>6. ASSUME NEW e \in Slots, slot'[e].node PROVE Reg(e)'.pages = PagesOf(slot'[e].iov)
    <3>1. slot[e].node /\ e \notin Notified(p)
      <4>1. slot'[e] = IF e \in Notified(p) THEN [slot[e] EXCEPT !.node = FALSE] ELSE slot[e]
        BY <2>1, Zenon DEF OutOfTree
      <4>2. ~[slot[e] EXCEPT !.node = FALSE].node
        BY <1>a, Zenon DEF Entries
      <4> QED BY <2>6, <4>1, <4>2, Zenon
    <3>2. slot[e].iov \in Iovs
      BY <1>a, IovsAll, Zenon DEF Entries
    <3>3. p \notin PagesOf(slot[e].iov)
      <4>1. FindOverlap([lo |-> p, hi |-> p], slot[e].iov) # 0
        BY <3>1, Zenon DEF Notified, Tree
      <4>2. p < slot[e].iov.lo \/ p > slot[e].iov.hi
        BY <4>1, Zenon DEF FindOverlap
      <4> DEFINE a == slot[e].iov.lo
                 b == slot[e].iov.hi
      <4>3. a \in Nat /\ b \in Nat /\ (p < a \/ p > b)
        BY <4>2, <3>2, PagesOfIov, Zenon
      <4>4. p \in Nat
        BY MrAssumption DEF MrAssumption, Pages
      <4> HIDE DEF a, b
      <4>5. p \notin a .. b
        BY <4>3, <4>4
      <4> QED BY <4>5, Zenon DEF a, b, PagesOf
    <3>4. LiveEntry(e) /\ Reg(e).pages = PagesOf(slot[e].iov)
      BY <1>3, <2>5, <3>1, Zenon DEF Current
    <3>5. PagesOf(slot[e].iov) \ {p} = PagesOf(slot[e].iov)
      BY <3>3, Zenon
    <3> QED BY <2>4, <3>4, <3>5, Zenon DEF Reg
  <2>7. ASSUME NEW i, NEW e, p \notin PagesOf(i), LiveEntry(e), Covers(e, i) PROVE Covers(e, i)'
    <3>1. /\ IovWithin(i, slot[e].iov) /\ PagesOf(i) \subseteq kernel[slot[e].cookie].pages
          /\ slot'[e].iov = slot[e].iov /\ kernel'[slot'[e].cookie].pages = kernel[slot[e].cookie].pages \ {p}
      BY <2>4, <2>7, Zenon DEF Covers, Reg
    <3>2. PagesOf(i) \subseteq kernel'[slot'[e].cookie].pages
      BY <3>1, <2>7, Zenon
    <3> QED BY <3>1, <3>2, ZenonT(60) DEF Covers, Reg
  <2>8. ASSUME NEW u \in Eps, NEW h \in held[u] PROVE Covers(h.id, h.iov)'
    <3>1. p \notin PagesOf(h.iov)
      BY <2>1, Zenon DEF InUse
    <3>2. LiveEntry(h.id) /\ Covers(h.id, h.iov)
      BY <1>3, <2>5, Zenon DEF Current
    <3>3. \A i, e : p \notin PagesOf(i) /\ LiveEntry(e) /\ Covers(e, i) => Covers(e, i)'
      BY <2>7, Zenon
    <3> QED BY <3>1, <3>2, <3>3, Zenon
  <2>9. ASSUME NEW u \in Eps, pc[u] \in {"insert", "ret"}
        PROVE  p \notin PagesOf(want[u]) /\ Covers(ent[u], want[u])'
    <3>1. k[u] < Len(msg[u]) /\ want[u] = msg[u][k[u] + 1]
      BY <2>9, ZenonT(60) DEF Wanted, InCall, NextChunk
    <3>2. k[u] + 1 \in DOMAIN msg[u]
      <4>1. msg[u] \in Seq(Iovs) /\ k[u] \in Nat
        BY <1>a, Zenon DEF Shape
      <4> DEFINE m == msg[u]
                 n == k[u]
      <4>2. m \in Seq(Iovs) /\ n \in Nat /\ n < Len(m)
        BY <3>1, <4>1, Zenon
      <4> HIDE DEF m, n
      <4>3. n + 1 \in DOMAIN m
        BY <4>2
      <4> QED BY <4>3, Zenon DEF m, n
    <3>3. p \notin PagesOf(want[u])
      BY <2>1, <3>1, <3>2, Zenon DEF InUse
    <3>4. LiveEntry(ent[u]) /\ Covers(ent[u], want[u])
      BY <1>3, <2>5, <2>9, Zenon DEF Current
    <3>5. \A i, e : p \notin PagesOf(i) /\ LiveEntry(e) /\ Covers(e, i) => Covers(e, i)'
      BY <2>7, Zenon
    <3>6. UNCHANGED <<ent, want>>
      BY <1>b, Zenon
    <3>7. (IovWithin(want[u], slot[ent[u]].iov) /\ PagesOf(want[u]) \subseteq Reg(ent[u]).pages)'
      BY <3>3, <3>4, <3>5, <3>6, ZenonT(60) DEF Covers
    <3> QED BY <3>3, <3>7, Zenon DEF Covers
  <2>10. ASSUME NEW u \in Eps, pc[u] = "insert"
         PROVE  slot'[ent[u]].iov = want[u] /\ kernel'[slot'[ent[u]].cookie].pages = PagesOf(want[u])
    <3>1. LiveEntry(ent[u]) /\ slot[ent[u]].iov = want[u] /\ Reg(ent[u]).pages = PagesOf(want[u])
      BY <1>3, <2>5, <2>10, ZenonT(60) DEF Current
    <3>2. p \notin PagesOf(want[u])
      BY <2>9, <2>10, ZenonT(60)
    <3>3. PagesOf(want[u]) \ {p} = PagesOf(want[u])
      BY <3>2, Zenon
    <3> QED BY <2>4, <3>1, <3>3, Zenon DEF Reg
  <2>11. UNCHANGED <<ent, want, held, pc>>
    BY <1>b, Zenon
  <2>12. \A u \in Eps : pc'[u] = "insert" => slot'[ent'[u]].iov = want'[u] /\ Reg(ent[u])'.pages = PagesOf(want'[u])
    BY <2>10, <2>11, ZenonT(60) DEF Reg
  <2> QED BY <2>6, <2>8, <2>9, <2>11, <2>12, ZenonT(60) DEF Current
<1> QED BY <1>0, <1>1, <1>2, <1>3, Zenon

-----------------------------------------------------------------------------
(* Without the cache *)

\* The step of an endpoint that keeps the books of its operations.
LEMMA OwnsMoves ==
  ASSUME \A u \in Eps : Owns(u), NEW t \in Eps,
         \A u \in Eps : u # t => /\ pc'[u] = pc[u] /\ op'[u] = op[u] /\ rel'[u] = rel[u]
                                 /\ pend'[u] = pend[u] /\ held'[u] = held[u],
         Owns(t)'
  PROVE  (\A u \in Eps : Owns(u))'
<1> SUFFICES ASSUME NEW u \in Eps PROVE Owns(u)'
  BY Zenon
<1>1. CASE u = t
  BY <1>1, Zenon
<1>2. CASE u # t
  <2>1. Owns(u) /\ pc'[u] = pc[u] /\ op'[u] = op[u] /\ rel'[u] = rel[u] /\ pend'[u] = pend[u] /\ held'[u] = held[u]
    BY <1>2, Zenon
  <2> QED BY <2>1, ZenonT(60) DEF Owns
<1> QED BY <1>1, <1>2, Zenon

\* Who keeps the registrations of which operation.
LEMMA OwnsStep ==
  ASSUME Shape, ~cacheOn, Bypassed, \A u \in Eps : Owns(u), NEW t \in Eps, LeavesCache(t) \/ Put(t)
  PROVE  (\A u \in Eps : Owns(u))'
<1>a. /\ pc \in [Eps -> Labels \cup {"none"}] /\ op \in [Eps -> Nat]
      /\ pend \in [Eps -> SUBSET Nat] /\ rel \in [Eps -> SUBSET Nat] /\ held = [u \in Eps |-> held[u]]
  BY Zenon DEF Shape, HeldOK
<1>b. /\ pc[t] = "chunk" <=> op[t] # 0
      /\ pc[t] # "put" => rel[t] = {}
      /\ \A h \in held[t] : h.op # 0 /\ h.op \in pend[t] \cup rel[t] \cup {op[t]}
  BY Zenon DEF Owns
<1>1. CASE SendRndzv(t)
  <2>1. PICK o \in (1 .. MaxInflight) \ pend[t] :
          /\ pc[t] = "idle" /\ op' = [op EXCEPT ![t] = o] /\ pc' = [pc EXCEPT ![t] = "chunk"]
          /\ UNCHANGED <<rel, pend, held>>
    BY <1>1, ZenonT(60) DEF SendRndzv, Goto
  <2>2. o # 0
    BY SendAssumption DEF SendAssumption
  <2>3. op[t] = 0 /\ rel[t] = {}
    BY <2>1, <1>b, ZenonT(60)
  <2>4. op'[t] = o /\ pc'[t] = "chunk" /\ \A u \in Eps : u # t => pc'[u] = pc[u] /\ op'[u] = op[u]
    BY <2>1, <1>a, Zenon
  <2>5. Owns(t)'
    BY <2>1, <2>2, <2>3, <2>4, <1>b, ZenonT(60) DEF Owns
  <2> QED BY <2>1, <2>4, <2>5, OwnsMoves, Zenon
<1>2. CASE RegInternal(t)
  <2>1. PICK c : Took(t, c) /\ pc' = pc /\ pc[t] = "chunk"
    BY <1>2, ZenonT(60) DEF RegInternal, AtChunk
  <2> DEFINE h == Hold(op[t], k[t] + 1, NextChunk(t), c)
  <2>2. held' = [held EXCEPT ![t] = @ \cup {h}] /\ UNCHANGED <<op, rel, pend>>
    BY <2>1, Zenon DEF Took
  <2>3. h.op = op[t]
    BY Zenon DEF Hold
  <2> HIDE DEF h
  <2>4. held'[t] = held[t] \cup {h} /\ \A u \in Eps : u # t => held'[u] = held[u]
    BY <2>2, <1>a, Zenon
  <2>5. \A g \in held'[t] : g.op # 0 /\ g.op \in pend[t] \cup rel[t] \cup {op[t]}
    BY <2>1, <2>3, <2>4, <1>b, ZenonT(60)
  <2>6. Owns(t)'
    BY <2>1, <2>2, <2>5, <1>b, ZenonT(60) DEF Owns
  <2> QED BY <2>1, <2>2, <2>4, <2>6, OwnsMoves, Zenon
<1>3. CASE RegFails(t) \/ PostFails(t)
  <2>1. ErrUnreg(t) /\ pc[t] \in {"chunk", "fail"}
    BY <1>3, ZenonT(60) DEF RegFails, PostFails, AtChunk, AllGot
  <2>2. /\ rel' = [rel EXCEPT ![t] = {op[t]}] /\ op' = [op EXCEPT ![t] = 0]
        /\ pc' = [pc EXCEPT ![t] = "put"] /\ UNCHANGED <<held, pend>>
    BY <2>1, ZenonT(60) DEF ErrUnreg, CallReturns, Goto
  <2>3. rel[t] = {}
    BY <2>1, <1>b, ZenonT(60)
  <2>4. rel'[t] = {op[t]} /\ op'[t] = 0 /\ pc'[t] = "put"
    BY <2>2, <1>a, ZenonT(60)
  <2>5. \A u \in Eps : u # t => pc'[u] = pc[u] /\ op'[u] = op[u] /\ rel'[u] = rel[u]
    BY <2>2, <1>a, Zenon
  <2>6. Owns(t)'
    BY <2>2, <2>3, <2>4, <1>b, ZenonT(60) DEF Owns
  <2> QED BY <2>2, <2>5, <2>6, OwnsMoves, Zenon
<1>4. CASE PostRts(t)
  <2>1. /\ pend' = [pend EXCEPT ![t] = @ \cup {op[t]}] /\ op' = [op EXCEPT ![t] = 0]
        /\ pc' = [pc EXCEPT ![t] = "idle"] /\ UNCHANGED <<held, rel>> /\ pc[t] = "chunk"
    BY <1>4, ZenonT(60) DEF PostRts, CallReturns, AllGot, Goto
  <2>2. rel[t] = {}
    BY <2>1, <1>b, ZenonT(60)
  <2>3. pend'[t] = pend[t] \cup {op[t]} /\ op'[t] = 0 /\ pc'[t] = "idle"
    BY <2>1, <1>a, Zenon
  <2>4. \A u \in Eps : u # t => pc'[u] = pc[u] /\ op'[u] = op[u] /\ pend'[u] = pend[u]
    BY <2>1, <1>a, Zenon
  <2>5. Owns(t)'
    BY <2>1, <2>2, <2>3, <1>b, ZenonT(60) DEF Owns
  <2> QED BY <2>1, <2>4, <2>5, OwnsMoves, Zenon
<1>5. CASE Fin(t)
  <2>1. PICK o : /\ pend' = [pend EXCEPT ![t] = @ \ {o}] /\ rel' = [rel EXCEPT ![t] = {o}]
                 /\ pc' = [pc EXCEPT ![t] = "put"] /\ UNCHANGED <<held, op>> /\ pc[t] = "idle"
    BY <1>5, ZenonT(60) DEF Fin, Goto, callVars
  <2>2. rel[t] = {} /\ op[t] = 0
    BY <2>1, <1>b, ZenonT(60)
  <2>3. pend'[t] = pend[t] \ {o} /\ rel'[t] = {o} /\ pc'[t] = "put"
    BY <2>1, <1>a, Zenon
  <2>4. \A u \in Eps : u # t => pc'[u] = pc[u] /\ rel'[u] = rel[u] /\ pend'[u] = pend[u]
    BY <2>1, <1>a, Zenon
  <2>5. Owns(t)'
    BY <2>1, <2>2, <2>3, <1>b, ZenonT(60) DEF Owns
  <2> QED BY <2>1, <2>4, <2>5, OwnsMoves, Zenon
<1>6. CASE EpClose(t)
  <2>1. /\ pend' = [pend EXCEPT ![t] = {}] /\ rel' = [rel EXCEPT ![t] = pend[t]]
        /\ pc' = [pc EXCEPT ![t] = "put"] /\ UNCHANGED <<held, op>> /\ pc[t] = "idle"
    BY <1>6, ZenonT(60) DEF EpClose, Goto, callVars
  <2>2. rel[t] = {} /\ op[t] = 0
    BY <2>1, <1>b, ZenonT(60)
  <2>3. pend'[t] = {} /\ rel'[t] = pend[t] /\ pc'[t] = "put"
    BY <2>1, <1>a, Zenon
  <2>4. \A u \in Eps : u # t => pc'[u] = pc[u] /\ rel'[u] = rel[u] /\ pend'[u] = pend[u]
    BY <2>1, <1>a, Zenon
  <2>5. Owns(t)'
    BY <2>1, <2>2, <2>3, <1>b, ZenonT(60) DEF Owns
  <2> QED BY <2>1, <2>4, <2>5, OwnsMoves, Zenon
<1>7. CASE PutDone(t) \/ CloseSocket(t)
  <2>1. PICK l \in {"idle", "closed"} :
          /\ rel' = [rel EXCEPT ![t] = {}] /\ pc' = [pc EXCEPT ![t] = l]
          /\ UNCHANGED <<held, op, pend>> /\ pc[t] = "put" /\ ToPut(t) = {}
    BY <1>7, ZenonT(60) DEF PutDone, CloseSocket, Goto, callVars
  <2>2. op[t] = 0
    BY <2>1, <1>b, ZenonT(60)
  <2>3. rel'[t] = {} /\ pc'[t] = l
    BY <2>1, <1>a, Zenon
  <2>4. \A u \in Eps : u # t => pc'[u] = pc[u] /\ rel'[u] = rel[u]
    BY <2>1, <1>a, Zenon
  <2>5. \A h \in held[t] : h.op # 0 /\ h.op \in pend[t]
    BY <2>1, <2>2, <1>b, ZenonT(60) DEF ToPut
  <2>6. l # "chunk"
    BY <2>1, ZenonT(60)
  <2>7. Owns(t)'
    BY <2>1, <2>2, <2>3, <2>5, <2>6, ZenonT(60) DEF Owns
  <2> QED BY <2>1, <2>4, <2>7, OwnsMoves, Zenon
<1>8. CASE EpEnable(t)
  <2>1. pc[t] = "off" /\ pc' = [pc EXCEPT ![t] = "idle"] /\ UNCHANGED <<held, op, pend, rel>>
    BY <1>8, ZenonT(60) DEF EpEnable, Goto, sendVars, callVars
  <2>2. pc'[t] = "idle" /\ \A u \in Eps : u # t => pc'[u] = pc[u]
    BY <2>1, <1>a, Zenon
  <2>3. Owns(t)'
    BY <2>1, <2>2, <1>b, ZenonT(60) DEF Owns
  <2> QED BY <2>1, <2>2, <2>3, OwnsMoves, Zenon
<1>9. CASE Put(t)
  <2>1. PICK h : held' = [held EXCEPT ![t] = @ \ {h}] /\ UNCHANGED <<pc, op, pend, rel>>
    BY <1>9, ZenonT(60) DEF Put, callVars
  <2>2. held'[t] = held[t] \ {h} /\ \A u \in Eps : u # t => held'[u] = held[u]
    BY <2>1, <1>a, Zenon
  <2>3. Owns(t)'
    BY <2>1, <2>2, <1>b, ZenonT(60) DEF Owns
  <2> QED BY <2>1, <2>2, <2>3, OwnsMoves, Zenon
<1>10. ~CacheGet(t) /\ ~CacheGot(t)
  <2>1. pc[t] # "ret"
    BY ZenonT(60) DEF Bypassed
  <2> QED BY <2>1, Zenon DEF CacheGet, CacheGot
<1> QED BY <1>1, <1>2, <1>3, <1>4, <1>5, <1>6, <1>7, <1>8, <1>9, <1>10, Zenon DEF LeavesCache

\* Every chunk registered is a cookie of its own, through the steps of sends and endpoints.
LEMMA PinsStep ==
  ASSUME Shape, Shut, ~cacheOn, Bypassed, KernelOK, BypassOwned, NEW t \in Eps, LeavesCache(t) \/ Put(t)
  PROVE  PinsOwned'
<1>a. KTyped(kernel) /\ held = [u \in Eps |-> held[u]] /\ PinsOwned
  BY Zenon DEF KernelOK, Shape, HeldOK, BypassOwned
<1>b. \A u \in Eps : \A h \in held[u] : Pinned(u, h) /\ \A g \in held[u] : g.id = h.id => g = h
  BY <1>a, Zenon DEF PinsOwned
<1>c. \A c \in Cookies : Regd(kernel[c]) => \E h \in held[kernel[c].sock] : h.id = c
  BY <1>a, Zenon DEF PinsOwned
<1>0. CASE UNCHANGED <<kernel, held>>
  BY <1>0, <1>a, ZenonT(60) DEF PinsOwned, Pinned
<1>1. CASE RegInternal(t)
  <2>1. PICK c \in Cookies : /\ kernel[c] = NoReg /\ k[t] < Len(msg[t])
                             /\ kernel' = [kernel EXCEPT ![c] = Registration(NextChunk(t), t, dest[t])]
                             /\ Took(t, c)
    BY <1>1, ZenonT(60) DEF RegInternal, AtChunk
  <2>2. NextChunk(t) \in Iovs
    <3>1. msg[t] \in Seq(Iovs) /\ k[t] \in Nat
      BY Zenon DEF Shape
    <3> DEFINE m == msg[t]
               n == k[t]
    <3>2. m \in Seq(Iovs) /\ n \in Nat /\ n < Len(m)
      BY <2>1, <3>1, Zenon
    <3> HIDE DEF m, n
    <3>3. m[n + 1] \in Iovs
      BY <3>2
    <3> QED BY <3>3, Zenon DEF m, n, NextChunk
  <2>3. Added(c, NextChunk(t), t)
    BY <2>1, <2>2, <1>a, IssueIs, Zenon
  <2>4. PICK n : /\ held' = [held EXCEPT ![t] = @ \cup {n}]
                 /\ n = Hold(op[t], k[t] + 1, NextChunk(t), c)
    BY <2>1, Zenon DEF Took
  <2>5. n.id = c /\ n.iov = NextChunk(t)
    BY <2>4, Zenon DEF Hold
  <2>6. held'[t] = held[t] \cup {n} /\ \A u \in Eps : u # t => held'[u] = held[u]
    BY <2>4, <1>a, Zenon
  <2>7. \A u \in Eps : \A h \in held[u] : h.id # c
    <3> SUFFICES ASSUME NEW u \in Eps, NEW h \in held[u], h.id = c PROVE FALSE
      BY Zenon
    <3>1. kernel[c].sock = u
      BY <1>b, Zenon DEF Pinned
    <3>2. ~Regd(kernel[c])
      BY <2>1, NoRegIs, Zenon
    <3> QED BY <3>1, <3>2, Zenon DEF Regd
  <2>8. ASSUME NEW u \in Eps, NEW h \in held[u] PROVE Pinned(u, h)'
    <3>1. Pinned(u, h) /\ h.id # c
      BY <1>b, <2>7, Zenon
    <3>2. kernel'[h.id] = kernel[h.id]
      BY <2>3, <3>1, Zenon DEF Added, Pinned
    <3> QED BY <3>1, <3>2, Zenon DEF Pinned
  <2>9. Pinned(t, n)'
    <3>1. kernel'[c].iov = NextChunk(t) /\ kernel'[c].pages = PagesOf(NextChunk(t)) /\ kernel'[c].sock = t
      BY <2>3, Zenon DEF Added
    <3> QED BY <2>5, <3>1, ZenonT(60) DEF Pinned
  <2>10. ASSUME NEW u \in Eps, NEW h \in held'[u]
         PROVE  Pinned(u, h)' /\ \A g \in held'[u] : g.id = h.id => g = h
    <3>1. h \in held[u] \/ (u = t /\ h = n)
      BY <2>6, Zenon
    <3>2. Pinned(u, h)'
      BY <2>8, <2>9, <3>1, Zenon
    <3>3. ASSUME NEW g \in held'[u], g.id = h.id PROVE g = h
      <4>1. g \in held[u] \/ (u = t /\ g = n)
        BY <2>6, Zenon
      <4> QED BY <3>1, <3>3, <4>1, <2>5, <2>7, <1>b, ZenonT(60)
    <3> QED BY <3>2, <3>3, Zenon
  <2>11. ASSUME NEW b \in Cookies, Regd(kernel'[b]) PROVE \E h \in held'[kernel'[b].sock] : h.id = b
    <3>1. CASE b = c
      <4>1. kernel'[b].sock = t
        BY <2>3, <3>1, Zenon DEF Added
      <4>2. n \in held'[kernel'[b].sock]
        BY <2>6, <4>1, Zenon
      <4> QED BY <4>2, <3>1, <2>5, Zenon
    <3>2. CASE b # c
      <4>1. kernel'[b] = kernel[b]
        BY <2>3, <3>2, Zenon DEF Added
      <4>2. Regd(kernel[b])
        BY <2>11, <4>1, Zenon
      <4>3. PICK h \in held[kernel[b].sock] : h.id = b
        BY <1>c, <4>2, Zenon
      <4>4. kernel[b].sock \in Eps
        BY <4>2, Zenon DEF Regd
      <4>5. h \in held'[kernel[b].sock]
        BY <2>6, <4>4, Zenon
      <4> QED BY <4>1, <4>3, <4>5, Zenon
    <3> QED BY <3>1, <3>2, Zenon
  <2> QED BY <2>10, <2>11, Zenon DEF PinsOwned
<1>2. CASE Put(t)
  <2>1. PICK r \in held[t] : held' = [held EXCEPT ![t] = @ \ {r}] /\ kernel' = KernelFree(kernel, t, r.id)
    BY <1>2, ZenonT(60) DEF Put, ToPut
  <2>2. r.id \in Cookies /\ kernel[r.id].sock = t
    BY <1>b, Zenon DEF Pinned
  <2>3. kernel'[r.id] = NoReg /\ \A b \in Cookies : b # r.id => kernel'[b] = kernel[b]
    <3>1. Regd(kernel[r.id])
      BY <2>2, Zenon DEF Regd
    <3>2. /\ KernelFree(kernel, t, r.id)[r.id] = NoReg
          /\ \A b \in Cookies : b # r.id => KernelFree(kernel, t, r.id)[b] = kernel[b]
      BY <2>2, <3>1, <1>a, FreeIs
    <3> QED BY <2>1, <3>2, Zenon
  <2>4. held'[t] = held[t] \ {r} /\ \A u \in Eps : u # t => held'[u] = held[u]
    BY <2>1, <1>a, Zenon
  <2>5. ASSUME NEW u \in Eps, NEW h \in held'[u]
        PROVE  Pinned(u, h)' /\ \A g \in held'[u] : g.id = h.id => g = h
    <3>1. h \in held[u] /\ \A g \in held'[u] : g \in held[u]
      BY <2>4, Zenon
    <3>2. h.id # r.id
      <4>1. CASE u = t
        <5>1. h \in held[t] /\ h # r
          BY <4>1, <2>4, Zenon
        <5>2. h.id = r.id => h = r
          BY <5>1, <1>b, Zenon
        <5> QED BY <5>1, <5>2, Zenon
      <4>2. CASE u # t
        <5>1. kernel[h.id].sock = u
          BY <3>1, <1>b, Zenon DEF Pinned
        <5> QED BY <4>2, <5>1, <2>2, Zenon
      <4> QED BY <4>1, <4>2, Zenon
    <3>3. Pinned(u, h) /\ kernel'[h.id] = kernel[h.id]
      BY <3>1, <3>2, <2>3, <1>b, Zenon DEF Pinned
    <3>4. Pinned(u, h)'
      BY <3>3, Zenon DEF Pinned
    <3>5. \A g \in held'[u] : g.id = h.id => g = h
      BY <3>1, <1>b, Zenon
    <3> QED BY <3>4, <3>5, Zenon
  <2>6. ASSUME NEW b \in Cookies, Regd(kernel'[b]) PROVE \E h \in held'[kernel'[b].sock] : h.id = b
    <3>1. b # r.id /\ kernel'[b] = kernel[b]
      BY <2>3, <2>6, NoRegIs, Zenon
    <3>2. Regd(kernel[b])
      BY <2>6, <3>1, Zenon
    <3>3. PICK h \in held[kernel[b].sock] : h.id = b
      BY <1>c, <3>2, Zenon
    <3>4. kernel[b].sock \in Eps /\ h # r
      BY <3>1, <3>2, <3>3, Zenon DEF Regd
    <3>5. h \in held'[kernel[b].sock]
      BY <2>4, <3>3, <3>4, Zenon
    <3> QED BY <3>1, <3>3, <3>5, Zenon
  <2> QED BY <2>5, <2>6, Zenon DEF PinsOwned
<1>3. CASE CloseSocket(t)
  <2>1. /\ kernel' = [c \in Cookies |-> IF kernel[c].sock = t THEN NoReg ELSE kernel[c]]
        /\ held' = held /\ pc[t] = "put" /\ ToPut(t) = {} /\ closing[t]
    BY <1>3, ZenonT(60) DEF CloseSocket
  <2>2. \A c \in Cookies : (kernel[c].sock # t => kernel'[c] = kernel[c]) /\ (kernel[c].sock = t => kernel'[c] = NoReg)
    BY <2>1, <1>a, DropIs, Zenon
  <2>3. \A h \in held[t] : FALSE
    <3>1. pend[t] = {}
      BY <2>1, Zenon DEF Shut, Gate
    <3>2. op[t] = 0 /\ \A h \in held[t] : h.op # 0 /\ h.op \in pend[t] \cup rel[t] \cup {op[t]}
      BY <2>1, ZenonT(60) DEF BypassOwned, Owns
    <3> QED BY <2>1, <3>1, <3>2, ZenonT(60) DEF ToPut
  <2>4. ASSUME NEW u \in Eps, NEW h \in held[u] PROVE Pinned(u, h)'
    <3>1. Pinned(u, h) /\ u # t
      BY <1>b, <2>3, Zenon
    <3>2. kernel'[h.id] = kernel[h.id]
      BY <2>2, <3>1, Zenon DEF Pinned
    <3> QED BY <3>1, <3>2, Zenon DEF Pinned
  <2>5. ASSUME NEW b \in Cookies, Regd(kernel'[b]) PROVE \E h \in held[kernel'[b].sock] : h.id = b
    <3>1. kernel'[b] = kernel[b]
      BY <2>2, <2>5, NoRegIs, Zenon
    <3> QED BY <3>1, <2>5, <1>c, Zenon
  <2>6. \A u \in Eps : \A h \in held'[u] : Pinned(u, h)' /\ \A g \in held'[u] : g.id = h.id => g = h
    BY <2>1, <2>4, <1>b, Zenon
  <2>7. \A b \in Cookies : Regd(kernel'[b]) => \E h \in held'[kernel'[b].sock] : h.id = b
    BY <2>1, <2>5, Zenon
  <2> QED BY <2>6, <2>7, Zenon DEF PinsOwned
<1>4. CASE SendRndzv(t) \/ PostRts(t) \/ Fin(t) \/ PutDone(t) \/ EpEnable(t) \/ EpClose(t)
  <2>1. UNCHANGED <<kernel, held>>
    BY <1>4, ZenonT(60) DEF SendRndzv, PostRts, Fin, PutDone, EpEnable, EpClose, sendVars
  <2> QED BY <2>1, <1>0, Zenon
<1>5. CASE RegFails(t) \/ PostFails(t)
  <2>1. UNCHANGED <<kernel, held>>
    BY <1>5, ZenonT(60) DEF RegFails, PostFails, ErrUnreg
  <2> QED BY <2>1, <1>0, Zenon
<1>6. ~CacheGet(t) /\ ~CacheGot(t)
  <2>1. pc[t] # "ret"
    BY ZenonT(60) DEF Bypassed
  <2> QED BY <2>1, Zenon DEF CacheGet, CacheGot
<1> QED BY <1>1, <1>2, <1>3, <1>4, <1>5, <1>6, Zenon DEF LeavesCache

\* Without the cache an unmap takes pages only from chunks that are no longer held.
LEMMA BypassOwnedRest ==
  ASSUME KernelOK, BypassOwned, DomainClose \/ UnmapPage \/ UNCHANGED vars
  PROVE  BypassOwned'
<1>a. UNCHANGED <<held, pc, op, rel, pend>>
  BY ZenonT(60) DEF DomainClose, UnmapPage, Unmap, vars, mrVars, sendVars, callVars
<1>b. (\A u \in Eps : Owns(u))'
  BY <1>a, ZenonT(60) DEF BypassOwned, Owns
<1>1. CASE DomainClose \/ UNCHANGED vars
  <2>1. kernel' = kernel
    BY <1>1, ZenonT(60) DEF DomainClose, vars, mrVars
  <2> QED BY <2>1, <1>a, <1>b, ZenonT(60) DEF BypassOwned, PinsOwned, Pinned
<1>2. CASE UnmapPage
  <2>0. KTyped(kernel) /\ PinsOwned
    BY Zenon DEF KernelOK, BypassOwned
  <2>1. PICK p \in Pages : /\ ~InUse(p)
                           /\ kernel' = [c \in Cookies |->
                                IF kernel[c] = NoReg THEN NoReg ELSE [kernel[c] EXCEPT !.pages = @ \ {p}]]
    BY <1>2, Zenon DEF UnmapPage, Unmap
  <2>2. \A c \in Cookies : /\ kernel'[c].sock = kernel[c].sock /\ kernel'[c].iov = kernel[c].iov
                           /\ Regd(kernel[c]) => kernel'[c].pages = kernel[c].pages \ {p}
                           /\ Regd(kernel'[c]) <=> Regd(kernel[c])
    BY <2>0, <2>1, LoseIs, Zenon
  <2>3. ASSUME NEW u \in Eps, NEW h \in held[u] PROVE Pinned(u, h)'
    <3>1. /\ h.id \in Cookies /\ kernel[h.id].sock = u /\ kernel[h.id].iov = h.iov
          /\ PagesOf(h.iov) \subseteq kernel[h.id].pages
      BY <2>0, Zenon DEF PinsOwned, Pinned
    <3>2. p \notin PagesOf(h.iov)
      BY <2>1, Zenon DEF InUse
    <3>3. Regd(kernel[h.id])
      BY <3>1, Zenon DEF Regd
    <3>4. kernel'[h.id].pages = kernel[h.id].pages \ {p}
      BY <2>2, <3>1, <3>3, Zenon
    <3>5. PagesOf(h.iov) \subseteq kernel'[h.id].pages
      BY <3>1, <3>2, <3>4, Zenon
    <3> QED BY <2>2, <3>1, <3>5, Zenon DEF Pinned
  <2>4. ASSUME NEW u \in Eps, NEW h \in held'[u] PROVE Pinned(u, h)' /\ \A g \in held'[u] : g.id = h.id => g = h
    <3>1. h \in held[u] /\ held' = held
      BY <1>a, Zenon
    <3> QED BY <2>0, <2>3, <3>1, Zenon DEF PinsOwned
  <2>5. ASSUME NEW b \in Cookies, Regd(kernel'[b]) PROVE \E h \in held'[kernel'[b].sock] : h.id = b
    <3>1. Regd(kernel[b]) /\ kernel'[b].sock = kernel[b].sock /\ held' = held
      BY <1>a, <2>2, <2>5, Zenon
    <3>2. \E h \in held[kernel[b].sock] : h.id = b
      BY <2>0, <3>1, Zenon DEF PinsOwned
    <3> QED BY <3>1, <3>2, Zenon
  <2>6. PinsOwned'
    BY <2>4, <2>5, Zenon DEF PinsOwned
  <2> QED BY <1>b, <2>6, Zenon DEF BypassOwned
<1> QED BY <1>1, <1>2, Zenon

-----------------------------------------------------------------------------
(* Theorems *)

\* No registration, no chunk and no endpoint in use at the start.
LEMMA CookieInit == CardFacts /\ Init => CookieInv
<1> SUFFICES ASSUME CardFacts, Init PROVE CookieInv
  BY Zenon
<1>1. ListsInv
  BY ListsInit, Zenon
<1>2. /\ kernel = [c \in Cookies |-> NoReg] /\ regEp = NoEp /\ slot = [e \in Slots |-> FreeSlot(e)]
      /\ \A t \in Eps : pc[t] = "off" /\ held[t] = {} /\ op[t] = 0 /\ rel[t] = {}
  BY Zenon DEF Init, CacheInit
<1>3. \A c \in Cookies : ~Regd(kernel[c]) /\ RegOK(kernel[c])
  BY <1>2, NoRegIs, Zenon
<1>4. KernelOK
  <2>1. KTyped(kernel)
    BY <1>2, <1>3, Zenon DEF KTyped
  <2>2. HeldIovs(held)
    BY <1>2, Zenon DEF HeldIovs
  <2>3. \A t \in Eps : pc[t] # "free"
    BY <1>2, ZenonT(60)
  <2> QED BY <1>2, <2>1, <2>2, <2>3, Zenon DEF KernelOK
<1>5. Wanted /\ Lent /\ Current
  BY <1>2, ZenonT(60) DEF Wanted, InCall, Lent, Current
<1>6. CookiesOwned
  <2>1. \A e \in Slots : slot[e].cookie = e /\ ~slot[e].used
    BY <1>2, Zenon DEF FreeSlot
  <2>2. \A e, f \in Slots : slot[e].cookie = slot[f].cookie => e = f
    BY <2>1, Zenon
  <2> QED BY <1>3, <2>1, <2>2, Zenon DEF CookiesOwned
<1>7. BypassOwned
  <2>1. \A t \in Eps : Owns(t)
    BY <1>2, ZenonT(60) DEF Owns
  <2> QED BY <1>2, <1>3, <2>1, Zenon DEF BypassOwned, PinsOwned
<1> QED BY <1>1, <1>4, <1>5, <1>6, <1>7, Zenon DEF CookieInv

\* The step of an endpoint.
LEMMA CookieMoves ==
  ASSUME CookieInv, NEW t \in Eps, (CacheStep(t) /\ UNCHANGED sendVars) \/ LeavesCache(t) \/ Put(t)
  PROVE  /\ KernelOK'
         /\ cacheOn => Wanted'
         /\ LenderLast => Lent'
         /\ cacheOn /\ LenderLast /\ ~Reissue => CookiesOwned' /\ Current'
         /\ ~cacheOn => BypassOwned'
<1>a. /\ Shape /\ Shut /\ closing \in [Eps -> BOOLEAN] /\ KernelOK
      /\ cacheOn => Phases /\ CountInv /\ Wanted
      /\ ~cacheOn => Bypassed /\ BypassOwned /\ PinsOwned /\ \A u \in Eps : Owns(u)
      /\ LenderLast => Lent
      /\ cacheOn /\ LenderLast /\ ~Reissue => CookiesOwned /\ Current
  BY Zenon DEF CookieInv, ListsInv, Inv, BypassOwned
<1>1. KernelOK'
  <2>1. FreeBusy'
    BY <1>a, BusyCache, Zenon DEF KernelOK, FreeBusy
  <2>2. CASE CacheStep(t) /\ UNCHANGED sendVars
    <3>1. cacheOn
      BY <2>2, <1>a, BypassedIdle, Zenon
    <3>2. flist[t] \subseteq Slots
      BY <3>1, <1>a, Zenon DEF CountInv, Counted, Lists
    <3>3. KTyped(kernel') /\ regEp' = regEp
      BY <2>2, <3>2, <1>a, KernelCache, Zenon
    <3>4. held' = held
      BY <2>2, Zenon DEF sendVars
    <3>5. HeldIovs(held') /\ regEp' \in Eps \cup {NoEp}
      BY <3>3, <3>4, <1>a, Zenon DEF KernelOK
    <3> QED BY <2>1, <3>3, <3>5, ZenonT(60) DEF KernelOK, FreeBusy
  <2>3. CASE LeavesCache(t) \/ Put(t)
    <3>1. pc[t] = "ret" => k[t] < Len(msg[t])
      <4>1. CASE cacheOn
        BY <4>1, <1>a, ZenonT(60) DEF Wanted, InCall
      <4>2. CASE ~cacheOn
        <5>1. pc[t] \in {"off", "idle", "chunk", "put", "closed"}
          BY <4>2, <1>a, Zenon DEF Bypassed
        <5> QED BY <5>1, ZenonT(60)
      <4> QED BY <4>1, <4>2, Zenon
    <3>2. ~cacheOn => \A h \in held[t] : h.id \in Cookies
      BY <1>a, Zenon DEF PinsOwned, Pinned
    <3>3. KTyped(kernel') /\ regEp' \in Eps \cup {NoEp} /\ HeldIovs(held')
      BY <2>3, <3>1, <3>2, <1>a, KernelSend, Zenon
    <3> QED BY <2>1, <3>3, ZenonT(60) DEF KernelOK, FreeBusy
  <2> QED BY <2>2, <2>3, Zenon
<1>2. cacheOn => Wanted'
  BY <1>a, WantedCache, WantedSend, Zenon
<1>3. LenderLast => Lent'
  BY <1>a, LentStep, Zenon
<1>4. ASSUME cacheOn, LenderLast, ~Reissue PROVE CookiesOwned' /\ Current'
  <2>1. Ground /\ Wanted /\ CookiesOwned /\ Current
    BY <1>4, <1>a, Zenon DEF Ground
  <2>2. CASE CacheStep(t) /\ UNCHANGED sendVars
    BY <1>4, <2>1, <2>2, OwnedCache, CurrentCache, Zenon
  <2>3. CASE LeavesCache(t) \/ Put(t)
    BY <1>4, <2>1, <2>3, OwnedSend, CurrentSend, Zenon
  <2> QED BY <2>2, <2>3, Zenon
<1>5. ASSUME ~cacheOn PROVE BypassOwned'
  <2>1. LeavesCache(t) \/ Put(t)
    BY <1>5, <1>a, BypassedIdle, Zenon
  <2>2. (\A u \in Eps : Owns(u))'
    BY <1>5, <2>1, <1>a, OwnsStep, Zenon
  <2>3. PinsOwned'
    BY <1>5, <2>1, <1>a, PinsStep, Zenon
  <2> QED BY <2>2, <2>3, Zenon DEF BypassOwned
<1> QED BY <1>1, <1>2, <1>3, <1>4, <1>5, Zenon

\* Every step keeps the cookies.
LEMMA CookieStep == CookieInv /\ [Next]_vars => CookieInv'
<1> SUFFICES ASSUME CookieInv, [Next]_vars PROVE CookieInv'
  BY Zenon
<1>1. ListsInv' /\ cacheOn' = cacheOn
  BY ListsStep, SwitchStays, Zenon DEF CookieInv
<1> DEFINE Kept == /\ KernelOK'
                   /\ cacheOn => Wanted'
                   /\ LenderLast => Lent'
                   /\ cacheOn /\ LenderLast /\ ~Reissue => CookiesOwned' /\ Current'
                   /\ ~cacheOn => BypassOwned'
<1>2. ASSUME NEW t \in Eps, Call(t) \/ Start(t) PROVE Kept
  <2>1. (CacheStep(t) /\ UNCHANGED sendVars) \/ LeavesCache(t) \/ Put(t)
    BY <1>2, ZenonT(60) DEF Call, Start, LeavesCache
  <2> QED BY <2>1, CookieMoves, Zenon
<1>3. ASSUME DomainClose \/ UnmapPage \/ UNCHANGED vars PROVE Kept
  <2>a. /\ Shape /\ Shut /\ closing \in [Eps -> BOOLEAN] /\ KernelOK
        /\ cacheOn => Phases /\ CountInv /\ Wanted
        /\ ~cacheOn => BypassOwned
        /\ LenderLast => Lent
        /\ cacheOn /\ LenderLast /\ ~Reissue => CookiesOwned /\ Current
    BY Zenon DEF CookieInv, ListsInv, Inv
  <2>1. KernelOK'
    BY <1>3, <2>a, KernelRest, Zenon
  <2>2. ASSUME cacheOn PROVE Wanted'
    <3>1. UNCHANGED <<pc, after, want, k, msg>>
      BY <1>3, ZenonT(60) DEF DomainClose, UnmapPage, Unmap, vars, mrVars, findVars, sendVars, callVars
    <3> QED BY <2>2, <2>a, <3>1, ZenonT(60) DEF Wanted, InCall, NextChunk
  <2>3. LenderLast => Lent'
    BY <1>3, <2>a, LentRest, Zenon
  <2>4. ASSUME cacheOn, LenderLast, ~Reissue PROVE CookiesOwned' /\ Current'
    <3>1. Ground /\ Wanted /\ CookiesOwned /\ Current
      BY <2>4, <2>a, Zenon DEF Ground
    <3> QED BY <1>3, <3>1, OwnedRest, CurrentRest, Zenon
  <2>5. ~cacheOn => BypassOwned'
    BY <1>3, <2>a, BypassOwnedRest, Zenon
  <2> QED BY <2>1, <2>2, <2>3, <2>4, <2>5, Zenon
<1>4. Kept
  BY <1>2, <1>3, ZenonT(60) DEF Next
<1> QED BY <1>1, <1>4, Zenon DEF CookieInv

\* The state has its type.
LEMMA CookieTypes == CookieInv => MrTypeOK
<1> SUFFICES ASSUME CookieInv PROVE MrTypeOK
  BY Zenon
<1>a. /\ Shape /\ KernelOK
      /\ cacheOn => Phases /\ CountInv /\ ListInv
      /\ ~cacheOn => Bypassed
  BY Zenon DEF CookieInv, ListsInv, Inv
<1>1. /\ \A e \in Slots : slot[e].use \in Nat
      /\ lru \subseteq Slots /\ ahead \subseteq lru \X lru /\ dead \subseteq Slots
      /\ \E T, O \in SUBSET Slots : count = Tally(slot, T, O)
  <2>1. CASE cacheOn
    <3>1. /\ lru = IdleOf(slot) /\ Ordered(lru, ahead) /\ dead = DeadOf(slot, flist)
          /\ count = Tally(slot, T0, O0) /\ T0 \subseteq Slots /\ O0 \subseteq Slots
          /\ \A e \in Slots : slot[e].use \in Nat
      BY <2>1, <1>a, CountsNow, Zenon
    <3>2. lru \subseteq Slots /\ dead \subseteq Slots
      BY <3>1, Zenon DEF IdleOf, DeadOf
    <3> QED BY <3>1, <3>2, ZenonT(60) DEF Ordered
  <2>2. CASE ~cacheOn
    <3>1. Bypassed
      BY <2>2, <1>a, Zenon
    <3> QED BY <3>1, ZenonT(60) DEF Bypassed
  <2> QED BY <2>1, <2>2, Zenon
<1>2. slot \in [Slots -> [used : BOOLEAN, iov : Iovs, use : Nat, node : BOOLEAN, cookie : Cookies]]
  <2>1. slot \in [Slots -> Entries]
    BY <1>a, Zenon DEF Shape
  <2>2. ASSUME NEW r \in Entries, r.use \in Nat
        PROVE  r \in [used : BOOLEAN, iov : Iovs, use : Nat, node : BOOLEAN, cookie : Cookies]
    BY <2>2, IovsAll DEF Entries
  <2>3. \A e \in Slots : slot[e] \in [used : BOOLEAN, iov : Iovs, use : Nat, node : BOOLEAN, cookie : Cookies]
    BY <1>1, <2>1, <2>2, Zenon
  <2> QED BY <2>1, <2>3, Zenon
<1>3. count \in [cnt : Nat, size : Nat, ucnt : Nat, usize : Nat]
  <2>0. CardFacts
    BY Zenon DEF CookieInv, ListsInv
  <2>1. PICK T \in SUBSET Slots, O \in SUBSET Slots : count = Tally(slot, T, O)
    BY <1>1, Zenon
  <2>2. slot \in [Slots -> Entries]
    BY <1>a, Zenon DEF Shape
  <2>3. Cardinality(T) \in Nat /\ Sized(slot, T) \in Nat /\ Cardinality(O) \in Nat /\ Sized(slot, O) \in Nat
    BY <2>0, <2>2, EntriesFinite, Zenon
  <2> QED BY <2>1, <2>3, Zenon DEF Tally
<1>4. \A c \in Cookies : kernel[c] # NoReg =>
        kernel[c].iov \in Iovs /\ kernel[c].pages \subseteq Pages /\ kernel[c].sock \in Eps
  BY <1>a, ZenonT(60) DEF KernelOK, KTyped, RegOK, Regs
<1>5. pc \in [Eps -> Labels]
  <2>1. pc \in [Eps -> Labels \cup {"none"}]
    BY <1>a, Zenon DEF Shape
  <2>2. \A t \in Eps : pc[t] # "none"
    <3>1. CASE cacheOn
      BY <3>1, <1>a, ZenonT(60) DEF Phases, Phase, Away, Sending, Inside, Resting
    <3>2. CASE ~cacheOn
      BY <3>2, <1>a, ZenonT(60) DEF Bypassed
    <3> QED BY <3>1, <3>2, Zenon
  <2>3. \A t \in Eps : pc[t] \in Labels
    BY <2>1, <2>2, Zenon
  <2> QED BY <2>1, <2>3, Zenon
<1>6. \A t \in Eps : flist[t] \subseteq Slots /\ (pc[t] = "free" <=> flist[t] # {})
  <2>1. CASE cacheOn
    <3>1. \A t \in Eps : flist[t] \subseteq Slots
      BY <2>1, <1>a, Zenon DEF CountInv, Counted, Lists
    <3>2. \A t \in Eps : (flist[t] # {} => pc[t] = "free") /\ (pc[t] = "free" => flist[t] # {})
      BY <2>1, <1>a, Zenon DEF Phases, Phase, KernelOK
    <3> QED BY <3>1, <3>2, Zenon
  <2>2. CASE ~cacheOn
    BY <2>2, <1>a, ZenonT(60) DEF Bypassed
  <2> QED BY <2>1, <2>2, Zenon
<1>7. regEp \in Eps \cup {NoEp} /\ \A t \in Eps : \A h \in held[t] : h.iov \in Iovs
  BY <1>a, Zenon DEF KernelOK, HeldIovs
<1> QED BY <1>1, <1>2, <1>3, <1>4, <1>5, <1>6, <1>7, Zenon DEF MrTypeOK

-----------------------------------------------------------------------------
(* Theorems *)

INSTANCE FiniteSetTheorems

\* Finite sets are what the lemmas about counts take them to be.
LEMMA CardFactsHold == CardFacts
<1>1. \A S : IsFiniteSet(S) => Cardinality(S) \in Nat /\ (Cardinality(S) = 0 <=> S = {})
  BY FS_CardinalityType, FS_EmptySet, Zenon
<1>2. \A S, x : IsFiniteSet(S) => IsFiniteSet(S \cup {x}) /\ IsFiniteSet(S \ {x})
  BY FS_AddElement, FS_RemoveElement, Zenon
<1>3. \A S, x : IsFiniteSet(S) /\ x \notin S => Cardinality(S \cup {x}) = Cardinality(S) + 1
  BY FS_AddElement, Zenon
<1>4. SizeFacts
  <2>1. \A S, T : IsFiniteSet(S) /\ T \subseteq S => IsFiniteSet(T)
    BY FS_Subset, Zenon
  <2>2. \A S, T : IsFiniteSet(S) /\ IsFiniteSet(T) =>
          IsFiniteSet(S \X T) /\ Cardinality(S \X T) = Cardinality(S) * Cardinality(T)
    BY FS_Product, Zenon
  <2>3. ASSUME NEW S, NEW T, IsFiniteSet(S), IsFiniteSet(T), S \cap T = {}
        PROVE  Cardinality(S \cup T) = Cardinality(S) + Cardinality(T)
    <3>1. Cardinality(S \cup T) = Cardinality(S) + Cardinality(T) - Cardinality(S \cap T)
      BY <2>3, FS_Union, Zenon
    <3>2. Cardinality(S) \in Nat /\ Cardinality(T) \in Nat
      BY <2>3, FS_CardinalityType, Zenon
    <3>3. Cardinality(S \cap T) = 0
      BY <2>3, FS_EmptySet, Zenon
    <3> HIDE <2>3
    <3> QED BY <3>1, <3>2, <3>3
  <2>4. ASSUME NEW a \in Int, NEW b \in Int
        PROVE  IsFiniteSet(a .. b) /\ (a <= b => Cardinality(a .. b) = b - a + 1)
    BY FS_Interval
  <2>5. \A x : IsFiniteSet({x}) /\ Cardinality({x}) = 1
    BY FS_Singleton, Zenon
  <2> QED BY <2>1, <2>2, <2>3, <2>4, <2>5, Zenon DEF SizeFacts
<1> QED BY <1>1, <1>2, <1>3, <1>4, FS_EmptySet, Zenon DEF CardFacts

\* The inductive invariant holds in every reachable state.
LEMMA InvHolds == Spec => []Inv
BY InvInit, InvStep, CardFactsHold, PTL DEF Spec

\* use_cnt of an entry is the number of chunks, over all sends of all endpoints, that hold it,
\* whatever searches, conflicts, failures, FINs, closes and unmaps interleave
\* (util_mr_cache.c:251, 299, 418; rds_msg.c:119-125, 988-994).
THEOREM UseCountsStayExact == Spec => []UseCountsExact
<1>1. Inv => UseCountsExact
  <2> SUFFICES ASSUME Inv, cacheOn, NEW e \in Slots, slot[e].used, e \notin Freeing
               PROVE  slot[e].use = Cardinality(Holders(e))
    BY Zenon DEF UseCountsExact
  <2>1. NotFreeing(flist, e)
    BY Zenon DEF Freeing, NotFreeing
  <2>2. Holders(e) = HoldersIn(Refs, e)
    BY Zenon DEF Holders, HoldersIn, Refs
  <2>3. slot[e].use = Cardinality(HoldersIn(Refs, e))
    BY <2>1, Zenon DEF Inv, CountInv, Counted, Exact
  <2> QED BY <2>2, <2>3, ZenonT(60)
<1> QED BY <1>1, InvHolds, PTL

\* the entry behind a registered chunk is allocated and nobody is freeing it
HeldEntriesLive ==
  cacheOn => \A t \in Eps : \A h \in held[t] : h.id \in Slots /\ slot[h.id].used /\ h.id \notin Freeing

\* What a send holds is never freed under it, by another endpoint's eviction, conflict, unmap
\* or close (util_mr_cache.c:109-125, 178-224, 243-262).
THEOREM HeldEntriesStayLive == Spec => []HeldEntriesLive
<1>1. Inv => HeldEntriesLive
  <2> SUFFICES ASSUME Inv, cacheOn, NEW t \in Eps, NEW h \in held[t]
               PROVE  h.id \in Slots /\ slot[h.id].used /\ h.id \notin Freeing
    BY Zenon DEF HeldEntriesLive
  <2>1. h \in Refs[t]
    BY Zenon DEF Refs, References
  <2>2. h.id \in Slots /\ slot[h.id].used /\ NotFreeing(flist, h.id)
    BY <2>1, Zenon DEF Inv, CountInv, Counted, Live
  <2> QED BY <2>2, Zenon DEF Freeing, NotFreeing
<1> QED BY <1>1, InvHolds, PTL

\* The lists and counters are exact in every reachable state.
LEMMA ListsHold == Spec => []ListsInv
BY ListsInit, ListsStep, CardFactsHold, PTL DEF Spec

\* Every entry is on exactly the list its state asks for, no list names a freed entry, lru_list
\* is ordered, the four counters count exactly the entries and pages in the tree and in use
\* outside it, no entry is freed by two endpoints, and the counters are zero when the domain
\* closes (util_mr_cache.c:127-158, 243-262, 529-532).
THEOREM ListsStayExact == Spec => []CacheListsExact
<1>1. ListsInv => CacheListsExact
  <2> SUFFICES ASSUME ListsInv PROVE CacheListsExact
    BY Zenon
  <2>1. ~open => count = [cnt |-> 0, size |-> 0, ucnt |-> 0, usize |-> 0]
    BY CountersEndAtZero, Zenon
  <2>2. Tree = TreeOf(slot)
    BY Zenon DEF Tree, TreeOf
  <2>3. \A e : e \notin Freeing <=> NotFreeing(flist, e)
    BY Zenon DEF Freeing, NotFreeing
  <2>4. SizeOf(Tree) = Sized(slot, Tree) /\ SizeOf(Orphans) = Sized(slot, Orphans)
    BY SizeOfIs, Zenon
  <2>5. CASE cacheOn
    <3>1. Phases /\ CountInv /\ ListInv
      BY <2>5, Zenon DEF ListsInv, Inv
    <3>2. Orphans = OrphansOf(slot, flist, Making)
      <4>1. \A e \in Slots : e # 0
        BY DEF Slots
      <4>2. \A e \in Slots, t \in Eps : ~(pc[t] = "insert" /\ ent[t] = e) <=> Making[t] # e
        BY <4>1, ZenonT(60) DEF Making
      <4> QED BY <4>2, <2>3, ZenonT(60) DEF Orphans, OrphansOf
    <3>3. lru = {e \in Tree : slot[e].use = 0}
      BY <3>1, ZenonT(60) DEF ListInv, ListsAre, IdleOf, Tree
    <3>4. dead = {e \in Slots : slot[e].used /\ ~slot[e].node /\ slot[e].use = 0 /\ e \notin Freeing}
      BY <3>1, <2>3, ZenonT(60) DEF ListInv, ListsAre, DeadOf
    <3>5. count = [cnt |-> Cardinality(Tree), size |-> SizeOf(Tree),
                   ucnt |-> Cardinality(Orphans), usize |-> SizeOf(Orphans)]
      BY <3>1, <3>2, <2>2, <2>4, ZenonT(60) DEF ListInv, ListsAre, Tally
    <3>6. \A e, f \in lru : e # f => (<<e, f>> \in ahead <=> <<f, e>> \notin ahead)
      BY <3>1, ZenonT(60) DEF ListInv, ListsAre, Ordered
    <3>7. \A t, u \in Eps : t # u => flist[t] \cap flist[u] = {}
      BY <3>1, Zenon DEF CountInv, Counted, Lists
    <3> QED BY <2>1, <3>3, <3>4, <3>5, <3>6, <3>7, ZenonT(60) DEF CacheListsExact
  <2>6. CASE ~cacheOn
    <3>1. Bypassed
      BY <2>6, Zenon DEF ListsInv
    <3>2. Tree = {} /\ Orphans = {}
      BY <3>1, ZenonT(60) DEF Bypassed, Tree, Orphans
    <3>3. count = [cnt |-> Cardinality(Tree), size |-> SizeOf(Tree),
                   ucnt |-> Cardinality(Orphans), usize |-> SizeOf(Orphans)]
      BY <3>1, <3>2, <2>4, ZenonT(60) DEF Bypassed, Tally
    <3>4. /\ lru = {e \in Tree : slot[e].use = 0}
          /\ dead = {e \in Slots : slot[e].used /\ ~slot[e].node /\ slot[e].use = 0 /\ e \notin Freeing}
      BY <3>1, <3>2, ZenonT(60) DEF Bypassed
    <3>5. \A e, f \in lru : e # f => (<<e, f>> \in ahead <=> <<f, e>> \notin ahead)
      BY <3>1, Zenon DEF Bypassed
    <3>6. \A t, u \in Eps : t # u => flist[t] \cap flist[u] = {}
      BY <3>1, Zenon DEF Bypassed
    <3> QED BY <2>1, <3>3, <3>4, <3>5, <3>6, ZenonT(60) DEF CacheListsExact
  <2> QED BY <2>5, <2>6, Zenon
<1> QED BY <1>1, ListsHold, PTL

\* Cookies are as the invariant says in every reachable state.
LEMMA CookiesHold == Spec => []CookieInv
BY CookieInit, CookieStep, CardFactsHold, PTL DEF Spec

\* Pool entries, lists, registrations and endpoints always have their type, and no counter
\* and no use_cnt runs below zero (rds_mr.c:198, util_mr_cache.c:142, 253, 297).
THEOREM MrStaysTyped == Spec => []MrTypeOK
BY CookiesHold, CookieTypes, PTL

\* When no socket is lent, what endpoints still hold is being released.
LEMMA AllReleasing ==
  ASSUME CookieInv, cacheOn, LenderLast, regEp = NoEp, NEW t \in Eps, NEW h \in held[t]
  PROVE  h \in ToPut(t)
<1>1. (pc[t] = "off" \/ closing[t]) /\ Gate(t) /\ Phase(t)
  BY Zenon DEF CookieInv, ListsInv, Inv, Phases, Shut, Lent
<1>2. pend[t] = {}
  BY <1>1, Zenon DEF Gate
<1>3. pc[t] \in {"off", "put", "closed"} \/ (pc[t] = "free" /\ after[t] = "put")
  BY <1>1, ZenonT(60) DEF Gate
<1>4. op[t] = 0
  BY <1>1, <1>3, ZenonT(60) DEF Phase, Away, Sending, Inside
<1>5. h.op # 0 /\ h.op \in pend[t] \cup rel[t] \cup {op[t]}
  BY <1>1, Zenon DEF Phase
<1> QED BY <1>2, <1>4, <1>5, Zenon DEF ToPut

\* The cookie of every chunk that a send in progress holds is registered, covers the chunk and
\* pins the pages the application has there now, with and without the cache, whatever is
\* flushed, conflicts, is unmapped or fails meanwhile; with the cache, as long as the endpoint
\* whose socket is lent to the domain is closed last (rds_mr.c:166-169).
THEOREM CookiesCoverChunks ==
  ASSUME LenderLast, ~Reissue
  PROVE  Spec => []CookieCoversChunk
<1>1. CookieInv => CookieCoversChunk
  <2> SUFFICES ASSUME CookieInv, NEW t \in Eps, NEW h \in held[t] \ ToPut(t)
               PROVE  LET r == kernel[CookieOf(h)] IN
                      r # NoReg /\ IovWithin(h.iov, r.iov) /\ PagesOf(h.iov) \subseteq r.pages
    BY Zenon DEF CookieCoversChunk
  <2>0. NoReg.sock \notin Eps
    BY NoRegIs, Zenon DEF Regd
  <2>1. CASE cacheOn
    <3>1. CountInv /\ CookiesOwned /\ Current /\ KernelOK
      BY <2>1, Zenon DEF CookieInv, ListsInv, Inv
    <3>2. regEp # NoEp
      BY <2>1, AllReleasing, Zenon
    <3>3. LiveEntry(h.id) /\ Covers(h.id, h.iov) /\ regEp \in Eps
      BY <3>1, <3>2, LiveAre, Zenon DEF Current, KernelOK
    <3>4. Reg(h.id).sock = regEp /\ Reg(h.id).iov = slot[h.id].iov
      BY <3>1, <3>2, <3>3, Zenon DEF LiveEntry, CookiesOwned
    <3>5. kernel[CookieOf(h)] = Reg(h.id)
      BY <2>1, Zenon DEF CookieOf, Reg
    <3>6. Reg(h.id) # NoReg
      BY <2>0, <3>3, <3>4, Zenon
    <3> QED BY <3>3, <3>4, <3>5, <3>6, Zenon DEF Covers
  <2>2. CASE ~cacheOn
    <3>1. KernelOK /\ Pinned(t, h)
      BY <2>2, Zenon DEF CookieInv, BypassOwned, PinsOwned
    <3>2. h.iov \in Iovs
      BY <3>1, Zenon DEF KernelOK, HeldIovs
    <3>3. IovWithin(h.iov, h.iov)
      BY <3>2, WithinPages, Zenon
    <3>4. kernel[CookieOf(h)] = kernel[h.id]
      BY <2>2, Zenon DEF CookieOf
    <3>5. kernel[h.id] # NoReg
      BY <2>0, <3>1, Zenon DEF Pinned
    <3> QED BY <3>1, <3>3, <3>4, <3>5, Zenon DEF Pinned
  <2> QED BY <2>1, <2>2, Zenon
<1> QED BY <1>1, CookiesHold, PTL

\* Every chunk held belongs to an operation that will give it back.
LEMMA HeldByLive ==
  ASSUME CookieInv, NEW t \in Eps, NEW h \in held[t]
  PROVE  h.op \in LiveOps(t)
<1>1. CASE cacheOn
  <2>1. Phase(t)
    BY <1>1, Zenon DEF CookieInv, ListsInv, Inv, Phases
  <2> QED BY <2>1, Zenon DEF Phase, LiveOps
<1>2. CASE ~cacheOn
  <2>1. Owns(t)
    BY <1>2, Zenon DEF CookieInv, BypassOwned
  <2> QED BY <2>1, Zenon DEF Owns, LiveOps
<1> QED BY <1>1, <1>2, Zenon

\* Every entry in use is on a list the cache empties, or is held by a search or a chunk that
\* will give it back.
LEMMA EntriesKept ==
  ASSUME CookieInv, cacheOn, NEW e \in Slots, slot[e].used
  PROVE  EntryKept(e)
<1>a. CountInv /\ ListInv
  BY Zenon DEF CookieInv, ListsInv, Inv
<1>1. CASE e \in Freeing
  BY <1>1, Zenon DEF EntryKept
<1>2. CASE e \notin Freeing /\ slot[e].use = 0
  <2>1. NotFreeing(flist, e)
    BY <1>2, Zenon DEF Freeing, NotFreeing
  <2>2. e \in lru \/ e \in dead
    BY <1>a, <1>2, <2>1, ZenonT(60) DEF ListInv, ListsAre, IdleOf, DeadOf
  <2> QED BY <2>2, Zenon DEF EntryKept
<1>3. CASE e \notin Freeing /\ slot[e].use # 0
  <2>1. NotFreeing(flist, e)
    BY <1>3, Zenon DEF Freeing, NotFreeing
  <2>2. Cardinality(HoldersIn(Refs, e)) # 0
    BY <1>a, <1>3, <2>1, Zenon DEF CountInv, Counted, Exact
  <2>3. HoldersIn(Refs, e) # {}
    BY <2>2, FS_EmptySet, Zenon
  <2>4. PICK t \in Eps : \E x : x \in {t} \X {g \in Refs[t] : g.id = e}
    BY <2>3, Zenon DEF HoldersIn
  <2>5. PICK h \in References(t) : h.id = e
    <3>1. \E g \in Refs[t] : g.id = e
      BY <2>4
    <3> QED BY <3>1, Zenon DEF Refs
  <2>6. h.op \in LiveOps(t) \/ h.op = 0
    <3>1. h \in held[t] \/ h = InHand(ent[t])
      BY <2>5, Zenon DEF References, InHand
    <3>2. InHand(ent[t]).op = 0
      BY Zenon DEF InHand, Hold
    <3> QED BY <3>1, <3>2, HeldByLive, Zenon
  <2> QED BY <2>5, <2>6, Zenon DEF EntryKept
<1> QED BY <1>1, <1>2, <1>3, Zenon

\* Every chunk held belongs to an operation that will give it back, every pool entry in use
\* is kept by a list or by such a chunk, and every registration in the kernel has one of
\* these as its only owner until its socket is being closed; none outlives its socket.  With
\* the cache the owner is a pool entry and the endpoint whose socket is lent is closed last;
\* without it the owner is a chunk (rds_mr.c:133-139, 153-160, 203-212; rds_msg.c:988; rds_ep.c:254).
THEOREM RegistrationsOwned ==
  ASSUME LenderLast, ~Reissue
  PROVE  Spec => []NothingLeaks
<1>1. ASSUME CookieInv, NEW c \in Cookies, kernel[c] # NoReg,
             ~(closing[kernel[c].sock] /\ pc[kernel[c].sock] # "closed")
      PROVE  IF cacheOn
             THEN Cardinality({e \in Slots : slot[e].used /\ slot[e].cookie = c}) = 1
             ELSE Cardinality({x \in UNION {{t} \X held[t] : t \in Eps} : x[2].id = c}) = 1
  <2>0. \A x : Cardinality({x}) = 1
    BY FS_Singleton, Zenon
  <2>1. Regd(kernel[c]) /\ kernel[c].sock \in Eps
    BY <1>1, RegdIs, Zenon DEF CookieInv, KernelOK, KTyped, Regd
  <2>2. CASE cacheOn
    <3>1. CookiesOwned
      BY <1>1, <2>2, Zenon DEF CookieInv
    <3>2. PICK e \in Slots : slot[e].used /\ slot[e].cookie = c
      BY <1>1, <2>1, <3>1, Zenon DEF CookiesOwned
    <3>3. {f \in Slots : slot[f].used /\ slot[f].cookie = c} = {e}
      BY <3>1, <3>2, ZenonT(60) DEF CookiesOwned
    <3> QED BY <2>0, <2>2, <3>3, Zenon
  <2>3. CASE ~cacheOn
    <3>1. PinsOwned
      BY <1>1, <2>3, Zenon DEF CookieInv, BypassOwned
    <3>2. PICK h \in held[kernel[c].sock] : h.id = c
      BY <2>1, <3>1, Zenon DEF PinsOwned
    <3> DEFINE X == {x \in UNION {{t} \X held[t] : t \in Eps} : x[2].id = c}
               s == kernel[c].sock
    <3>3. <<s, h>> \in X
      <4>1. <<s, h>> \in {s} \X held[s] /\ <<s, h>>[2] = h
        BY <3>2
      <4> QED BY <2>1, <3>2, <4>1, Zenon
    <3>4. ASSUME NEW x \in X PROVE x = <<s, h>>
      <4>1. PICK t \in Eps : x \in {t} \X held[t] /\ x[2].id = c
        BY <3>4, Zenon
      <4>2. x = <<t, x[2]>> /\ x[2] \in held[t]
        BY <4>1
      <4>3. t = s
        <5>1. kernel[x[2].id].sock = t
          BY <3>1, <4>2, Zenon DEF PinsOwned, Pinned
        <5> QED BY <4>1, <5>1, Zenon
      <4>4. x[2] = h
        <5>1. x[2] \in held[s] /\ h \in held[s] /\ x[2].id = h.id
          BY <3>2, <4>1, <4>2, <4>3, Zenon
        <5>2. s \in Eps
          BY <2>1, Zenon
        <5> HIDE DEF s
        <5> QED BY <3>1, <5>1, <5>2, Zenon DEF PinsOwned
      <4> QED BY <4>2, <4>3, <4>4, Zenon
    <3>5. X = {<<s, h>>}
      BY <3>3, <3>4, Zenon
    <3>6. Cardinality(X) = 1
      BY <2>0, <3>5, Zenon
    <3> QED BY <2>3, <3>6, Zenon
  <2> QED BY <2>2, <2>3, Zenon
<1>2. CookieInv => NothingLeaks
  BY <1>1, HeldByLive, EntriesKept, ZenonT(60) DEF NothingLeaks
<1> QED BY <1>2, CookiesHold, PTL
=============================================================================
