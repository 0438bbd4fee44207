----------------------------- MODULE RdsMrProofs -----------------------------
(***************************************************************************)
(* The registration cache, for any endpoints, sources, pool, cache limits  *)
(* and faults: no two entries of the tree are nested, and use_cnt of an    *)
(* entry is the number of its holders, so an entry somebody holds is never *)
(* freed; every entry is on the list its state asks for, and the four      *)
(* counters are exact.                                                     *)
(*                                                                         *)
(* Counted, what the counts and lists are, is a relation on the values     *)
(* involved; one lemma per kind of step shows that it is kept, and the     *)
(* steps of RdsMr are instances of them.  Shape is the type of what the    *)
(* steps compute with.  Phase says for every endpoint where its call is.   *)
(* The count alone is not inductive: a FIN must not release an operation   *)
(* number a new send took over, and an entry a search is about to insert   *)
(* must be known to that search alone.                                     *)
(*                                                                         *)
(* What is used of cardinalities is carried along as CardFacts, a conjunct *)
(* of the invariant that RdsMrTheorems discharges.                         *)
(***************************************************************************)
EXTENDS RdsMr, TLAPS

\* Leaves go to SMT unless they name another prover.
USE SMTT(60)

\* Use counts go up from zero.
LEMMA UpFromZero == \A n \in Nat : n + 1 \in Nat /\ n + 1 # 0 /\ (n # 0 => n > 0)
OBVIOUS

\* What is used of arithmetic.
LEMMA Numbers ==
  /\ 1 - 1 = 0
  /\ \A n \in Nat : ~(n + 1 <= n) /\ \A m : m = n + 1 => m - 1 = n
  /\ \A n \in Int : n - 1 \in Int
  /\ Slots \subseteq Nat /\ 0 \notin Slots
  /\ \A o \in 1 .. MaxInflight : o \in Nat /\ o # 0
BY MrAssumption, SendAssumption DEF Slots

-----------------------------------------------------------------------------
(* Holders, lists and counts *)

\* who refers to entry e, by the references R[t] of every endpoint
HoldersIn(R, e) == UNION {{t} \X {h \in R[t] : h.id = e} : t \in Eps}

InHand(e) == Hold(0, 0, NoIov, e)

NotFreeing(fl, e) == \A t \in Eps : e \notin fl[t]

Exact(sl, fl, R) ==
  \A e \in Slots :
    /\ IsFiniteSet(HoldersIn(R, e))
    /\ (sl[e].used /\ NotFreeing(fl, e)) => sl[e].use = Cardinality(HoldersIn(R, e))

\* what is referred to is allocated and on nobody's way to the pool
Live(sl, fl, R) ==
  \A t \in Eps : \A r \in R[t] : r.id \in Slots /\ sl[r.id].used /\ NotFreeing(fl, r.id)

\* the entry M[t] an endpoint is about to insert is known to it alone
Fresh(sl, R, M) ==
  \A t \in Eps : M[t] # 0 =>
    /\ M[t] \in Slots
    /\ InHand(M[t]) \in R[t]
    /\ ~sl[M[t]].node
    /\ \A u \in Eps : \A r \in R[u] : r.id = M[t] => u = t /\ r = InHand(M[t])

\* the lists: to be freed, lru_list, dead_region_list
Lists(sl, fl, L, D) ==
  /\ \A t \in Eps : \A e \in fl[t] : e \in Slots /\ sl[e].used /\ ~sl[e].node
  /\ \A t, u \in Eps : t # u => fl[t] \cap fl[u] = {}
  /\ \A e \in L : e \in Slots /\ sl[e].used /\ sl[e].node /\ sl[e].use = 0
  /\ \A e \in D : e \in Slots /\ sl[e].used /\ ~sl[e].node /\ sl[e].use = 0 /\ NotFreeing(fl, e)
  /\ \A e \in Slots : sl[e].node => sl[e].used

\* What is used of finite sets: CardFactsHold (RdsMrTheorems) proves it from FiniteSetTheorems;
\* up to there it is carried along.
SizeFacts ==
  /\ \A S, T : IsFiniteSet(S) /\ T \subseteq S => IsFiniteSet(T)
  /\ \A S, T : IsFiniteSet(S) /\ IsFiniteSet(T) =>
       /\ IsFiniteSet(S \X T) /\ Cardinality(S \X T) = Cardinality(S) * Cardinality(T)
       /\ S \cap T = {} => Cardinality(S \cup T) = Cardinality(S) + Cardinality(T)
  /\ \A a, b \in Int : IsFiniteSet(a .. b) /\ (a <= b => Cardinality(a .. b) = b - a + 1)
  /\ \A x : IsFiniteSet({x}) /\ Cardinality({x}) = 1

CardFacts ==
  /\ SizeFacts
  /\ IsFiniteSet({})
  /\ \A S : IsFiniteSet(S) => Cardinality(S) \in Nat /\ (Cardinality(S) = 0 <=> S = {})
  /\ \A S, x : IsFiniteSet(S) => IsFiniteSet(S \cup {x}) /\ IsFiniteSet(S \ {x})
  /\ \A S, x : IsFiniteSet(S) /\ x \notin S => Cardinality(S \cup {x}) = Cardinality(S) + 1

Counted(sl, fl, R, M, L, D) ==
  CardFacts /\ Exact(sl, fl, R) /\ Live(sl, fl, R) /\ Fresh(sl, R, M) /\ Lists(sl, fl, L, D)

\* g is f but for endpoint t, sl2 is sl but for the entries of S
Elsewhere(t, f, g) == \A u \in Eps : u # t => g[u] = f[u]
Same(sl, sl2, S) == \A f \in Slots : f \notin S => sl2[f] = sl[f]

\* sl2 is sl but for use_cnt of e, which is n
Recounted(sl, sl2, e, n) ==
  /\ Same(sl, sl2, {e})
  /\ sl2[e].used = sl[e].used /\ sl2[e].node = sl[e].node /\ sl2[e].use = n

-----------------------------------------------------------------------------
(* Sets of holders *)

\* One element more or less.
LEMMA OneMore ==
  ASSUME CardFacts, NEW S, NEW T, NEW x, IsFiniteSet(S), x \notin S, T = S \cup {x}
  PROVE  IsFiniteSet(T) /\ Cardinality(S) \in Nat /\ Cardinality(T) = Cardinality(S) + 1
<1>1. IsFiniteSet(S \cup {x}) /\ Cardinality(S \cup {x}) = Cardinality(S) + 1
  BY Zenon DEF CardFacts
<1>2. Cardinality(S) \in Nat
  BY Zenon DEF CardFacts
<1> QED BY <1>1, <1>2, Zenon

\* Taking an element out of a finite set leaves one fewer: what a put does to use_cnt.
LEMMA OneLess ==
  ASSUME CardFacts, NEW S, NEW T, NEW x \in S, IsFiniteSet(S), T = S \ {x}
  PROVE  IsFiniteSet(T) /\ Cardinality(T) \in Nat /\ Cardinality(S) = Cardinality(T) + 1
<1>1. IsFiniteSet(S \ {x})
  BY Zenon DEF CardFacts
<1>2. x \notin T /\ S = T \cup {x}
  OBVIOUS
<1> QED BY <1>1, <1>2, OneMore, Zenon

\* A holder is an endpoint with one of its references.
LEMMA HolderIs ==
  ASSUME NEW R, NEW e, NEW x
  PROVE  x \in HoldersIn(R, e) <=> \E t \in Eps : \E h \in R[t] : h.id = e /\ x = <<t, h>>
<1>1. x \in HoldersIn(R, e) <=> \E t \in Eps : x \in {t} \X {h \in R[t] : h.id = e}
  BY DEF HoldersIn
<1>2. ASSUME NEW t PROVE x \in {t} \X {h \in R[t] : h.id = e} <=> \E h \in R[t] : h.id = e /\ x = <<t, h>>
  OBVIOUS
<1> QED BY <1>1, <1>2

\* One more reference is one more holder of its entry, and of no other.
LEMMA AddHolder ==
  ASSUME NEW R, NEW R2, NEW t \in Eps, NEW h, h \notin R[t],
         R2[t] = R[t] \cup {h}, Elsewhere(t, R, R2)
  PROVE  /\ <<t, h>> \notin HoldersIn(R, h.id)
         /\ HoldersIn(R2, h.id) = HoldersIn(R, h.id) \cup {<<t, h>>}
         /\ \A e : e # h.id => HoldersIn(R2, e) = HoldersIn(R, e)
<1> USE DEF Elsewhere
<1>1. <<t, h>> \notin HoldersIn(R, h.id)
  BY HolderIs
<1>2. HoldersIn(R2, h.id) = HoldersIn(R, h.id) \cup {<<t, h>>}
  <2>1. ASSUME NEW x PROVE x \in HoldersIn(R2, h.id) <=> x \in HoldersIn(R, h.id) \/ x = <<t, h>>
    BY HolderIs
  <2> QED BY <2>1
<1>3. ASSUME NEW e, e # h.id PROVE HoldersIn(R2, e) = HoldersIn(R, e)
  <2>1. ASSUME NEW x PROVE x \in HoldersIn(R2, e) <=> x \in HoldersIn(R, e)
    BY <1>3, HolderIs
  <2> QED BY <2>1, Zenon
<1> QED BY <1>1, <1>2, <1>3

\* One reference less is one holder less.
LEMMA DropHolder ==
  ASSUME NEW R, NEW R2, NEW t \in Eps, NEW h \in R[t],
         R2[t] = R[t] \ {h}, Elsewhere(t, R, R2)
  PROVE  /\ <<t, h>> \in HoldersIn(R, h.id)
         /\ HoldersIn(R2, h.id) = HoldersIn(R, h.id) \ {<<t, h>>}
         /\ \A e : e # h.id => HoldersIn(R2, e) = HoldersIn(R, e)
<1> USE DEF Elsewhere
<1>1. <<t, h>> \in HoldersIn(R, h.id)
  BY HolderIs
<1>2. HoldersIn(R2, h.id) = HoldersIn(R, h.id) \ {<<t, h>>}
  <2>1. ASSUME NEW x PROVE x \in HoldersIn(R2, h.id) <=> x \in HoldersIn(R, h.id) /\ x # <<t, h>>
    BY HolderIs
  <2> QED BY <2>1
<1>3. ASSUME NEW e, e # h.id PROVE HoldersIn(R2, e) = HoldersIn(R, e)
  <2>1. ASSUME NEW x PROVE x \in HoldersIn(R2, e) <=> x \in HoldersIn(R, e)
    BY <1>3, HolderIs
  <2> QED BY <2>1
<1> QED BY <1>1, <1>2, <1>3

-----------------------------------------------------------------------------
(* Kinds of steps *)

\* a hit: one reference more, off the lru_list
LEMMA HitKeeps ==
  ASSUME NEW sl, NEW sl2, NEW fl, NEW R, NEW R2, NEW M, NEW L, NEW L2, NEW D,
         Counted(sl, fl, R, M, L, D),
         NEW t \in Eps, NEW e \in Slots, sl[e].node,
         InHand(e) \notin R[t], R2[t] = R[t] \cup {InHand(e)}, Elsewhere(t, R, R2),
         Recounted(sl, sl2, e, sl[e].use + 1),
         L2 \subseteq L, e \notin L2, M[t] = 0
  PROVE  Counted(sl2, fl, R2, M, L2, D)
<1> USE DEF Elsewhere, Recounted
<1>k. CardFacts
  BY DEF Counted
<1>h. InHand(e).id = e
  BY DEF InHand, Hold
<1>e. sl[e].used /\ NotFreeing(fl, e)
  BY DEF Counted, Lists, NotFreeing
<1>1. Exact(sl2, fl, R2)
  <2>1. HoldersIn(R2, e) = HoldersIn(R, e) \cup {<<t, InHand(e)>>} /\ <<t,
      InHand(e)>> \notin HoldersIn(R, e)
        /\ \A f : f # e => HoldersIn(R2, f) = HoldersIn(R, f)
    BY <1>h, AddHolder
  <2>2. IsFiniteSet(HoldersIn(R, e)) /\ sl[e].use = Cardinality(HoldersIn(R, e))
    BY <1>e DEF Counted, Exact
  <2>3. IsFiniteSet(HoldersIn(R2, e)) /\ Cardinality(HoldersIn(R2, e)) = Cardinality(HoldersIn(R,
      e)) + 1
    BY <1>k, <2>1, <2>2, OneMore, Zenon
  <2> QED BY <2>1, <2>2, <2>3, ZenonT(60) DEF Counted, Exact, Same
<1>2. Live(sl2, fl, R2)
  BY <1>h, <1>e, ZenonT(60) DEF Counted, Live, Same
<1>3. Fresh(sl2, R2, M)
  BY <1>h DEF Counted, Fresh, Same
<1>4. Lists(sl2, fl, L2, D)
  BY DEF Counted, Lists, Same, NotFreeing
<1> QED BY <1>1, <1>2, <1>3, <1>4 DEF Counted

\* Nobody refers to an entry whose use_cnt is 0.
LEMMA IdleUnheld ==
  ASSUME NEW sl, NEW fl, NEW R, NEW e \in Slots, CardFacts, Exact(sl, fl, R),
         sl[e].used, NotFreeing(fl, e), sl[e].use = 0
  PROVE  \A t \in Eps : \A r \in R[t] : r.id # e
<1>1. HoldersIn(R, e) = {}
  BY DEF CardFacts, Exact
<1>2. ASSUME NEW t \in Eps, NEW r \in R[t], r.id = e PROVE FALSE
  <2>1. <<t, r>> \in HoldersIn(R, e)
    BY <1>2, HolderIs
  <2> QED BY <1>1, <2>1
<1> QED BY <1>2

\* rds_reg_cache_get returns: the reference of the search becomes one of the operation.
LEMMA GotKeeps ==
  ASSUME NEW sl, NEW fl, NEW R, NEW R2, NEW M, NEW L, NEW D,
         Counted(sl, fl, R, M, L, D),
         NEW t \in Eps, NEW e, NEW h, InHand(e) \in R[t], h \notin R[t], h.id = e,
         R2[t] = (R[t] \ {InHand(e)}) \cup {h}, Elsewhere(t, R, R2),
         M[t] = 0
  PROVE  Counted(sl, fl, R2, M, L, D)
<1> USE DEF Elsewhere
<1>k. CardFacts
  BY DEF Counted
<1> DEFINE R1 == [u \in Eps |-> IF u = t THEN R[t] \ {InHand(e)} ELSE R[u]]
<1>h. InHand(e).id = e
  BY DEF InHand, Hold
<1>s. e \in Slots
  BY <1>h, Zenon DEF Counted, Live
<1>1. Exact(sl, fl, R2)
  <2>0. R1[t] = R[t] \ {InHand(e)} /\ Elsewhere(t, R, R1)
    OBVIOUS
  <2> HIDE DEF R1
  <2>1. /\ <<t, InHand(e)>> \in HoldersIn(R, e)
        /\ HoldersIn(R1, e) = HoldersIn(R, e) \ {<<t, InHand(e)>>}
        /\ \A f : f # e => HoldersIn(R1, f) = HoldersIn(R, f)
    BY <1>h, <2>0, DropHolder
  <2>2. /\ <<t, h>> \notin HoldersIn(R1, e)
        /\ HoldersIn(R2, e) = HoldersIn(R1, e) \cup {<<t, h>>}
        /\ \A f : f # e => HoldersIn(R2, f) = HoldersIn(R1, f)
    BY <2>0, AddHolder
  <2>3. IsFiniteSet(HoldersIn(R, e))
    BY <1>s DEF Counted, Exact
  <2>4. IsFiniteSet(HoldersIn(R1, e)) /\ Cardinality(HoldersIn(R, e)) = Cardinality(HoldersIn(R1,
      e)) + 1
    BY <1>k, <2>1, <2>3, OneLess, Zenon
  <2>5. IsFiniteSet(HoldersIn(R2, e)) /\ Cardinality(HoldersIn(R2,
      e)) = Cardinality(HoldersIn(R1, e)) + 1
    BY <1>k, <2>2, <2>4, OneMore, Zenon
  <2>6. Cardinality(HoldersIn(R2, e)) = Cardinality(HoldersIn(R, e))
    BY <2>4, <2>5, Zenon
  <2>7. ASSUME NEW f \in Slots
        PROVE  IsFiniteSet(HoldersIn(R2, f)) /\ Cardinality(HoldersIn(R2,
            f)) = Cardinality(HoldersIn(R, f))
    <3>1. CASE f = e
      BY <3>1, <2>5, <2>6, Zenon
    <3>2. CASE f # e
      BY <3>2, <2>1, <2>2, Zenon DEF Counted, Exact
    <3> QED BY <3>1, <3>2
  <2> QED BY <2>7 DEF Counted, Exact
<1>2. Live(sl, fl, R2)
  BY <1>h, Zenon DEF Counted, Live
<1>3. Fresh(sl, R2, M)
  BY <1>h, ZenonT(60) DEF Counted, Fresh
<1> QED BY <1>1, <1>2, <1>3 DEF Counted

\* util_mr_uncache_entry of the entries S of the tree
LEMMA PurgeKeeps ==
  ASSUME NEW sl, NEW sl2, NEW fl, NEW R, NEW M, NEW L, NEW D, NEW S,
         Counted(sl, fl, R, M, L, D),
         S \subseteq Slots, \A e \in S : sl[e].node,
         Same(sl, sl2, S), \A e \in S : sl2[e].used = sl[e].used /\ sl2[e].use = sl[e].use /\ ~sl2[e].node
  PROVE  Counted(sl2, fl, R, M, L \ {e \in S : sl[e].use = 0}, D \cup {e \in S : sl[e].use = 0})
<1>0. \A e \in Slots : sl2[e].used = sl[e].used /\ sl2[e].use = sl[e].use
  BY Zenon DEF Same
<1>1. Exact(sl2, fl, R)
  BY <1>0, Zenon DEF Counted, Exact
<1>2. Live(sl2, fl, R)
  BY <1>0 DEF Counted, Live
<1>3. Fresh(sl2, R, M)
  BY Zenon DEF Counted, Fresh, Same
<1>4. Lists(sl2, fl, L \ {e \in S : sl[e].use = 0}, D \cup {e \in S : sl[e].use = 0})
  BY <1>0, ZenonT(60) DEF Counted, Lists, Same, NotFreeing
<1> QED BY <1>1, <1>2, <1>3, <1>4, Zenon DEF Counted

\* util_mr_cache_create: an entry of the pool, known to its maker only
LEMMA CreateKeeps ==
  ASSUME NEW sl, NEW sl2, NEW fl, NEW R, NEW R2, NEW M, NEW M2, NEW L, NEW D,
         Counted(sl, fl, R, M, L, D),
         NEW t \in Eps, NEW e \in Slots, ~sl[e].used, e # 0, M[t] = 0,
         R2[t] = R[t] \cup {InHand(e)}, Elsewhere(t, R, R2),
         M2[t] = e, Elsewhere(t, M, M2),
         Same(sl, sl2, {e}), sl2[e].used, ~sl2[e].node, sl2[e].use = 1
  PROVE  Counted(sl2, fl, R2, M2, L, D)
<1> USE DEF Elsewhere
<1>k. CardFacts
  BY DEF Counted
<1>h. InHand(e).id = e
  BY Zenon DEF InHand, Hold
<1>u. \A u \in Eps : \A r \in R[u] : r.id # e
  BY Zenon DEF Counted, Live
<1>f. NotFreeing(fl, e)
  BY Zenon DEF Counted, Lists, NotFreeing
<1>1. Exact(sl2, fl, R2)
  <2>1. HoldersIn(R2, e) = HoldersIn(R, e) \cup {<<t, InHand(e)>>} /\ <<t,
      InHand(e)>> \notin HoldersIn(R, e)
        /\ \A f : f # e => HoldersIn(R2, f) = HoldersIn(R, f)
    <3>1. InHand(e) \notin R[t]
      BY <1>h, <1>u, Zenon
    <3> HIDE DEF Elsewhere
    <3> QED BY <1>h, <3>1, AddHolder
  <2>2. HoldersIn(R, e) = {}
    BY <1>u, HolderIs
  <2>3. IsFiniteSet(HoldersIn(R, e)) /\ Cardinality(HoldersIn(R, e)) = 0
    BY <1>k, <2>2 DEF CardFacts
  <2>4. IsFiniteSet(HoldersIn(R2, e)) /\ Cardinality(HoldersIn(R2, e)) = Cardinality(HoldersIn(R,
      e)) + 1
    BY <1>k, <2>1, <2>3, OneMore, Zenon
  <2>5. ASSUME NEW f \in Slots
        PROVE  /\ IsFiniteSet(HoldersIn(R2, f))
               /\ (sl2[f].used /\ NotFreeing(fl, f)) => sl2[f].use = Cardinality(HoldersIn(R2, f))
    <3>1. CASE f = e
      BY <3>1, <2>3, <2>4
    <3>2. CASE f # e
      BY <3>2, <2>1, ZenonT(60) DEF Counted, Exact, Same
    <3> QED BY <3>1, <3>2, Zenon
  <2> QED BY <2>5, Zenon DEF Exact
<1>2. Live(sl2, fl, R2)
  BY <1>h, <1>f DEF Counted, Live, Same
<1>3. Fresh(sl2, R2, M2)
  <2> SUFFICES ASSUME NEW u \in Eps, M2[u] # 0
               PROVE  /\ M2[u] \in Slots
                      /\ InHand(M2[u]) \in R2[u]
                      /\ ~sl2[M2[u]].node
                      /\ \A v \in Eps : \A r \in R2[v] : r.id = M2[u] => v = u /\ r = InHand(M2[u])
    BY Zenon DEF Fresh
  <2>1. CASE u = t
    BY <2>1, <1>h, <1>u, Zenon
  <2>2. CASE u # t
    <3>1. M[u] \in Slots /\ InHand(M[u]) \in R[u] /\ ~sl[M[u]].node
          /\ \A v \in Eps : \A r \in R[v] : r.id = M[u] => v = u /\ r = InHand(M[u])
      BY <2>2, ZenonT(60) DEF Counted, Fresh
    <3>2. M[u] # e
      BY <3>1, <1>u, Zenon DEF InHand, Hold
    <3> QED BY <2>2, <3>1, <3>2, <1>h DEF Same
  <2> QED BY <2>1, <2>2, Zenon
<1>4. Lists(sl2, fl, L, D)
  BY <1>f DEF Counted, Lists, Same, NotFreeing
<1> QED BY <1>1, <1>2, <1>3, <1>4, Zenon DEF Counted

\* the entry is inserted, or kept out of the tree
LEMMA InsertKeeps ==
  ASSUME NEW sl, NEW sl2, NEW fl, NEW R, NEW M, NEW M2, NEW L, NEW D,
         Counted(sl, fl, R, M, L, D),
         NEW t \in Eps, NEW e, M[t] = e, e # 0,
         M2[t] = 0, Elsewhere(t, M, M2),
         Same(sl, sl2, {e}), sl2[e].used = sl[e].used, sl2[e].use = sl[e].use
  PROVE  Counted(sl2, fl, R, M2, L, D)
<1> USE DEF Elsewhere
<1>h. InHand(e).id = e
  BY Zenon DEF InHand, Hold
<1>e. e \in Slots /\ InHand(e) \in R[t] /\ ~sl[e].node
      /\ \A u \in Eps : \A r \in R[u] : r.id = e => u = t /\ r = InHand(e)
  BY Zenon DEF Counted, Fresh
<1>l. sl[e].used /\ NotFreeing(fl, e)
  BY <1>h, <1>e, Zenon DEF Counted, Live
<1>0. \A f \in Slots : sl2[f].used = sl[f].used /\ sl2[f].use = sl[f].use
  BY Zenon DEF Same
<1>d. e \notin D
  <2>1. sl[e].use # 0
    BY <1>h, <1>e, <1>l, IdleUnheld, ZenonT(60) DEF Counted
  <2> QED BY <2>1, Zenon DEF Counted, Lists
<1>1. Exact(sl2, fl, R)
  BY <1>0, Zenon DEF Counted, Exact
<1>2. Live(sl2, fl, R)
  BY <1>0, Zenon DEF Counted, Live
<1>3. Fresh(sl2, R, M2)
  <2>1. \A u \in Eps : u # t /\ M[u] # 0 => M[u] # e
    BY <1>h, <1>e, ZenonT(60) DEF Counted, Fresh
  <2> QED BY <2>1 DEF Counted, Fresh, Same
<1>4. Lists(sl2, fl, L, D)
  BY <1>0, <1>e, <1>l, <1>d DEF Counted, Lists, Same, NotFreeing
<1> QED BY <1>1, <1>2, <1>3, <1>4, Zenon DEF Counted

\* a conflict: the entry goes to be freed, and with it the only reference
LEMMA ConflictKeeps ==
  ASSUME NEW sl, NEW fl, NEW fl2, NEW R, NEW R2, NEW M, NEW M2, NEW L, NEW D,
         Counted(sl, fl, R, M, L, D),
         NEW t \in Eps, NEW e, M[t] = e, e # 0,
         M2[t] = 0, Elsewhere(t, M, M2),
         R2[t] = R[t] \ {InHand(e)}, Elsewhere(t, R, R2),
         fl[t] = {}, fl2[t] = {e}, Elsewhere(t, fl, fl2)
  PROVE  Counted(sl, fl2, R2, M2, L, D)
<1> USE DEF Elsewhere
<1>k. CardFacts
  BY Zenon DEF Counted
<1>h. InHand(e).id = e
  BY Zenon DEF InHand, Hold
<1>e. e \in Slots /\ InHand(e) \in R[t] /\ ~sl[e].node
      /\ \A u \in Eps : \A r \in R[u] : r.id = e => u = t /\ r = InHand(e)
  BY Zenon DEF Counted, Fresh
<1>l. sl[e].used /\ NotFreeing(fl, e)
  BY <1>h, <1>e, ZenonT(60) DEF Counted, Live
<1>d. e \notin D
  <2>1. sl[e].use # 0
    BY <1>h, <1>e, <1>l, IdleUnheld DEF Counted
  <2> QED BY <2>1, Zenon DEF Counted, Lists
<1>n. \A f : f # e => (NotFreeing(fl2, f) <=> NotFreeing(fl, f))
  BY Zenon DEF NotFreeing
<1>o. ~NotFreeing(fl2, e)
  BY Zenon DEF NotFreeing
<1>1. Exact(sl, fl2, R2)
  <2>1. /\ <<t, InHand(e)>> \in HoldersIn(R, e)
        /\ HoldersIn(R2, e) = HoldersIn(R, e) \ {<<t, InHand(e)>>}
        /\ \A f : f # e => HoldersIn(R2, f) = HoldersIn(R, f)
    BY <1>h, <1>e, DropHolder
  <2>2. IsFiniteSet(HoldersIn(R, e))
    BY <1>e DEF Counted, Exact
  <2>3. IsFiniteSet(HoldersIn(R2, e))
    BY <1>k, <2>1, <2>2, OneLess, Zenon
  <2>4. ASSUME NEW f \in Slots
        PROVE  /\ IsFiniteSet(HoldersIn(R2, f))
               /\ (sl[f].used /\ NotFreeing(fl2, f)) => sl[f].use = Cardinality(HoldersIn(R2, f))
    <3>1. CASE f = e
      BY <3>1, <2>3, <1>o, Zenon
    <3>2. CASE f # e
      BY <3>2, <2>1, <1>n, ZenonT(60) DEF Counted, Exact
    <3> QED BY <3>1, <3>2, Zenon
  <2> QED BY <2>4, Zenon DEF Exact
<1>2. Live(sl, fl2, R2)
  <2>1. ASSUME NEW u \in Eps, NEW r \in R2[u] PROVE r.id # e /\ r \in R[u]
    BY <1>e, ZenonT(60)
  <2> QED BY <2>1, <1>n, ZenonT(60) DEF Counted, Live
<1>3. Fresh(sl, R2, M2)
  BY <1>h, <1>e DEF Counted, Fresh
<1>4. Lists(sl, fl2, L, D)
  BY <1>e, <1>l, <1>d DEF Counted, Lists, NotFreeing
<1> QED BY <1>1, <1>2, <1>3, <1>4, Zenon DEF Counted

\* ofi_mr_cache_flush: dead entries and idle ones leave their lists to be freed
LEMMA FlushKeeps ==
  ASSUME NEW sl, NEW sl2, NEW fl, NEW fl2, NEW R, NEW M, NEW L, NEW D, NEW S,
         Counted(sl, fl, R, M, L, D),
         NEW t \in Eps, S \subseteq L,
         Same(sl, sl2, S), \A e \in S : sl2[e].used = sl[e].used /\ sl2[e].use = sl[e].use /\ ~sl2[e].node,
         fl[t] = {}, fl2[t] = D \cup S, Elsewhere(t, fl, fl2)
  PROVE  Counted(sl2, fl2, R, M, L \ S, {})
<1> USE DEF Elsewhere
<1>s. S \subseteq Slots /\ D \subseteq Slots
  BY Zenon DEF Counted, Lists
<1>i. \A e \in D \cup S : sl[e].used /\ sl[e].use = 0 /\ NotFreeing(fl, e)
  BY Zenon DEF Counted, Lists, NotFreeing
<1>0. \A e \in Slots : sl2[e].used = sl[e].used /\ sl2[e].use = sl[e].use
  BY Zenon DEF Same
<1>u. \A u \in Eps : \A r \in R[u] : r.id \notin D \cup S
  BY <1>s, <1>i, IdleUnheld DEF Counted
<1>n. \A f : NotFreeing(fl2, f) <=> NotFreeing(fl, f) /\ f \notin D \cup S
  BY Zenon DEF NotFreeing
<1>1. Exact(sl2, fl2, R)
  BY <1>0, <1>n, Zenon DEF Counted, Exact
<1>2. Live(sl2, fl2, R)
  BY <1>0, <1>n, <1>u, Zenon DEF Counted, Live
<1>3. Fresh(sl2, R, M)
  BY DEF Counted, Fresh, Same
<1>4. Lists(sl2, fl2, L \ S, {})
  <2>1. \A u \in Eps : \A e \in fl2[u] : e \in Slots /\ sl2[e].used /\ ~sl2[e].node
    BY <1>s, <1>0, ZenonT(60) DEF Counted, Lists, Same
  <2>2. \A u, v \in Eps : u # v => fl2[u] \cap fl2[v] = {}
    BY <1>i DEF Counted, Lists, NotFreeing
  <2>3. \A e \in L \ S : e \in Slots /\ sl2[e].used /\ sl2[e].node /\ sl2[e].use = 0
    BY DEF Counted, Lists, Same
  <2>4. \A e \in Slots : sl2[e].node => sl2[e].used
    BY <1>0, Zenon DEF Counted, Lists, Same
  <2> QED BY <2>1, <2>2, <2>3, <2>4, Zenon DEF Lists
<1> QED BY <1>1, <1>2, <1>3, <1>4, Zenon DEF Counted

\* util_mr_free_entry
LEMMA FreeKeeps ==
  ASSUME NEW sl, NEW sl2, NEW fl, NEW fl2, NEW R, NEW M, NEW L, NEW D,
         Counted(sl, fl, R, M, L, D),
         NEW t \in Eps, NEW e \in fl[t],
         Same(sl, sl2, {e}), ~sl2[e].used, ~sl2[e].node,
         fl2[t] = fl[t] \ {e}, Elsewhere(t, fl, fl2)
  PROVE  Counted(sl2, fl2, R, M, L, D)
<1> USE DEF Elsewhere
<1>e. e \in Slots /\ sl[e].used /\ ~sl[e].node /\ ~NotFreeing(fl, e)
  BY Zenon DEF Counted, Lists, NotFreeing
<1>u. \A u \in Eps : \A r \in R[u] : r.id # e
  BY <1>e, Zenon DEF Counted, Live
<1>n. \A f : f # e => (NotFreeing(fl2, f) <=> NotFreeing(fl, f))
  BY Zenon DEF NotFreeing
<1>1. Exact(sl2, fl2, R)
  BY <1>n, Zenon DEF Counted, Exact, Same
<1>2. Live(sl2, fl2, R)
  BY <1>n, <1>u DEF Counted, Live, Same
<1>3. Fresh(sl2, R, M)
  BY Zenon DEF Counted, Fresh, Same
<1>4. Lists(sl2, fl2, L, D)
  <2>1. \A u \in Eps : e \notin fl2[u]
    BY Zenon DEF Counted, Lists
  <2>2. e \notin L /\ e \notin D
    BY <1>e DEF Counted, Lists
  <2>3. \A u \in Eps : \A f \in fl2[u] : f \in Slots /\ sl2[f].used /\ ~sl2[f].node
    BY <2>1, ZenonT(60) DEF Counted, Lists, Same
  <2>4. \A u, v \in Eps : u # v => fl2[u] \cap fl2[v] = {}
    BY DEF Counted, Lists
  <2>5. \A f \in D : f \in Slots /\ sl2[f].used /\ ~sl2[f].node /\ sl2[f].use = 0 /\ NotFreeing(fl2, f)
    BY <2>2, <1>n DEF Counted, Lists, Same
  <2>6. \A f \in L : f \in Slots /\ sl2[f].used /\ sl2[f].node /\ sl2[f].use = 0
    BY <2>2 DEF Counted, Lists, Same
  <2>7. \A f \in Slots : sl2[f].node => sl2[f].used
    BY DEF Counted, Lists, Same
  <2> QED BY <2>3, <2>4, <2>5, <2>6, <2>7 DEF Lists
<1> QED BY <1>1, <1>2, <1>3, <1>4 DEF Counted

\* util_mr_cache_create fails after it took an entry of the pool and gives it back
LEMMA PoolKeeps ==
  ASSUME NEW sl, NEW sl2, NEW fl, NEW R, NEW M, NEW L, NEW D,
         Counted(sl, fl, R, M, L, D),
         NEW e \in Slots, ~sl[e].used, Same(sl, sl2, {e}), ~sl2[e].used, ~sl2[e].node
  PROVE  Counted(sl2, fl, R, M, L, D)
<1>u. \A u \in Eps : \A r \in R[u] : r.id # e
  BY Zenon DEF Counted, Live
<1>1. Exact(sl2, fl, R)
  BY Zenon DEF Counted, Exact, Same
<1>2. Live(sl2, fl, R)
  BY <1>u, Zenon DEF Counted, Live, Same
<1>3. Fresh(sl2, R, M)
  BY DEF Counted, Fresh, Same
<1>4. Lists(sl2, fl, L, D)
  BY ZenonT(60) DEF Counted, Lists, Same, NotFreeing
<1> QED BY <1>1, <1>2, <1>3, <1>4, Zenon DEF Counted

\* ofi_mr_cache_delete: one reference less; the last one puts the entry on the lru_list
\* (then L2 has it) or on the way to the pool (then fl2[t] has it)
LEMMA DeleteKeeps ==
  ASSUME NEW sl, NEW sl2, NEW fl, NEW fl2, NEW R, NEW R2, NEW M, NEW L, NEW L2, NEW D,
         Counted(sl, fl, R, M, L, D),
         NEW t \in Eps, NEW h \in R[t], NEW e, h.id = e, M[t] = 0,
         R2[t] = R[t] \ {h}, Elsewhere(t, R, R2),
         Recounted(sl, sl2, e, sl[e].use - 1),
         sl[e].use = 1 /\ sl[e].node => L2 = L \cup {e},
         ~(sl[e].use = 1 /\ sl[e].node) => L2 = L,
         fl[t] = {}, Elsewhere(t, fl, fl2),
         sl[e].use = 1 /\ ~sl[e].node => fl2[t] = {e},
         ~(sl[e].use = 1 /\ ~sl[e].node) => fl2[t] = {}
  PROVE  Counted(sl2, fl2, R2, M, L2, D)
<1> USE DEF Elsewhere, Recounted
<1>k. CardFacts
  BY DEF Counted
<1>e. e \in Slots /\ sl[e].used /\ NotFreeing(fl, e)
  BY Zenon DEF Counted, Live
<1>c. /\ IsFiniteSet(HoldersIn(R2, e)) /\ Cardinality(HoldersIn(R2, e)) \in Nat
      /\ sl2[e].use = Cardinality(HoldersIn(R2, e))
      /\ \A f : f # e => HoldersIn(R2, f) = HoldersIn(R, f)
  <2>1. /\ <<t, h>> \in HoldersIn(R, e)
        /\ HoldersIn(R2, e) = HoldersIn(R, e) \ {<<t, h>>}
        /\ \A f : f # e => HoldersIn(R2, f) = HoldersIn(R, f)
    BY DropHolder
  <2>2. IsFiniteSet(HoldersIn(R, e)) /\ sl[e].use = Cardinality(HoldersIn(R, e))
    BY <1>e, Zenon DEF Counted, Exact
  <2>3. /\ IsFiniteSet(HoldersIn(R2, e)) /\ Cardinality(HoldersIn(R2, e)) \in Nat
        /\ Cardinality(HoldersIn(R, e)) = Cardinality(HoldersIn(R2, e)) + 1
    BY <1>k, <2>1, <2>2, OneLess, ZenonT(60)
  <2>4. sl[e].use - 1 = Cardinality(HoldersIn(R2, e))
    BY ONLY <2>2, <2>3, Numbers, Zenon
  <2>5. sl2[e].use = Cardinality(HoldersIn(R2, e))
    BY <2>4, Zenon
  <2> QED BY <2>1, <2>3, <2>5, Zenon
<1>d. e \notin D /\ e \notin L
  <2>1. sl[e].use # 0
    BY <1>e, IdleUnheld DEF Counted
  <2> QED BY <2>1, Zenon DEF Counted, Lists
<1>m. \A u \in Eps : M[u] # 0 => M[u] # e
  BY Zenon DEF Counted, Fresh
<1>n. \A f : f # e => (NotFreeing(fl2, f) <=> NotFreeing(fl, f))
  BY Zenon DEF NotFreeing
<1>1. Exact(sl2, fl2, R2)
  BY <1>c, <1>n DEF Counted, Exact, Same
<1>2. Live(sl2, fl2, R2)
  <2>1. ASSUME NEW u \in Eps, NEW r \in R2[u] PROVE r.id \in Slots /\ sl2[r.id].used /\ NotFreeing(fl2, r.id)
    <3>1. r \in R[u] /\ r.id \in Slots /\ sl[r.id].used /\ NotFreeing(fl, r.id)
      BY Zenon DEF Counted, Live
    <3>2. CASE r.id # e
      BY <3>1, <3>2, <1>n DEF Same
    <3>3. CASE r.id = e
      <4>1. <<u, r>> \in HoldersIn(R2, e)
        BY <3>3, HolderIs
      <4>2. HoldersIn(R2, e) # {}
        BY <4>1, Zenon
      <4>3. Cardinality(HoldersIn(R2, e)) # 0
        BY <4>2, <1>c, <1>k, Zenon DEF CardFacts
      <4>4. sl[e].use # 1 \/ sl[e].node
        BY <4>3, <1>c
      <4> QED BY <3>1, <3>3, <4>3, <4>4, <1>c, <1>e, ZenonT(60) DEF NotFreeing
    <3> QED BY <3>2, <3>3, Zenon
  <2> QED BY <2>1 DEF Live
<1>3. Fresh(sl2, R2, M)
  BY <1>m, ZenonT(60) DEF Counted, Fresh, Same
<1>4. Lists(sl2, fl2, L2, D)
  <2>1. \A u \in Eps : \A f \in fl2[u] : f \in Slots /\ sl2[f].used /\ ~sl2[f].node
    BY <1>e, ZenonT(60) DEF Counted, Lists, Same, NotFreeing
  <2>2. \A u, v \in Eps : u # v => fl2[u] \cap fl2[v] = {}
    BY <1>e DEF Counted, Lists, NotFreeing
  <2>3. \A f \in D : f \in Slots /\ sl2[f].used /\ ~sl2[f].node /\ sl2[f].use = 0 /\ NotFreeing(fl2, f)
    BY <1>d, <1>n DEF Counted, Lists, Same
  <2>4. \A f \in L2 : f \in Slots /\ sl2[f].used /\ sl2[f].node /\ sl2[f].use = 0
    <3>1. \A f \in L : f \in Slots /\ sl2[f].used /\ sl2[f].node /\ sl2[f].use = 0
      BY <1>d DEF Counted, Lists, Same
    <3>2. CASE sl[e].use = 1 /\ sl[e].node
      <4>1. sl2[e].use = 0
        BY <3>2, <1>e, Numbers, Zenon
      <4>2. sl2[e].used /\ sl2[e].node
        BY <3>2, <1>e, Zenon
      <4>3. L2 = L \cup {e}
        BY <3>2, ZenonT(60)
      <4> QED BY <3>1, <4>1, <4>2, <4>3, <1>e, Zenon
    <3>3. CASE ~(sl[e].use = 1 /\ sl[e].node)
      BY <3>1, <3>3, Zenon
    <3> QED BY <3>2, <3>3, Zenon
  <2>5. \A f \in Slots : sl2[f].node => sl2[f].used
    BY DEF Counted, Lists, Same
  <2> QED BY <2>1, <2>2, <2>3, <2>4, <2>5, Zenon DEF Lists
<1> QED BY <1>1, <1>2, <1>3, <1>4, Zenon DEF Counted

\* ofi_mr_cache_cleanup
LEMMA CleanupKeeps ==
  ASSUME NEW sl, NEW sl2, NEW fl, NEW R, NEW M, NEW L, NEW D,
         Counted(sl, fl, R, M, L, D),
         Same(sl, sl2, L \cup D), \A e \in L \cup D : ~sl2[e].used /\ ~sl2[e].node
  PROVE  Counted(sl2, fl, R, M, {}, {})
<1>i. \A e \in L \cup D : e \in Slots /\ sl[e].used /\ sl[e].use = 0 /\ NotFreeing(fl, e)
  BY Zenon DEF Counted, Lists, NotFreeing
<1>u. \A u \in Eps : \A r \in R[u] : r.id \notin L \cup D
  BY <1>i, IdleUnheld DEF Counted
<1>1. Exact(sl2, fl, R)
  BY Zenon DEF Counted, Exact, Same
<1>2. Live(sl2, fl, R)
  BY <1>u DEF Counted, Live, Same
<1>3. Fresh(sl2, R, M)
  BY Zenon DEF Counted, Fresh, Same
<1>4. Lists(sl2, fl, {}, {})
  <2>1. \A u \in Eps : \A f \in fl[u] : f \notin L \cup D
    BY <1>i, Zenon DEF NotFreeing
  <2> QED BY <2>1, Zenon DEF Counted, Lists, Same
<1> QED BY <1>1, <1>2, <1>3, <1>4, Zenon DEF Counted

-----------------------------------------------------------------------------
(* The state of the model *)

Intervals == Iovs \cup {NoIov}
Entries == [used : BOOLEAN, iov : Intervals, use : Int, node : BOOLEAN, cookie : Cookies]
HeldOK(H) ==
  /\ H = [t \in Eps |-> H[t]]
  /\ \A t \in Eps : \A h \in H[t] : h.op \in Nat /\ h.n \in Nat /\ h.id \in Nat

Shape ==
  /\ slot \in [Slots -> Entries]
  /\ lru \subseteq Nat /\ dead \subseteq Nat
  /\ pc \in [Eps -> Labels \cup {"none"}]
  /\ want \in [Eps -> Intervals]
  /\ ent \in [Eps -> Nat]
  /\ flist \in [Eps -> SUBSET Nat]
  /\ after \in [Eps -> {"none", "lookup", "search", "put"}]
  /\ msg \in [Eps -> Seq(Iovs)]
  /\ op \in [Eps -> Nat]
  /\ k \in [Eps -> Nat]
  /\ HeldOK(held)
  /\ pend \in [Eps -> SUBSET Nat]
  /\ rel \in [Eps -> SUBSET Nat]

-----------------------------------------------------------------------------
(* Types *)

\* Types at the start.
LEMMA ShapeInit == Init => Shape
<1> SUFFICES ASSUME Init PROVE Shape
  BY Zenon
<1>1. \A e \in Slots : FreeSlot(e) \in Entries
  BY MrAssumption DEF Entries, FreeSlot, Intervals, Slots, Cookies
<1>2. slot \in [Slots -> Entries]
  BY <1>1 DEF Init, CacheInit
<1>3. HeldOK(held)
  BY DEF Init, HeldOK
<1>4. msg \in [Eps -> Seq(Iovs)]
  BY DEF Init
<1> QED BY <1>2, <1>3, <1>4 DEF Init, CacheInit, Shape, Intervals, Labels

\* One field of one entry.
LEMMA UseSet ==
  ASSUME NEW sl \in [Slots -> Entries], NEW e, NEW n \in Int
  PROVE  LET sl2 == [sl EXCEPT ![e].use = n] IN
         /\ sl2 \in [Slots -> Entries] /\ Same(sl, sl2, {e})
         /\ e \in Slots => sl2[e].use = n /\ sl2[e].used = sl[e].used
                            /\ sl2[e].iov = sl[e].iov /\ sl2[e].node = sl[e].node
BY Zenon DEF Entries, Same

\* What updating one tree node leaves of the others.
LEMMA NodeSet ==
  ASSUME NEW sl \in [Slots -> Entries], NEW e
  PROVE  LET sl2 == [sl EXCEPT ![e].node = TRUE] IN
         /\ sl2 \in [Slots -> Entries] /\ Same(sl, sl2, {e})
         /\ e \in Slots => sl2[e].use = sl[e].use /\ sl2[e].used = sl[e].used
                            /\ sl2[e].iov = sl[e].iov /\ sl2[e].node
BY Zenon DEF Entries, Same

\* OutOfTree only clears node.
LEMMA OutOfTreeIs ==
  ASSUME Shape, NEW S
  PROVE  /\ OutOfTree(S) \in [Slots -> Entries]
         /\ Same(slot, OutOfTree(S), S)
         /\ \A e \in Slots : e \in S =>
              /\ OutOfTree(S)[e].used = slot[e].used /\ OutOfTree(S)[e].use = slot[e].use
              /\ OutOfTree(S)[e].iov = slot[e].iov /\ ~OutOfTree(S)[e].node
BY ZenonT(60) DEF OutOfTree, Shape, Entries, Same

\* Types through util_mr_cache_search and ofi_mr_cache_search.
LEMMA ShapeSearch ==
  ASSUME Shape, NEW t \in Eps, UNCHANGED sendVars,
         SearchFlush(t) \/ Hit(t) \/ Miss(t)
  PROVE  Shape'
<1>1. CASE SearchFlush(t)
  BY <1>1 DEF SearchFlush, Shape, Goto, cacheVars, sendVars, callVars, Labels
<1>2. CASE Hit(t)
  <2>1. PICK e \in Matches(want[t]) : HitEntry(t, e) /\ ent' = [ent EXCEPT ![t] = e]
    BY <1>2, Zenon DEF Hit
  <2>2. e \in Slots
    BY DEF Matches, Tree
  <2>3. slot' \in [Slots -> Entries]
    <3>1. slot' = [slot EXCEPT ![e].use = @ + 1]
      BY <2>1, Zenon DEF HitEntry
    <3>2. slot[e].use + 1 \in Int
      BY <2>2 DEF Shape, Entries
    <3> QED BY <3>1, <3>2, UseSet, Zenon DEF Shape
  <2>4. lru' \subseteq Nat
    BY <2>1, Zenon DEF HitEntry, LruRemove, Shape
  <2>5. ent' \in [Eps -> Nat]
    BY <2>1, <2>2 DEF Slots, Shape
  <2> QED BY <1>2, <2>3, <2>4, <2>5, Zenon DEF Hit, Shape, Goto, sendVars, callVars, Labels
<1>3. CASE Miss(t)
  <2>1. slot' \in [Slots -> Entries]
    BY <1>3, OutOfTreeIs, Zenon DEF Miss, UncacheEntries
  <2>2. lru' \subseteq Nat /\ dead' \subseteq Nat
    <3>1. Matches(want[t]) \subseteq Nat
      BY Numbers, Zenon DEF Matches, Tree
    <3>2. /\ lru' = lru \ {e \in Matches(want[t]) : slot[e].use = 0}
          /\ dead' = dead \cup {e \in Matches(want[t]) : slot[e].use = 0}
      BY <1>3, Zenon DEF Miss, UncacheEntries, LruRemove
    <3> QED BY <3>1, <3>2, Zenon DEF Shape
  <2> QED BY <1>3, <2>1, <2>2, Zenon DEF Miss, Shape, Goto, findVars, sendVars, callVars, Labels
<1> QED BY <1>1, <1>2, <1>3

\* Types through util_mr_cache_create up to its insertion.
LEMMA ShapeCreate ==
  ASSUME Shape, NEW t \in Eps, UNCHANGED sendVars,
         Create(t) \/ CreateNoEntry(t) \/ CreateRefused(t) \/ CreateAgain(t) \/ CreateNoNode(t)
  PROVE  Shape'
<1>i. \A e \in Slots : Issued(e) \subseteq Cookies
  BY Zenon DEF Issued, Unshared, Shape, Entries
<1>1. CASE Create(t)
  BY <1>1, <1>i DEF Create, NewEntry, Shape, Entries, Goto, Slots, sendVars, callVars, Labels
<1>2. CASE CreateNoEntry(t)
  BY <1>2, Zenon DEF CreateNoEntry, CreateError, Shape, Goto, sendVars, callVars, Labels
<1>3. CASE CreateRefused(t)
  BY <1>3, Zenon DEF CreateRefused, CreateError, Shape, Goto, sendVars, callVars, Labels
<1>4. CASE CreateAgain(t)
  BY <1>4, Zenon DEF CreateAgain, Shape, Goto, cacheVars, findVars, sendVars, callVars, Labels
<1>5. CASE CreateNoNode(t)
  <2>1. slot' \in [Slots -> Entries]
    BY <1>5, <1>i DEF CreateNoNode, FreeSlot, Shape, Entries, Intervals
  <2> QED BY <1>5, <2>1, Zenon
        DEF CreateNoNode, CreateError, Shape, Goto, sendVars, callVars, Labels
<1> QED BY <1>1, <1>2, <1>3, <1>4, <1>5

\* Types through the insertion and its conflict check.
LEMMA ShapeInsert ==
  ASSUME Shape, NEW t \in Eps, UNCHANGED sendVars,
         InsertConflict(t) \/ InsertFull(t) \/ Insert(t) \/ InsertUnwatched(t)
  PROVE  Shape'
<1>1. CASE InsertConflict(t)
  BY <1>1, ZenonT(60) DEF InsertConflict, Shape, Goto, cacheVars, sendVars, callVars, Labels
<1>2. CASE InsertFull(t) \/ InsertUnwatched(t)
  BY <1>2, Zenon DEF InsertFull, InsertUnwatched, Shape, Goto, findVars, sendVars, callVars, Labels
<1>3. CASE Insert(t)
  BY <1>3, ZenonT(60) DEF Insert, Shape, Entries, Goto, findVars, sendVars, callVars, Labels
<1> QED BY <1>1, <1>2, <1>3, Zenon

\* Types through the freeing of an entry, by any of its callers.
LEMMA ShapeFree ==
  ASSUME Shape, NEW t \in Eps, UNCHANGED sendVars, Flush(t) \/ FreeEntry(t)
  PROVE  Shape'
<1>1. CASE Flush(t)
  <2> DEFINE old == Evicted(lruToo[t])
  <2>1. slot' \in [Slots -> Entries] /\ lru' \subseteq Nat /\ dead' = {}
    BY <1>1, OutOfTreeIs, Zenon DEF Flush, LruRemove, Shape
  <2>2. old \subseteq Nat
    BY Zenon DEF Evicted, Shape
  <2>3. /\ flist' = [flist EXCEPT ![t] = dead \cup old]
        /\ after' = [after EXCEPT ![t] = IF dead \cup old = {} THEN "none" ELSE @]
        /\ pc' = [pc EXCEPT ![t] = IF dead \cup old = {} THEN FlushNext(t,
            dead \cup old) ELSE "free"]
    BY <1>1, Zenon DEF Flush, Goto
  <2>4. FlushNext(t, dead \cup old) \in Labels \cup {"none"}
    BY Zenon DEF FlushNext, Shape, Labels
  <2> HIDE DEF old
  <2>5. flist' \in [Eps -> SUBSET Nat]
    BY <2>2, <2>3, Zenon DEF Shape
  <2>6. after' \in [Eps -> {"none", "lookup", "search", "put"}]
    BY <2>3, Zenon DEF Shape
  <2>7. pc' \in [Eps -> Labels \cup {"none"}]
    BY <2>3, <2>4, Zenon DEF Shape, Labels
  <2>8. UNCHANGED <<want, ent>>
    BY <1>1 DEF Flush
  <2> QED BY <2>1, <2>5, <2>6, <2>7, <2>8 DEF Shape, sendVars, callVars
<1>2. CASE FreeEntry(t)
  <2>1. PICK e \in flist[t] :
          /\ slot' = [slot EXCEPT ![e] = FreeSlot(slot[e].cookie)]
          /\ flist' = [flist EXCEPT ![t] = @ \ {e}]
          /\ pc' = [pc EXCEPT ![t] = IF flist[t] = {e} THEN after[t] ELSE "free"]
          /\ after' = [after EXCEPT ![t] = IF flist[t] = {e} THEN "none" ELSE @]
          /\ ent' = [ent EXCEPT ![t] = 0]
    BY <1>2, Zenon DEF FreeEntry, Goto
  <2>2. slot' \in [Slots -> Entries]
    <3>1. CASE e \in Slots
      <4>1. FreeSlot(slot[e].cookie) \in Entries
        BY <3>1 DEF FreeSlot, Shape, Entries, Intervals
      <4> QED BY <2>1, <4>1, Zenon DEF Shape
    <3>2. CASE e \notin Slots
      BY <2>1, <3>2, Zenon DEF Shape
    <3> QED BY <3>1, <3>2
  <2>3. pc' \in [Eps -> Labels \cup {"none"}]
    BY <2>1 DEF Shape, Labels
  <2>4. after' \in [Eps -> {"none", "lookup", "search", "put"}]
    BY <2>1, Zenon DEF Shape
  <2> QED BY <1>2, <2>1, <2>2, <2>3, <2>4, Zenon DEF FreeEntry, Shape, sendVars, callVars
<1> QED BY <1>1, <1>2

\* Types through the start of rds_send_rndzv and the registration of its chunks.
LEMMA ShapeSend ==
  ASSUME Shape, NEW t \in Eps, SendRndzv(t) \/ CacheGet(t) \/ CacheGot(t) \/ RegInternal(t)
  PROVE  Shape'
<1>1. CASE SendRndzv(t)
  <2>1. op' \in [Eps -> Nat]
    BY <1>1, Numbers, Zenon DEF SendRndzv, Shape
  <2>2. msg' \in [Eps -> Seq(Iovs)]
    BY <1>1, SendAssumption, ZenonT(60) DEF SendRndzv, Shape
  <2> QED BY <1>1, <2>1, <2>2, Zenon DEF SendRndzv, Shape, Goto, cacheVars, findVars, Labels
<1>2. CASE CacheGet(t)
  <2>1. NextChunk(t) \in Iovs
    BY <1>2 DEF CacheGet, AtChunk, NextChunk, Shape
  <2>2. want' \in [Eps -> Intervals]
    BY <1>2, <2>1 DEF CacheGet, Shape, Intervals
  <2> QED BY <1>2, <2>2 DEF CacheGet, Shape, Goto, cacheVars, sendVars, callVars, Labels
<1>h. ASSUME NEW id \in Nat, Took(t, id)
      PROVE  k' \in [Eps -> Nat] /\ HeldOK(held')
  <2>1. k' \in [Eps -> Nat]
    BY <1>h DEF Took, Shape
  <2> DEFINE new == Hold(op[t], k[t] + 1, NextChunk(t), id)
  <2>2. new.op \in Nat /\ new.n \in Nat /\ new.id \in Nat
    BY DEF Hold, Shape
  <2>3. held' = [held EXCEPT ![t] = @ \cup {new}]
    BY <1>h DEF Took
  <2> HIDE DEF new
  <2>4. HeldOK(held')
    BY <2>2, <2>3, ZenonT(60) DEF HeldOK, Shape
  <2> QED BY <2>1, <2>4
<1>3. CASE CacheGot(t)
  <2>1. k' \in [Eps -> Nat] /\ HeldOK(held')
    BY <1>3, <1>h, Zenon DEF CacheGot, Shape
  <2> QED BY <1>3, <2>1, Zenon
        DEF CacheGot, SearchReturns, Took, Shape, Goto, cacheVars, Labels, Intervals
<1>4. CASE RegInternal(t)
  <2>1. k' \in [Eps -> Nat] /\ HeldOK(held')
    BY <1>4, <1>h DEF RegInternal, Cookies
  <2> QED BY <1>4, <2>1, Zenon DEF RegInternal, Took, Shape, cacheVars, findVars
<1> QED BY <1>1, <1>2, <1>3, <1>4, Zenon

\* Types through the RTS, the error paths of rds_send_rndzv and the FIN.
LEMMA ShapePost ==
  ASSUME Shape, NEW t \in Eps, RegFails(t) \/ PostRts(t) \/ PostFails(t) \/ Fin(t)
  PROVE  Shape'
<1>r. CallReturns(t) => msg' \in [Eps -> Seq(Iovs)] /\ op' \in [Eps -> Nat] /\ k' \in [Eps -> Nat]
  BY DEF CallReturns, Shape
<1>1. CASE RegFails(t)
  <2>1. SearchReturns(t) => want' \in [Eps -> Intervals] /\ ent' \in [Eps -> Nat] /\ flist' = flist
        /\ after' \in [Eps -> {"none", "lookup", "search", "put"}]
    BY DEF SearchReturns, Shape, Intervals
  <2>2. UNCHANGED findVars => want' \in [Eps -> Intervals] /\ ent' \in [Eps -> Nat] /\ flist' = flist
        /\ after' \in [Eps -> {"none", "lookup", "search", "put"}]
    BY DEF findVars, Shape
  <2>3. SearchReturns(t) \/ UNCHANGED findVars
    BY <1>1 DEF RegFails, findVars
  <2> QED BY <1>1, <1>r, <2>1, <2>2, <2>3, ZenonT(60)
        DEF RegFails, ErrUnreg, Shape, Goto, cacheVars, Labels
<1>2. CASE PostRts(t)
  BY <1>2, <1>r, ZenonT(60) DEF PostRts, Shape, Goto, cacheVars, findVars, Labels
<1>3. CASE PostFails(t)
  BY <1>3, <1>r, ZenonT(60) DEF PostFails, ErrUnreg, Shape, Goto, cacheVars, findVars, Labels
<1>4. CASE Fin(t)
  BY <1>4 DEF Fin, Shape, Goto, cacheVars, findVars, callVars, Labels
<1> QED BY <1>1, <1>2, <1>3, <1>4, Zenon

\* Types through the release of registrations, cached or not, and the close of a socket.
LEMMA ShapePut ==
  ASSUME Shape, NEW t \in Eps, Put(t) \/ PutDone(t) \/ CloseSocket(t)
  PROVE  Shape'
<1>1. CASE Put(t)
  <2>1. PICK h \in held[t] :
          /\ held' = [held EXCEPT ![t] = @ \ {h}]
          /\ IF cacheOn THEN CacheDelete(t, h.id, "put") ELSE UNCHANGED <<cacheVars, pc, findVars>>
    BY <1>1, Zenon DEF Put, ToPut
  <2>2. HeldOK(held')
    BY <2>1, Zenon DEF HeldOK, Shape
  <2>3. UNCHANGED <<msg, op, k, pend, rel>>
    BY <1>1 DEF Put, callVars
  <2>4. CASE ~cacheOn
    BY <2>1, <2>2, <2>3, <2>4, Zenon DEF Shape, cacheVars, findVars
  <2>5. CASE cacheOn
    <3> DEFINE gone == slot[h.id].use = 1 /\ ~slot[h.id].node
    <3>1. h.id \in Nat
      BY DEF Shape, HeldOK
    <3>d. CacheDelete(t, h.id, "put")
      BY <2>1, <2>5, Zenon
    <3>2. slot' \in [Slots -> Entries]
      <4>1. slot' = [slot EXCEPT ![h.id].use = slot[h.id].use - 1]
        BY <3>d DEF CacheDelete
      <4>2. CASE h.id \in Slots
        <5>1. slot[h.id].use - 1 \in Int
          BY <4>2 DEF Shape, Entries
        <5> QED BY <4>1, <5>1, UseSet, Zenon DEF Shape
      <4>3. CASE h.id \notin Slots
        BY <4>1, <4>3, ZenonT(60) DEF Shape
      <4> QED BY <4>2, <4>3, Zenon
    <3>3. lru' \subseteq Nat
      BY <3>1, <3>d DEF CacheDelete, LruInsertTail, Shape
    <3>4. /\ flist' = [flist EXCEPT ![t] = IF gone THEN {h.id} ELSE {}]
          /\ after' = [after EXCEPT ![t] = IF gone THEN "put" ELSE "none"]
          /\ pc' = [pc EXCEPT ![t] = IF gone THEN "free" ELSE "put"]
          /\ UNCHANGED <<dead, want, ent>>
      BY <3>d, Zenon DEF CacheDelete, Goto
    <3> HIDE DEF gone
    <3> QED BY <2>2, <2>3, <3>1, <3>2, <3>3, <3>4, Zenon DEF Shape, Labels
  <2> QED BY <2>4, <2>5
<1>2. CASE PutDone(t)
  BY <1>2, Zenon DEF PutDone, Shape, Goto, cacheVars, findVars, callVars, Labels
<1>3. CASE CloseSocket(t)
  BY <1>3, Zenon DEF CloseSocket, Shape, Goto, cacheVars, findVars, callVars, Labels
<1> QED BY <1>1, <1>2, <1>3

\* Types through notifications, endpoints and the domain.
LEMMA ShapeRest ==
  ASSUME Shape, (\E t \in Eps : EpEnable(t) \/ EpClose(t)) \/ DomainClose \/ UnmapPage
  PROVE  Shape'
<1>1. ASSUME NEW t \in Eps, EpEnable(t) PROVE Shape'
  BY <1>1, Zenon DEF EpEnable, Shape, Goto, cacheVars, findVars, sendVars, callVars, Labels
<1>2. ASSUME NEW t \in Eps, EpClose(t) PROVE Shape'
  BY <1>2, Zenon DEF EpClose, Shape, Goto, cacheVars, findVars, callVars, Labels
<1>3. CASE DomainClose
  <2>1. \A e \in Slots : FreeSlot(slot[e].cookie) \in Entries
    BY DEF FreeSlot, Shape, Entries, Intervals
  <2>2. slot' \in [Slots -> Entries]
    BY <1>3, <2>1, Zenon DEF DomainClose, Shape
  <2> QED BY <1>3, <2>2, Zenon DEF DomainClose, Shape, findVars, callVars
<1>4. CASE UnmapPage
  <2>1. PICK p \in Pages : Unmap(p)
    BY <1>4 DEF UnmapPage
  <2>2. slot' \in [Slots -> Entries]
    BY <2>1, OutOfTreeIs, Zenon DEF Unmap, UncacheEntries
  <2>3. Notified(p) \subseteq Nat
    BY DEF Notified, Tree, Slots
  <2>4. /\ lru' = lru \ {e \in Notified(p) : slot[e].use = 0}
        /\ dead' = dead \cup {e \in Notified(p) : slot[e].use = 0}
    BY <2>1 DEF Unmap, UncacheEntries, LruRemove
  <2>5. lru' \subseteq Nat /\ dead' \subseteq Nat
    BY <2>3, <2>4, ZenonT(60) DEF Shape
  <2> QED BY <1>4, <2>1, <2>2, <2>5, Zenon DEF UnmapPage, Unmap, Shape, findVars, sendVars, callVars
<1> QED BY <1>1, <1>2, <1>3, <1>4, Zenon

\* Every step keeps the types.
LEMMA ShapeStep == Shape /\ [Next]_vars => Shape'
<1> SUFFICES ASSUME Shape, [Next]_vars PROVE Shape'
  BY Zenon
<1>1. ASSUME NEW t \in Eps, CacheStep(t), UNCHANGED sendVars PROVE Shape'
  BY <1>1, ShapeSearch, ShapeCreate, ShapeInsert, ShapeFree, Zenon DEF CacheStep
<1>2. ASSUME NEW t \in Eps, Call(t) \/ Start(t) PROVE Shape'
  BY <1>1, <1>2, ShapeSend, ShapePost, ShapePut, ShapeRest, Zenon DEF Call, Start
<1>3. CASE UNCHANGED vars
  BY <1>3 DEF vars, mrVars, cacheVars, findVars, sendVars, callVars, Shape
<1> QED BY <1>2, <1>3, ShapeRest DEF Next

\* Types: entries, lists, counters and what sends hold are always what the code's structures can be.
THEOREM ShapeHolds == Spec => []Shape
BY ShapeInit, ShapeStep, PTL DEF Spec
-----------------------------------------------------------------------------
(* The tree *)

\* Nesting is symmetric: neither interval is shifted against the other.
LEMMA NestedBothWays ==
  ASSUME NEW i \in Intervals, NEW j \in Intervals, FindWithin(i, j) = 0
  PROVE  FindWithin(j, i) = 0
BY DEF Intervals, Iovs, Pages, NoIov, FindWithin, ShiftedLeft, ShiftedRight

\* The comparisons follow the order of the tree: an interval on one side of a node is on
\* the same side of what lies beyond that node.  So a descent that turns away from a subtree
\* loses no match in it, and rbtFind with util_mr_find_within or util_mr_find_overlap misses
\* nothing (util_mr_cache.c:56-95): Matches and Notified may be read off the whole tree.
THEOREM SearchMissesNothing ==
  ASSUME NEW i \in Intervals, NEW j \in Intervals, NEW m \in Intervals, FindWithin(j, m) = -1
  PROVE  /\ FindWithin(i, j) = -1 => FindWithin(i, m) = -1
         /\ FindWithin(i, m) = 1 => FindWithin(i, j) = 1
         /\ FindOverlap(i, j) = -1 => FindOverlap(i, m) = -1
         /\ FindOverlap(i, m) = 1 => FindOverlap(i, j) = 1
BY DEF Intervals, Iovs, Pages, NoIov, FindWithin, FindOverlap, ShiftedLeft, ShiftedRight

\* what is in the tree stays as it is, and nothing enters
NoneEnters(sl, sl2) == \A e \in Slots : sl2[e].node => sl[e].node /\ sl2[e].iov = sl[e].iov

\* No step of an endpoint but the insertion adds an entry to the tree.
LEMMA OnlyInsertEnters ==
  ASSUME Shape, NEW t \in Eps, Call(t) \/ Start(t), ~Insert(t)
  PROVE  NoneEnters(slot, slot')
<1>q. slot' = slot => NoneEnters(slot, slot')
  BY Zenon DEF NoneEnters
<1>o. \A S : slot' = OutOfTree(S) => NoneEnters(slot, slot')
  BY OutOfTreeIs DEF NoneEnters, Same
<1>1. CASE Hit(t)
  <2>1. PICK e \in Slots : slot' = [slot EXCEPT ![e].use = slot[e].use + 1]
    BY <1>1, Zenon DEF Hit, HitEntry, Matches, Tree
  <2>2. slot[e].use + 1 \in Int
    BY DEF Shape, Entries
  <2> QED BY <2>1, <2>2, UseSet DEF NoneEnters, Same, Shape
<1>2. CASE Create(t)
  <2>1. PICK e \in Slots : \E c \in Issued(e) : slot' = [slot EXCEPT ![e] = NewEntry(t, c)]
    BY <1>2, Zenon DEF Create
  <2>2. PICK c : slot' = [slot EXCEPT ![e] = NewEntry(t, c)]
    BY <2>1, Zenon
  <2> QED BY <2>2 DEF NoneEnters, NewEntry, Shape
<1>3. CASE CreateNoNode(t) \/ FreeEntry(t)
  <2>1. \E e, c : slot' = [slot EXCEPT ![e] = FreeSlot(c)]
    <3>1. CASE CreateNoNode(t)
      BY <3>1, Zenon DEF CreateNoNode
    <3>2. CASE FreeEntry(t)
      <4>1. PICK e \in flist[t] : slot' = [slot EXCEPT ![e] = FreeSlot(slot[e].cookie)]
        BY <3>2, Zenon DEF FreeEntry
      <4> QED BY <4>1, Zenon
    <3> QED BY <1>3, <3>1, <3>2
  <2> QED BY <2>1 DEF NoneEnters, FreeSlot, Shape
<1>4. CASE Put(t)
  <2>1. CASE UNCHANGED cacheVars
    BY <2>1, <1>q, Zenon DEF cacheVars
  <2>2. CASE \E h \in held[t] : CacheDelete(t, h.id, "put")
    <3>0. PICK h \in held[t] : CacheDelete(t, h.id, "put")
      BY <2>2, Zenon
    <3> DEFINE e == h.id
    <3>1. slot' = [slot EXCEPT ![e].use = slot[e].use - 1]
      BY <3>0 DEF CacheDelete
    <3> HIDE DEF e
    <3>2. CASE e \notin Slots
      BY <3>1, <3>2, <1>q DEF Shape
    <3>3. CASE e \in Slots
      <4>1. slot[e].use - 1 \in Int
        BY <3>3, Numbers, Zenon DEF Shape, Entries
      <4>2. slot \in [Slots -> Entries]
        BY Zenon DEF Shape
      <4> QED BY <3>1, <4>1, <4>2, UseSet DEF NoneEnters, Same
    <3> QED BY <3>2, <3>3, Zenon
  <2> QED BY <1>4, <2>1, <2>2, Zenon DEF Put, ToPut
<1>5. CASE Miss(t) \/ Flush(t)
  BY <1>5, <1>o, ZenonT(60) DEF Miss, UncacheEntries, Flush
<1>6. CASE SearchFlush(t) \/ CreateNoEntry(t) \/ CreateRefused(t) \/ CreateAgain(t)
           \/ InsertConflict(t) \/ InsertFull(t) \/ InsertUnwatched(t)
  <2>1. CASE SearchFlush(t) \/ CreateNoEntry(t) \/ CreateRefused(t) \/ CreateAgain(t)
    BY <2>1, <1>q, Zenon DEF SearchFlush, CreateNoEntry, CreateRefused, CreateAgain, cacheVars
  <2>2. CASE InsertConflict(t) \/ InsertFull(t) \/ InsertUnwatched(t)
    BY <2>2, <1>q, Zenon DEF InsertConflict, InsertFull, InsertUnwatched, cacheVars
  <2> QED BY <1>6, <2>1, <2>2
<1>7. CASE CacheGet(t) \/ CacheGot(t) \/ RegInternal(t) \/ RegFails(t) \/ PostRts(t)
           \/ PostFails(t) \/ PutDone(t) \/ CloseSocket(t) \/ Start(t)
  BY <1>7, <1>q, ZenonT(60)
      DEF CacheGet, CacheGot, RegInternal, RegFails, ErrUnreg, PostRts, PostFails, PutDone,
                    CloseSocket, Start, SendRndzv, Fin, EpEnable, EpClose, cacheVars
<1> QED BY <1>1, <1>2, <1>3, <1>4, <1>5, <1>6, <1>7, ZenonT(60) DEF Call, CacheStep

\* Every step keeps the entries of the tree free of nesting.
LEMMA TreeStep == Shape /\ TreeOrdered /\ [Next]_vars => TreeOrdered'
<1> SUFFICES ASSUME Shape, TreeOrdered, [Next]_vars PROVE TreeOrdered'
  OBVIOUS
<1>n. NoneEnters(slot, slot') => TreeOrdered'
  BY Zenon DEF NoneEnters, TreeOrdered, Tree
<1>1. ASSUME NEW t \in Eps, Insert(t) PROVE TreeOrdered'
  <2> DEFINE e == ent[t]
  <2>1. slot' = [slot EXCEPT ![e].node = TRUE]
    BY <1>1 DEF Insert
  <2>2. Matches(slot[e].iov) = {}
    BY <1>1 DEF Insert, Conflict
  <2> HIDE DEF e
  <2>3. /\ Same(slot, slot', {e})
        /\ e \in Slots => slot'[e].iov = slot[e].iov
    BY <2>1, NodeSet, ZenonT(60) DEF Shape
  <2>4. \A f \in Slots : slot'[f].iov = slot[f].iov /\ (slot'[f].node => f = e \/ slot[f].node)
    BY <2>3 DEF Same
  <2>5. \A f \in Tree : FindWithin(slot[e].iov, slot[f].iov) # 0
    BY <2>2, Zenon DEF Matches
  <2> SUFFICES ASSUME NEW f \in Slots, NEW g \in Slots, slot'[f].node, slot'[g].node,
                      FindWithin(slot[f].iov, slot[g].iov) = 0, f # g
               PROVE  FALSE
    BY <2>4, Zenon DEF TreeOrdered, Tree
  <2>6. FindWithin(slot[g].iov, slot[f].iov) = 0
    <3>1. slot[f].iov \in Intervals /\ slot[g].iov \in Intervals
      BY DEF Shape, Entries
    <3> QED BY <3>1, NestedBothWays, Zenon
  <2> QED BY <2>4, <2>5, <2>6 DEF TreeOrdered, Tree
<1>2. CASE DomainClose
  <2>1. ASSUME NEW e \in Slots, slot'[e].node PROVE slot'[e] = slot[e]
    BY <1>2, <2>1, Zenon DEF DomainClose, FreeSlot
  <2> QED BY <1>n, <2>1, Zenon DEF NoneEnters
<1>3. CASE UnmapPage
  <2>1. \E S : slot' = OutOfTree(S)
    BY <1>3, Zenon DEF UnmapPage, Unmap, UncacheEntries
  <2> QED BY <1>n, <2>1, OutOfTreeIs, ZenonT(60) DEF NoneEnters, Same
<1>4. CASE UNCHANGED vars
  BY <1>4, <1>n DEF NoneEnters, vars, mrVars, cacheVars
<1> QED BY <1>1, <1>2, <1>3, <1>4, <1>n, OnlyInsertEnters, Zenon DEF Next

\* No two entries of the tree are nested, whichever endpoints register overlapping buffers at
\* once: ofi_mr_cache_search purges what is nested in a new region before it registers, and
\* util_mr_cache_create looks again before it inserts (util_mr_cache.c:264-272, 318-322).
THEOREM TreeStaysOrdered == Spec => []TreeOrdered
<1>1. Init => TreeOrdered
  BY DEF Init, CacheInit, TreeOrdered, Tree, FreeSlot
<1> QED BY <1>1, TreeStep, ShapeHolds, PTL DEF Spec

Resting == {"off", "idle", "put", "closed"}
Inside == {"chunk", "search", "lookup", "create", "insert", "ret", "flush", "fail"}

\* no send is being posted
Away(t) ==
  /\ pc[t] \in Resting \/ (pc[t] = "free" /\ after[t] = "put")
  /\ op[t] = 0 /\ k[t] = 0
  /\ pc[t] \in {"off", "idle", "closed"} => rel[t] = {}

\* rds_send_rndzv runs: operation op[t] has the registrations 1 .. k[t]
Sending(t) ==
  /\ pc[t] \in Inside \/ (pc[t] = "free" /\ after[t] # "put")
  /\ op[t] # 0 /\ op[t] \notin pend[t] /\ rel[t] = {}
  /\ \A h \in held[t] : h.op = op[t] => h.n <= k[t]

Phase(t) ==
  /\ Away(t) \/ Sending(t)
  /\ flist[t] # {} => pc[t] = "free"
  /\ pc[t] = "flush" => after[t] \in {"lookup", "search"}
  /\ pc[t] = "free" => after[t] \in {"lookup", "search", "put"}
  /\ pc[t] = "insert" => ent[t] # 0
  /\ \A h \in held[t] : h.op # 0 /\ h.op \in pend[t] \cup rel[t] \cup {op[t]}

Phases == \A t \in Eps : Phase(t)

\* what every endpoint refers to, and the entry it is about to insert
Refs == [t \in Eps |-> References(t)]
Making == [t \in Eps |-> IF pc[t] = "insert" THEN ent[t] ELSE 0]

CountInv == Counted(slot, flist, Refs, Making, lru, dead)

Inv == Shape /\ (cacheOn => Phases /\ CountInv)

-----------------------------------------------------------------------------
(* A step of one endpoint *)

OnlyAt(t) ==
  \A u \in Eps : u # t =>
    /\ pc'[u] = pc[u] /\ after'[u] = after[u] /\ ent'[u] = ent[u] /\ flist'[u] = flist[u]
    /\ op'[u] = op[u] /\ k'[u] = k[u] /\ held'[u] = held[u] /\ pend'[u] = pend[u] /\ rel'[u] = rel[u]

\* What one endpoint does to its own phase leaves the others' as they were.
LEMMA Others ==
  ASSUME Phases, NEW t \in Eps, OnlyAt(t)
  PROVE  /\ Phase(t)' => Phases'
         /\ Elsewhere(t, Refs, Refs') /\ Elsewhere(t, Making, Making') /\ Elsewhere(t, flist,
             flist')
<1>1. ASSUME NEW u \in Eps, u # t PROVE Phase(u)' /\ Refs'[u] = Refs[u] /\ Making'[u] = Making[u]
  <2>1. Phase(u)
    BY Zenon DEF Phases
  <2>2. Phase(u)'
    BY <1>1, <2>1, Zenon DEF OnlyAt, Phase, Away, Sending
  <2>3. Refs'[u] = Refs[u] /\ Making'[u] = Making[u]
    BY <1>1, Zenon DEF OnlyAt, Refs, References, Making
  <2> QED BY <2>2, <2>3
<1>2. Phase(t)' => Phases'
  BY <1>1, Zenon DEF Phases
<1> QED BY <1>1, <1>2, Zenon DEF OnlyAt, Elsewhere

\* A step that touches neither entries nor holders keeps the counts.
LEMMA Quiet ==
  ASSUME CountInv, NEW t \in Eps, UNCHANGED <<slot, flist, lru, dead>>,
         Elsewhere(t, Refs, Refs'), Elsewhere(t, Making, Making'),
         Refs'[t] = Refs[t], Making'[t] = Making[t]
  PROVE  CountInv'
<1>1. Refs' = Refs
  BY Zenon DEF Refs, Elsewhere
<1>2. Making' = Making
  BY Zenon DEF Making, Elsewhere
<1> QED BY <1>1, <1>2 DEF CountInv

\* References of an endpoint by where its call is.
LEMMA RefsAre ==
  ASSUME NEW t \in Eps
  PROVE  /\ pc[t] \notin {"insert", "ret"} => Refs[t] = held[t]
         /\ pc[t] \in {"insert", "ret"} => Refs[t] = held[t] \cup {InHand(ent[t])}
         /\ pc[t] = "insert" => Making[t] = ent[t]
         /\ pc[t] # "insert" => Making[t] = 0
BY Zenon DEF Refs, References, Making, InHand

\* The reference of a search is none of a registered chunk.
LEMMA InHandApart ==
  ASSUME NEW t \in Eps, Phase(t), NEW e
  PROVE  InHand(e) \notin held[t]
BY Zenon DEF Phase, InHand, Hold

\* EXCEPT on use_cnt is Recounted.
LEMMA RecountedIs ==
  ASSUME Shape, NEW e \in Slots
  PROVE  /\ slot' = [slot EXCEPT ![e].use = @ + 1] => Recounted(slot, slot', e, slot[e].use + 1)
         /\ slot' = [slot EXCEPT ![e].use = @ - 1] => Recounted(slot, slot', e, slot[e].use - 1)
<1>1. slot \in [Slots -> Entries] /\ slot[e].use + 1 \in Int /\ slot[e].use - 1 \in Int
  BY DEF Shape, Entries
<1>2. ASSUME NEW n \in Int, slot' = [slot EXCEPT ![e].use = n] PROVE Recounted(slot, slot', e, n)
  <2>1. slot'[e].node = slot[e].node /\ slot'[e].used = slot[e].used
    BY <1>1, <1>2, Zenon DEF Entries
  <2>2. slot'[e].use = n
    BY <1>1, <1>2, Zenon DEF Entries
  <2>3. Same(slot, slot', {e})
    BY <1>1, <1>2 DEF Same
  <2> QED BY <2>1, <2>2, <2>3, Zenon DEF Recounted
<1> QED BY <1>1, <1>2, Zenon

-----------------------------------------------------------------------------
(* The steps of the cache *)

\* Counts through a search: a hit takes one reference for the chunk it is for.
LEMMA CountSearch ==
  ASSUME Shape, Phases, CountInv, NEW t \in Eps, UNCHANGED sendVars,
         SearchFlush(t) \/ Hit(t) \/ Miss(t)
  PROVE  Phases' /\ CountInv'
<1>p. Phase(t)
  BY Zenon DEF Phases
<1>a. pc[t] \in {"search", "lookup"} /\ flist[t] = {} /\ Sending(t)
  BY <1>p, Zenon DEF SearchFlush, Hit, Miss, AtLookup, Phase, Away, Resting
<1>s. UNCHANGED <<op, k, held, pend, rel>>
  BY Zenon DEF sendVars, callVars
<1>r. Refs[t] = held[t] /\ Making[t] = 0
  BY <1>a, RefsAre, Zenon
<1>1. CASE SearchFlush(t)
  <2>1. pc' = [pc EXCEPT ![t] = "flush"] /\ after' = [after EXCEPT ![t] = "lookup"]
        /\ UNCHANGED <<slot, lru, dead, flist, ent>>
    BY <1>1, Zenon DEF SearchFlush, Goto, cacheVars
  <2>2. OnlyAt(t) /\ pc'[t] = "flush" /\ after'[t] = "lookup"
    BY <2>1, <1>s, Zenon DEF OnlyAt, Shape
  <2>3. Phase(t)'
    BY <2>1, <2>2, <1>s, <1>a, <1>p, Zenon DEF Phase, Sending, Inside
  <2>4. Refs'[t] = Refs[t] /\ Making'[t] = Making[t]
    BY <2>2, <1>s, <1>r, Zenon DEF Refs, References, Making
  <2> QED BY <2>1, <2>2, <2>3, <2>4, Others, Quiet, ZenonT(60)
<1>2. CASE Hit(t)
  <2>1. PICK e \in Tree : HitEntry(t, e) /\ ent' = [ent EXCEPT ![t] = e]
    BY <1>2, ZenonT(60) DEF Hit, Matches
  <2>2. e \in Slots /\ slot[e].node
    BY Zenon DEF Tree
  <2>3. pc' = [pc EXCEPT ![t] = "ret"] /\ UNCHANGED <<dead, flist, after>>
    BY <1>2, Zenon DEF Hit, Goto
  <2>4. OnlyAt(t) /\ pc'[t] = "ret" /\ ent'[t] = e
    BY <2>1, <2>3, <1>s, Zenon DEF OnlyAt, Shape
  <2>5. Phase(t)'
    BY <2>3, <2>4, <1>s, <1>a, <1>p, Zenon DEF Phase, Sending, Inside
  <2>6. Refs'[t] = Refs[t] \cup {InHand(e)} /\ Making'[t] = 0
    BY <2>4, <1>s, <1>r, Zenon DEF Refs, References, Making, InHand
  <2>7. Recounted(slot, slot', e, slot[e].use + 1)
    BY <2>1, <2>2, RecountedIs, ZenonT(60) DEF HitEntry
  <2>8. lru' \subseteq lru /\ e \notin lru'
    <3>1. e \in lru => slot[e].use = 0
      BY Zenon DEF CountInv, Counted, Lists
    <3> QED BY <3>1, <2>1, Zenon DEF HitEntry, LruRemove
  <2>9. Making' = Making
    BY <2>4, <2>6, <1>r, Others, Zenon DEF Making, Elsewhere
  <2>10. Counted(slot', flist, Refs', Making, lru', dead)
    <3>1. InHand(e) \notin Refs[t]
      BY <1>p, <1>r, InHandApart, Zenon
    <3>2. Elsewhere(t, Refs, Refs')
      BY <2>4, Others, Zenon
    <3> QED BY <3>1, <3>2, <1>r, <2>2, <2>6, <2>7, <2>8, HitKeeps, ZenonT(60) DEF CountInv
  <2> QED BY <2>3, <2>4, <2>5, <2>9, <2>10, Others, ZenonT(60) DEF CountInv
<1>3. CASE Miss(t)
  <2> DEFINE S == Matches(want[t])
  <2>1. pc' = [pc EXCEPT ![t] = "create"] /\ UNCHANGED <<flist, after, ent>>
    BY <1>3, Zenon DEF Miss, Goto, findVars
  <2>2. OnlyAt(t) /\ pc'[t] = "create"
    BY <2>1, <1>s, Zenon DEF OnlyAt, Shape
  <2>3. Phase(t)'
    BY <2>1, <2>2, <1>s, <1>a, <1>p, Zenon DEF Phase, Sending, Inside
  <2>4. Refs'[t] = Refs[t] /\ Making'[t] = Making[t]
    BY <2>2, <1>s, <1>r, Zenon DEF Refs, References, Making
  <2>5. Refs' = Refs /\ Making' = Making
    BY <2>2, <2>4, Others, ZenonT(60) DEF Refs, Making, Elsewhere
  <2>6. S \subseteq Slots /\ \A e \in S : slot[e].node
    BY Zenon DEF Matches, Tree
  <2>7. /\ slot' = OutOfTree(S)
        /\ lru' = lru \ {e \in S : slot[e].use = 0} /\ dead' = dead \cup {e \in S : slot[e].use = 0}
    BY <1>3, Zenon DEF Miss, UncacheEntries, LruRemove
  <2> HIDE DEF S
  <2>8. Counted(slot', flist, Refs, Making, lru', dead')
    BY <2>6, <2>7, OutOfTreeIs, PurgeKeeps DEF CountInv
  <2> QED BY <2>1, <2>2, <2>3, <2>5, <2>8, Others, ZenonT(60) DEF CountInv
<1> QED BY <1>1, <1>2, <1>3, Zenon

\* Counts through the making of an entry: its first reference belongs to its creator.
LEMMA CountCreate ==
  ASSUME Shape, Phases, CountInv, NEW t \in Eps, UNCHANGED sendVars,
         Create(t) \/ CreateNoEntry(t) \/ CreateRefused(t) \/ CreateAgain(t) \/ CreateNoNode(t)
  PROVE  Phases' /\ CountInv'
<1>p. Phase(t)
  BY Zenon DEF Phases
<1>a. pc[t] = "create" /\ flist[t] = {} /\ Sending(t)
  BY <1>p, Zenon DEF Create, CreateNoEntry, CreateRefused, CreateAgain, CreateNoNode, Phase, Away, Resting
<1>s. UNCHANGED <<op, k, held, pend, rel>>
  BY Zenon DEF sendVars, callVars
<1>r. Refs[t] = held[t] /\ Making[t] = 0
  BY <1>a, RefsAre, Zenon
<1>1. CASE Create(t)
  <2>1. PICK e \in Slots :
          /\ PoolHead(e) /\ ent' = [ent EXCEPT ![t] = e]
          /\ \E c \in Issued(e) : slot' = [slot EXCEPT ![e] = NewEntry(t, c)]
    BY <1>1, ZenonT(60) DEF Create
  <2>2. pc' = [pc EXCEPT ![t] = "insert"] /\ UNCHANGED <<lru, dead, flist, after>>
    BY <1>1, Zenon DEF Create, Goto
  <2>3. OnlyAt(t) /\ pc'[t] = "insert" /\ ent'[t] = e /\ e # 0
    <3>1. e # 0
      BY <2>1 DEF Slots
    <3> QED BY <3>1, <2>1, <2>2, <1>s, Zenon DEF OnlyAt, Shape
  <2>4. Phase(t)'
    BY <2>2, <2>3, <1>s, <1>a, <1>p, ZenonT(60) DEF Phase, Sending, Inside
  <2>5. Refs'[t] = Refs[t] \cup {InHand(e)} /\ Making'[t] = e
    BY <2>3, <1>s, <1>r, Zenon DEF Refs, References, Making, InHand
  <2>6. ~slot[e].used
    BY <2>1, Zenon DEF PoolHead, FreeSlots
  <2>7. Same(slot, slot', {e}) /\ slot'[e].used /\ ~slot'[e].node /\ slot'[e].use = 1
    BY <2>1 DEF Same, NewEntry, Shape
  <2>8. Elsewhere(t, Refs, Refs') /\ Elsewhere(t, Making, Making')
    BY <2>3, Others, Zenon
  <2>9. Counted(slot', flist, Refs', Making', lru, dead)
    BY <2>3, <2>5, <2>6, <2>7, <2>8, <1>r, CreateKeeps, ZenonT(60) DEF CountInv
  <2> QED BY <2>2, <2>3, <2>4, <2>9, Others, Zenon DEF CountInv
<1>2. CASE CreateNoEntry(t) \/ CreateRefused(t) \/ CreateNoNode(t)
  <2>1. /\ pc' = [pc EXCEPT ![t] = "flush"] /\ after' = [after EXCEPT ![t] = "search"]
        /\ UNCHANGED <<lru, dead, flist, ent>>
    BY <1>2, Zenon DEF CreateNoEntry, CreateRefused, CreateNoNode, CreateError, Goto
  <2>2. OnlyAt(t) /\ pc'[t] = "flush" /\ after'[t] = "search"
    BY <2>1, <1>s, Zenon DEF OnlyAt, Shape
  <2>3. Phase(t)'
    BY <2>1, <2>2, <1>s, <1>a, <1>p, ZenonT(60) DEF Phase, Sending, Inside
  <2>4. Refs'[t] = Refs[t] /\ Making'[t] = Making[t]
    BY <2>2, <1>s, <1>r, Zenon DEF Refs, References, Making
  <2>5. CASE slot' = slot
    BY <2>1, <2>2, <2>3, <2>4, <2>5, Others, Quiet, ZenonT(60)
  <2>6. CASE CreateNoNode(t)
    <3>1. PICK e \in Slots : PoolHead(e) /\ \E c \in Issued(e) : slot' = [slot EXCEPT ![e] = FreeSlot(c)]
      BY <2>6, ZenonT(60) DEF CreateNoNode
    <3>2. ~slot[e].used /\ Same(slot, slot', {e}) /\ ~slot'[e].used /\ ~slot'[e].node
      <4>1. slot \in [Slots -> Entries] /\ ~slot[e].used
        BY <3>1, Zenon DEF Shape, PoolHead, FreeSlots
      <4> QED BY <3>1, <4>1 DEF Same, FreeSlot
    <3>3. Refs' = Refs /\ Making' = Making
      BY <2>2, <2>4, Others, ZenonT(60) DEF Refs, Making, Elsewhere
    <3>4. Counted(slot', flist, Refs, Making, lru, dead)
      BY <3>2, PoolKeeps, Zenon DEF CountInv
    <3> QED BY <2>1, <2>2, <2>3, <3>3, <3>4, Others, ZenonT(60) DEF CountInv
  <2> QED BY <1>2, <2>5, <2>6, Zenon DEF CreateNoEntry, CreateRefused
<1>3. CASE CreateAgain(t)
  <2>1. pc' = [pc EXCEPT ![t] = "search"] /\ UNCHANGED <<slot, lru, dead, flist, ent, after>>
    BY <1>3, Zenon DEF CreateAgain, Goto, cacheVars, findVars
  <2>2. OnlyAt(t) /\ pc'[t] = "search"
    BY <2>1, <1>s, Zenon DEF OnlyAt, Shape
  <2>3. Phase(t)'
    BY <2>1, <2>2, <1>s, <1>a, <1>p, ZenonT(60) DEF Phase, Sending, Inside
  <2>4. Refs'[t] = Refs[t] /\ Making'[t] = Making[t]
    BY <2>2, <1>s, <1>r, Zenon DEF Refs, References, Making
  <2> QED BY <2>1, <2>2, <2>3, <2>4, Others, Quiet, ZenonT(60)
<1> QED BY <1>1, <1>2, <1>3, Zenon

\* Counts through insertion, conflict included.
LEMMA CountInsert ==
  ASSUME Shape, Phases, CountInv, NEW t \in Eps, UNCHANGED sendVars,
         InsertConflict(t) \/ InsertFull(t) \/ Insert(t) \/ InsertUnwatched(t)
  PROVE  Phases' /\ CountInv'
<1> DEFINE e == ent[t]
<1>p. Phase(t)
  BY Zenon DEF Phases
<1>a. pc[t] = "insert" /\ flist[t] = {} /\ Sending(t) /\ e # 0
  BY <1>p, Zenon DEF InsertConflict, InsertFull, Insert, InsertUnwatched, Phase, Away, Resting
<1>s. UNCHANGED <<op, k, held, pend, rel>>
  BY Zenon DEF sendVars, callVars
<1>r. Refs[t] = held[t] \cup {InHand(e)} /\ Making[t] = e
  BY <1>a, RefsAre, Zenon
<1>1. CASE InsertConflict(t)
  <2>1. /\ pc' = [pc EXCEPT ![t] = "free"] /\ after' = [after EXCEPT ![t] = "search"]
        /\ flist' = [flist EXCEPT ![t] = {e}] /\ UNCHANGED <<slot, lru, dead, ent>>
    BY <1>1, Zenon DEF InsertConflict, Goto, cacheVars
  <2>2. OnlyAt(t) /\ pc'[t] = "free" /\ after'[t] = "search" /\ flist'[t] = {e}
    BY <2>1, <1>s, Zenon DEF OnlyAt, Shape
  <2>3. Phase(t)'
    BY <2>1, <2>2, <1>s, <1>a, <1>p, ZenonT(60) DEF Phase, Sending
  <2>4. Refs'[t] = Refs[t] \ {InHand(e)} /\ Making'[t] = 0
    <3>1. InHand(e) \notin held[t]
      BY <1>p, InHandApart, Zenon
    <3>2. Refs'[t] = held[t] /\ Making'[t] = 0
      BY <2>2, <1>s, Zenon DEF Refs, References, Making
    <3> QED BY <3>1, <3>2, <1>r, Zenon
  <2>5. Elsewhere(t, Refs, Refs') /\ Elsewhere(t, Making, Making') /\ Elsewhere(t, flist, flist')
    BY <2>2, Others, Zenon
  <2> HIDE DEF e
  <2>6. Counted(slot, flist', Refs', Making', lru, dead)
    BY <1>a, <1>r, <2>2, <2>4, <2>5, ConflictKeeps, ZenonT(60) DEF CountInv
  <2> QED BY <2>1, <2>2, <2>3, <2>6, Others, Zenon DEF CountInv
<1>2. CASE InsertFull(t) \/ Insert(t) \/ InsertUnwatched(t)
  <2>1. pc' = [pc EXCEPT ![t] = "ret"] /\ UNCHANGED <<lru, dead, flist, after, ent>>
    BY <1>2, Zenon DEF InsertFull, Insert, InsertUnwatched, Goto, findVars
  <2>2. OnlyAt(t) /\ pc'[t] = "ret"
    BY <2>1, <1>s, Zenon DEF OnlyAt, Shape
  <2>3. Phase(t)'
    BY <2>1, <2>2, <1>s, <1>a, <1>p, ZenonT(60) DEF Phase, Sending, Inside
  <2>4. Refs'[t] = Refs[t] /\ Making'[t] = 0
    BY <2>1, <2>2, <1>s, <1>r, ZenonT(60) DEF Refs, References, Making, InHand
  <2>5. Refs' = Refs /\ Elsewhere(t, Making, Making')
    BY <2>2, <2>4, Others, ZenonT(60) DEF Refs, Elsewhere
  <2>6. e \in Slots
    BY <1>a, <1>r, Zenon DEF CountInv, Counted, Fresh
  <2>7. slot' = slot \/ slot' = [slot EXCEPT ![e].node = TRUE]
    BY <1>2, Zenon DEF InsertFull, Insert, InsertUnwatched
  <2> HIDE DEF e
  <2>8. Same(slot, slot', {e}) /\ slot'[e].used = slot[e].used /\ slot'[e].use = slot[e].use
    <3>1. CASE slot' = slot
      BY <3>1, Zenon DEF Same
    <3>2. CASE slot' = [slot EXCEPT ![e].node = TRUE]
      BY <3>2, <2>6, NodeSet, Zenon DEF Shape
    <3> QED BY <2>7, <3>1, <3>2, Zenon
  <2>9. Counted(slot', flist, Refs, Making', lru, dead)
    BY <1>a, <1>r, <2>4, <2>5, <2>8, InsertKeeps, ZenonT(60) DEF CountInv
  <2> QED BY <2>1, <2>2, <2>3, <2>5, <2>9, Others, ZenonT(60) DEF CountInv
<1> QED BY <1>1, <1>2, Zenon

\* Counts through eviction and the freeing of entries: nobody refers to them.
LEMMA CountFree ==
  ASSUME Shape, Phases, CountInv, NEW t \in Eps, UNCHANGED sendVars, Flush(t) \/ FreeEntry(t)
  PROVE  Phases' /\ CountInv'
<1>p. Phase(t)
  BY Zenon DEF Phases
<1>s. UNCHANGED <<op, k, held, pend, rel>>
  BY Zenon DEF sendVars, callVars
<1>1. CASE Flush(t)
  <2> DEFINE old == Evicted(lruToo[t])
             taken == dead \cup old
  <2>a. pc[t] = "flush" /\ flist[t] = {} /\ Sending(t) /\ after[t] \in {"lookup", "search"}
    BY <1>1, <1>p, ZenonT(60) DEF Flush, Phase, Away, Resting
  <2>r. Refs[t] = held[t] /\ Making[t] = 0
    BY <2>a, RefsAre, Zenon
  <2>1. /\ slot' = OutOfTree(old) /\ lru' = lru \ old /\ dead' = {}
        /\ flist' = [flist EXCEPT ![t] = taken]
        /\ after' = [after EXCEPT ![t] = IF taken = {} THEN "none" ELSE @]
        /\ pc' = [pc EXCEPT ![t] = IF taken = {} THEN FlushNext(t, taken) ELSE "free"]
        /\ ent' = ent
    BY <1>1, Zenon DEF Flush, LruRemove, Goto
  <2>2. old \subseteq lru
    BY Zenon DEF Evicted
  <2>3. FlushNext(t, taken) \in {"lookup", "search", "fail"}
    BY <2>a, Zenon DEF FlushNext
  <2> HIDE DEF old, taken
  <2>4. /\ OnlyAt(t) /\ flist'[t] = taken /\ after'[t] = IF taken = {} THEN "none" ELSE after[t]
        /\ pc'[t] = IF taken = {} THEN FlushNext(t, taken) ELSE "free"
    BY <2>1, <1>s, Zenon DEF OnlyAt, Shape
  <2>5. Phase(t)'
    <3>1. CASE taken = {}
      <4>1. pc'[t] \in {"lookup", "search", "fail"} /\ flist'[t] = {}
        BY <3>1, <2>3, <2>4, Zenon
      <4> QED BY <4>1, <1>s, <2>a, <1>p, ZenonT(60) DEF Phase, Sending, Inside
    <3>2. CASE taken # {}
      <4>1. pc'[t] = "free" /\ after'[t] = after[t]
        BY <3>2, <2>4, Zenon
      <4> QED BY <4>1, <1>s, <2>a, <1>p, ZenonT(60) DEF Phase, Sending
    <3> QED BY <3>1, <3>2, Zenon
  <2>6. Refs'[t] = Refs[t] /\ Making'[t] = Making[t]
    <3>1. pc'[t] \notin {"insert", "ret"}
      BY <2>3, <2>4, Zenon
    <3> QED BY <3>1, <1>s, <2>r, Zenon DEF Refs, References, Making
  <2>7. Refs' = Refs /\ Making' = Making /\ Elsewhere(t, flist, flist')
    BY <2>4, <2>6, Others, ZenonT(60) DEF Refs, Making, Elsewhere
  <2>8. /\ Same(slot, slot', old)
        /\ \A e \in old : slot'[e].used = slot[e].used /\ slot'[e].use = slot[e].use /\ ~slot'[e].node
    <3>1. old \subseteq Slots
      BY <2>2, ZenonT(60) DEF CountInv, Counted, Lists
    <3> QED BY <3>1, <2>1, OutOfTreeIs, Zenon
  <2>9. Counted(slot', flist', Refs, Making, lru \ old, {})
    <3>1. flist'[t] = dead \cup old
      BY <2>4, Zenon DEF taken
    <3> QED BY <3>1, <2>a, <2>2, <2>7, <2>8, FlushKeeps, ZenonT(60) DEF CountInv
  <2> QED BY <2>1, <2>4, <2>5, <2>7, <2>9, Others, ZenonT(60) DEF CountInv
<1>2. CASE FreeEntry(t)
  <2>1. PICK e \in flist[t] :
          /\ slot' = [slot EXCEPT ![e] = FreeSlot(slot[e].cookie)]
          /\ flist' = [flist EXCEPT ![t] = @ \ {e}]
          /\ pc' = [pc EXCEPT ![t] = IF flist[t] = {e} THEN after[t] ELSE "free"]
          /\ after' = [after EXCEPT ![t] = IF flist[t] = {e} THEN "none" ELSE @]
          /\ ent' = [ent EXCEPT ![t] = 0]
    BY <1>2, ZenonT(60) DEF FreeEntry, Goto
  <2>a. pc[t] = "free" /\ after[t] \in {"lookup", "search", "put"}
    BY <1>2, <1>p, Zenon DEF FreeEntry, Phase
  <2>r. Refs[t] = held[t] /\ Making[t] = 0
    BY <2>a, RefsAre, Zenon
  <2>2. /\ OnlyAt(t) /\ flist'[t] = flist[t] \ {e}
        /\ pc'[t] = IF flist[t] = {e} THEN after[t] ELSE "free"
        /\ after'[t] = IF flist[t] = {e} THEN "none" ELSE after[t]
    BY <2>1, <1>s, Zenon DEF OnlyAt, Shape
  <2>3. Phase(t)'
    <3>1. CASE flist[t] = {e}
      <4>1. pc'[t] = after[t] /\ flist'[t] = {} /\ pc'[t] \in {"lookup", "search", "put"}
        BY <3>1, <2>2, <2>a, Zenon
      <4> QED BY <4>1, <1>s, <2>a, <1>p, ZenonT(60) DEF Phase, Sending, Away, Inside, Resting
    <3>2. CASE flist[t] # {e}
      <4>1. pc'[t] = "free" /\ after'[t] = after[t]
        BY <3>2, <2>2, Zenon
      <4> QED BY <4>1, <1>s, <2>a, <1>p, ZenonT(60) DEF Phase, Sending, Away, Inside, Resting
    <3> QED BY <3>1, <3>2, Zenon
  <2>4. Refs'[t] = Refs[t] /\ Making'[t] = Making[t]
    <3>1. pc'[t] \notin {"insert", "ret"}
      BY <2>a, <2>2, Zenon
    <3> QED BY <3>1, <1>s, <2>r, ZenonT(60) DEF Refs, References, Making
  <2>5. Refs' = Refs /\ Making' = Making /\ Elsewhere(t, flist, flist')
    BY <2>2, <2>4, Others, ZenonT(60) DEF Refs, Making, Elsewhere
  <2>6. Same(slot, slot', {e}) /\ ~slot'[e].used /\ ~slot'[e].node
    <3>1. e \in Slots /\ slot \in [Slots -> Entries]
      BY Zenon DEF CountInv, Counted, Lists, Shape
    <3> QED BY <3>1, <2>1, Zenon DEF Same, FreeSlot
  <2>7. UNCHANGED <<lru, dead>>
    BY <1>2, Zenon DEF FreeEntry
  <2>8. Counted(slot', flist', Refs, Making, lru, dead)
    BY <2>2, <2>5, <2>6, FreeKeeps, ZenonT(60) DEF CountInv
  <2> QED BY <2>2, <2>3, <2>5, <2>7, <2>8, Others, ZenonT(60) DEF CountInv
<1> QED BY <1>1, <1>2, Zenon

(* The steps of sends and of endpoints *)

\* Counts through the start of a send and the registration of its chunks.
LEMMA CountSend ==
  ASSUME Shape, cacheOn, Phases, CountInv, NEW t \in Eps, SendRndzv(t) \/ CacheGet(t) \/ CacheGot(t)
  PROVE  Phases' /\ CountInv'
<1>p. Phase(t)
  BY Zenon DEF Phases
<1>1. CASE SendRndzv(t)
  <2>1. PICK o \in (1 .. MaxInflight) \ pend[t] : op' = [op EXCEPT ![t] = o]
    BY <1>1, ZenonT(60) DEF SendRndzv
  <2>2. /\ pc' = [pc EXCEPT ![t] = "chunk"]
        /\ UNCHANGED <<slot, lru, dead, flist, after, ent, k, held, pend, rel>>
    BY <1>1, Zenon DEF SendRndzv, Goto, cacheVars, findVars
  <2>a. pc[t] = "idle" /\ Away(t)
    BY <1>1, <1>p, Zenon DEF SendRndzv, Phase, Sending, Inside
  <2>3. OnlyAt(t) /\ pc'[t] = "chunk" /\ op'[t] = o /\ o # 0
    <3>1. o # 0
      BY <2>1, Numbers, Zenon
    <3> QED BY <3>1, <2>1, <2>2, Zenon DEF OnlyAt, Shape
  <2>4. \A h \in held[t] : h.op # 0 /\ h.op \in pend[t] /\ h.op # o
    BY <2>a, <1>p, Zenon DEF Phase, Away
  <2>5. Phase(t)'
    BY <2>2, <2>3, <2>4, <2>a, <1>p, ZenonT(60) DEF Phase, Sending, Away, Inside
  <2>6. Refs'[t] = Refs[t] /\ Making'[t] = Making[t]
    BY <2>2, <2>3, <2>a, Zenon DEF Refs, References, Making
  <2> QED BY <2>2, <2>3, <2>5, <2>6, Others, Quiet, Zenon
<1>2. CASE CacheGet(t)
  <2>1. /\ pc' = [pc EXCEPT ![t] = "search"]
        /\ UNCHANGED <<slot, lru, dead, flist, after, ent, op, k, held, pend, rel>>
    BY <1>2, Zenon DEF CacheGet, Goto, cacheVars, sendVars, callVars
  <2>a. pc[t] = "chunk" /\ Sending(t)
    BY <1>2, <1>p, Zenon DEF CacheGet, AtChunk, Phase, Away, Resting
  <2>2. OnlyAt(t) /\ pc'[t] = "search"
    BY <2>1, Zenon DEF OnlyAt, Shape
  <2>3. Phase(t)'
    BY <2>1, <2>2, <2>a, <1>p, Zenon DEF Phase, Sending, Inside
  <2>4. Refs'[t] = Refs[t] /\ Making'[t] = Making[t]
    BY <2>1, <2>2, <2>a, Zenon DEF Refs, References, Making
  <2> QED BY <2>1, <2>2, <2>3, <2>4, Others, Quiet, ZenonT(60)
<1>3. CASE CacheGot(t)
  <2> DEFINE e == ent[t]
             h == Hold(op[t], k[t] + 1, NextChunk(t), e)
  <2>1. /\ pc' = [pc EXCEPT ![t] = "chunk"] /\ held' = [held EXCEPT ![t] = @ \cup {h}]
        /\ k' = [k EXCEPT ![t] = @ + 1] /\ ent' = [ent EXCEPT ![t] = 0]
        /\ after' = [after EXCEPT ![t] = "none"]
        /\ UNCHANGED <<slot, lru, dead, flist, op, pend, rel>>
    BY <1>3, Zenon DEF CacheGot, Took, SearchReturns, Goto, cacheVars
  <2>h. h.op = op[t] /\ h.n = k[t] + 1 /\ h.id = e
    BY Zenon DEF Hold
  <2>a. pc[t] = "ret" /\ Sending(t) /\ flist[t] = {}
    BY <1>3, <1>p, Zenon DEF CacheGot, Phase, Away, Resting
  <2>r. Refs[t] = held[t] \cup {InHand(e)} /\ Making[t] = 0
    BY <2>a, RefsAre, Zenon
  <2>n. InHand(e) \notin held[t] /\ h \notin held[t] /\ h # InHand(e)
    <3>1. InHand(e) \notin held[t]
      BY <1>p, InHandApart, Zenon
    <3>2. h \notin held[t]
      <4>1. h \in held[t] => k[t] + 1 <= k[t]
        BY <2>a, <2>h, Zenon DEF Sending
      <4>2. k[t] \in Nat
        BY Zenon DEF Shape
      <4> HIDE DEF h
      <4> QED BY <4>1, <4>2, Numbers, Zenon
    <3>3. InHand(e).op = 0
      BY Zenon DEF InHand, Hold
    <3> QED BY <3>1, <3>2, <3>3, <2>h, <2>a, Zenon DEF Sending
  <2> HIDE DEF e, h
  <2>2. OnlyAt(t) /\ pc'[t] = "chunk" /\ held'[t] = held[t] \cup {h} /\ k'[t] = k[t] + 1
    BY <2>1, Zenon DEF OnlyAt, Shape, HeldOK
  <2>3. Phase(t)'
    <3>1. Sending(t)'
      <4>1. k[t] \in Nat /\ \A g \in held[t] : g.n \in Nat
        BY Zenon DEF Shape, HeldOK
      <4>2. \A n \in Nat : n <= k[t] => n <= k[t] + 1
        BY <4>1
      <4>3. k[t] + 1 <= k[t] + 1
        BY <4>1
      <4>4. \A g \in held'[t] : g.op = op[t] => g.n <= k'[t]
        BY <2>2, <2>h, <2>a, <4>1, <4>2, <4>3, ZenonT(60) DEF Sending
      <4> QED BY <2>1, <2>2, <2>a, <4>4, ZenonT(60) DEF Sending, Inside
    <3>2. \A g \in held'[t] : g.op # 0 /\ g.op \in pend[t] \cup rel[t] \cup {op[t]}
      BY <2>2, <2>h, <2>a, <1>p, ZenonT(60) DEF Phase, Sending
    <3> QED BY <3>1, <3>2, <2>1, <2>2, <2>a, ZenonT(60) DEF Phase
  <2>4. Refs'[t] = (Refs[t] \ {InHand(e)}) \cup {h} /\ Making'[t] = 0
    <3>1. Refs'[t] = held[t] \cup {h} /\ Making'[t] = 0
      BY <2>2, Zenon DEF Refs, References, Making
    <3> QED BY <3>1, <2>r, <2>n, Zenon
  <2>5. Elsewhere(t, Refs, Refs')
    BY <2>2, Others, Zenon
  <2>6. Making' = Making
    BY <2>2, <2>4, <2>r, Others, ZenonT(60) DEF Making, Elsewhere
  <2>7. Counted(slot, flist, Refs', Making, lru, dead)
    <3>1. InHand(e) \in Refs[t] /\ h \notin Refs[t]
      BY <2>r, <2>n, Zenon
    <3> QED BY <3>1, <2>h, <2>r, <2>4, <2>5, GotKeeps, ZenonT(60) DEF CountInv
  <2> QED BY <2>1, <2>2, <2>3, <2>6, <2>7, Others, ZenonT(60) DEF CountInv
<1> QED BY <1>1, <1>2, <1>3, Zenon

\* Counts through the RTS, the error paths of a send and the FIN.
LEMMA CountPost ==
  ASSUME Shape, cacheOn, Phases, CountInv, NEW t \in Eps,
         RegFails(t) \/ PostRts(t) \/ PostFails(t) \/ Fin(t)
  PROVE  Phases' /\ CountInv'
<1>p. Phase(t)
  BY Zenon DEF Phases
<1>1. CASE RegFails(t) \/ PostFails(t)
  <2>1. /\ rel' = [rel EXCEPT ![t] = {op[t]}]
        /\ op' = [op EXCEPT ![t] = 0] /\ k' = [k EXCEPT ![t] = 0] /\ pc' = [pc EXCEPT ![t] = "put"]
        /\ UNCHANGED <<slot, lru, dead, held, pend>>
    BY <1>1, ZenonT(60) DEF RegFails, PostFails, ErrUnreg, CallReturns, Goto, cacheVars
  <2>2. flist' = flist /\ \A u \in Eps : u # t => after'[u] = after[u] /\ ent'[u] = ent[u]
    <3>1. SearchReturns(t) \/ UNCHANGED findVars
      BY <1>1, Zenon DEF RegFails, PostFails, findVars
    <3> QED BY <3>1, Zenon DEF SearchReturns, findVars, Shape
  <2>a. pc[t] \in {"chunk", "fail"} /\ Sending(t) /\ flist[t] = {}
    BY <1>1, <1>p, Zenon DEF RegFails, PostFails, AtChunk, AllGot, Phase, Away, Resting
  <2>3. OnlyAt(t) /\ pc'[t] = "put" /\ rel'[t] = {op[t]} /\ op'[t] = 0 /\ k'[t] = 0
    BY <2>1, <2>2, ZenonT(60) DEF OnlyAt, Shape
  <2>4. Phase(t)'
    BY <2>1, <2>2, <2>3, <2>a, <1>p, Zenon DEF Phase, Sending, Away, Resting
  <2>5. Refs'[t] = Refs[t] /\ Making'[t] = Making[t]
    BY <2>1, <2>3, <2>a, Zenon DEF Refs, References, Making
  <2> QED BY <2>1, <2>2, <2>3, <2>4, <2>5, Others, Quiet, ZenonT(60)
<1>2. CASE PostRts(t)
  <2>1. /\ pend' = [pend EXCEPT ![t] = @ \cup {op[t]}]
        /\ op' = [op EXCEPT ![t] = 0] /\ k' = [k EXCEPT ![t] = 0] /\ pc' = [pc EXCEPT ![t] = "idle"]
        /\ UNCHANGED <<slot, lru, dead, flist, after, ent, held, rel>>
    BY <1>2, Zenon DEF PostRts, CallReturns, Goto, cacheVars, findVars
  <2>a. pc[t] = "chunk" /\ Sending(t)
    BY <1>2, <1>p, Zenon DEF PostRts, AllGot, Phase, Away, Resting
  <2>2. OnlyAt(t) /\ pc'[t] = "idle" /\ pend'[t] = pend[t] \cup {op[t]} /\ op'[t] = 0 /\ k'[t] = 0
    BY <2>1, Zenon DEF OnlyAt, Shape
  <2>3. Phase(t)'
    <3>1. UNCHANGED <<flist, after, ent, held, rel>>
      BY <2>1, Zenon
    <3> QED BY <3>1, <2>2, <2>a, <1>p, ZenonT(60) DEF Phase, Sending, Away, Resting
  <2>4. Refs'[t] = Refs[t] /\ Making'[t] = Making[t]
    <3>1. UNCHANGED <<ent, held>>
      BY <2>1, Zenon
    <3> QED BY <3>1, <2>2, <2>a, Zenon DEF Refs, References, Making
  <2> QED BY <2>1, <2>2, <2>3, <2>4, Others, Quiet, Zenon
<1>3. CASE Fin(t)
  <2>1. PICK o \in pend[t] : rel' = [rel EXCEPT ![t] = {o}] /\ pend' = [pend EXCEPT ![t] = @ \ {o}]
    BY <1>3, ZenonT(60) DEF Fin
  <2>2. /\ pc' = [pc EXCEPT ![t] = "put"]
        /\ UNCHANGED <<slot, lru, dead, flist, after, ent, op, k, held>>
    BY <1>3, Zenon DEF Fin, Goto, cacheVars, findVars, callVars
  <2>a. pc[t] = "idle" /\ Away(t)
    BY <1>3, <1>p, Zenon DEF Fin, Phase, Sending, Inside
  <2>3. OnlyAt(t) /\ pc'[t] = "put" /\ rel'[t] = {o} /\ pend'[t] = pend[t] \ {o}
    BY <2>1, <2>2, Zenon DEF OnlyAt, Shape
  <2>4. Phase(t)'
    BY <2>2, <2>3, <2>a, <1>p, Zenon DEF Phase, Away, Resting
  <2>5. Refs'[t] = Refs[t] /\ Making'[t] = Making[t]
    BY <2>2, <2>3, <2>a, Zenon DEF Refs, References, Making
  <2> QED BY <2>2, <2>3, <2>4, <2>5, Others, Quiet, ZenonT(60)
<1> QED BY <1>1, <1>2, <1>3, Zenon

\* Counts through ofi_mr_cache_delete: one reference and one holder fewer.
LEMMA CountPut ==
  ASSUME Shape, cacheOn, Phases, CountInv, NEW t \in Eps, Put(t)
  PROVE  Phases' /\ CountInv'
<1>p. Phase(t)
  BY Zenon DEF Phases
<1>1. PICK h \in held[t] : held' = [held EXCEPT ![t] = @ \ {h}] /\ CacheDelete(t, h.id, "put")
  BY ZenonT(60) DEF Put, ToPut
<1> DEFINE e == h.id
           gone == slot[e].use = 1 /\ ~slot[e].node
<1>2. /\ slot' = [slot EXCEPT ![e].use = @ - 1]
      /\ slot[e].use = 1 /\ slot[e].node => lru' = lru \cup {e}
      /\ ~(slot[e].use = 1 /\ slot[e].node) => lru' = lru
      /\ flist' = [flist EXCEPT ![t] = IF gone THEN {e} ELSE {}]
      /\ after' = [after EXCEPT ![t] = IF gone THEN "put" ELSE "none"]
      /\ pc' = [pc EXCEPT ![t] = IF gone THEN "free" ELSE "put"]
      /\ UNCHANGED <<dead, ent>>
  BY <1>1, Zenon DEF CacheDelete, LruInsertTail, Goto
<1>3. UNCHANGED <<op, k, pend, rel>>
  BY Zenon DEF Put, callVars
<1>a. pc[t] = "put" /\ Away(t) /\ flist[t] = {}
  BY <1>p, Zenon DEF Put, Phase, Sending, Inside
<1>r. Refs[t] = held[t] /\ Making[t] = 0
  BY <1>a, RefsAre, Zenon
<1>e. e \in Slots
  BY <1>r, Zenon DEF CountInv, Counted, Live
<1>u. Recounted(slot, slot', e, slot[e].use - 1)
  BY <1>2, <1>e, RecountedIs, ZenonT(60)
<1> HIDE DEF gone
<1>4. /\ OnlyAt(t) /\ held'[t] = held[t] \ {h} /\ flist'[t] = IF gone THEN {e} ELSE {}
      /\ after'[t] = IF gone THEN "put" ELSE "none"
      /\ pc'[t] = IF gone THEN "free" ELSE "put"
  BY <1>1, <1>2, <1>3, Zenon DEF OnlyAt, Shape, HeldOK
<1>5. Phase(t)'
  <2>1. CASE gone
    BY <2>1, <1>3, <1>4, <1>a, <1>p, ZenonT(60) DEF Phase, Away, Resting
  <2>2. CASE ~gone
    BY <2>2, <1>3, <1>4, <1>a, <1>p, Zenon DEF Phase, Away, Resting
  <2> QED BY <2>1, <2>2, Zenon
<1>6. Refs'[t] = Refs[t] \ {h} /\ Making'[t] = 0
  <2>1. pc'[t] \notin {"insert", "ret"}
    BY <1>4, Zenon
  <2> QED BY <2>1, <1>4, <1>r, Zenon DEF Refs, References, Making
<1>7. Making' = Making
  BY <1>4, <1>6, <1>r, Others, ZenonT(60) DEF Making, Elsewhere
<1>8. Elsewhere(t, Refs, Refs') /\ Elsewhere(t, flist, flist')
  BY <1>4, Others, Zenon
<1>9. h \in Refs[t]
  BY <1>r, Zenon
<1>10. /\ slot[e].use = 1 /\ ~slot[e].node => flist'[t] = {e}
       /\ ~(slot[e].use = 1 /\ ~slot[e].node) => flist'[t] = {}
  BY <1>4, Zenon DEF gone
<1>11. /\ slot[e].use = 1 /\ slot[e].node => lru' = lru \cup {e}
       /\ ~(slot[e].use = 1 /\ slot[e].node) => lru' = lru
  BY <1>2, Zenon
<1>12. h.id = e
  BY Zenon
<1>13. Counted(slot', flist', Refs', Making, lru', dead)
  <2> HIDE DEF e
  <2> QED BY <1>a, <1>r, <1>u, <1>6, <1>8, <1>9, <1>10, <1>11, <1>12, DeleteKeeps, ZenonT(60)
        DEF CountInv
<1> QED BY <1>2, <1>4, <1>5, <1>7, <1>13, Others, ZenonT(60) DEF CountInv

\* Counts through the end of a release and the opening and closing of endpoints.
LEMMA CountEp ==
  ASSUME Shape, cacheOn, Phases, CountInv, NEW t \in Eps,
         PutDone(t) \/ CloseSocket(t) \/ EpEnable(t) \/ EpClose(t)
  PROVE  Phases' /\ CountInv'
<1>p. Phase(t)
  BY DEF Phases
<1>1. CASE PutDone(t) \/ CloseSocket(t)
  <2>1. /\ rel' = [rel EXCEPT ![t] = {}]
        /\ pc' = [pc EXCEPT ![t] = "idle"] \/ pc' = [pc EXCEPT ![t] = "closed"]
        /\ UNCHANGED <<slot, lru, dead, flist, after, ent, op, k, held, pend>>
    BY <1>1, Zenon DEF PutDone, CloseSocket, Goto, cacheVars, findVars, callVars
  <2>a. pc[t] = "put" /\ Away(t) /\ \A h \in held[t] : h.op \notin rel[t]
    BY <1>1, <1>p, ZenonT(60) DEF PutDone, CloseSocket, ToPut, Phase, Sending, Inside
  <2>2. OnlyAt(t) /\ pc'[t] \in {"idle", "closed"} /\ rel'[t] = {}
    BY <2>1, Zenon DEF OnlyAt, Shape
  <2>3. Phase(t)'
    BY <2>1, <2>2, <2>a, <1>p, Zenon DEF Phase, Away, Resting
  <2>4. Refs'[t] = Refs[t] /\ Making'[t] = Making[t]
    BY <2>1, <2>2, <2>a, ZenonT(60) DEF Refs, References, Making
  <2> QED BY <2>1, <2>2, <2>3, <2>4, Others, Quiet, Zenon
<1>2. CASE EpEnable(t)
  <2>1. /\ pc' = [pc EXCEPT ![t] = "idle"]
        /\ UNCHANGED <<slot, lru, dead, flist, after, ent, op, k, held, pend, rel>>
    BY <1>2, Zenon DEF EpEnable, Goto, cacheVars, findVars, sendVars, callVars
  <2>a. pc[t] = "off" /\ Away(t)
    BY <1>2, <1>p, ZenonT(60) DEF EpEnable, Phase, Sending, Inside
  <2>2. OnlyAt(t) /\ pc'[t] = "idle"
    BY <2>1, Zenon DEF OnlyAt, Shape
  <2>3. Phase(t)'
    BY <2>1, <2>2, <2>a, <1>p, ZenonT(60) DEF Phase, Away, Resting
  <2>4. Refs'[t] = Refs[t] /\ Making'[t] = Making[t]
    BY <2>1, <2>2, <2>a, ZenonT(60) DEF Refs, References, Making
  <2> QED BY <2>1, <2>2, <2>3, <2>4, Others, Quiet, ZenonT(60)
<1>3. CASE EpClose(t)
  <2>1. /\ pc' = [pc EXCEPT ![t] = "put"] /\ rel' = [rel EXCEPT ![t] = pend[t]]
        /\ pend' = [pend EXCEPT ![t] = {}]
        /\ UNCHANGED <<slot, lru, dead, flist, after, ent, op, k, held>>
    BY <1>3, Zenon DEF EpClose, Goto, cacheVars, findVars, callVars
  <2>a. pc[t] = "idle" /\ Away(t)
    BY <1>3, <1>p, Zenon DEF EpClose, Phase, Sending, Inside
  <2>2. OnlyAt(t) /\ pc'[t] = "put" /\ rel'[t] = pend[t] /\ pend'[t] = {}
    BY <2>1, Zenon DEF OnlyAt, Shape
  <2>3. Phase(t)'
    BY <2>1, <2>2, <2>a, <1>p, ZenonT(60) DEF Phase, Away, Resting
  <2>4. Refs'[t] = Refs[t] /\ Making'[t] = Making[t]
    BY <2>1, <2>2, <2>a, Zenon DEF Refs, References, Making
  <2> QED BY <2>1, <2>2, <2>3, <2>4, Others, Quiet, Zenon
<1> QED BY <1>1, <1>2, <1>3

\* DomainClose, UnmapPage and stuttering leave the endpoints alone.
LEMMA CountRest ==
  ASSUME Shape, cacheOn, Phases, CountInv, DomainClose \/ UnmapPage \/ UNCHANGED vars
  PROVE  Phases' /\ CountInv'
<1>1. UNCHANGED <<pc, after, ent, flist, op, k, held, pend, rel>>
  BY ZenonT(60) DEF DomainClose, UnmapPage, Unmap, vars, mrVars, findVars, sendVars, callVars
<1>2. Phases'
  BY <1>1, ZenonT(60) DEF Phases, Phase, Away, Sending
<1>3. Refs' = Refs /\ Making' = Making
  BY <1>1, Zenon DEF Refs, References, Making
<1>4. CASE DomainClose
  <2>1. slot' = [e \in Slots |-> IF e \in lru \cup dead THEN FreeSlot(slot[e].cookie) ELSE slot[e]]
        /\ lru' = {} /\ dead' = {}
    BY <1>4, Zenon DEF DomainClose
  <2>2. lru \cup dead \subseteq Slots
    BY Zenon DEF CountInv, Counted, Lists
  <2>3. Same(slot, slot', lru \cup dead) /\ \A e \in lru \cup dead : ~slot'[e].used /\ ~slot'[e].node
    BY <2>1, <2>2, Zenon DEF Same, FreeSlot
  <2>4. Counted(slot', flist, Refs, Making, {}, {})
    BY <2>3, CleanupKeeps, Zenon DEF CountInv
  <2> QED BY <1>1, <1>2, <1>3, <2>1, <2>4, ZenonT(60) DEF CountInv
<1>5. CASE UnmapPage
  <2>1. PICK p \in Pages : Unmap(p)
    BY <1>5, Zenon DEF UnmapPage
  <2> DEFINE S == Notified(p)
  <2>2. S \subseteq Slots /\ \A e \in S : slot[e].node
    BY Zenon DEF Notified, Tree
  <2>3. /\ slot' = OutOfTree(S)
        /\ lru' = lru \ {e \in S : slot[e].use = 0} /\ dead' = dead \cup {e \in S : slot[e].use = 0}
    BY <2>1, Zenon DEF Unmap, UncacheEntries, LruRemove
  <2> HIDE DEF S
  <2>4. Counted(slot', flist, Refs, Making, lru', dead')
    BY <2>2, <2>3, OutOfTreeIs, PurgeKeeps DEF CountInv
  <2> QED BY <1>1, <1>2, <1>3, <2>4, ZenonT(60) DEF CountInv
<1>6. CASE UNCHANGED vars
  BY <1>1, <1>2, <1>3, <1>6, Zenon DEF CountInv, vars, mrVars, cacheVars
<1> QED BY <1>4, <1>5, <1>6, Zenon

-----------------------------------------------------------------------------
(* The inductive invariant *)

\* Nothing is held at the start.
LEMMA InvInit == CardFacts /\ Init => Inv
<1> SUFFICES ASSUME CardFacts, Init PROVE Inv
  BY Zenon
<1>1. Phases
  BY ZenonT(60) DEF Init, CacheInit, Phases, Phase, Away, Resting
<1>2. Refs = [t \in Eps |-> {}] /\ Making = [t \in Eps |-> 0]
  BY Zenon DEF Init, CacheInit, Refs, References, Making
<1>3. ASSUME NEW e PROVE HoldersIn(Refs, e) = {}
  BY <1>2, HolderIs
<1>4. Exact(slot, flist, Refs)
  <2>1. \A e \in Slots : slot[e].use = 0
    BY Zenon DEF Init, CacheInit, FreeSlot
  <2>2. IsFiniteSet({}) /\ Cardinality({}) = 0
    BY Zenon DEF CardFacts
  <2>3. ASSUME NEW e \in Slots
        PROVE  IsFiniteSet(HoldersIn(Refs, e)) /\ slot[e].use = Cardinality(HoldersIn(Refs, e))
    <3>1. HoldersIn(Refs, e) = {}
      BY <1>3, Zenon
    <3> QED BY <2>1, <2>2, <3>1, Zenon
  <2> QED BY <2>3, Zenon DEF Exact
<1>5. Live(slot, flist, Refs) /\ Fresh(slot, Refs, Making)
  BY <1>2, Zenon DEF Live, Fresh
<1>6. Lists(slot, flist, lru, dead)
  BY Zenon DEF Init, CacheInit, FreeSlot, Lists
<1> QED BY <1>1, <1>4, <1>5, <1>6, ShapeInit, ZenonT(60) DEF Inv, CountInv, Counted

\* Every step keeps the inductive invariant.
LEMMA InvStep == Inv /\ [Next]_vars => Inv'
<1> SUFFICES ASSUME Inv, [Next]_vars PROVE Inv'
  BY Zenon
<1>1. Shape /\ Shape'
  BY ShapeStep, Zenon DEF Inv
<1>2. CASE ~cacheOn'
  BY <1>1, <1>2, ZenonT(60) DEF Inv
<1>3. CASE cacheOn'
  <2>1. cacheOn
    BY <1>3, ZenonT(60)
        DEF Next, Call, Start, vars, sendVars, CacheGet, CacheGot, Took, RegInternal, RegFails,
                ErrUnreg, PostRts, PostFails, Put, PutDone, CloseSocket, SendRndzv, Fin, EpEnable,
                EpClose, DomainClose, UnmapPage
  <2>2. Phases /\ CountInv
    BY <2>1 DEF Inv
  <2>3. ASSUME NEW t \in Eps, CacheStep(t), UNCHANGED sendVars PROVE Phases' /\ CountInv'
    BY <1>1, <2>2, <2>3, CountSearch, CountCreate, CountInsert, CountFree, ZenonT(60) DEF CacheStep
  <2>4. ASSUME NEW t \in Eps, Call(t) \/ Start(t) PROVE Phases' /\ CountInv'
    <3>1. ~RegInternal(t)
      BY <2>1, Zenon DEF RegInternal
    <3> QED BY <1>1, <2>1, <2>2, <2>3, <2>4, <3>1, CountSend, CountPost, CountPut, CountEp,
        ZenonT(60) DEF Call, Start
  <2>5. Phases' /\ CountInv'
    BY <1>1, <2>1, <2>2, <2>4, CountRest, ZenonT(60) DEF Next
  <2> QED BY <1>1, <2>5, ZenonT(60) DEF Inv
<1> QED BY <1>2, <1>3, ZenonT(60)

-----------------------------------------------------------------------------
(* Numbers and sizes of sets of entries *)

\* What is used of positive numbers.
LEMMA Above ==
  /\ ~(0 > 0)
  /\ \A n \in Nat : n # 0 <=> n > 0
  /\ \A n, m \in Nat : n # 0 /\ m = n - 1 => (n = 1 <=> m = 0)
  /\ \A n \in Nat : \A m : n # 0 /\ m = n - 1 => m \in Nat
OBVIOUS

PagesIn(sl, S) == UNION {{e} \X PagesOf(sl[e].iov) : e \in S}

Sized(sl, S) == Cardinality(PagesIn(sl, S))

\* the four counters for the entries T of the tree and O in use outside it
Tally(sl, T, O) ==
  [cnt |-> Cardinality(T), size |-> Sized(sl, T), ucnt |-> Cardinality(O), usize |-> Sized(sl, O)]

\* A page of an entry, counted for that entry.
LEMMA PagesInAre ==
  ASSUME NEW sl, NEW S, NEW x
  PROVE  x \in PagesIn(sl, S) <=> \E e \in S : \E p \in PagesOf(sl[e].iov) : x = <<e, p>>
<1>1. x \in PagesIn(sl, S) <=> \E e \in S : x \in {e} \X PagesOf(sl[e].iov)
  BY Zenon DEF PagesIn
<1>2. ASSUME NEW e PROVE x \in {e} \X PagesOf(sl[e].iov) <=> \E p \in PagesOf(sl[e].iov) : x = <<e, p>>
  OBVIOUS
<1> QED BY <1>1, <1>2, Zenon

\* The interval of an entry.
LEMMA EntryIov ==
  ASSUME NEW sl \in [Slots -> Entries], NEW e \in Slots
  PROVE  /\ sl[e].iov.lo \in Nat /\ sl[e].iov.hi \in Nat /\ sl[e].iov.lo <= sl[e].iov.hi
         /\ PagesOf(sl[e].iov) \subseteq 1 .. NPages + 1
<1>1. NPages \in Nat
  BY MrAssumption, Zenon DEF MrAssumption
<1>2. sl[e].iov \in Intervals
  BY Zenon DEF Entries
<1>3. CASE sl[e].iov \in Iovs
  BY ONLY <1>1, <1>3, SMTT(60) DEF Iovs, Pages, PagesOf
<1>4. CASE sl[e].iov = NoIov
  BY <1>1, <1>4 DEF NoIov, PagesOf
<1> QED BY <1>2, <1>3, <1>4, Zenon DEF Intervals

\* Sets of entries and of their pages are finite.
LEMMA EntriesFinite ==
  ASSUME CardFacts, NEW sl \in [Slots -> Entries], NEW S, S \subseteq Slots
  PROVE  /\ IsFiniteSet(S) /\ Cardinality(S) \in Nat
         /\ IsFiniteSet(PagesIn(sl, S)) /\ Sized(sl, S) \in Nat
<1>1. NPages + 1 \in Int /\ NSlots \in Int
  BY MrAssumption DEF MrAssumption
<1>2. IsFiniteSet(Slots) /\ IsFiniteSet(1 .. NPages + 1)
  <2>1. IsFiniteSet(1 .. NSlots) /\ IsFiniteSet(1 .. NPages + 1)
    <3>1. 1 \in Int
      OBVIOUS
    <3> QED BY <1>1, <3>1, Zenon DEF CardFacts, SizeFacts
  <2> QED BY <2>1, Zenon DEF Slots
<1>3. IsFiniteSet(Slots \X (1 .. NPages + 1))
  BY <1>2, Zenon DEF CardFacts, SizeFacts
<1>4. PagesIn(sl, S) \subseteq Slots \X (1 .. NPages + 1)
  <2> SUFFICES ASSUME NEW x \in PagesIn(sl, S) PROVE x \in Slots \X (1 .. NPages + 1)
    BY Zenon
  <2>1. PICK e \in S : \E p \in PagesOf(sl[e].iov) : x = <<e, p>>
    BY PagesInAre
  <2>2. PICK p \in PagesOf(sl[e].iov) : x = <<e, p>>
    BY <2>1, Zenon
  <2>3. e \in Slots /\ p \in 1 .. NPages + 1
    BY EntryIov, Zenon
  <2> QED BY <2>2, <2>3, Zenon
<1>5. IsFiniteSet(S) /\ IsFiniteSet(PagesIn(sl, S))
  BY <1>2, <1>3, <1>4, Zenon DEF CardFacts, SizeFacts
<1> QED BY <1>5, Zenon DEF CardFacts, Sized

\* Numbers and sizes of disjoint sets add up.
LEMMA JoinedSize ==
  ASSUME CardFacts, NEW sl \in [Slots -> Entries], NEW S, NEW T, S \subseteq Slots, T \subseteq Slots, S \cap T = {}
  PROVE  /\ Cardinality(T \cup S) = Cardinality(T) + Cardinality(S)
         /\ Sized(sl, T \cup S) = Sized(sl, T) + Sized(sl, S)
<1>1. ASSUME NEW A, NEW B, IsFiniteSet(A), IsFiniteSet(B), A \cap B = {}
      PROVE  Cardinality(A \cup B) = Cardinality(A) + Cardinality(B)
  BY <1>1, Zenon DEF CardFacts, SizeFacts
<1>2. /\ IsFiniteSet(S) /\ IsFiniteSet(T)
      /\ IsFiniteSet(PagesIn(sl, S)) /\ IsFiniteSet(PagesIn(sl, T))
  BY EntriesFinite, Zenon
<1>3. PagesIn(sl, T \cup S) = PagesIn(sl, T) \cup PagesIn(sl, S)
  <2>1. ASSUME NEW x PROVE x \in PagesIn(sl, T \cup S) <=> x \in PagesIn(sl, T) \/ x \in PagesIn(sl, S)
    BY PagesInAre
  <2> QED BY <2>1, Zenon
<1>4. PagesIn(sl, T) \cap PagesIn(sl, S) = {}
  <2> SUFFICES ASSUME NEW x \in PagesIn(sl, T), x \in PagesIn(sl, S) PROVE FALSE
    BY Zenon
  <2>1. PICK e \in S : \E p : x = <<e, p>>
    BY PagesInAre
  <2>2. PICK f \in T : \E q : x = <<f, q>>
    BY PagesInAre
  <2>3. e = f
    BY <2>1, <2>2
  <2> QED BY <2>3, Zenon
<1>5. T \cap S = {}
  BY Zenon
<1> QED BY <1>1, <1>2, <1>3, <1>4, <1>5, Zenon DEF Sized

\* What is taken out of a set is taken off its number and size.
LEMMA CutSize ==
  ASSUME CardFacts, NEW sl \in [Slots -> Entries], NEW S, NEW T, S \subseteq T, T \subseteq Slots
  PROVE  /\ Cardinality(T \ S) = Cardinality(T) - Cardinality(S)
         /\ Sized(sl, T \ S) = Sized(sl, T) - Sized(sl, S)
<1>1. T = (T \ S) \cup S /\ S \cap (T \ S) = {} /\ S \subseteq Slots /\ T \ S \subseteq Slots
  BY Zenon
<1> DEFINE U == T \ S
<1>2. U \subseteq Slots /\ S \subseteq Slots /\ S \cap U = {} /\ T = U \cup S
  BY <1>1, Zenon
<1> HIDE DEF U
<1>3. Cardinality(T) = Cardinality(U) + Cardinality(S) /\ Sized(sl, T) = Sized(sl, U) + Sized(sl, S)
  BY <1>2, JoinedSize, Zenon
<1>4. Cardinality(U) \in Nat /\ Cardinality(S) \in Nat /\ Sized(sl, U) \in Nat /\ Sized(sl, S) \in Nat
  BY <1>2, EntriesFinite, Zenon
<1>5. Cardinality(U) = Cardinality(T) - Cardinality(S) /\ Sized(sl, U) = Sized(sl, T) - Sized(sl, S)
  BY <1>3, <1>4
<1> QED BY <1>5, Zenon DEF U

\* One entry has the size of its interval.
LEMMA OneSize ==
  ASSUME CardFacts, NEW sl \in [Slots -> Entries], NEW e \in Slots
  PROVE  Cardinality({e}) = 1 /\ Sized(sl, {e}) = Len1(sl[e].iov)
<1> DEFINE i == sl[e].iov
<1>1. i.lo \in Int /\ i.hi \in Int /\ i.lo <= i.hi
  BY EntryIov
<1>2. IsFiniteSet({e}) /\ Cardinality({e}) = 1
  BY Zenon DEF CardFacts, SizeFacts
<1> HIDE DEF i
<1>3. IsFiniteSet(PagesOf(i)) /\ Cardinality(PagesOf(i)) = Len1(i) /\ Len1(i) \in Int
  <2>1. IsFiniteSet(i.lo .. i.hi) /\ Cardinality(i.lo .. i.hi) = i.hi - i.lo + 1
    BY <1>1, Zenon DEF CardFacts, SizeFacts
  <2> QED BY <1>1, <2>1 DEF PagesOf, Len1
<1>4. Cardinality({e} \X PagesOf(i)) = Cardinality({e}) * Cardinality(PagesOf(i))
  BY <1>2, <1>3, Zenon DEF CardFacts, SizeFacts
<1>5. Cardinality({e} \X PagesOf(i)) = Len1(i)
  BY <1>2, <1>3, <1>4
<1>6. PagesIn(sl, {e}) = {e} \X PagesOf(sl[e].iov)
  BY Zenon DEF PagesIn
<1>7. Sized(sl, {e}) = Cardinality({e} \X PagesOf(i)) /\ Len1(i) = Len1(sl[e].iov)
  BY <1>6, Zenon DEF Sized, i
<1> QED BY <1>2, <1>5, <1>7, Zenon

\* The size depends on the intervals of the entries only.
LEMMA SameSize ==
  ASSUME NEW sl, NEW sl2, NEW S, \A e \in S : sl2[e].iov = sl[e].iov
  PROVE  Sized(sl2, S) = Sized(sl, S)
<1>1. ASSUME NEW x PROVE x \in PagesIn(sl2, S) <=> x \in PagesIn(sl, S)
  BY PagesInAre
<1>2. PagesIn(sl2, S) = PagesIn(sl, S)
  BY <1>1, Zenon
<1> QED BY <1>2, Zenon DEF Sized

-----------------------------------------------------------------------------
(* The four counters *)

Counts == [cnt : Int, size : Int, ucnt : Int, usize : Int]
InTree(c, x, y) == [c EXCEPT !.cnt = x, !.size = y]
Outside(c, x, y) == [c EXCEPT !.ucnt = x, !.usize = y]

\* Two counters are set at once.
LEMMA TwoFields ==
  ASSUME NEW c \in Counts, NEW x \in Int, NEW y \in Int
  PROVE  /\ InTree(c, x, y) = [cnt |-> x, size |-> y, ucnt |-> c.ucnt, usize |-> c.usize]
         /\ Outside(c, x, y) = [cnt |-> c.cnt, size |-> c.size, ucnt |-> x, usize |-> y]
<1>1. [c EXCEPT !.cnt = x, !.size = y] = [cnt |-> x, size |-> y, ucnt |-> c.ucnt, usize |-> c.usize]
  <2> DEFINE d == [c EXCEPT !.cnt = x]
             e == [d EXCEPT !.size = y]
  <2>1. d \in Counts /\ d.cnt = x /\ d.ucnt = c.ucnt /\ d.usize = c.usize
    BY Zenon DEF Counts
  <2> HIDE DEF d
  <2>2. e \in Counts /\ e.cnt = x /\ e.size = y /\ e.ucnt = c.ucnt /\ e.usize = c.usize
    BY <2>1, Zenon DEF Counts
  <2> HIDE DEF e
  <2>3. e = [cnt |-> x, size |-> y, ucnt |-> c.ucnt, usize |-> c.usize]
    BY <2>2, Zenon DEF Counts
  <2> QED BY <2>3, Zenon DEF d, e
<1>2. [c EXCEPT !.ucnt = x, !.usize = y] = [cnt |-> c.cnt, size |-> c.size, ucnt |-> x, usize |-> y]
  <2> DEFINE d == [c EXCEPT !.ucnt = x]
             e == [d EXCEPT !.usize = y]
  <2>1. d \in Counts /\ d.ucnt = x /\ d.cnt = c.cnt /\ d.size = c.size
    BY Zenon DEF Counts
  <2> HIDE DEF d
  <2>2. e \in Counts /\ e.ucnt = x /\ e.usize = y /\ e.cnt = c.cnt /\ e.size = c.size
    BY <2>1, Zenon DEF Counts
  <2> HIDE DEF e
  <2>3. e = [cnt |-> c.cnt, size |-> c.size, ucnt |-> x, usize |-> y]
    BY <2>2, Zenon DEF Counts
  <2> QED BY <2>3, Zenon DEF d, e
<1> QED BY <1>1, <1>2, Zenon DEF InTree, Outside

\* Counters are integers.
LEMMA TallyType ==
  ASSUME CardFacts, slot \in [Slots -> Entries], NEW T, NEW O, T \subseteq Slots, O \subseteq Slots
  PROVE  Tally(slot, T, O) \in Counts
BY EntriesFinite DEF Tally, Counts

\* SizeOf is Sized of the pool.
LEMMA SizeOfIs == \A S : SizeOf(S) = Sized(slot, S)
BY Zenon DEF SizeOf, Sized, PagesIn

\* util_mr_uncache_entry_storage: entries of the tree leave it.
LEMMA UncachedTally ==
  ASSUME CardFacts, slot \in [Slots -> Entries], NEW T, NEW O, NEW S,
         S \subseteq T, T \subseteq Slots, O \subseteq Slots
  PROVE  Uncached(Tally(slot, T, O), S) = Tally(slot, T \ S, O)
<1>1. /\ Cardinality(T \ S) = Cardinality(T) - Cardinality(S)
      /\ Sized(slot, T \ S) = Sized(slot, T) - SizeOf(S)
  BY CutSize, SizeOfIs, Zenon
<1> DEFINE c == Tally(slot, T, O)
<1>2. /\ c \in Counts /\ Tally(slot, T \ S, O) \in Counts
      /\ c.cnt = Cardinality(T) /\ c.size = Sized(slot, T)
      /\ c.ucnt = Cardinality(O) /\ c.usize = Sized(slot, O)
  BY TallyType, Zenon DEF Tally
<1>3. Cardinality(T \ S) \in Int /\ Sized(slot, T \ S) \in Int
  BY <1>2, Zenon DEF Tally, Counts
<1> HIDE DEF c
<1>4. Uncached(c, S) = InTree(c, Cardinality(T \ S), Sized(slot, T \ S))
  BY <1>1, <1>2, Zenon DEF Uncached, InTree
<1>5. InTree(c, Cardinality(T \ S), Sized(slot, T \ S)) =
        [cnt |-> Cardinality(T \ S), size |-> Sized(slot, T \ S), ucnt |-> c.ucnt, usize |-> c.usize]
  BY <1>2, <1>3, TwoFields, Zenon
<1>6. Uncached(c, S) = Tally(slot, T \ S, O)
  BY <1>2, <1>4, <1>5, Zenon DEF Tally
<1> QED BY <1>6, Zenon DEF c

\* Entries in use are counted outside the tree.
LEMMA OrphanedTally ==
  ASSUME CardFacts, slot \in [Slots -> Entries], NEW T, NEW O, NEW S,
         S \subseteq Slots, O \subseteq Slots, T \subseteq Slots, S \cap O = {}
  PROVE  Orphaned(Tally(slot, T, O), S) = Tally(slot, T, O \cup S)
<1>1. /\ Cardinality(O \cup S) = Cardinality(O) + Cardinality(S)
      /\ Sized(slot, O \cup S) = Sized(slot, O) + SizeOf(S)
  BY JoinedSize, SizeOfIs, Zenon
<1> DEFINE c == Tally(slot, T, O)
<1>2. /\ c \in Counts /\ Tally(slot, T, O \cup S) \in Counts
      /\ c.cnt = Cardinality(T) /\ c.size = Sized(slot, T)
      /\ c.ucnt = Cardinality(O) /\ c.usize = Sized(slot, O)
  BY TallyType, Zenon DEF Tally
<1>3. Cardinality(O \cup S) \in Int /\ Sized(slot, O \cup S) \in Int
  BY <1>2, Zenon DEF Tally, Counts
<1> HIDE DEF c
<1>4. Orphaned(c, S) = Outside(c, Cardinality(O \cup S), Sized(slot, O \cup S))
  BY <1>1, <1>2, Zenon DEF Orphaned, Outside
<1>5. Outside(c, Cardinality(O \cup S), Sized(slot, O \cup S)) =
        [cnt |-> c.cnt, size |-> c.size, ucnt |-> Cardinality(O \cup S), usize |-> Sized(slot, O \cup S)]
  BY <1>2, <1>3, TwoFields, Zenon
<1>6. Orphaned(c, S) = Tally(slot, T, O \cup S)
  BY <1>2, <1>4, <1>5, Zenon DEF Tally
<1> QED BY <1>6, Zenon DEF c

\* util_mr_cache_create: one entry more in the tree.
LEMMA CachedTally ==
  ASSUME CardFacts, slot \in [Slots -> Entries], NEW T, NEW O, NEW e \in Slots,
         T \subseteq Slots, O \subseteq Slots, e \notin T
  PROVE  Cached(Tally(slot, T, O), e) = Tally(slot, T \cup {e}, O)
<1>1. {e} \subseteq Slots /\ {e} \cap T = {}
  BY Zenon
<1>2. /\ Cardinality(T \cup {e}) = Cardinality(T) + Cardinality({e})
      /\ Sized(slot, T \cup {e}) = Sized(slot, T) + Sized(slot, {e})
  BY <1>1, JoinedSize, Zenon
<1>3. Cardinality({e}) = 1 /\ Sized(slot, {e}) = Len1(slot[e].iov)
  BY OneSize, Zenon
<1> DEFINE c == Tally(slot, T, O)
<1>4. /\ c \in Counts /\ Tally(slot, T \cup {e}, O) \in Counts
      /\ c.cnt = Cardinality(T) /\ c.size = Sized(slot, T)
      /\ c.ucnt = Cardinality(O) /\ c.usize = Sized(slot, O)
  BY TallyType, Zenon DEF Tally
<1>5. Cardinality(T \cup {e}) \in Int /\ Sized(slot, T \cup {e}) \in Int
  BY <1>4, Zenon DEF Tally, Counts
<1> HIDE DEF c
<1>6. Cached(c, e) = InTree(c, Cardinality(T \cup {e}), Sized(slot, T \cup {e}))
  BY <1>2, <1>3, <1>4, Zenon DEF Cached, InTree
<1>7. InTree(c, Cardinality(T \cup {e}), Sized(slot, T \cup {e})) =
        [cnt |-> Cardinality(T \cup {e}), size |-> Sized(slot, T \cup {e}), ucnt |-> c.ucnt, usize |-> c.usize]
  BY <1>4, <1>5, TwoFields, Zenon
<1>8. Cached(c, e) = Tally(slot, T \cup {e}, O)
  BY <1>4, <1>6, <1>7, Zenon DEF Tally
<1> QED BY <1>8, Zenon DEF c

\* the last put of an entry outside the tree
PutBack(c, e) == [c EXCEPT !.ucnt = @ - 1, !.usize = @ - Len1(slot[e].iov)]

\* ofi_mr_cache_delete: one entry fewer outside the tree.
LEMMA PutBackTally ==
  ASSUME CardFacts, slot \in [Slots -> Entries], NEW T, NEW O, NEW e \in O, T \subseteq Slots, O \subseteq Slots
  PROVE  PutBack(Tally(slot, T, O), e) = Tally(slot, T, O \ {e})
<1>1. {e} \subseteq O /\ e \in Slots
  BY Zenon
<1>2. /\ Cardinality(O \ {e}) = Cardinality(O) - Cardinality({e})
      /\ Sized(slot, O \ {e}) = Sized(slot, O) - Sized(slot, {e})
  BY <1>1, CutSize, Zenon
<1>3. Cardinality({e}) = 1 /\ Sized(slot, {e}) = Len1(slot[e].iov)
  BY <1>1, OneSize, Zenon
<1> DEFINE c == Tally(slot, T, O)
<1>4. /\ c \in Counts /\ Tally(slot, T, O \ {e}) \in Counts
      /\ c.cnt = Cardinality(T) /\ c.size = Sized(slot, T)
      /\ c.ucnt = Cardinality(O) /\ c.usize = Sized(slot, O)
  BY TallyType, Zenon DEF Tally
<1>5. Cardinality(O \ {e}) \in Int /\ Sized(slot, O \ {e}) \in Int
  BY <1>4, Zenon DEF Tally, Counts
<1> HIDE DEF c
<1>6. PutBack(c, e) = Outside(c, Cardinality(O \ {e}), Sized(slot, O \ {e}))
  BY <1>2, <1>3, <1>4, Zenon DEF PutBack, Outside
<1>7. Outside(c, Cardinality(O \ {e}), Sized(slot, O \ {e})) =
        [cnt |-> c.cnt, size |-> c.size, ucnt |-> Cardinality(O \ {e}), usize |-> Sized(slot, O \ {e})]
  BY <1>4, <1>5, TwoFields, Zenon
<1>8. PutBack(c, e) = Tally(slot, T, O \ {e})
  BY <1>4, <1>6, <1>7, Zenon DEF Tally
<1> QED BY <1>8, Zenon DEF c

\* the entries of S have the same intervals in sl2 and in sl
SameIovs(sl, sl2, S) == \A e \in S : sl2[e].iov = sl[e].iov

TallyKept(sl, sl2, T, O) == Tally(sl2, T, O) = Tally(sl, T, O)

\* The counters depend on the intervals of the counted entries only.
LEMMA SameTally ==
  ASSUME NEW sl, NEW sl2, NEW T, NEW O, SameIovs(sl, sl2, T \cup O)
  PROVE  TallyKept(sl, sl2, T, O)
<1>1. Sized(sl2, T) = Sized(sl, T) /\ Sized(sl2, O) = Sized(sl, O)
  BY SameSize, ZenonT(60) DEF SameIovs
<1> QED BY <1>1, Zenon DEF Tally, TallyKept

-----------------------------------------------------------------------------
(* What the lists and counters are *)

TreeOf(sl) == {e \in Slots : sl[e].node}
IdleOf(sl) == {e \in Slots : sl[e].node /\ sl[e].use = 0}
DeadOf(sl, fl) == {e \in Slots : sl[e].used /\ ~sl[e].node /\ sl[e].use = 0 /\ NotFreeing(fl, e)}

\* entries in use outside the tree; M[t] is the one t is about to insert
OrphansOf(sl, fl, M) ==
  {e \in Slots : sl[e].used /\ ~sl[e].node /\ sl[e].use > 0 /\ NotFreeing(fl, e) /\ \A t \in Eps : M[t] # e}

\* A orders L
Ordered(L, A) == A \subseteq L \X L /\ \A e, f \in L : e # f => (<<e, f>> \in A <=> <<f, e>> \notin A)

ListsAre(sl, fl, M, L, A, D, c) ==
  /\ L = IdleOf(sl)
  /\ Ordered(L, A)
  /\ D = DeadOf(sl, fl)
  /\ c = Tally(sl, TreeOf(sl), OrphansOf(sl, fl, M))
  /\ \A e \in Slots : sl[e].use \in Nat

\* what is left of order A without the entries of S
Cut(A, S) == {p \in A : p[1] \notin S /\ p[2] \notin S}

\* dlist_remove keeps the order of the rest.
LEMMA OrderCut ==
  ASSUME NEW L, NEW A, NEW S, Ordered(L, A)
  PROVE  Ordered(L \ S, Cut(A, S))
BY Zenon DEF Ordered, Cut

\* dlist_insert_tail puts the new entry behind all others.
LEMMA OrderTail ==
  ASSUME NEW L, NEW A, NEW e, e \notin L, Ordered(L, A)
  PROVE  Ordered(L \cup {e}, A \cup (L \X {e}))
BY DEF Ordered

ListInv == ListsAre(slot, flist, Making, lru, ahead, dead, count)

-----------------------------------------------------------------------------
(* Kinds of steps: sl2 is the pool after the step *)

T0 == TreeOf(slot)
O0 == OrphansOf(slot, flist, Making)

\* What the counters count now.
LEMMA CountsNow ==
  ASSUME ListInv
  PROVE  /\ count = Tally(slot, T0, O0) /\ T0 \subseteq Slots /\ O0 \subseteq Slots
         /\ lru = IdleOf(slot) /\ Ordered(lru, ahead) /\ dead = DeadOf(slot, flist)
         /\ \A e \in Slots : slot[e].use \in Nat
BY ZenonT(60) DEF ListInv, ListsAre, T0, O0, TreeOf, OrphansOf

\* what a hit takes off the lru_list
OffLru(e) == IF slot[e].use = 0 THEN {e} ELSE {}

\* A hit takes the entry off the lru_list.
LEMMA HitLists ==
  ASSUME ListInv, NEW sl2, NEW e \in Slots, slot[e].node,
         Recounted(slot, sl2, e, slot[e].use + 1), sl2[e].iov = slot[e].iov
  PROVE  ListsAre(sl2, flist, Making, lru \ OffLru(e), Cut(ahead, OffLru(e)), dead, count)
<1>c. /\ count = Tally(slot, T0, O0) /\ lru = IdleOf(slot) /\ Ordered(lru, ahead)
      /\ dead = DeadOf(slot, flist) /\ \A f \in Slots : slot[f].use \in Nat
  BY CountsNow, Zenon
<1>s. \A f \in Slots : sl2[f].node = slot[f].node /\ sl2[f].used = slot[f].used /\ sl2[f].iov = slot[f].iov
                       /\ (f # e => sl2[f].use = slot[f].use)
  BY Zenon DEF Recounted, Same
<1>u. sl2[e].use = slot[e].use + 1 /\ sl2[e].use # 0 /\ sl2[e].use \in Nat
  BY <1>c, UpFromZero, Zenon DEF Recounted
<1>1. lru \ OffLru(e) = IdleOf(sl2)
  BY <1>c, <1>s, <1>u, Zenon DEF IdleOf, OffLru
<1>2. Ordered(lru \ OffLru(e), Cut(ahead, OffLru(e)))
  BY <1>c, OrderCut, Zenon
<1>3. dead = DeadOf(sl2, flist)
  BY <1>c, <1>s, <1>u, ZenonT(60) DEF DeadOf
<1>4. TreeOf(sl2) = T0
  BY <1>s, Zenon DEF TreeOf, T0
<1>5. OrphansOf(sl2, flist, Making) = O0
  BY <1>s, ZenonT(60) DEF OrphansOf, O0
<1>6. SameIovs(slot, sl2, T0 \cup O0)
  BY <1>s, Zenon DEF T0, O0, TreeOf, OrphansOf, SameIovs
<1>7. \A f \in Slots : sl2[f].use \in Nat
  BY <1>c, <1>s, <1>u, Zenon
<1>8. Tally(sl2, T0, O0) = Tally(slot, T0, O0)
  <2>1. TallyKept(slot, sl2, T0, O0)
    BY <1>6, SameTally, Zenon
  <2> QED BY <2>1, Zenon DEF TallyKept
<1> QED BY <1>c, <1>1, <1>2, <1>3, <1>4, <1>5, <1>7, <1>8, Zenon DEF ListsAre

\* util_mr_uncache_entry of the entries S of the tree: idle ones die, the others are counted apart.
LEMMA PurgeLists ==
  ASSUME Shape, ListInv, Counted(slot, flist, Refs, Making, lru, dead), NEW sl2, NEW S, NEW I, NEW c2,
         S \subseteq TreeOf(slot), I = {e \in S : slot[e].use = 0},
         Same(slot, sl2, S),
         \A e \in S : sl2[e].used = slot[e].used /\ sl2[e].use = slot[e].use /\ ~sl2[e].node,
         \A e \in Slots : sl2[e].iov = slot[e].iov,
         c2 = Orphaned(Uncached(count, S), S \ I)
  PROVE  ListsAre(sl2, flist, Making, lru \ I, Cut(ahead, I), dead \cup I, c2)
<1>k. CardFacts
  BY Zenon DEF Counted
<1>c. /\ count = Tally(slot, T0, O0) /\ lru = IdleOf(slot) /\ Ordered(lru, ahead)
      /\ dead = DeadOf(slot, flist) /\ T0 \subseteq Slots /\ O0 \subseteq Slots
  BY CountsNow, Zenon
<1>n. \A f \in Slots : slot[f].use \in Nat
  BY CountsNow, Zenon
<1>s. \A f \in Slots : sl2[f].used = slot[f].used /\ sl2[f].use = slot[f].use
                       /\ (sl2[f].node <=> slot[f].node /\ f \notin S)
  BY Zenon DEF Same
<1>t. S \subseteq Slots /\ \A f \in S : slot[f].node /\ slot[f].used /\ NotFreeing(flist, f) /\ \A t \in Eps : Making[t] # f
  <2>1. S \subseteq Slots /\ \A f \in S : slot[f].node /\ slot[f].used
    BY Zenon DEF TreeOf, Counted, Lists
  <2>2. \A f \in S : NotFreeing(flist, f)
    BY <2>1, Zenon DEF Counted, Lists, NotFreeing
  <2>3. ASSUME NEW f \in S, NEW t \in Eps PROVE Making[t] # f
    <3>1. f # 0
      BY <2>1, Numbers, Zenon
    <3> QED BY <2>1, <3>1, Zenon DEF Counted, Fresh
  <2> QED BY <2>1, <2>2, <2>3, Zenon
<1> DEFINE T2 == T0 \ S
           O2 == O0 \cup (S \ I)
           L2 == lru \ I
           D2 == dead \cup I
<1>1. L2 = IdleOf(sl2)
  BY <1>c, <1>s, ZenonT(60) DEF IdleOf
<1>2. Ordered(L2, Cut(ahead, I))
  BY <1>c, OrderCut, Zenon
<1>3. D2 = DeadOf(sl2, flist)
  BY <1>c, <1>s, <1>t, ZenonT(60) DEF DeadOf
<1>4. TreeOf(sl2) = T2
  BY <1>s, Zenon DEF TreeOf, T0
<1>5. OrphansOf(sl2, flist, Making) = O2
  <2>1. \A f \in S : f \notin I <=> slot[f].use > 0
    BY <1>n, <1>t, Above, Zenon
  <2> QED BY <2>1, <1>s, <1>t, ZenonT(60) DEF OrphansOf, O0
<1>6. c2 = Tally(slot, T2, O2)
  <2>1. slot \in [Slots -> Entries] /\ S \subseteq T0
    BY Zenon DEF Shape, T0
  <2>2. Uncached(count, S) = Tally(slot, T0 \ S, O0)
    BY <1>c, <2>1, <1>k, UncachedTally, Zenon
  <2>3. (S \ I) \cap O0 = {} /\ S \ I \subseteq Slots /\ T0 \ S \subseteq Slots
    BY <1>t, <1>c, Zenon DEF O0, OrphansOf
  <2>4. Orphaned(Tally(slot, T0 \ S, O0), S \ I) = Tally(slot, T0 \ S, O0 \cup (S \ I))
    BY ONLY <1>c, <2>1, <2>3, <1>k, OrphanedTally, Zenon
  <2> QED BY <2>2, <2>4, Zenon
<1>7. SameIovs(slot, sl2, T2 \cup O2)
  BY <1>c, <1>t, Zenon DEF SameIovs
<1>8. \A f \in Slots : sl2[f].use \in Nat
  BY <1>n, <1>s, Zenon
<1> HIDE DEF T2, O2, L2, D2
<1>9. Tally(sl2, T2, O2) = Tally(slot, T2, O2)
  <2>1. TallyKept(slot, sl2, T2, O2)
    BY <1>7, SameTally, Zenon
  <2> QED BY <2>1, Zenon DEF TallyKept
<1>10. ListsAre(sl2, flist, Making, L2, Cut(ahead, I), D2, c2)
  BY <1>1, <1>2, <1>3, <1>4, <1>5, <1>6, <1>8, <1>9, Zenon DEF ListsAre
<1> QED BY <1>10, Zenon DEF L2, D2

\* An entry in hand is in use.
LEMMA HeldInUse ==
  ASSUME ListInv, Counted(slot, flist, Refs, Making, lru, dead), NEW t \in Eps, NEW r \in Refs[t]
  PROVE  /\ r.id \in Slots /\ slot[r.id].used /\ NotFreeing(flist, r.id)
         /\ slot[r.id].use # 0 /\ slot[r.id].use > 0
<1>1. r.id \in Slots /\ slot[r.id].used /\ NotFreeing(flist, r.id)
  BY Zenon DEF Counted, Live
<1>2. slot[r.id].use # 0
  BY <1>1, IdleUnheld, Zenon DEF Counted
<1>3. slot[r.id].use \in Nat
  BY <1>1, CountsNow, Zenon
<1> QED BY <1>1, <1>2, <1>3, UpFromZero, Zenon

\* An entry of the pool is taken, and kept by its maker only; or given back at once.
LEMMA CreateLists ==
  ASSUME ListInv, Counted(slot, flist, Refs, Making, lru, dead), NEW sl2, NEW M2, NEW e \in Slots,
         NEW t \in Eps, Elsewhere(t, Making, M2), Making[t] = 0,
         ~slot[e].used, Same(slot, sl2, {e}), ~sl2[e].node, sl2[e].use \in Nat,
         (sl2[e].used /\ sl2[e].use # 0 /\ M2[t] = e) \/ (~sl2[e].used /\ M2[t] = 0)
  PROVE  ListsAre(sl2, flist, M2, lru, ahead, dead, count)
<1>c. /\ count = Tally(slot, T0, O0) /\ lru = IdleOf(slot) /\ Ordered(lru, ahead)
      /\ dead = DeadOf(slot, flist) /\ \A f \in Slots : slot[f].use \in Nat
  BY CountsNow, Zenon
<1>s. \A f \in Slots : f # e => sl2[f] = slot[f]
  BY Zenon DEF Same
<1>e. ~slot[e].node
  BY Zenon DEF Counted, Lists
<1>m. /\ \A f \in Slots : f # e => ((\A u \in Eps : Making[u] # f) <=> (\A u \in Eps : M2[u] # f))
      /\ sl2[e].used => M2[t] = e
  <2>1. \A f \in Slots : f # 0
    BY Numbers, Zenon
  <2> QED BY <2>1, Zenon DEF Elsewhere
<1>1. lru = IdleOf(sl2)
  BY <1>c, <1>s, <1>e, Zenon DEF IdleOf
<1>2. dead = DeadOf(sl2, flist)
  BY <1>c, <1>s, <1>e, ZenonT(60) DEF DeadOf
<1>3. TreeOf(sl2) = T0
  BY <1>s, <1>e, Zenon DEF TreeOf, T0
<1>4. OrphansOf(sl2, flist, M2) = O0
  <2>1. t \in Eps /\ e \in Slots /\ ~slot[e].used
    BY Zenon
  <2> QED BY ONLY <2>1, <1>s, <1>m, SMTT(60) DEF OrphansOf, O0
<1>5. SameIovs(slot, sl2, T0 \cup O0)
  BY <1>s, <1>e, Zenon DEF T0, O0, TreeOf, OrphansOf, SameIovs
<1>6. \A f \in Slots : sl2[f].use \in Nat
  BY <1>c, <1>s, Zenon
<1>7. Tally(sl2, T0, O0) = Tally(slot, T0, O0)
  <2>1. TallyKept(slot, sl2, T0, O0)
    BY <1>5, SameTally, Zenon
  <2> QED BY <2>1, Zenon DEF TallyKept
<1> QED BY <1>c, <1>1, <1>2, <1>3, <1>4, <1>6, <1>7, Zenon DEF ListsAre

\* A conflict: the new entry goes to be freed without having been counted.
LEMMA ConflictLists ==
  ASSUME ListInv, Counted(slot, flist, Refs, Making, lru, dead), NEW fl2, NEW M2, NEW t \in Eps, NEW e,
         Making[t] = e, e # 0, M2[t] = 0, Elsewhere(t, Making, M2),
         flist[t] = {}, fl2[t] = {e}, Elsewhere(t, flist, fl2)
  PROVE  ListsAre(slot, fl2, M2, lru, ahead, dead, count)
<1>c. /\ count = Tally(slot, T0, O0) /\ lru = IdleOf(slot) /\ Ordered(lru, ahead)
      /\ dead = DeadOf(slot, flist) /\ \A f \in Slots : slot[f].use \in Nat
  BY CountsNow, Zenon
<1>e. e \in Slots /\ slot[e].use # 0
  <2>1. InHand(e) \in Refs[t] /\ InHand(e).id = e
    BY Zenon DEF Counted, Fresh, InHand, Hold
  <2> QED BY <2>1, HeldInUse, Zenon
<1>n. \A f : NotFreeing(fl2, f) <=> NotFreeing(flist, f) /\ f # e
  BY Zenon DEF NotFreeing, Elsewhere
<1>m. \A f \in Slots : f # e => ((\A u \in Eps : Making[u] # f) <=> (\A u \in Eps : M2[u] # f))
  <2>1. \A f \in Slots : f # 0
    BY Numbers, Zenon
  <2> QED BY <2>1, Zenon DEF Elsewhere
<1>1. dead = DeadOf(slot, fl2)
  BY <1>c, <1>e, <1>n, ZenonT(60) DEF DeadOf
<1>2. OrphansOf(slot, fl2, M2) = O0
  BY <1>n, <1>m, ZenonT(60) DEF OrphansOf, O0
<1> QED BY <1>c, <1>1, <1>2, Zenon DEF ListsAre, T0

\* The new entry enters the tree (then N has it), or is kept for its maker.
LEMMA InsertLists ==
  ASSUME Shape, ListInv, Counted(slot, flist, Refs, Making, lru, dead), NEW sl2, NEW M2, NEW t \in Eps, NEW e,
         Making[t] = e, e # 0, M2[t] = 0, Elsewhere(t, Making, M2), NEW c2,
         \/ sl2 = slot /\ c2 = Orphaned(count, {e})
         \/ sl2 = slot /\ c2 = Orphaned(Uncached(Cached(count, e), {e}), {e})
         \/ sl2 = [slot EXCEPT ![e].node = TRUE] /\ c2 = Cached(count, e)
  PROVE  ListsAre(sl2, flist, M2, lru, ahead, dead, c2)
<1>k. CardFacts
  BY Zenon DEF Counted
<1>c. /\ count = Tally(slot, T0, O0) /\ lru = IdleOf(slot) /\ Ordered(lru, ahead)
      /\ dead = DeadOf(slot, flist) /\ T0 \subseteq Slots /\ O0 \subseteq Slots
  BY CountsNow, Zenon
<1>n. \A f \in Slots : slot[f].use \in Nat
  BY CountsNow, Zenon
<1>y. slot \in [Slots -> Entries]
  BY Zenon DEF Shape
<1>e. /\ e \in Slots /\ slot[e].used /\ ~slot[e].node /\ NotFreeing(flist, e)
      /\ slot[e].use # 0 /\ slot[e].use > 0
  <2>1. InHand(e) \in Refs[t] /\ InHand(e).id = e /\ ~slot[e].node
    BY Zenon DEF Counted, Fresh, InHand, Hold
  <2> QED BY <2>1, HeldInUse, Zenon
<1>o. e \notin T0 /\ e \notin O0
  BY <1>e, Zenon DEF T0, O0, TreeOf, OrphansOf
<1>m. /\ \A u \in Eps : M2[u] # e
      /\ \A f \in Slots : f # e => ((\A u \in Eps : Making[u] # f) <=> (\A u \in Eps : M2[u] # f))
  <2>1. \A f \in Slots : f # 0
    BY Numbers, Zenon
  <2>2. ASSUME NEW u \in Eps, u # t PROVE Making[u] # e
    <3>1. Making[u] = e => InHand(e) \in Refs[u]
      BY Zenon DEF Counted, Fresh
    <3>2. InHand(e).id = e
      BY Zenon DEF InHand, Hold
    <3> QED BY <2>2, <3>1, <3>2, Zenon DEF Counted, Fresh
  <2> QED BY <2>1, <2>2, Zenon DEF Elsewhere
<1>1. CASE sl2 = slot /\ c2 = Tally(slot, T0, O0 \cup {e})
  <2>1. OrphansOf(slot, flist, M2) = O0 \cup {e}
    BY <1>e, <1>m, ZenonT(60) DEF OrphansOf, O0
  <2> QED BY <1>1, <1>c, <1>n, <2>1, ZenonT(60) DEF ListsAre, T0
<1>2. Orphaned(count, {e}) = Tally(slot, T0, O0 \cup {e})
  BY <1>c, <1>e, <1>o, <1>y, <1>k, OrphanedTally
<1>3. Cached(count, e) = Tally(slot, T0 \cup {e}, O0)
  BY <1>c, <1>e, <1>o, <1>y, <1>k, CachedTally, ZenonT(60)
<1>4. Uncached(Cached(count, e), {e}) = count
  <2>1. Uncached(Tally(slot, T0 \cup {e}, O0), {e}) = Tally(slot, (T0 \cup {e}) \ {e}, O0)
    BY <1>c, <1>e, <1>y, <1>k, UncachedTally
  <2>2. (T0 \cup {e}) \ {e} = T0
    BY <1>o, Zenon
  <2> QED BY <1>3, <1>c, <2>1, <2>2, Zenon
<1>5. CASE sl2 = [slot EXCEPT ![e].node = TRUE] /\ c2 = Cached(count, e)
  <2>1. /\ sl2[e].use = slot[e].use /\ sl2[e].used /\ sl2[e].iov = slot[e].iov /\ sl2[e].node
        /\ \A f \in Slots : f # e => sl2[f] = slot[f]
    BY <1>5, <1>e, <1>y, NodeSet DEF Same
  <2> DEFINE T2 == T0 \cup {e}
  <2>2. lru = IdleOf(sl2)
    BY <1>c, <1>e, <2>1, ZenonT(60) DEF IdleOf
  <2>3. dead = DeadOf(sl2, flist)
    BY <1>c, <1>e, <2>1, ZenonT(60) DEF DeadOf
  <2>4. TreeOf(sl2) = T2
    BY <1>e, <2>1, Zenon DEF TreeOf, T0
  <2>5. OrphansOf(sl2, flist, M2) = O0
    BY <1>m, <2>1 DEF OrphansOf, O0
  <2>6. SameIovs(slot, sl2, T2 \cup O0)
    BY <1>c, <2>1, Zenon DEF SameIovs
  <2>7. \A f \in Slots : sl2[f].use \in Nat
    BY <1>n, <2>1, Zenon
  <2>8. c2 = Tally(slot, T2, O0)
    BY <1>5, <1>3, Zenon
  <2> HIDE DEF T2
  <2>9. Tally(sl2, T2, O0) = Tally(slot, T2, O0)
    <3>1. TallyKept(slot, sl2, T2, O0)
      BY <2>6, SameTally, Zenon
    <3> QED BY <3>1, Zenon DEF TallyKept
  <2> QED BY <1>c, <2>2, <2>3, <2>4, <2>5, <2>7, <2>8, <2>9, Zenon DEF ListsAre
<1> QED BY <1>1, <1>2, <1>4, <1>5, Zenon

\* ofi_mr_cache_flush: the dead and the idle entries S leave their lists.
LEMMA FlushLists ==
  ASSUME Shape, ListInv, Counted(slot, flist, Refs, Making, lru, dead), NEW sl2, NEW fl2, NEW t \in Eps,
         NEW S, S \subseteq lru, Same(slot, sl2, S),
         \A e \in S : sl2[e].used = slot[e].used /\ sl2[e].use = slot[e].use /\ ~sl2[e].node,
         \A e \in Slots : sl2[e].iov = slot[e].iov,
         flist[t] = {}, fl2[t] = dead \cup S, Elsewhere(t, flist, fl2)
  PROVE  ListsAre(sl2, fl2, Making, lru \ S, Cut(ahead, S), {}, Uncached(count, S))
<1>k. CardFacts
  BY Zenon DEF Counted
<1>c. /\ count = Tally(slot, T0, O0) /\ lru = IdleOf(slot) /\ Ordered(lru, ahead)
      /\ dead = DeadOf(slot, flist) /\ T0 \subseteq Slots /\ O0 \subseteq Slots
  BY CountsNow, Zenon
<1>n. \A f \in Slots : slot[f].use \in Nat
  BY CountsNow, Zenon
<1>t. S \subseteq Slots /\ \A f \in S : slot[f].node /\ slot[f].use = 0
  BY <1>c, Zenon DEF IdleOf
<1>s. \A f \in Slots : sl2[f].used = slot[f].used /\ sl2[f].use = slot[f].use
                       /\ (sl2[f].node <=> slot[f].node /\ f \notin S)
  BY <1>t, Zenon DEF Same
<1>f. \A f : NotFreeing(fl2, f) <=> NotFreeing(flist, f) /\ f \notin dead /\ f \notin S
  BY Zenon DEF NotFreeing, Elsewhere
<1>z. \A f \in S \cup dead : f \in Slots /\ slot[f].use = 0 /\ ~(slot[f].use > 0)
  BY <1>c, <1>t, Above, Zenon DEF DeadOf
<1> DEFINE T2 == T0 \ S
           L2 == lru \ S
<1>1. L2 = IdleOf(sl2)
  BY <1>c, <1>s, ZenonT(60) DEF IdleOf
<1>2. Ordered(L2, Cut(ahead, S))
  BY <1>c, OrderCut, Zenon
<1>3. DeadOf(sl2, fl2) = {}
  <2>1. ASSUME NEW f \in DeadOf(sl2, fl2) PROVE FALSE
    <3>1. f \in Slots /\ slot[f].used /\ slot[f].use = 0 /\ ~slot[f].node /\ NotFreeing(flist, f) /\ f \notin dead
      BY <1>s, <1>f, Zenon DEF DeadOf
    <3> QED BY <3>1, <1>c, Zenon DEF DeadOf
  <2> QED BY <2>1, Zenon
<1>4. TreeOf(sl2) = T2
  BY <1>s, Zenon DEF TreeOf, T0
<1>5. OrphansOf(sl2, fl2, Making) = O0
  BY <1>s, <1>f, <1>z, ZenonT(60) DEF OrphansOf, O0
<1>6. Uncached(count, S) = Tally(slot, T2, O0)
  <2>1. slot \in [Slots -> Entries] /\ S \subseteq T0
    BY <1>t, Zenon DEF Shape, T0, TreeOf
  <2> QED BY <1>c, <2>1, <1>k, UncachedTally, Zenon
<1>7. SameIovs(slot, sl2, T2 \cup O0)
  BY <1>c, Zenon DEF SameIovs
<1>8. \A f \in Slots : sl2[f].use \in Nat
  BY <1>n, <1>s, Zenon
<1> HIDE DEF T2, L2
<1>9. Tally(sl2, T2, O0) = Tally(slot, T2, O0)
  <2>1. TallyKept(slot, sl2, T2, O0)
    BY <1>7, SameTally, Zenon
  <2> QED BY <2>1, Zenon DEF TallyKept
<1>10. ListsAre(sl2, fl2, Making, L2, Cut(ahead, S), {}, Uncached(count, S))
  BY <1>1, <1>2, <1>3, <1>4, <1>5, <1>6, <1>8, <1>9, Zenon DEF ListsAre
<1> QED BY <1>10, Zenon DEF L2

\* util_mr_free_entry of an entry that is on no list and in no count.
LEMMA FreeLists ==
  ASSUME ListInv, Counted(slot, flist, Refs, Making, lru, dead), NEW sl2, NEW fl2, NEW t \in Eps,
         NEW e \in flist[t], Same(slot, sl2, {e}), ~sl2[e].used, ~sl2[e].node, sl2[e].use \in Nat,
         fl2[t] = flist[t] \ {e}, Elsewhere(t, flist, fl2)
  PROVE  ListsAre(sl2, fl2, Making, lru, ahead, dead, count)
<1>c. /\ count = Tally(slot, T0, O0) /\ lru = IdleOf(slot) /\ Ordered(lru, ahead)
      /\ dead = DeadOf(slot, flist) /\ \A f \in Slots : slot[f].use \in Nat
  BY CountsNow, Zenon
<1>s. \A f \in Slots : f # e => sl2[f] = slot[f]
  BY Zenon DEF Same
<1>e. e \in Slots /\ ~slot[e].node /\ ~NotFreeing(flist, e)
  BY Zenon DEF Counted, Lists, NotFreeing
<1>n. \A f : f # e => (NotFreeing(fl2, f) <=> NotFreeing(flist, f))
  BY Zenon DEF NotFreeing, Elsewhere
<1>1. lru = IdleOf(sl2)
  BY <1>c, <1>s, <1>e, Zenon DEF IdleOf
<1>2. dead = DeadOf(sl2, fl2)
  BY <1>c, <1>s, <1>e, <1>n, ZenonT(60) DEF DeadOf
<1>3. TreeOf(sl2) = T0
  BY <1>s, <1>e, Zenon DEF TreeOf, T0
<1>4. OrphansOf(sl2, fl2, Making) = O0
  BY <1>s, <1>e, <1>n, ZenonT(60) DEF OrphansOf, O0
<1>5. SameIovs(slot, sl2, T0 \cup O0)
  BY <1>s, <1>e, Zenon DEF T0, O0, TreeOf, OrphansOf, SameIovs
<1>6. \A f \in Slots : sl2[f].use \in Nat
  BY <1>c, <1>s, Zenon
<1>7. Tally(sl2, T0, O0) = Tally(slot, T0, O0)
  <2>1. TallyKept(slot, sl2, T0, O0)
    BY <1>5, SameTally, Zenon
  <2> QED BY <2>1, Zenon DEF TallyKept
<1> QED BY <1>c, <1>1, <1>2, <1>3, <1>4, <1>6, <1>7, Zenon DEF ListsAre

\* ofi_mr_cache_cleanup
LEMMA CleanupLists ==
  ASSUME Shape, ListInv, Counted(slot, flist, Refs, Making, lru, dead), NEW sl2,
         Same(slot, sl2, lru \cup dead),
         \A e \in lru \cup dead : ~sl2[e].used /\ ~sl2[e].node /\ sl2[e].use \in Nat
  PROVE  ListsAre(sl2, flist, Making, {}, {}, {}, Uncached(count, lru))
<1>k. CardFacts
  BY Zenon DEF Counted
<1>c. /\ count = Tally(slot, T0, O0) /\ lru = IdleOf(slot) /\ T0 \subseteq Slots /\ O0 \subseteq Slots
      /\ dead = DeadOf(slot, flist) /\ \A f \in Slots : slot[f].use \in Nat
  BY CountsNow, Zenon
<1>s. \A f \in Slots : f \notin lru \cup dead => sl2[f] = slot[f]
  BY Zenon DEF Same
<1> DEFINE T2 == T0 \ lru
<1>z. \A f \in lru \cup dead : f \in Slots /\ slot[f].use = 0 /\ ~(slot[f].use > 0)
  BY <1>c, Above, Zenon DEF DeadOf, IdleOf
<1>1. IdleOf(sl2) = {} /\ DeadOf(sl2, flist) = {}
  <2>1. ASSUME NEW f \in IdleOf(sl2) PROVE FALSE
    BY <1>c, <1>s, ZenonT(60) DEF IdleOf
  <2>2. ASSUME NEW f \in DeadOf(sl2, flist) PROVE FALSE
    BY <1>c, <1>s, ZenonT(60) DEF DeadOf
  <2> QED BY <2>1, <2>2, Zenon
<1>2. Ordered({}, {})
  BY Zenon DEF Ordered
<1>d. \A f \in dead : ~slot[f].node
  BY <1>c, Zenon DEF DeadOf
<1>3. TreeOf(sl2) = T2
  BY <1>s, <1>d, Zenon DEF TreeOf, T0
<1>4. OrphansOf(sl2, flist, Making) = O0
  BY <1>s, <1>z, ZenonT(60) DEF OrphansOf, O0
<1>5. SameIovs(slot, sl2, T2 \cup O0)
  <2>1. \A f \in T2 \cup O0 : f \in Slots /\ f \notin lru \cup dead
    BY <1>c, <1>z, <1>d, Zenon DEF O0, OrphansOf, T0, TreeOf
  <2> QED BY <2>1, <1>s, Zenon DEF SameIovs
<1>6. Uncached(count, lru) = Tally(slot, T2, O0)
  <2>1. slot \in [Slots -> Entries] /\ lru \subseteq T0
    BY <1>c, Zenon DEF Shape, T0, TreeOf, IdleOf
  <2> QED BY <1>c, <2>1, <1>k, UncachedTally, Zenon
<1>7. \A f \in Slots : sl2[f].use \in Nat
  BY <1>c, <1>s, Zenon
<1> HIDE DEF T2
<1>8. Tally(sl2, T2, O0) = Tally(slot, T2, O0)
  <2>1. TallyKept(slot, sl2, T2, O0)
    BY <1>5, SameTally, Zenon
  <2> QED BY <2>1, Zenon DEF TallyKept
<1> QED BY <1>1, <1>2, <1>3, <1>4, <1>6, <1>7, <1>8, Zenon DEF ListsAre

\* The counters after the last put of an entry outside the tree.
LEMMA PutBackNow ==
  ASSUME CardFacts, slot \in [Slots -> Entries], T0 \subseteq Slots, O0 \subseteq Slots, NEW e \in O0
  PROVE  PutBack(Tally(slot, T0, O0), e) = Tally(slot, T0, O0 \ {e})
BY PutBackTally, Zenon

\* ofi_mr_cache_delete: an entry that is not the last one's keeps its list; the last put
\* appends an entry of the tree to the lru_list, and takes one outside off the counters.
LEMMA DeleteLists ==
  ASSUME Shape, ListInv, Counted(slot, flist, Refs, Making, lru, dead), NEW sl2, NEW fl2, NEW L2, NEW A2, NEW c2,
         NEW t \in Eps, NEW h \in Refs[t], NEW e, h.id = e, Making[t] = 0, flist[t] = {}, Elsewhere(t, flist, fl2),
         Recounted(slot, sl2, e, slot[e].use - 1), sl2[e].iov = slot[e].iov,
         \/ slot[e].use = 1 /\ slot[e].node /\ L2 = lru \cup {e} /\ A2 = ahead \cup (lru \X {e})
              /\ c2 = count /\ fl2[t] = {}
         \/ slot[e].use = 1 /\ ~slot[e].node /\ L2 = lru /\ A2 = ahead
              /\ c2 = PutBack(count, e) /\ fl2[t] = {e}
         \/ slot[e].use # 1 /\ L2 = lru /\ A2 = ahead /\ c2 = count /\ fl2[t] = {}
  PROVE  ListsAre(sl2, fl2, Making, L2, A2, dead, c2)
<1>k. CardFacts
  BY Zenon DEF Counted
<1>c. /\ count = Tally(slot, T0, O0) /\ lru = IdleOf(slot) /\ Ordered(lru, ahead)
      /\ dead = DeadOf(slot, flist) /\ T0 \subseteq Slots /\ O0 \subseteq Slots
  BY CountsNow, Zenon
<1>n. \A f \in Slots : slot[f].use \in Nat
  BY CountsNow, Zenon
<1>e. /\ e \in Slots /\ slot[e].used /\ NotFreeing(flist, e) /\ slot[e].use # 0 /\ slot[e].use > 0
  BY HeldInUse, Zenon
<1>m. \A u \in Eps : Making[u] # e
  <2>1. e # 0
    BY <1>e, Numbers, Zenon
  <2> QED BY <2>1, Zenon DEF Counted, Fresh
<1>s. \A f \in Slots : sl2[f].node = slot[f].node /\ sl2[f].used = slot[f].used /\ sl2[f].iov = slot[f].iov
                       /\ (f # e => sl2[f].use = slot[f].use)
  BY Zenon DEF Recounted, Same
<1>u. /\ sl2[e].use \in Nat
      /\ slot[e].use = 1 => sl2[e].use = 0
      /\ slot[e].use # 1 => sl2[e].use # 0 /\ sl2[e].use > 0
  <2>1. slot[e].use \in Nat /\ sl2[e].use = slot[e].use - 1
    BY <1>n, <1>e, Zenon DEF Recounted
  <2> QED BY <2>1, <1>e, Above, Zenon
<1>z. ~(0 > 0)
  BY Above, Zenon
<1>f. /\ fl2[t] = {} => \A f : NotFreeing(fl2, f) <=> NotFreeing(flist, f)
      /\ fl2[t] = {e} => \A f : NotFreeing(fl2, f) <=> NotFreeing(flist, f) /\ f # e
  BY Zenon DEF NotFreeing, Elsewhere
<1>1. TreeOf(sl2) = T0
  BY <1>s, Zenon DEF TreeOf, T0
<1>2. \A f \in Slots : sl2[f].use \in Nat
  BY <1>n, <1>s, <1>u, Zenon
<1>3. \A O : O \subseteq O0 => Tally(sl2, T0, O) = Tally(slot, T0, O)
  <2> SUFFICES ASSUME NEW O, O \subseteq O0 PROVE Tally(sl2, T0, O) = Tally(slot, T0, O)
    BY Zenon
  <2>1. SameIovs(slot, sl2, T0 \cup O)
    BY <1>c, <1>s, Zenon DEF SameIovs
  <2>2. TallyKept(slot, sl2, T0, O)
    BY <2>1, SameTally, Zenon
  <2> QED BY <2>2, Zenon DEF TallyKept
<1>4. CASE slot[e].use = 1 /\ slot[e].node /\ L2 = lru \cup {e} /\ A2 = ahead \cup (lru \X {e})
             /\ c2 = count /\ fl2[t] = {}
  <2>1. L2 = IdleOf(sl2)
    BY <1>4, <1>c, <1>s, <1>u, <1>e, Zenon DEF IdleOf
  <2>2. Ordered(L2, A2)
    <3>1. e \notin lru
      BY <1>c, <1>e, Zenon DEF IdleOf
    <3> QED BY <3>1, <1>4, <1>c, OrderTail, Zenon
  <2>3. dead = DeadOf(sl2, fl2)
    BY <1>4, <1>c, <1>s, <1>f, ZenonT(60) DEF DeadOf
  <2>4. OrphansOf(sl2, fl2, Making) = O0
    BY <1>4, <1>s, <1>f, ZenonT(60) DEF OrphansOf, O0
  <2>5. Tally(sl2, T0, O0) = Tally(slot, T0, O0)
    BY <1>3, Zenon
  <2> QED BY <1>4, <1>c, <1>1, <1>2, <2>1, <2>2, <2>3, <2>4, <2>5, Zenon DEF ListsAre
<1>5. CASE slot[e].use = 1 /\ ~slot[e].node /\ L2 = lru /\ A2 = ahead /\ c2 = PutBack(count, e) /\ fl2[t] = {e}
  <2>1. L2 = IdleOf(sl2)
    BY <1>5, <1>c, <1>s, <1>u, <1>e, Zenon DEF IdleOf
  <2>2. dead = DeadOf(sl2, fl2)
    BY <1>5, <1>c, <1>e, <1>s, <1>f, ZenonT(60) DEF DeadOf
  <2>3. OrphansOf(sl2, fl2, Making) = O0 \ {e}
    BY <1>5, <1>s, <1>u, <1>z, <1>f, ZenonT(60) DEF OrphansOf, O0
  <2>4. e \in O0
    BY <1>5, <1>e, <1>m, Zenon DEF O0, OrphansOf
  <2>5. PutBack(count, e) = Tally(slot, T0, O0 \ {e})
    <3>1. slot \in [Slots -> Entries]
      BY Zenon DEF Shape
    <3>2. PutBack(Tally(slot, T0, O0), e) = Tally(slot, T0, O0 \ {e})
      BY <3>1, <1>c, <2>4, <1>k, PutBackNow, Zenon
    <3> QED BY <3>2, <1>c, Zenon
  <2>6. Tally(sl2, T0, O0 \ {e}) = Tally(slot, T0, O0 \ {e})
    BY <1>3, Zenon
  <2> QED BY <1>5, <1>c, <1>1, <1>2, <2>1, <2>2, <2>3, <2>5, <2>6, Zenon DEF ListsAre
<1>6. CASE slot[e].use # 1 /\ L2 = lru /\ A2 = ahead /\ c2 = count /\ fl2[t] = {}
  <2>1. L2 = IdleOf(sl2)
    BY <1>6, <1>c, <1>s, <1>u, <1>e, Zenon DEF IdleOf
  <2>2. dead = DeadOf(sl2, fl2)
    BY <1>6, <1>c, <1>e, <1>u, <1>s, <1>f, ZenonT(60) DEF DeadOf
  <2>3. OrphansOf(sl2, fl2, Making) = O0
    BY <1>6, <1>s, <1>u, <1>e, <1>f, ZenonT(60) DEF OrphansOf, O0
  <2>4. Tally(sl2, T0, O0) = Tally(slot, T0, O0)
    BY <1>3, Zenon
  <2> QED BY <1>6, <1>c, <1>1, <1>2, <2>1, <2>2, <2>3, <2>4, Zenon DEF ListsAre
<1> QED BY <1>4, <1>5, <1>6, Zenon

-----------------------------------------------------------------------------
(* The steps *)

\* Only endpoint t moves, and it is not about to insert.
LEMMA MakingElsewhere ==
  ASSUME NEW t \in Eps, \A u \in Eps : u # t => pc'[u] = pc[u] /\ ent'[u] = ent[u]
  PROVE  /\ Elsewhere(t, Making, Making')
         /\ pc[t] # "insert" /\ pc'[t] # "insert" => Making' = Making
<1>1. Elsewhere(t, Making, Making')
  BY Zenon DEF Making, Elsewhere
<1>2. pc[t] # "insert" /\ pc'[t] # "insert" => Making' = Making
  BY Zenon DEF Making
<1> QED BY <1>1, <1>2, Zenon

\* Counting a reference leaves the interval of the entry alone.
LEMMA RecountedIov ==
  ASSUME Shape, NEW e \in Slots,
         slot' = [slot EXCEPT ![e].use = @ + 1] \/ slot' = [slot EXCEPT ![e].use = @ - 1]
  PROVE  slot'[e].iov = slot[e].iov
BY Zenon DEF Shape, Entries

\* A step that touches neither entries nor lists keeps them.
LEMMA QuietLists ==
  ASSUME ListInv, NEW t \in Eps, UNCHANGED <<cacheVars, flist>>,
         \A u \in Eps : u # t => pc'[u] = pc[u] /\ ent'[u] = ent[u],
         pc[t] # "insert", pc'[t] # "insert"
  PROVE  ListInv'
<1>1. Making' = Making
  BY MakingElsewhere, Zenon
<1> QED BY <1>1, Zenon DEF ListInv, cacheVars

\* util_mr_uncache_entry of entries of the tree keeps lists and counters exact.
LEMMA UncacheLists ==
  ASSUME Shape, CountInv, ListInv, NEW S, S \subseteq TreeOf(slot), UncacheEntries(S),
         Making' = Making, flist' = flist
  PROVE  ListInv'
<1> DEFINE I == {e \in S : slot[e].use = 0}
<1>1. /\ slot' = OutOfTree(S) /\ lru' = lru \ I /\ ahead' = Cut(ahead, I) /\ dead' = dead \cup I
      /\ count' = Orphaned(Uncached(count, S), S \ I)
  BY Zenon DEF UncacheEntries, LruRemove, Cut
<1>2. S \subseteq Slots
  BY Zenon DEF TreeOf
<1>3. /\ Same(slot, slot', S)
      /\ \A e \in S : slot'[e].used = slot[e].used /\ slot'[e].use = slot[e].use /\ ~slot'[e].node
      /\ \A e \in Slots : slot'[e].iov = slot[e].iov
  BY <1>1, <1>2, OutOfTreeIs, ZenonT(60) DEF Same
<1>i. I = {e \in S : slot[e].use = 0}
  BY Zenon
<1> HIDE DEF I
<1>4. ListsAre(slot', flist, Making, lru \ I, Cut(ahead, I), dead \cup I, count')
  BY <1>i, <1>1, <1>3, PurgeLists, ZenonT(60) DEF CountInv
<1> QED BY <1>1, <1>4, Zenon DEF ListInv

\* Lists through a search.
LEMMA ListSearch ==
  ASSUME Shape, CountInv, ListInv, NEW t \in Eps, SearchFlush(t) \/ Hit(t) \/ Miss(t)
  PROVE  ListInv'
<1>a. pc[t] \in {"search", "lookup"} /\ pc \in [Eps -> Labels \cup {"none"}] /\ ent \in [Eps -> Nat]
  BY Zenon DEF SearchFlush, Hit, Miss, AtLookup, Shape
<1>1. CASE SearchFlush(t)
  <2>1. pc' = [pc EXCEPT ![t] = "flush"] /\ ent' = ent /\ UNCHANGED <<cacheVars, flist>>
    BY <1>1, Zenon DEF SearchFlush, Goto
  <2>2. pc'[t] = "flush" /\ \A u \in Eps : u # t => pc'[u] = pc[u] /\ ent'[u] = ent[u]
    BY <2>1, <1>a, Zenon
  <2> QED BY <1>a, <2>1, <2>2, QuietLists, Zenon
<1>2. CASE Hit(t)
  <2>1. PICK e \in Tree : HitEntry(t, e) /\ ent' = [ent EXCEPT ![t] = e]
    BY <1>2, ZenonT(60) DEF Hit, Matches
  <2>2. e \in Slots /\ slot[e].node
    BY Zenon DEF Tree
  <2>3. pc' = [pc EXCEPT ![t] = "ret"] /\ UNCHANGED <<dead, count, flist>>
    BY <1>2, Zenon DEF Hit, Goto
  <2>4. pc'[t] = "ret" /\ \A u \in Eps : u # t => pc'[u] = pc[u] /\ ent'[u] = ent[u]
    BY <2>1, <2>3, <1>a, Zenon
  <2>5. Making' = Making
    BY <1>a, <2>4, MakingElsewhere, Zenon
  <2>6. slot' = [slot EXCEPT ![e].use = @ + 1] /\ lru' = lru \ OffLru(e) /\ ahead' = Cut(ahead, OffLru(e))
    BY <2>1, Zenon DEF HitEntry, LruRemove, Cut, OffLru
  <2>7. Recounted(slot, slot', e, slot[e].use + 1)
    BY <2>6, <2>2, RecountedIs, ZenonT(60)
  <2>8. slot'[e].iov = slot[e].iov
    BY <2>2, <2>6, RecountedIov, Zenon
  <2>9. ListsAre(slot', flist, Making, lru \ OffLru(e), Cut(ahead, OffLru(e)), dead, count)
    BY <2>2, <2>7, <2>8, HitLists, Zenon
  <2> QED BY <2>3, <2>5, <2>6, <2>9, Zenon DEF ListInv
<1>3. CASE Miss(t)
  <2> DEFINE S == Matches(want[t])
             I == {e \in S : slot[e].use = 0}
  <2>1. /\ pc' = [pc EXCEPT ![t] = "create"] /\ UNCHANGED <<flist, ent>>
        /\ UncacheEntries(S)
    BY <1>3, Zenon DEF Miss, Goto, findVars
  <2>2. pc'[t] = "create" /\ \A u \in Eps : u # t => pc'[u] = pc[u] /\ ent'[u] = ent[u]
    BY <2>1, <1>a, Zenon
  <2>3. Making' = Making
    BY <1>a, <2>2, MakingElsewhere, Zenon
  <2>4. S \subseteq TreeOf(slot)
    BY Zenon DEF Matches, Tree, TreeOf
  <2> HIDE DEF S
  <2> QED BY <2>1, <2>3, <2>4, UncacheLists, Zenon
<1> QED BY <1>1, <1>2, <1>3, Zenon

\* Lists through the making of an entry.
LEMMA ListCreate ==
  ASSUME Shape, Phases, CountInv, ListInv, NEW t \in Eps,
         Create(t) \/ CreateNoEntry(t) \/ CreateRefused(t) \/ CreateAgain(t) \/ CreateNoNode(t)
  PROVE  ListInv'
<1>a. pc[t] = "create" /\ pc \in [Eps -> Labels \cup {"none"}] /\ ent \in [Eps -> Nat] /\ Making[t] = 0
  BY RefsAre, Zenon DEF Create, CreateNoEntry, CreateRefused, CreateAgain, CreateNoNode, Shape
<1>y. slot \in [Slots -> Entries]
  BY Zenon DEF Shape
<1>1. CASE Create(t)
  <2>1. PICK e \in Slots :
          /\ PoolHead(e) /\ ent' = [ent EXCEPT ![t] = e]
          /\ \E c \in Issued(e) : slot' = [slot EXCEPT ![e] = NewEntry(t, c)]
    BY <1>1, ZenonT(60) DEF Create
  <2>2. pc' = [pc EXCEPT ![t] = "insert"] /\ UNCHANGED <<lru, ahead, dead, count, flist>>
    BY <1>1, Zenon DEF Create, Goto
  <2>3. pc'[t] = "insert" /\ ent'[t] = e /\ \A u \in Eps : u # t => pc'[u] = pc[u] /\ ent'[u] = ent[u]
    BY <2>1, <2>2, <1>a, Zenon
  <2>4. Elsewhere(t, Making, Making') /\ Making'[t] = e
    BY <2>3, MakingElsewhere, Zenon DEF Making
  <2>5. ~slot[e].used
    BY <2>1, Zenon DEF PoolHead, FreeSlots
  <2>6. /\ Same(slot, slot', {e}) /\ slot'[e].used /\ ~slot'[e].node
        /\ slot'[e].use # 0 /\ slot'[e].use \in Nat
    BY <2>1, <1>y DEF Same, NewEntry
  <2>7. ListsAre(slot', flist, Making', lru, ahead, dead, count)
    BY <1>a, <2>4, <2>5, <2>6, CreateLists, Zenon DEF CountInv
  <2> QED BY <2>2, <2>7, Zenon DEF ListInv
<1>2. CASE CreateNoEntry(t) \/ CreateRefused(t) \/ CreateNoNode(t)
  <2>1. /\ pc' = [pc EXCEPT ![t] = "flush"]
        /\ UNCHANGED <<lru, ahead, dead, count, flist, ent>>
    BY <1>2, Zenon DEF CreateNoEntry, CreateRefused, CreateNoNode, CreateError, Goto
  <2>2. pc'[t] = "flush" /\ \A u \in Eps : u # t => pc'[u] = pc[u] /\ ent'[u] = ent[u]
    BY <2>1, <1>a, Zenon
  <2>3. CASE slot' = slot
    BY <2>1, <2>2, <2>3, <1>a, QuietLists, Zenon DEF cacheVars
  <2>4. CASE CreateNoNode(t)
    <3>1. PICK e \in Slots : PoolHead(e) /\ \E c \in Issued(e) : slot' = [slot EXCEPT ![e] = FreeSlot(c)]
      BY <2>4, ZenonT(60) DEF CreateNoNode
    <3>2. ~slot[e].used
      BY <3>1, Zenon DEF PoolHead, FreeSlots
    <3>3. Same(slot, slot', {e}) /\ ~slot'[e].used /\ ~slot'[e].node /\ slot'[e].use \in Nat
      BY <3>1, <1>y DEF Same, FreeSlot
    <3>4. Elsewhere(t, Making, Making') /\ Making'[t] = 0
      BY <2>2, MakingElsewhere, Zenon DEF Making
    <3>5. ListsAre(slot', flist, Making', lru, ahead, dead, count)
      BY <1>a, <3>2, <3>3, <3>4, CreateLists, Zenon DEF CountInv
    <3> QED BY <2>1, <3>5, Zenon DEF ListInv
  <2> QED BY <1>2, <2>3, <2>4, Zenon DEF CreateNoEntry, CreateRefused
<1>3. CASE CreateAgain(t)
  <2>1. pc' = [pc EXCEPT ![t] = "search"] /\ UNCHANGED <<cacheVars, flist, ent>>
    BY <1>3, Zenon DEF CreateAgain, Goto, findVars
  <2>2. pc'[t] = "search" /\ \A u \in Eps : u # t => pc'[u] = pc[u] /\ ent'[u] = ent[u]
    BY <2>1, <1>a, Zenon
  <2> QED BY <2>1, <2>2, <1>a, QuietLists, Zenon DEF cacheVars
<1> QED BY <1>1, <1>2, <1>3, Zenon

\* Lists through the insertion of an entry.
LEMMA ListInsert ==
  ASSUME Shape, Phases, CountInv, ListInv, NEW t \in Eps,
         InsertConflict(t) \/ InsertFull(t) \/ Insert(t) \/ InsertUnwatched(t)
  PROVE  ListInv'
<1> DEFINE e == ent[t]
<1>a. /\ pc[t] = "insert" /\ pc \in [Eps -> Labels \cup {"none"}] /\ ent \in [Eps -> Nat]
      /\ flist \in [Eps -> SUBSET Nat]
  BY Zenon DEF InsertConflict, InsertFull, Insert, InsertUnwatched, Shape
<1>b. Making[t] = e /\ e # 0 /\ flist[t] = {}
  BY <1>a, RefsAre, Zenon DEF Phases, Phase
<1>1. CASE InsertConflict(t)
  <2>1. /\ pc' = [pc EXCEPT ![t] = "free"]
        /\ flist' = [flist EXCEPT ![t] = {e}] /\ UNCHANGED <<slot, lru, ahead, dead, count, ent>>
    BY <1>1, Zenon DEF InsertConflict, Goto, cacheVars
  <2>2. /\ pc'[t] = "free" /\ \A u \in Eps : u # t => pc'[u] = pc[u] /\ ent'[u] = ent[u]
        /\ flist'[t] = {e} /\ Elsewhere(t, flist, flist')
    BY <2>1, <1>a, Zenon DEF Elsewhere
  <2>3. Elsewhere(t, Making, Making') /\ Making'[t] = 0
    BY <2>2, MakingElsewhere, Zenon DEF Making
  <2> HIDE DEF e
  <2>4. ListsAre(slot, flist', Making', lru, ahead, dead, count)
    BY <1>b, <2>2, <2>3, ConflictLists, Zenon DEF CountInv
  <2> QED BY <2>1, <2>4, Zenon DEF ListInv
<1>2. CASE InsertFull(t) \/ Insert(t) \/ InsertUnwatched(t)
  <2>1. pc' = [pc EXCEPT ![t] = "ret"] /\ UNCHANGED <<lru, ahead, dead, flist, ent>>
    BY <1>2, Zenon DEF InsertFull, Insert, InsertUnwatched, Goto, findVars
  <2>2. pc'[t] = "ret" /\ \A u \in Eps : u # t => pc'[u] = pc[u] /\ ent'[u] = ent[u]
    BY <2>1, <1>a, Zenon
  <2>3. Elsewhere(t, Making, Making') /\ Making'[t] = 0
    BY <2>2, MakingElsewhere, Zenon DEF Making
  <2>4. \/ slot' = slot /\ count' = Orphaned(count, {e})
        \/ slot' = slot /\ count' = Orphaned(Uncached(Cached(count, e), {e}), {e})
        \/ slot' = [slot EXCEPT ![e].node = TRUE] /\ count' = Cached(count, e)
    BY <1>2, Zenon DEF InsertFull, Insert, InsertUnwatched
  <2> HIDE DEF e
  <2>5. ListsAre(slot', flist, Making', lru, ahead, dead, count')
    BY <1>b, <2>3, <2>4, InsertLists, Zenon DEF CountInv
  <2> QED BY <2>1, <2>5, Zenon DEF ListInv
<1> QED BY <1>1, <1>2, Zenon

\* Lists through eviction and the freeing of entries.
LEMMA ListFree ==
  ASSUME Shape, Phases, CountInv, ListInv, NEW t \in Eps, Flush(t) \/ FreeEntry(t)
  PROVE  ListInv'
<1>a. /\ pc \in [Eps -> Labels \cup {"none"}] /\ ent \in [Eps -> Nat] /\ flist \in [Eps -> SUBSET Nat]
      /\ slot \in [Slots -> Entries]
  BY Zenon DEF Shape
<1>1. CASE Flush(t)
  <2> DEFINE old == Evicted(lruToo[t])
             taken == dead \cup old
  <2>1. /\ slot' = OutOfTree(old) /\ lru' = lru \ old /\ ahead' = Cut(ahead, old) /\ dead' = {}
        /\ count' = Uncached(count, old) /\ flist' = [flist EXCEPT ![t] = taken]
        /\ pc' = [pc EXCEPT ![t] = IF taken = {} THEN FlushNext(t, taken) ELSE "free"]
        /\ ent' = ent
    BY <1>1, Zenon DEF Flush, LruRemove, Cut, Goto
  <2>2. old \subseteq lru
    BY Zenon DEF Evicted
  <2>3. pc[t] = "flush" /\ flist[t] = {} /\ FlushNext(t, taken) # "insert"
    BY <1>1, Zenon DEF Flush, FlushNext, Phases, Phase
  <2> HIDE DEF old
  <2>4. /\ flist'[t] = dead \cup old /\ Elsewhere(t, flist, flist')
        /\ pc'[t] # "insert" /\ \A u \in Eps : u # t => pc'[u] = pc[u] /\ ent'[u] = ent[u]
    BY <2>1, <2>3, <1>a, Zenon DEF Elsewhere
  <2>5. Making' = Making
    BY <2>3, <2>4, MakingElsewhere, Zenon
  <2>6. old \subseteq Slots
    BY <2>2, ZenonT(60) DEF CountInv, Counted, Lists
  <2>7. /\ Same(slot, slot', old)
        /\ \A e \in old : slot'[e].used = slot[e].used /\ slot'[e].use = slot[e].use /\ ~slot'[e].node
        /\ \A e \in Slots : slot'[e].iov = slot[e].iov
    BY <2>1, <2>6, OutOfTreeIs, ZenonT(60) DEF Same
  <2>8. ListsAre(slot', flist', Making, lru \ old, Cut(ahead, old), {}, Uncached(count, old))
    BY <2>2, <2>3, <2>4, <2>7, FlushLists, ZenonT(60) DEF CountInv
  <2> QED BY <2>1, <2>5, <2>8, Zenon DEF ListInv
<1>2. CASE FreeEntry(t)
  <2>1. PICK e \in flist[t] :
          /\ slot' = [slot EXCEPT ![e] = FreeSlot(slot[e].cookie)]
          /\ flist' = [flist EXCEPT ![t] = @ \ {e}]
          /\ pc' = [pc EXCEPT ![t] = IF flist[t] = {e} THEN after[t] ELSE "free"]
          /\ ent' = [ent EXCEPT ![t] = 0]
    BY <1>2, ZenonT(60) DEF FreeEntry, Goto
  <2>2. pc[t] = "free" /\ after[t] # "insert" /\ UNCHANGED <<lru, ahead, dead, count>>
    BY <1>2, Zenon DEF FreeEntry, Phases, Phase
  <2>3. /\ flist'[t] = flist[t] \ {e} /\ Elsewhere(t, flist, flist')
        /\ pc'[t] # "insert" /\ \A u \in Eps : u # t => pc'[u] = pc[u] /\ ent'[u] = ent[u]
    BY <2>1, <2>2, <1>a, Zenon DEF Elsewhere
  <2>4. Making' = Making
    BY <2>2, <2>3, MakingElsewhere, Zenon
  <2>5. e \in Slots
    BY Zenon DEF CountInv, Counted, Lists
  <2>6. Same(slot, slot', {e}) /\ ~slot'[e].used /\ ~slot'[e].node /\ slot'[e].use \in Nat
    BY ONLY <2>1, <2>5, <1>a, ZenonT(60) DEF Same, FreeSlot
  <2>7. ListsAre(slot', flist', Making, lru, ahead, dead, count)
    BY <2>3, <2>6, FreeLists, Zenon DEF CountInv
  <2> QED BY <2>2, <2>4, <2>7, Zenon DEF ListInv
<1> QED BY <1>1, <1>2, Zenon

\* the steps of an endpoint that leave the cache alone
LeavesCache(t) ==
  \/ SendRndzv(t) \/ CacheGet(t) \/ CacheGot(t) \/ RegInternal(t) \/ RegFails(t) \/ PostRts(t) \/ PostFails(t)
  \/ Fin(t) \/ PutDone(t) \/ CloseSocket(t) \/ EpEnable(t) \/ EpClose(t)

\* Such a step leaves lists, pool and counters alone, and inserts nothing.
LEMMA LeavesCacheIs ==
  ASSUME Shape, NEW t \in Eps, LeavesCache(t)
  PROVE  /\ UNCHANGED <<cacheVars, flist>>
         /\ \A u \in Eps : u # t => pc'[u] = pc[u] /\ ent'[u] = ent[u]
         /\ pc[t] # "insert" /\ pc'[t] # "insert"
         /\ pc'[t] = "search" => cacheOn
         /\ pc'[t] \in {"idle", "chunk", "search", "put", "closed"}
<1>a. pc \in [Eps -> Labels \cup {"none"}] /\ ent \in [Eps -> Nat]
  BY Zenon DEF Shape
<1>1. /\ UNCHANGED <<cacheVars, flist>>
      /\ pc[t] # "insert"
      /\ \/ pc' = pc /\ pc[t] = "chunk"
         \/ \E l \in {"idle", "chunk", "put", "closed"} : pc' = [pc EXCEPT ![t] = l]
         \/ pc' = [pc EXCEPT ![t] = "search"] /\ cacheOn
      /\ ent' = ent \/ ent' = [ent EXCEPT ![t] = 0]
  <2>1. CASE SendRndzv(t) \/ Fin(t) \/ PostRts(t)
    BY <2>1, ZenonT(60) DEF SendRndzv, Fin, PostRts, AllGot, Goto, findVars
  <2>2. CASE CacheGet(t) \/ CacheGot(t) \/ RegInternal(t)
    BY <2>2, ZenonT(60) DEF CacheGet, CacheGot, RegInternal, AtChunk, SearchReturns, Goto, findVars
  <2>3. CASE RegFails(t) \/ PostFails(t)
    BY <2>3, ZenonT(60) DEF RegFails, PostFails, ErrUnreg, AtChunk, AllGot, SearchReturns, Goto, findVars
  <2>4. CASE PutDone(t) \/ CloseSocket(t) \/ EpEnable(t) \/ EpClose(t)
    BY <2>4, ZenonT(60) DEF PutDone, CloseSocket, EpEnable, EpClose, Goto, findVars
  <2> QED BY <2>1, <2>2, <2>3, <2>4, Zenon DEF LeavesCache
<1>2. \A u \in Eps : u # t => pc'[u] = pc[u] /\ ent'[u] = ent[u]
  BY <1>1, <1>a, ZenonT(60)
<1>3. pc'[t] \in {"idle", "chunk", "search", "put", "closed"} /\ (pc'[t] = "search" => cacheOn)
  BY <1>1, <1>a, ZenonT(60)
<1> QED BY <1>1, <1>2, <1>3, ZenonT(60)

\* Lists through the steps that leave the cache alone.
LEMMA ListQuiet ==
  ASSUME Shape, ListInv, NEW t \in Eps, LeavesCache(t)
  PROVE  ListInv'
BY LeavesCacheIs, QuietLists, Zenon

\* Lists through ofi_mr_cache_delete.
LEMMA ListPut ==
  ASSUME Shape, cacheOn, Phases, CountInv, ListInv, NEW t \in Eps, Put(t)
  PROVE  ListInv'
<1>a. /\ pc \in [Eps -> Labels \cup {"none"}] /\ ent \in [Eps -> Nat] /\ flist \in [Eps -> SUBSET Nat]
  BY Zenon DEF Shape
<1>1. PICK h \in held[t] : CacheDelete(t, h.id, "put")
  BY ZenonT(60) DEF Put, ToPut
<1> DEFINE e == h.id
           gone == slot[e].use = 1 /\ ~slot[e].node
<1>2. /\ slot' = [slot EXCEPT ![e].use = @ - 1]
      /\ flist' = [flist EXCEPT ![t] = IF gone THEN {e} ELSE {}]
      /\ pc' = [pc EXCEPT ![t] = IF gone THEN "free" ELSE "put"]
      /\ UNCHANGED <<dead, ent>>
  BY <1>1, Zenon DEF CacheDelete, Goto
<1>3. \/ slot[e].use = 1 /\ slot[e].node /\ lru' = lru \cup {e} /\ ahead' = ahead \cup (lru \X {e})
           /\ count' = count /\ flist' = [flist EXCEPT ![t] = {}]
      \/ slot[e].use = 1 /\ ~slot[e].node /\ lru' = lru /\ ahead' = ahead
           /\ count' = PutBack(count, e) /\ flist' = [flist EXCEPT ![t] = {e}]
      \/ slot[e].use # 1 /\ lru' = lru /\ ahead' = ahead /\ count' = count /\ flist' = [flist EXCEPT ![t] = {}]
  BY <1>1, ZenonT(60) DEF CacheDelete, LruInsertTail, PutBack
<1>4. pc[t] = "put" /\ flist[t] = {}
  BY Zenon DEF Put, Phases, Phase
<1>5. h \in Refs[t] /\ Making[t] = 0
  BY <1>4, RefsAre, Zenon
<1>6. e \in Slots
  BY <1>5, Zenon DEF CountInv, Counted, Live
<1>7. Recounted(slot, slot', e, slot[e].use - 1) /\ slot'[e].iov = slot[e].iov
  BY <1>2, <1>6, RecountedIs, RecountedIov, ZenonT(60)
<1> HIDE DEF gone, e
<1>8. Elsewhere(t, flist, flist') /\ (\A S : flist' = [flist EXCEPT ![t] = S] => flist'[t] = S)
  BY <1>2, <1>a, Zenon DEF Elsewhere
<1>9. pc'[t] # "insert" /\ \A u \in Eps : u # t => pc'[u] = pc[u] /\ ent'[u] = ent[u]
  BY <1>2, <1>a, Zenon
<1>10. Making' = Making
  BY <1>4, <1>9, MakingElsewhere, Zenon
<1>11. h.id = e
  BY Zenon DEF e
<1>12. \/ slot[e].use = 1 /\ slot[e].node /\ lru' = lru \cup {e} /\ ahead' = ahead \cup (lru \X {e})
            /\ count' = count /\ flist'[t] = {}
       \/ slot[e].use = 1 /\ ~slot[e].node /\ lru' = lru /\ ahead' = ahead
            /\ count' = PutBack(count, e) /\ flist'[t] = {e}
       \/ slot[e].use # 1 /\ lru' = lru /\ ahead' = ahead /\ count' = count /\ flist'[t] = {}
  BY <1>3, <1>8, Zenon
<1>13. ListsAre(slot', flist', Making, lru', ahead', dead, count')
  BY <1>4, <1>5, <1>7, <1>8, <1>11, <1>12, DeleteLists, ZenonT(60) DEF CountInv
<1> QED BY <1>2, <1>10, <1>13, Zenon DEF ListInv

\* Lists through the close of the domain, an unmap, and stuttering.
LEMMA ListRest ==
  ASSUME Shape, CountInv, ListInv, DomainClose \/ UnmapPage \/ UNCHANGED vars
  PROVE  ListInv'
<1>1. UNCHANGED <<pc, ent, flist>>
  BY ZenonT(60) DEF DomainClose, UnmapPage, Unmap, vars, mrVars, findVars
<1>2. Making' = Making
  BY <1>1, Zenon DEF Making
<1>3. CASE DomainClose
  <2>1. /\ slot' = [e \in Slots |-> IF e \in lru \cup dead THEN FreeSlot(slot[e].cookie) ELSE slot[e]]
        /\ lru' = {} /\ ahead' = {} /\ dead' = {} /\ count' = Uncached(count, lru)
    BY <1>3, Zenon DEF DomainClose
  <2>2. lru \cup dead \subseteq Slots
    BY Zenon DEF CountInv, Counted, Lists
  <2>3. /\ Same(slot, slot', lru \cup dead)
        /\ \A e \in lru \cup dead : ~slot'[e].used /\ ~slot'[e].node /\ slot'[e].use \in Nat
    BY ONLY <2>1, <2>2, Zenon DEF Same, FreeSlot
  <2>4. ListsAre(slot', flist, Making, {}, {}, {}, Uncached(count, lru))
    BY <2>3, CleanupLists, Zenon DEF CountInv
  <2> QED BY <1>1, <1>2, <2>1, <2>4, Zenon DEF ListInv
<1>4. CASE UnmapPage
  <2>1. PICK p \in Pages : Unmap(p)
    BY <1>4, Zenon DEF UnmapPage
  <2>2. Notified(p) \subseteq TreeOf(slot)
    BY Zenon DEF Notified, Tree, TreeOf
  <2>3. UncacheEntries(Notified(p))
    BY <2>1, Zenon DEF Unmap
  <2> QED BY <1>1, <1>2, <2>2, <2>3, UncacheLists, Zenon
<1>5. CASE UNCHANGED vars
  BY <1>1, <1>2, <1>5, Zenon DEF ListInv, vars, mrVars, cacheVars
<1> QED BY <1>3, <1>4, <1>5, Zenon

-----------------------------------------------------------------------------
(* Closing *)

\* an endpoint that was never enabled or is closing has no operation in flight
Gate(t) ==
  /\ pc[t] = "off" => pend[t] = {}
  /\ closing[t] => pend[t] = {} /\ (pc[t] \in {"put", "closed"} \/ (pc[t] = "free" /\ after[t] = "put"))
  /\ pc[t] = "closed" => closing[t]
  /\ ~open => pc[t] \in {"off", "closed"}

Shut == (\A t \in Eps : Gate(t)) /\ (~open => lru = {} /\ dead = {})

\* One endpoint moves while the domain is open.
LEMMA GateMoves ==
  ASSUME Shut, NEW t \in Eps, open, open',
         \A u \in Eps : u # t => /\ pc'[u] = pc[u] /\ after'[u] = after[u]
                                 /\ pend'[u] = pend[u] /\ closing'[u] = closing[u],
         Gate(t)'
  PROVE  Shut'
<1>1. ASSUME NEW u \in Eps, u # t PROVE Gate(u)'
  BY <1>1, ZenonT(60) DEF Shut, Gate
<1> QED BY <1>1, Zenon DEF Shut

\* Through the steps of the cache.
LEMMA ShutCache ==
  ASSUME Shape, Shut, closing \in [Eps -> BOOLEAN], NEW t \in Eps, CacheStep(t), UNCHANGED sendVars
  PROVE  Shut'
<1>a. pc \in [Eps -> Labels \cup {"none"}] /\ after \in [Eps -> {"none", "lookup", "search", "put"}]
  BY Zenon DEF Shape
<1>s. UNCHANGED <<open, pend, closing>>
  BY Zenon DEF sendVars
<1>g. Gate(t)
  BY Zenon DEF Shut
<1>1. CASE FreeEntry(t)
  <2>1. PICK e \in flist[t] :
          /\ pc' = [pc EXCEPT ![t] = IF flist[t] = {e} THEN after[t] ELSE "free"]
          /\ after' = [after EXCEPT ![t] = IF flist[t] = {e} THEN "none" ELSE @]
    BY <1>1, ZenonT(60) DEF FreeEntry, Goto
  <2>2. pc[t] = "free"
    BY <1>1, Zenon DEF FreeEntry
  <2>3. /\ pc'[t] = IF flist[t] = {e} THEN after[t] ELSE "free"
        /\ after'[t] = IF flist[t] = {e} THEN "none" ELSE after[t]
        /\ \A u \in Eps : u # t => pc'[u] = pc[u] /\ after'[u] = after[u]
    BY <2>1, <1>a, Zenon
  <2>4. after[t] \in {"none", "lookup", "search", "put"}
    BY <1>a, Zenon
  <2>5. open /\ open'
    BY <2>2, <1>g, <1>s, Zenon DEF Gate
  <2>6. Gate(t)'
    BY <2>2, <2>3, <2>4, <2>5, <1>g, <1>s, ZenonT(60) DEF Gate
  <2> QED BY <2>3, <2>5, <2>6, <1>s, GateMoves, Zenon
<1>2. CASE ~FreeEntry(t)
  <2>1. /\ pc[t] \in {"search", "lookup", "create", "insert", "flush"}
        /\ \E l : pc' = [pc EXCEPT ![t] = l] /\ l \notin {"off", "closed"}
        /\ after' = after \/ \E l : after' = [after EXCEPT ![t] = l]
    <3>1. CASE SearchFlush(t) \/ Hit(t) \/ Miss(t)
      BY <3>1, ZenonT(60) DEF SearchFlush, Hit, Miss, AtLookup, Goto, findVars
    <3>2. CASE Create(t) \/ CreateNoEntry(t) \/ CreateRefused(t) \/ CreateAgain(t) \/ CreateNoNode(t)
      BY <3>2, ZenonT(60)
         DEF Create, CreateNoEntry, CreateRefused, CreateAgain, CreateNoNode, CreateError, Goto, findVars
    <3>3. CASE InsertConflict(t) \/ InsertFull(t) \/ Insert(t) \/ InsertUnwatched(t)
      BY <3>3, ZenonT(60) DEF InsertConflict, InsertFull, Insert, InsertUnwatched, Goto, findVars
    <3>4. CASE Flush(t)
      <4>1. PICK S : /\ pc' = [pc EXCEPT ![t] = IF S = {} THEN FlushNext(t, S) ELSE "free"]
                     /\ \E l : after' = [after EXCEPT ![t] = l]
        BY <3>4, Zenon DEF Flush, Goto
      <4> DEFINE l == IF S = {} THEN FlushNext(t, S) ELSE "free"
      <4>2. l \notin {"off", "closed"}
        BY <1>a, ZenonT(60) DEF FlushNext
      <4>3. pc[t] = "flush"
        BY <3>4, Zenon DEF Flush
      <4>4. pc' = [pc EXCEPT ![t] = l]
        BY <4>1, Zenon
      <4> HIDE DEF l
      <4> QED BY <4>1, <4>2, <4>3, <4>4, ZenonT(60)
    <3> QED BY <1>2, <3>1, <3>2, <3>3, <3>4, Zenon DEF CacheStep
  <2>2. pc'[t] \notin {"off", "closed"} /\ \A u \in Eps : u # t => pc'[u] = pc[u] /\ after'[u] = after[u]
    BY <2>1, <1>a, ZenonT(60)
  <2>3. open /\ open' /\ ~closing[t]
    BY <2>1, <1>g, <1>s, ZenonT(60) DEF Gate
  <2>4. Gate(t)'
    BY <2>2, <2>3, <1>s, Zenon DEF Gate
  <2> QED BY <2>2, <2>3, <2>4, <1>s, GateMoves, Zenon
<1> QED BY <1>1, <1>2, Zenon

\* Through the steps of sends and endpoints.
LEMMA ShutSend ==
  ASSUME Shape, Shut, closing \in [Eps -> BOOLEAN], NEW t \in Eps, LeavesCache(t) \/ Put(t)
  PROVE  Shut' /\ closing' \in [Eps -> BOOLEAN]
<1>a. /\ pc \in [Eps -> Labels \cup {"none"}] /\ after \in [Eps -> {"none", "lookup", "search", "put"}]
      /\ pend \in [Eps -> SUBSET Nat]
  BY Zenon DEF Shape
<1>g. Gate(t)
  BY Zenon DEF Shut
<1>1. CASE \/ SendRndzv(t) \/ CacheGet(t) \/ CacheGot(t) \/ RegInternal(t)
           \/ RegFails(t) \/ PostRts(t) \/ PostFails(t)
  <2>1. /\ pc[t] \in {"idle", "chunk", "ret", "fail"} /\ UNCHANGED <<open, closing>>
        /\ pc' = pc \/ \E l \in {"chunk", "search", "put", "idle"} : pc' = [pc EXCEPT ![t] = l]
        /\ after' = after \/ after' = [after EXCEPT ![t] = "none"]
        /\ pend' = pend \/ \E P : pend' = [pend EXCEPT ![t] = P]
    <3>1. CASE SendRndzv(t) \/ PostRts(t)
      BY <3>1, ZenonT(60) DEF SendRndzv, PostRts, AllGot, Goto, findVars
    <3>2. CASE CacheGet(t) \/ CacheGot(t) \/ RegInternal(t)
      BY <3>2, ZenonT(60) DEF CacheGet, CacheGot, RegInternal, Took, AtChunk, SearchReturns, Goto, findVars, sendVars
    <3>3. CASE RegFails(t) \/ PostFails(t)
      BY <3>3, ZenonT(60) DEF RegFails, PostFails, ErrUnreg, AtChunk, AllGot, SearchReturns, Goto, findVars
    <3> QED BY <1>1, <3>1, <3>2, <3>3, Zenon
  <2>2. /\ pc'[t] \in {"idle", "chunk", "ret", "fail", "search", "put"}
        /\ \A u \in Eps : u # t => pc'[u] = pc[u] /\ after'[u] = after[u] /\ pend'[u] = pend[u] /\ closing'[u] = closing[u]
    BY <2>1, <1>a, ZenonT(60)
  <2>3. open /\ open' /\ ~closing[t] /\ ~closing'[t]
    BY <2>1, <1>g, ZenonT(60) DEF Gate
  <2>4. Gate(t)'
    BY <2>2, <2>3, ZenonT(60) DEF Gate
  <2> QED BY <2>1, <2>2, <2>3, <2>4, GateMoves, Zenon
<1>2. CASE Fin(t) \/ PutDone(t) \/ EpEnable(t)
  <2>1. /\ pc[t] \in {"idle", "put", "off"} /\ UNCHANGED <<open, closing, after>> /\ open /\ ~closing[t]
        /\ \E l \in {"put", "idle"} : pc' = [pc EXCEPT ![t] = l]
        /\ pend' = pend \/ \E P : pend' = [pend EXCEPT ![t] = P]
    BY <1>2, <1>g, ZenonT(60) DEF Fin, PutDone, EpEnable, Goto, findVars, sendVars, Gate
  <2>2. /\ pc'[t] \in {"idle", "put"}
        /\ \A u \in Eps : u # t => pc'[u] = pc[u] /\ after'[u] = after[u] /\ pend'[u] = pend[u] /\ closing'[u] = closing[u]
    BY <2>1, <1>a, ZenonT(60)
  <2>3. Gate(t)'
    BY <2>1, <2>2, Zenon DEF Gate
  <2> QED BY <2>1, <2>2, <2>3, GateMoves, Zenon
<1>3. CASE EpClose(t) \/ CloseSocket(t)
  <2>1. /\ pc[t] \in {"idle", "put"} /\ UNCHANGED <<open, after>> /\ open
        /\ \E l \in {"put", "closed"} : pc' = [pc EXCEPT ![t] = l]
        /\ (pend' = pend /\ pend[t] = {}) \/ pend' = [pend EXCEPT ![t] = {}]
        /\ (closing' = closing /\ closing[t]) \/ closing' = [closing EXCEPT ![t] = TRUE]
    BY <1>3, <1>g, ZenonT(60) DEF EpClose, CloseSocket, Goto, findVars, Gate
  <2>2. /\ pc'[t] \in {"closed", "put"} /\ pend'[t] = {} /\ closing'[t] /\ closing' \in [Eps -> BOOLEAN]
        /\ \A u \in Eps : u # t => pc'[u] = pc[u] /\ after'[u] = after[u] /\ pend'[u] = pend[u] /\ closing'[u] = closing[u]
    BY <2>1, <1>a, ZenonT(60)
  <2>3. Gate(t)'
    BY <2>1, <2>2, Zenon DEF Gate
  <2> QED BY <2>1, <2>2, <2>3, GateMoves, Zenon
<1>4. CASE Put(t)
  <2>1. /\ pc[t] = "put" /\ UNCHANGED <<open, pend, closing>>
        /\ \/ UNCHANGED <<pc, after>>
           \/ pc' = [pc EXCEPT ![t] = "free"] /\ after' = [after EXCEPT ![t] = "put"]
           \/ pc' = [pc EXCEPT ![t] = "put"] /\ after' = [after EXCEPT ![t] = "none"]
    BY <1>4, ZenonT(60) DEF Put, CacheDelete, Goto, findVars
  <2>2. /\ pc'[t] = "put" \/ (pc'[t] = "free" /\ after'[t] = "put")
        /\ \A u \in Eps : u # t => pc'[u] = pc[u] /\ after'[u] = after[u]
    BY <2>1, <1>a, ZenonT(60)
  <2>3. open /\ open'
    BY <2>1, <1>g, Zenon DEF Gate
  <2>4. Gate(t)'
    BY <2>1, <2>2, <2>3, <1>g, ZenonT(60) DEF Gate
  <2> QED BY <2>1, <2>2, <2>3, <2>4, GateMoves, Zenon
<1> QED BY <1>1, <1>2, <1>3, <1>4, Zenon DEF LeavesCache

\* Through the close of the domain, an unmap and stuttering.
LEMMA ShutRest ==
  ASSUME Shut, closing \in [Eps -> BOOLEAN], DomainClose \/ UnmapPage \/ UNCHANGED vars
  PROVE  Shut' /\ closing' \in [Eps -> BOOLEAN]
<1>1. UNCHANGED <<pc, after, pend, closing>>
  BY ZenonT(60) DEF DomainClose, UnmapPage, Unmap, vars, mrVars, findVars, sendVars
<1>2. CASE DomainClose
  <2>1. (\A t \in Eps : pc[t] \in {"off", "closed"}) /\ lru' = {} /\ dead' = {}
    BY <1>2, Zenon DEF DomainClose
  <2> QED BY <1>1, <2>1, ZenonT(60) DEF Shut, Gate
<1>3. CASE UnmapPage
  <2>1. open /\ open' = open
    BY <1>3, Zenon DEF UnmapPage, sendVars
  <2> QED BY <1>1, <2>1, ZenonT(60) DEF Shut, Gate
<1>4. CASE UNCHANGED vars
  <2>1. UNCHANGED <<open, lru, dead>>
    BY <1>4, Zenon DEF vars, mrVars, cacheVars, sendVars
  <2> QED BY <1>1, <2>1, ZenonT(60) DEF Shut, Gate
<1> QED BY <1>2, <1>3, <1>4, Zenon

-----------------------------------------------------------------------------
(* Without the cache *)

Bypassed ==
  /\ \A t \in Eps : pc[t] \in {"off", "idle", "chunk", "put", "closed"} /\ flist[t] = {}
  /\ \A e \in Slots : ~slot[e].used /\ ~slot[e].node /\ slot[e].use \in Nat
  /\ lru = {} /\ ahead = {} /\ dead = {}
  /\ count = Tally(slot, {}, {})

\* Without the cache no endpoint is in it.
LEMMA BypassedIdle ==
  ASSUME Bypassed, NEW t \in Eps
  PROVE  ~CacheStep(t)
<1>1. pc[t] \notin {"search", "lookup", "create", "insert", "flush", "free"}
  BY ZenonT(60) DEF Bypassed
<1>2. ~(SearchFlush(t) \/ Hit(t) \/ Miss(t))
  BY <1>1, ZenonT(60) DEF SearchFlush, Hit, Miss, AtLookup
<1>3. ~(Create(t) \/ CreateNoEntry(t) \/ CreateRefused(t) \/ CreateAgain(t) \/ CreateNoNode(t))
  BY <1>1, ZenonT(60) DEF Create, CreateNoEntry, CreateRefused, CreateAgain, CreateNoNode
<1>4. ~(InsertConflict(t) \/ InsertFull(t) \/ Insert(t) \/ InsertUnwatched(t) \/ Flush(t) \/ FreeEntry(t))
  BY <1>1, ZenonT(60) DEF InsertConflict, InsertFull, Insert, InsertUnwatched, Flush, FreeEntry
<1> QED BY <1>2, <1>3, <1>4, ZenonT(60) DEF CacheStep

\* An endpoint that does not use the cache leaves it alone.
LEMMA BypassedMoves ==
  ASSUME Shape, ~cacheOn, Bypassed, NEW t \in Eps, Call(t) \/ Start(t)
  PROVE  Bypassed'
<1>1. ~CacheStep(t)
  BY BypassedIdle, Zenon
<1>2. CASE Put(t)
  <2>1. UNCHANGED <<slot, lru, ahead, dead, count, pc, flist>>
    BY <1>2, ZenonT(60) DEF Put, cacheVars, findVars
  <2> QED BY <2>1, ZenonT(60) DEF Bypassed
<1>3. CASE LeavesCache(t)
  <2>1. /\ UNCHANGED <<cacheVars, flist>>
        /\ \A u \in Eps : u # t => pc'[u] = pc[u]
        /\ pc'[t] \in {"idle", "chunk", "put", "closed"}
    <3>1. /\ UNCHANGED <<cacheVars, flist>> /\ \A u \in Eps : u # t => pc'[u] = pc[u]
          /\ pc'[t] = "search" => cacheOn
          /\ pc'[t] \in {"idle", "chunk", "search", "put", "closed"}
      BY <1>3, LeavesCacheIs, ZenonT(60)
    <3> QED BY <3>1, ZenonT(60)
  <2>2. \A u \in Eps : pc'[u] \in {"off", "idle", "chunk", "put", "closed"}
    BY <2>1, ZenonT(60) DEF Bypassed
  <2>3. UNCHANGED <<slot, lru, ahead, dead, count, flist>>
    BY <2>1, Zenon DEF cacheVars
  <2> QED BY <2>2, <2>3, ZenonT(60) DEF Bypassed
<1> QED BY <1>1, <1>2, <1>3, ZenonT(60) DEF Call, Start, LeavesCache

\* So do the domain's close and an unmap.
LEMMA BypassedRest ==
  ASSUME CardFacts, Shape, Bypassed, DomainClose \/ UnmapPage \/ UNCHANGED vars
  PROVE  Bypassed'
<1>1. UNCHANGED <<pc, flist>>
  BY ZenonT(60) DEF DomainClose, UnmapPage, Unmap, vars, mrVars, findVars
<1>a. slot \in [Slots -> Entries]
  BY Zenon DEF Shape
<1>b. lru = {} /\ ahead = {} /\ dead = {} /\ count = Tally(slot, {}, {}) /\ \A e \in Slots : ~slot[e].node
  BY Zenon DEF Bypassed
<1>c. Uncached(count, {}) = Tally(slot, {}, {})
  <2>1. {} \ {} = {}
    BY Zenon
  <2>2. Uncached(Tally(slot, {}, {}), {}) = Tally(slot, {} \ {}, {})
    BY <1>a, UncachedTally, Zenon
  <2> QED BY <2>1, <2>2, <1>b, Zenon
<1>2. CASE DomainClose
  <2>1. slot' = [e \in Slots |-> IF e \in lru \cup dead THEN FreeSlot(slot[e].cookie) ELSE slot[e]]
        /\ count' = Uncached(count, lru) /\ lru' = {} /\ ahead' = {} /\ dead' = {}
    BY <1>2, Zenon DEF DomainClose
  <2>2. slot' = [e \in Slots |-> slot[e]]
    BY <2>1, <1>b, Zenon
  <2>3. slot' = slot
    BY <2>2, <1>a, Zenon
  <2> QED BY <1>1, <1>b, <1>c, <2>1, <2>3, ZenonT(60) DEF Bypassed
<1>3. CASE UnmapPage
  <2>1. PICK p \in Pages : Unmap(p)
    BY <1>3, Zenon DEF UnmapPage
  <2>2. Notified(p) = {}
    BY <1>b, Zenon DEF Notified, Tree
  <2>3. UncacheEntries({})
    BY <2>1, <2>2, Zenon DEF Unmap
  <2>4. /\ slot' = OutOfTree({}) /\ LruRemove({}) /\ dead' = dead \cup {}
        /\ count' = Orphaned(Uncached(count, {}), {} \ {})
    <3>1. {e \in {} : slot[e].use = 0} = {}
      BY Zenon
    <3> DEFINE I == {e \in {} : slot[e].use = 0}
    <3>2. /\ slot' = OutOfTree({}) /\ LruRemove(I) /\ dead' = dead \cup I
          /\ count' = Orphaned(Uncached(count, {}), {} \ I)
      BY <2>3, Zenon DEF UncacheEntries
    <3>3. I = {}
      BY <3>1, Zenon
    <3> HIDE DEF I
    <3> QED BY <3>2, <3>3, Zenon
  <2>5. slot' = slot
    <3>1. slot' = [e \in Slots |-> slot[e]]
      BY <2>4, Zenon DEF OutOfTree
    <3> QED BY <3>1, <1>a, Zenon
  <2>6. lru' = {} /\ ahead' = {} /\ dead' = {}
    BY <2>4, <1>b, Zenon DEF LruRemove
  <2>7. count' = Tally(slot, {}, {})
    <3>1. {} \ {} = {} /\ {} \cup {} = {} /\ {} \cap {} = {}
      BY Zenon
    <3>2. Orphaned(Tally(slot, {}, {}), {}) = Tally(slot, {}, {} \cup {})
      BY <1>a, <3>1, OrphanedTally, SMT
    <3> QED BY <2>4, <1>c, <3>1, <3>2, Zenon
  <2> QED BY <1>1, <1>b, <2>5, <2>6, <2>7, ZenonT(60) DEF Bypassed
<1>4. CASE UNCHANGED vars
  <2>1. UNCHANGED <<slot, lru, ahead, dead, count, pc, flist>>
    BY <1>4, Zenon DEF vars, mrVars, cacheVars, findVars
  <2> QED BY <2>1, ZenonT(60) DEF Bypassed
<1> QED BY <1>2, <1>3, <1>4, Zenon

-----------------------------------------------------------------------------
(* The inductive invariant of the lists *)

ListsInv ==
  /\ CardFacts /\ Inv /\ Shut /\ closing \in [Eps -> BOOLEAN]
  /\ cacheOn => ListInv
  /\ ~cacheOn => Bypassed

\* No entries, no lists, no counts at the start.
LEMMA ListsInit == CardFacts /\ Init => ListsInv
<1> SUFFICES ASSUME CardFacts, Init PROVE ListsInv
  BY Zenon
<1>1. Inv
  BY InvInit, Zenon
<1>2. Shut /\ closing \in [Eps -> BOOLEAN]
  BY ZenonT(60) DEF Init, CacheInit, Shut, Gate
<1>3. /\ lru = {} /\ ahead = {} /\ dead = {}
      /\ \A e \in Slots : ~slot[e].used /\ ~slot[e].node /\ slot[e].use = 0
      /\ \A t \in Eps : pc[t] = "off" /\ flist[t] = {}
  BY Zenon DEF Init, CacheInit, FreeSlot
<1>4. count = Tally(slot, {}, {})
  <2>1. Cardinality({}) = 0
    BY Zenon DEF CardFacts
  <2>2. PagesIn(slot, {}) = {}
    BY PagesInAre
  <2>3. Sized(slot, {}) = 0
    BY <2>1, <2>2, Zenon DEF Sized
  <2>4. count = [cnt |-> 0, size |-> 0, ucnt |-> 0, usize |-> 0]
    BY Zenon DEF Init, CacheInit
  <2> QED BY <2>1, <2>3, <2>4, Zenon DEF Tally
<1>5. Bypassed
  <2>1. \A e \in Slots : slot[e].use \in Nat
    BY <1>3, SMT
  <2> QED BY <1>3, <1>4, <2>1, ZenonT(60) DEF Bypassed
<1>6. ListInv
  <2>1. TreeOf(slot) = {} /\ IdleOf(slot) = {} /\ DeadOf(slot, flist) = {} /\ OrphansOf(slot, flist, Making) = {}
    BY <1>3, ZenonT(60) DEF TreeOf, IdleOf, DeadOf, OrphansOf
  <2>2. Ordered({}, {})
    BY Zenon DEF Ordered
  <2>3. \A e \in Slots : slot[e].use \in Nat
    BY <1>3, SMT
  <2> QED BY <1>3, <1>4, <2>1, <2>2, <2>3, ZenonT(60) DEF ListInv, ListsAre
<1> QED BY <1>1, <1>2, <1>5, <1>6, Zenon DEF ListsInv

\* No step turns the cache on or off.
LEMMA SwitchStays == [Next]_vars => cacheOn' = cacheOn
BY ZenonT(60)
    DEF Next, Call, Start, vars, sendVars, CacheGet, CacheGot, Took, RegInternal, RegFails,
            ErrUnreg, PostRts, PostFails, Put, PutDone, CloseSocket, SendRndzv, Fin, EpEnable,
            EpClose, DomainClose, UnmapPage

\* Every step keeps the lists.
LEMMA ListsStep == ListsInv /\ [Next]_vars => ListsInv'
<1> SUFFICES ASSUME ListsInv, [Next]_vars PROVE ListsInv'
  BY Zenon
<1>0. CardFacts
  BY Zenon DEF ListsInv
<1>1. Inv /\ Inv' /\ Shape /\ cacheOn' = cacheOn /\ Shut /\ closing \in [Eps -> BOOLEAN]
  BY InvStep, SwitchStays, ZenonT(60) DEF Inv, ListsInv
<1>2. Shut' /\ closing' \in [Eps -> BOOLEAN]
  <2>1. ASSUME NEW t \in Eps, Call(t) \/ Start(t) PROVE Shut' /\ closing' \in [Eps -> BOOLEAN]
    <3>1. CASE CacheStep(t) /\ UNCHANGED sendVars
      BY <3>1, <1>1, ShutCache, ZenonT(60) DEF sendVars
    <3>2. CASE LeavesCache(t) \/ Put(t)
      BY <3>2, <1>1, ShutSend, Zenon
    <3> QED BY <2>1, <3>1, <3>2, ZenonT(60) DEF Call, Start, LeavesCache
  <2> QED BY <2>1, <1>1, ShutRest, ZenonT(60) DEF Next
<1>3. ASSUME cacheOn PROVE ListInv'
  <2>1. Phases /\ CountInv /\ ListInv
    BY <1>3, Zenon DEF ListsInv, Inv
  <2>2. ASSUME NEW t \in Eps, Call(t) \/ Start(t) PROVE ListInv'
    <3>1. CASE CacheStep(t)
      BY <3>1, <1>1, <2>1, ListSearch, ListCreate, ListInsert, ListFree, ZenonT(60) DEF CacheStep
    <3>2. CASE LeavesCache(t)
      BY <3>2, <1>1, <2>1, ListQuiet, Zenon
    <3>3. CASE Put(t)
      BY <3>3, <1>1, <1>3, <2>1, ListPut, Zenon
    <3> QED BY <2>2, <3>1, <3>2, <3>3, ZenonT(60) DEF Call, Start, LeavesCache
  <2> QED BY <2>1, <2>2, <1>1, ListRest, ZenonT(60) DEF Next
<1>4. ASSUME ~cacheOn PROVE Bypassed'
  BY <1>0, <1>1, <1>4, BypassedMoves, BypassedRest, ZenonT(60) DEF Next, ListsInv
<1> QED BY <1>0, <1>1, <1>2, <1>3, <1>4, ZenonT(60) DEF ListsInv

\* When every endpoint is closed, no send holds anything.
LEMMA NothingHeldAtEnd ==
  ASSUME Inv, Shut, cacheOn, ~open
  PROVE  \A t \in Eps : Refs[t] = {} /\ Making[t] = 0
<1> SUFFICES ASSUME NEW t \in Eps PROVE Refs[t] = {} /\ Making[t] = 0
  BY Zenon
<1>1. pc[t] \in {"off", "closed"} /\ pend[t] = {}
  BY ZenonT(60) DEF Shut, Gate
<1>2. Phase(t)
  BY Zenon DEF Inv, Phases
<1>3. op[t] = 0 /\ rel[t] = {}
  BY <1>1, <1>2, ZenonT(60) DEF Phase, Away, Sending, Inside
<1>4. held[t] = {}
  BY <1>1, <1>2, <1>3, ZenonT(60) DEF Phase
<1> QED BY <1>1, <1>4, RefsAre, ZenonT(60)

\* Then no entry is left either, and the counters are zero: the asserts of ofi_mr_cache_cleanup.
LEMMA CountersEndAtZero ==
  ASSUME ListsInv, ~open
  PROVE  count = [cnt |-> 0, size |-> 0, ucnt |-> 0, usize |-> 0]
<1>1. count = Tally(slot, {}, {})
  <2>1. CASE ~cacheOn
    BY <2>1, Zenon DEF ListsInv, Bypassed
  <2>2. CASE cacheOn
    <3>k. CardFacts
      BY Zenon DEF ListsInv
    <3>1. Inv /\ Shut /\ ListInv /\ CountInv /\ lru = {} /\ dead = {}
      BY <2>2, Zenon DEF ListsInv, Inv, Shut
    <3>2. \A t \in Eps : Refs[t] = {}
      BY <3>1, <2>2, NothingHeldAtEnd, Zenon
    <3>3. ASSUME NEW e PROVE HoldersIn(Refs, e) = {}
      BY <3>2, HolderIs, ZenonT(60)
    <3>4. \A e \in Slots : slot[e].used /\ NotFreeing(flist, e) => slot[e].use = 0
      <4>1. Cardinality({}) = 0
        BY <3>k, Zenon DEF CardFacts
      <4> QED BY <3>1, <3>3, <4>1, ZenonT(60) DEF CountInv, Counted, Exact
    <3>5. \A e \in Slots : slot[e].node => slot[e].used /\ NotFreeing(flist, e)
      BY <3>1, ZenonT(60) DEF CountInv, Counted, Lists, NotFreeing
    <3>6. TreeOf(slot) = {}
      BY <3>1, <3>4, <3>5, ZenonT(60) DEF ListInv, ListsAre, IdleOf, TreeOf
    <3>7. OrphansOf(slot, flist, Making) = {}
      <4>1. ~(0 > 0)
        BY Above, Zenon
      <4> QED BY <3>4, <4>1, ZenonT(60) DEF OrphansOf
    <3> QED BY <3>1, <3>6, <3>7, Zenon DEF ListInv, ListsAre
  <2> QED BY <2>1, <2>2, Zenon
<1>2. Cardinality({}) = 0
  BY Zenon DEF ListsInv, CardFacts
<1>3. PagesIn(slot, {}) = {}
  BY PagesInAre
<1>4. Sized(slot, {}) = 0
  BY <1>2, <1>3, Zenon DEF Sized
<1> QED BY <1>1, <1>2, <1>4, Zenon DEF Tally
=============================================================================
