--------------------------- MODULE RdsRndzvProofs ---------------------------
(***************************************************************************)
(* The rendezvous protocol, for every number of endpoints, messages and    *)
(* receives, every cap and every set of faults.  First what the steps do   *)
(* to a receive: its counters stay exact, what it delivers stays whole and *)
(* it is reported once.  Then where a transfer can be and what ends it;    *)
(* with both, the theorems about the protocol.                             *)
(***************************************************************************)
EXTENDS RdsRndzv, TLAPS

\* Leaves go to SMT unless they name another prover.
USE SMTT(60)

\* What the counters rely on: a receive has a message from its match on, READs exist
\* only while its pending op does, and there are finitely many of them.
RecvShape ==
  \A r \in Recvs :
    /\ rxs[r] \in {"new", "posted"} => bound[r] = NoMsg
    /\ rxs[r] = "reading" => bound[r] \in Msgs
    /\ rxs[r] # "reading" => dread[r] = {} /\ hca[r] = {} /\ ntf[r] = {}
    /\ IsFiniteSet(dread[r]) /\ IsFiniteSet(hca[r]) /\ IsFiniteSet(ntf[r])

Counted == TypeOK /\ RecvShape /\ SegmentAccounting

(***************************************************************************)
(* Sets of segments                                                        *)
(***************************************************************************)

\* What the proofs use of finite sets; CardFacts is carried along up to where the library
\* proves it.
CardFacts ==
  /\ IsFiniteSet({}) /\ Cardinality({}) = 0
  /\ \A S : IsFiniteSet(S) => Cardinality(S) \in Nat /\ (Cardinality(S) = 0 <=> S = {})
  /\ \A S : \A T \in SUBSET S :
       IsFiniteSet(S) => /\ IsFiniteSet(T) /\ IsFiniteSet(S \ T)
                         /\ Cardinality(S \ T) = Cardinality(S) - Cardinality(T)
  /\ \A S, T : IsFiniteSet(S) /\ IsFiniteSet(T) =>
       /\ IsFiniteSet(S \cup T)
       /\ S \cap T = {} => Cardinality(S \cup T) = Cardinality(S) + Cardinality(T)
  /\ \A x : IsFiniteSet({x}) /\ Cardinality({x}) = 1
  /\ \A a, b \in Nat : IsFiniteSet(a .. b)

\* No READs at all.
LEMMA CardNone == ASSUME CardFacts PROVE IsFiniteSet({}) /\ Cardinality({}) = 0
BY Zenon DEF CardFacts

\* A finite set of READs has a size, which is zero only when there is none.
LEMMA CardNat ==
  ASSUME CardFacts, NEW S, IsFiniteSet(S)
  PROVE  Cardinality(S) \in Nat /\ (Cardinality(S) = 0 <=> S = {})
BY Zenon DEF CardFacts

\* Removing a subset from a finite set of READs subtracts its size.
LEMMA CardMinus ==
  ASSUME CardFacts, NEW S, NEW T, IsFiniteSet(S), T \subseteq S
  PROVE  /\ IsFiniteSet(T) /\ IsFiniteSet(S \ T)
         /\ Cardinality(S \ T) = Cardinality(S) - Cardinality(T)
BY Zenon DEF CardFacts

\* Two disjoint finite sets of READs are counted by adding their sizes.
LEMMA CardUnion ==
  ASSUME CardFacts, NEW S, NEW T, IsFiniteSet(S), IsFiniteSet(T)
  PROVE  /\ IsFiniteSet(S \cup T)
         /\ S \cap T = {} => Cardinality(S \cup T) = Cardinality(S) + Cardinality(T)
BY Zenon DEF CardFacts

\* One READ taken from a finite set, or added to it.
LEMMA CardOne ==
  ASSUME CardFacts, NEW S, NEW x, IsFiniteSet(S)
  PROVE  /\ IsFiniteSet(S \cup {x}) /\ IsFiniteSet(S \ {x})
         /\ x \in S => Cardinality(S \ {x}) = Cardinality(S) - 1
         /\ x \notin S => Cardinality(S \cup {x}) = Cardinality(S) + 1
<1>1. IsFiniteSet({x}) /\ Cardinality({x}) = 1
  BY Zenon DEF CardFacts
<1>2. IsFiniteSet(S \cup {x}) /\ (x \notin S => Cardinality(S \cup {x}) = Cardinality(S) + 1)
  <2>1. x \notin S => S \cap {x} = {}
    OBVIOUS
  <2> QED BY <1>1, <2>1, CardUnion, Zenon
<1>3. x \in S => IsFiniteSet(S \ {x}) /\ Cardinality(S \ {x}) = Cardinality(S) - 1
  BY <1>1, CardMinus, Zenon
<1>4. x \notin S => S \ {x} = S
  OBVIOUS
<1> QED BY <1>2, <1>3, <1>4, Zenon

\* The segments a match plans to read are a finite set of numbers.
LEMMA PlannedFinite ==
  ASSUME CardFacts, NEW r \in Recvs, NEW m \in Msgs
  PROVE  Planned(r, m) \subseteq Nat /\ IsFiniteSet(Planned(r, m))
<1>1. Min2(NSeg[m], Room[r]) \in Nat
  BY RndzvAssumption DEF Min2, RndzvAssumption
<1>2. IsFiniteSet(1 .. Min2(NSeg[m], Room[r]))
  BY <1>1 DEF CardFacts
<1> QED BY <1>1, <1>2 DEF Planned

\* RTS and FIN datagrams are told apart by kind and by message.
LEMMA DatagramFacts ==
  ASSUME NEW m \in Msgs, NEW n \in Msgs
  PROVE  /\ RTS(m) \in Datagram /\ FIN(m) \in Datagram
         /\ RTS(m) # FIN(n)
         /\ RTS(m) = RTS(n) => m = n
         /\ FIN(m) = FIN(n) => m = n
BY DEF RTS, FIN, Datagram

\* rds_send_fin only adds FINs of the given messages, to the wire or to the parked ones.
LEMMA SendFinsFacts ==
  ASSUME NEW fins \in SUBSET Msgs, NEW w \in SUBSET Datagram, NEW d \in SUBSET Msgs,
         SendFins(fins, w, d)
  PROVE  /\ wire' \in SUBSET Datagram /\ dfin' \in SUBSET Msgs
         /\ w \subseteq wire' /\ d \subseteq dfin' /\ dfin' \subseteq d \cup fins
         /\ \A m \in Msgs : RTS(m) \in wire' => RTS(m) \in w
         /\ \A m \in Msgs : FIN(m) \in wire' => FIN(m) \in w \/ m \in fins
         /\ \A m \in fins : m \in dfin' => m \in d \/ FIN(m) \notin wire' \/ FIN(m) \in w
<1>1. PICK o \in FinOutcomes(fins) :
        /\ wire' = w \cup {FIN(m) : m \in {x \in fins : o[x] = "sent"}}
        /\ dfin' = d \cup {m \in fins : o[m] = "parked"}
  BY DEF SendFins
<1>2. wire' \in SUBSET Datagram
  BY <1>1, DatagramFacts
<1>3. \A m \in Msgs : RTS(m) \in wire' => RTS(m) \in w
  BY <1>1, DatagramFacts
<1>4. \A m \in Msgs : FIN(m) \in wire' => FIN(m) \in w \/ (m \in fins /\ o[m] = "sent")
  BY <1>1, DatagramFacts
<1> QED BY <1>1, <1>2, <1>3, <1>4

(***************************************************************************)
(* The counters                                                            *)
(***************************************************************************)

\* The part of the type invariant rds_start_rndzv_read and rds_progress_deferred touch.
ReadTypes ==
  /\ rxs \in [Recvs -> RecvState] /\ bound \in [Recvs -> Msgs \cup {NoMsg}]
  /\ seg_remaining \in [Recvs -> Nat] /\ seg_deferred \in [Recvs -> Nat]
  /\ error \in [Recvs -> BOOLEAN] /\ rxCq \in [Recvs -> Nat]
  /\ dread \in [Recvs -> SUBSET Nat] /\ hca \in [Recvs -> SUBSET Nat]
  /\ wire \in SUBSET Datagram /\ dfin \in SUBSET Msgs

\* rds_start_rndzv_read leaves the counters of the receive it starts exact.
LEMMA StartReadCounted ==
  ASSUME CardFacts, Counted, NEW r \in Recvs, NEW m \in Msgs, NEW w \in SUBSET Datagram,
         rxs[r] \in {"new", "posted"}, StartRead(r, m, w), UNCHANGED ntf
  PROVE  ReadTypes' /\ RecvShape' /\ SegmentAccounting'
<1> USE DEF Counted
<1>0. dread[r] = {} /\ hca[r] = {} /\ ntf[r] = {}
  BY DEF RecvShape
<1>1. CASE StartReadNoMem(r, m, w)
  <2>1. wire' \in SUBSET Datagram /\ dfin' \in SUBSET Msgs
    BY <1>1, SendFinsFacts, Zenon DEF StartReadNoMem, TypeOK
  <2>2. ReadTypes'
    BY <1>1, <2>1 DEF StartReadNoMem, ReadTypes, TypeOK, RecvState
  <2>3. RecvShape'
    BY <1>1, <1>0 DEF StartReadNoMem, RecvShape, TypeOK, RecvState
  <2>4. SegmentAccounting'
    BY <1>1, <1>0, Zenon DEF StartReadNoMem, SegmentAccounting, TypeOK, RecvState
  <2> QED BY <2>2, <2>3, <2>4
<1>2. CASE StartReadPost(r, m, w)
  <2>1. PICK o \in ReadOutcomes(Planned(r, m), m) :
          /\ bound' = [bound EXCEPT ![r] = m]
          /\ seg_remaining' = [seg_remaining EXCEPT ![r] = Cardinality(Took(o, "ok"))]
          /\ seg_deferred' = [seg_deferred EXCEPT ![r] = Cardinality(Took(o, "again"))]
          /\ error' = [error EXCEPT ![r] = Truncated(r, m) \/ Took(o, "err") # {}]
          /\ hca' = [hca EXCEPT ![r] = Took(o, "ok")]
          /\ dread' = [dread EXCEPT ![r] = Took(o, "again")]
          /\ rxs' = [rxs EXCEPT ![r] = IF Took(o, "ok") = {} /\ Took(o, "again") = {}
                                      THEN "done" ELSE "reading"]
          /\ rxCq' = [rxCq EXCEPT ![r] =
                        IF Took(o, "ok") = {} /\ Took(o, "again") = {}
                        THEN @ + RxEntry(r, Truncated(r, m) \/ Took(o, "err") # {}) ELSE @]
          /\ SendFins(IF Took(o, "ok") = {} /\ Took(o, "again") = {} THEN {m} ELSE {},
                      w, dfin)
    BY <1>2, Zenon DEF StartReadPost
  <2> DEFINE ok == Took(o, "ok")
             again == Took(o, "again")
  <2>2. ok \subseteq Planned(r, m) /\ again \subseteq Planned(r, m) /\ ok \cap again = {}
    BY DEF Took, ReadOutcomes
  <2>3. IsFiniteSet(ok) /\ IsFiniteSet(again) /\ ok \subseteq Nat /\ again \subseteq Nat
    <3>1. IsFiniteSet(Planned(r, m)) /\ Planned(r, m) \subseteq Nat
      BY PlannedFinite
    <3>2. IsFiniteSet(ok) /\ IsFiniteSet(again)
      BY <2>2, <3>1, CardMinus, Zenon
    <3> QED BY <2>2, <3>1, <3>2
  <2>4. Cardinality(ok) \in Nat /\ Cardinality(again) \in Nat
    BY <2>3, CardNat
  <2>5. (Cardinality(ok) = 0 <=> ok = {}) /\ (Cardinality(again) = 0 <=> again = {})
    BY <2>3, CardNat
  <2>6. wire' \in SUBSET Datagram /\ dfin' \in SUBSET Msgs
    BY <2>1, SendFinsFacts, Zenon DEF TypeOK
  <2> HIDE DEF ok, again
  <2>7. ReadTypes'
    <3>1. RxEntry(r, Truncated(r, m) \/ Took(o, "err") # {}) \in Nat
      BY DEF RxEntry
    <3>2. (Truncated(r, m) \/ Took(o, "err") # {}) \in BOOLEAN
      OBVIOUS
    <3> QED BY <2>1, <2>3, <2>4, <2>6, <3>1, <3>2 DEF ReadTypes, TypeOK, RecvState, ok, again
  <2>8. RecvShape'
    BY <2>1, <2>3, <1>0 DEF RecvShape, TypeOK, RecvState, ok, again
  <2>9. SegmentAccounting'
    <3>1. hca'[r] = ok /\ dread'[r] = again /\ ntf'[r] = {}
          /\ seg_remaining'[r] = Cardinality(ok) /\ seg_deferred'[r] = Cardinality(again)
      BY <2>1, <1>0 DEF TypeOK, ok, again
    <3>2. \A q \in Recvs \ {r} :
            /\ hca'[q] = hca[q] /\ dread'[q] = dread[q] /\ ntf'[q] = ntf[q]
            /\ seg_remaining'[q] = seg_remaining[q] /\ seg_deferred'[q] = seg_deferred[q]
            /\ rxs'[q] = rxs[q]
      BY <2>1 DEF TypeOK
    <3>3. rxs'[r] = "reading" => ok # {} \/ again # {}
      BY <2>1 DEF TypeOK, ok, again
    <3>4. hca'[r] \cup ntf'[r] = hca'[r]
      BY <3>1
    <3>5. rxs'[r] = "reading" => seg_remaining'[r] + seg_deferred'[r] > 0
      BY <3>1, <3>3, <2>4, <2>5
    <3>6. /\ dread'[r] \cap (hca'[r] \cup ntf'[r]) = {} /\ hca'[r] \cap ntf'[r] = {}
          /\ seg_remaining'[r] = Cardinality(hca'[r] \cup ntf'[r])
          /\ seg_deferred'[r] = Cardinality(dread'[r])
      BY <3>1, <3>4, <2>2, Zenon DEF ok, again
    <3>7. \A q \in Recvs \ {r} :
            /\ dread'[q] \cap (hca'[q] \cup ntf'[q]) = {} /\ hca'[q] \cap ntf'[q] = {}
            /\ rxs'[q] = "reading" => /\ seg_remaining'[q] = Cardinality(hca'[q] \cup ntf'[q])
                                      /\ seg_deferred'[q] = Cardinality(dread'[q])
                                      /\ seg_remaining'[q] + seg_deferred'[q] > 0
      BY <3>2, ZenonT(60) DEF SegmentAccounting
    <3> QED BY <3>5, <3>6, <3>7, ZenonT(60) DEF SegmentAccounting
  <2> QED BY <2>7, <2>8, <2>9
<1> QED BY <1>1, <1>2 DEF StartRead

\* What the retry of a parked READ can report: parked READs of live receives of n only,
\* each with one outcome.
LEMMA RetryFacts ==
  ASSUME NEW n \in Nodes, NEW o \in RetryOutcomes(n), NEW r \in Recvs
  PROVE  /\ TookOf(o, r, "ok") \subseteq dread[r] /\ Gone(o, r) \subseteq dread[r]
         /\ r \notin Live(n) => TookOf(o, r, "ok") = {} /\ Gone(o, r) = {}
<1>1. DOMAIN o = ParkedReads(n)
  BY DEF RetryOutcomes
<1>2. \A p \in ParkedReads(n) : p[1] \in Live(n) /\ p[2] \in dread[p[1]]
  BY DEF ParkedReads
<1>3. \A v : \A i \in TookOf(o, r, v) : r \in Live(n) /\ i \in dread[r]
  BY <1>1, <1>2 DEF TookOf
<1>4. \A i \in TookOf(o, r, "ok") : r \in Live(n) /\ i \in dread[r]
  BY <1>3
<1>5. \A i \in TookOf(o, r, "err") : r \in Live(n) /\ i \in dread[r]
  BY <1>3
<1> QED BY <1>4, <1>5 DEF Gone

\* rds_progress_deferred keeps the counters exact: a READ moves from seg_deferred to
\* seg_remaining, or leaves both, and the receive ends with the last one.
LEMMA ReissueCounted ==
  ASSUME CardFacts, Counted, NEW n \in Nodes, Reissue(n), UNCHANGED <<ntf, bound>>
  PROVE  ReadTypes' /\ RecvShape' /\ SegmentAccounting'
<1> USE DEF Counted
<1>1. PICK o \in RetryOutcomes(n) :
        /\ hca' = [r \in Recvs |-> hca[r] \cup TookOf(o, r, "ok")]
        /\ dread' = [r \in Recvs |-> IF r \in Orphans(n) THEN {} ELSE dread[r] \ Gone(o, r)]
        /\ seg_remaining' = [r \in Recvs |-> Rem(o, r)]
        /\ seg_deferred' = [r \in Recvs |-> Dfr(o, r)]
        /\ error' = [r \in Recvs |-> Bad(o, r)]
        /\ rxs' = [r \in Recvs |-> IF r \in Final(o, n) THEN "done" ELSE rxs[r]]
        /\ rxCq' = [r \in Recvs |-> IF r \in Final(o, n)
                                    THEN rxCq[r] + RxEntry(r, Bad(o, r)) ELSE rxCq[r]]
        /\ SendFins(ParkedFins(n) \cup {bound[r] : r \in Final(o, n)}, wire,
                    dfin \ ParkedFins(n))
  BY Zenon DEF Reissue
<1> DEFINE OK(r) == TookOf(o, r, "ok")
<1>2. ASSUME NEW r \in Recvs
      PROVE  /\ OK(r) \subseteq dread[r] /\ Gone(o, r) \subseteq dread[r]
             /\ r \notin Live(n) => OK(r) = {} /\ Gone(o, r) = {}
             /\ IsFiniteSet(OK(r)) /\ IsFiniteSet(Gone(o, r))
             /\ Cardinality(OK(r)) \in Nat /\ Cardinality(Gone(o, r)) \in Nat
  <2>1. /\ OK(r) \subseteq dread[r] /\ Gone(o, r) \subseteq dread[r]
        /\ r \notin Live(n) => OK(r) = {} /\ Gone(o, r) = {}
    BY RetryFacts
  <2>2. IsFiniteSet(OK(r)) /\ IsFiniteSet(Gone(o, r))
    BY <2>1, CardMinus, Zenon DEF RecvShape
  <2> QED BY <2>1, <2>2, CardNat, Zenon
<1> HIDE DEF OK
<1>3. ASSUME NEW r \in Recvs, rxs[r] = "reading"
      PROVE  /\ dread'[r] = dread[r] \ Gone(o, r) /\ hca'[r] = hca[r] \cup OK(r)
             /\ IsFiniteSet(dread'[r]) /\ IsFiniteSet(hca'[r])
             /\ Dfr(o, r) = Cardinality(dread'[r]) /\ Dfr(o, r) \in Nat
             /\ Rem(o, r) = Cardinality(hca'[r] \cup ntf[r]) /\ Rem(o, r) \in Nat
  <2>1. dread'[r] = dread[r] \ Gone(o, r) /\ hca'[r] = hca[r] \cup OK(r)
    BY <1>1, <1>3 DEF Orphans, OK
  <2>2. /\ IsFiniteSet(dread'[r]) /\ Cardinality(dread'[r]) \in Nat
        /\ Cardinality(dread'[r]) = Cardinality(dread[r]) - Cardinality(Gone(o, r))
    BY <2>1, <1>2, CardMinus, CardNat, Zenon DEF RecvShape
  <2>3. IsFiniteSet(hca[r]) /\ IsFiniteSet(ntf[r]) /\ OK(r) \cap (hca[r] \cup ntf[r]) = {}
    BY <1>2, Zenon DEF RecvShape, SegmentAccounting
  <2>4. IsFiniteSet(hca[r] \cup ntf[r])
    BY <2>3, CardUnion, Zenon
  <2>5. IsFiniteSet(hca[r] \cup OK(r))
    BY <2>3, <1>2, CardUnion, Zenon
  <2>6. /\ Cardinality((hca[r] \cup ntf[r]) \cup OK(r))
              = Cardinality(hca[r] \cup ntf[r]) + Cardinality(OK(r))
        /\ Cardinality(hca[r] \cup ntf[r]) \in Nat
    BY <2>3, <2>4, <1>2, CardUnion, CardNat, Zenon
  <2>7. (hca[r] \cup ntf[r]) \cup OK(r) = hca'[r] \cup ntf[r]
    BY <2>1
  <2>8. Cardinality(hca'[r] \cup ntf[r]) = Cardinality(hca[r] \cup ntf[r]) + Cardinality(OK(r))
    BY <2>6, <2>7, ZenonT(60)
  <2>9. /\ seg_remaining[r] = Cardinality(hca[r] \cup ntf[r])
        /\ seg_deferred[r] = Cardinality(dread[r])
    BY <1>3 DEF SegmentAccounting
  <2>10. Dfr(o, r) = Cardinality(dread'[r]) /\ Dfr(o, r) \in Nat
    BY <2>2, <2>9 DEF Dfr
  <2>11. Rem(o, r) = Cardinality(hca'[r] \cup ntf[r]) /\ Rem(o, r) \in Nat
    BY <2>6, <2>8, <2>9, <1>2 DEF Rem, OK
  <2>12. IsFiniteSet(hca'[r])
    BY <2>1, <2>5
  <2> QED BY <2>1, <2>2, <2>10, <2>11, <2>12
<1>4. ASSUME NEW r \in Recvs, rxs[r] # "reading"
      PROVE  /\ dread'[r] = {} /\ hca'[r] = {} /\ ntf[r] = {}
             /\ Rem(o, r) = seg_remaining[r] /\ Dfr(o, r) = seg_deferred[r]
             /\ r \notin Final(o, n)
  <2>1. r \notin Live(n)
    BY <1>4 DEF Live
  <2>2. OK(r) = {} /\ Gone(o, r) = {} /\ dread[r] = {} /\ hca[r] = {} /\ ntf[r] = {}
    BY <2>1, <1>2, <1>4 DEF RecvShape
  <2>3. Cardinality(OK(r)) = 0 /\ Cardinality(Gone(o, r)) = 0
    BY <2>2, CardNone
  <2>4. dread'[r] = {} /\ hca'[r] = {}
    BY <1>1, <2>2 DEF OK
  <2>5. Rem(o, r) = seg_remaining[r] /\ Dfr(o, r) = seg_deferred[r]
    BY <2>3 DEF Rem, Dfr, OK, TypeOK
  <2> QED BY <2>1, <2>2, <2>4, <2>5 DEF Final
<1>5. \A r \in Final(o, n) : rxs[r] = "reading" /\ bound[r] \in Msgs /\ r \in Recvs
  BY DEF Final, Live, RecvShape
<1>6. wire' \in SUBSET Datagram /\ dfin' \in SUBSET Msgs
  <2>1. ParkedFins(n) \cup {bound[r] : r \in Final(o, n)} \in SUBSET Msgs
    BY <1>5 DEF ParkedFins, TypeOK
  <2>2. dfin \ ParkedFins(n) \in SUBSET Msgs /\ wire \in SUBSET Datagram
    BY DEF TypeOK
  <2> QED BY <1>1, <2>1, <2>2, SendFinsFacts, Zenon
<1>7. ReadTypes'
  <2>1. \A r \in Recvs : Rem(o, r) \in Nat /\ Dfr(o, r) \in Nat
    <3>1. \A r \in Recvs : seg_remaining[r] \in Nat /\ seg_deferred[r] \in Nat
      BY DEF TypeOK
    <3> QED BY <1>3, <1>4, <3>1, Zenon
  <2>2. \A r \in Recvs : OK(r) \subseteq Nat
    BY <1>2 DEF TypeOK
  <2>3. \A r \in Recvs : RxEntry(r, Bad(o, r)) \in Nat
    BY DEF RxEntry
  <2>4. \A r \in Recvs : Bad(o, r) \in BOOLEAN
    BY DEF TypeOK, Bad
  <2> QED BY <1>1, <1>6, <2>1, <2>2, <2>3, <2>4 DEF ReadTypes, TypeOK, RecvState, OK
<1>8. ASSUME NEW r \in Recvs, rxs[r] = "reading", r \in Final(o, n)
      PROVE  dread'[r] = {} /\ hca'[r] = {} /\ ntf[r] = {}
  <2>1. Cardinality(dread'[r]) = 0 /\ Cardinality(hca'[r] \cup ntf[r]) = 0
    BY <1>3, <1>8 DEF Final
  <2>2. IsFiniteSet(dread'[r]) /\ IsFiniteSet(hca'[r]) /\ IsFiniteSet(ntf[r])
    BY <1>3, <1>8, Zenon DEF RecvShape
  <2>3. IsFiniteSet(hca'[r] \cup ntf[r])
    BY <2>2, CardUnion, Zenon
  <2>4. dread'[r] = {} /\ hca'[r] \cup ntf[r] = {}
    BY <2>1, <2>2, <2>3, CardNat
  <2> QED BY <2>4
<1>9. RecvShape'
  <2> SUFFICES ASSUME NEW r \in Recvs
               PROVE /\ rxs'[r] \in {"new", "posted"} => bound'[r] = NoMsg
                     /\ rxs'[r] = "reading" => bound'[r] \in Msgs
                     /\ rxs'[r] # "reading" => dread'[r] = {} /\ hca'[r] = {} /\ ntf'[r] = {}
                     /\ IsFiniteSet(dread'[r]) /\ IsFiniteSet(hca'[r]) /\ IsFiniteSet(ntf'[r])
    BY Zenon DEF RecvShape
  <2>1. rxs'[r] = IF r \in Final(o, n) THEN "done" ELSE rxs[r]
    BY <1>1
  <2>2. CASE rxs[r] = "reading"
    BY <2>1, <2>2, <1>3, <1>8, CardNone, Zenon DEF RecvShape
  <2>3. CASE rxs[r] # "reading"
    BY <2>1, <2>3, <1>4, CardNone, ZenonT(60) DEF RecvShape
  <2> QED BY <2>2, <2>3
<1>10. SegmentAccounting'
  <2> SUFFICES ASSUME NEW r \in Recvs
               PROVE /\ dread'[r] \cap (hca'[r] \cup ntf'[r]) = {} /\ hca'[r] \cap ntf'[r] = {}
                     /\ rxs'[r] = "reading" =>
                          /\ seg_remaining'[r] = Cardinality(hca'[r] \cup ntf'[r])
                          /\ seg_deferred'[r] = Cardinality(dread'[r])
                          /\ seg_remaining'[r] + seg_deferred'[r] > 0
    BY Zenon DEF SegmentAccounting
  <2>1. /\ rxs'[r] = IF r \in Final(o, n) THEN "done" ELSE rxs[r]
        /\ seg_remaining'[r] = Rem(o, r) /\ seg_deferred'[r] = Dfr(o, r)
    BY <1>1, Zenon
  <2>2. CASE rxs[r] # "reading"
    BY <2>1, <2>2, <1>4
  <2>3. CASE rxs[r] = "reading"
    <3>1. dread'[r] \cap (hca'[r] \cup ntf'[r]) = {} /\ hca'[r] \cap ntf'[r] = {}
      <4>1. OK(r) \subseteq Gone(o, r)
        BY DEF OK, Gone
      <4> QED BY <4>1, <2>3, <1>2, <1>3, ZenonT(60) DEF SegmentAccounting
    <3>2. r \notin Final(o, n) => Rem(o, r) + Dfr(o, r) > 0
      <4>1. CASE Gone(o, r) # {}
        <5>1. r \in Live(n)
          BY <4>1, <1>2
        <5>2. Rem(o, r) \in Nat /\ Dfr(o, r) \in Nat
          BY <2>3, <1>3, Zenon
        <5> QED BY <4>1, <5>1, <5>2 DEF Final
      <4>2. CASE Gone(o, r) = {}
        <5>1. OK(r) = {}
          BY <4>2 DEF OK, Gone
        <5>2. Cardinality(OK(r)) = 0 /\ Cardinality(Gone(o, r)) = 0
          BY <4>2, <5>1, CardNone
        <5>3. Rem(o, r) = seg_remaining[r] /\ Dfr(o, r) = seg_deferred[r]
          BY <5>2 DEF Rem, Dfr, OK, TypeOK
        <5> QED BY <5>3, <2>3, Zenon DEF SegmentAccounting
      <4> QED BY <4>1, <4>2
    <3>3. ntf'[r] = ntf[r]
      OBVIOUS
    <3> QED BY <2>1, <2>3, <3>1, <3>2, <3>3, <1>3, ZenonT(60)
  <2> QED BY <2>2, <2>3
<1> QED BY <1>7, <1>9, <1>10

\* Every step keeps the types, the shape of the receives and the counters.
LEMMA CountedStep == ASSUME CardFacts, Counted, [Next]_vars PROVE Counted'
<1> USE DEF Counted
<1> USE RndzvAssumption DEF RndzvAssumption
<1>1. ASSUME NEW m \in Msgs, SendRndzv(m) PROVE Counted'
  <2>1. TypeOK'
    BY <1>1, DatagramFacts DEF SendRndzv, TypeOK, rxVars, kernVars
  <2>2. RecvShape' /\ SegmentAccounting'
    BY <1>1, Zenon DEF SendRndzv, RecvShape, SegmentAccounting, rxVars, kernVars
  <2> QED BY <2>1, <2>2
<1>2. ASSUME NEW m \in Msgs, HandleFin(m) PROVE Counted'
  <2>1. /\ tx' \in [Msgs -> {"idle", "sent", "done"}] /\ txCq' \in [Msgs -> Nat]
        /\ wire' \in SUBSET Datagram
    <3>1. CASE tx[m] = "sent"
      <4>1. (IF m \in Silent THEN txCq[m] ELSE txCq[m] + 1) \in Nat
        BY DEF TypeOK
      <4>2. txCq' = [txCq EXCEPT ![m] = IF m \in Silent THEN txCq[m] ELSE txCq[m] + 1]
        BY <1>2, <3>1 DEF HandleFin
      <4>3. txCq' \in [Msgs -> Nat]
        BY <4>1, <4>2 DEF TypeOK
      <4>4. tx' \in [Msgs -> {"idle", "sent", "done"}] /\ wire' \in SUBSET Datagram
        BY <1>2, <3>1, ZenonT(60) DEF HandleFin, TypeOK
      <4> QED BY <4>3, <4>4
    <3>2. CASE tx[m] # "sent"
      BY <1>2, <3>2 DEF HandleFin, TypeOK, txVars
    <3> QED BY <3>1, <3>2
  <2>2. inflight' \in [Nodes -> Nat]
    <3>1. CASE tx[m] = "sent"
      <4>1. inflight[Src[m]] \in Nat
        BY DEF TypeOK
      <4>2. (IF inflight[Src[m]] > 0 THEN inflight[Src[m]] - 1 ELSE inflight[Src[m]]) \in Nat
        BY <4>1
      <4> QED BY <1>2, <3>1, <4>2 DEF HandleFin, TypeOK
    <3>2. CASE tx[m] # "sent"
      BY <1>2, <3>2 DEF HandleFin, TypeOK, txVars
    <3> QED BY <3>1, <3>2
  <2>3. TypeOK'
    BY <1>2, <2>1, <2>2 DEF HandleFin, TypeOK, rxVars, kernVars
  <2>4. RecvShape' /\ SegmentAccounting'
    BY <1>2, Zenon DEF HandleFin, RecvShape, SegmentAccounting, rxVars, kernVars
  <2> QED BY <2>3, <2>4
<1>3. ASSUME NEW m \in Msgs, HandleRtsMatched(m) PROVE Counted'
  <2>1. PICK r \in Posted(m) : StartRead(r, m, wire \ {RTS(m)})
    BY <1>3 DEF HandleRtsMatched
  <2>2. r \in Recvs /\ rxs[r] = "posted"
    BY DEF Posted
  <2>3. ReadTypes' /\ RecvShape' /\ SegmentAccounting'
    BY <1>3, <2>1, <2>2, StartReadCounted DEF HandleRtsMatched, TypeOK
  <2>4. TypeOK'
    BY <1>3, <2>3 DEF HandleRtsMatched, TypeOK, ReadTypes, txVars
  <2> QED BY <2>3, <2>4
<1>4. ASSUME NEW m \in Msgs, HandleRtsUnexpected(m) PROVE Counted'
  <2>1. wire' \in SUBSET Datagram /\ dfin' \in SUBSET Msgs /\ unexp' \in SUBSET Msgs
    <3>1. wire \ {RTS(m)} \in SUBSET Datagram /\ {m} \in SUBSET Msgs /\ dfin \in SUBSET Msgs
      BY DEF TypeOK
    <3>2. SendFins({m}, wire \ {RTS(m)}, dfin) =>
            wire' \in SUBSET Datagram /\ dfin' \in SUBSET Msgs
      BY <3>1, SendFinsFacts, Zenon
    <3> QED BY <1>4, <3>1, <3>2 DEF HandleRtsUnexpected, TypeOK
  <2>2. TypeOK'
    BY <1>4, <2>1 DEF HandleRtsUnexpected, TypeOK, txVars, rxVars, kernVars
  <2>3. RecvShape' /\ SegmentAccounting'
    BY <1>4, Zenon DEF HandleRtsUnexpected, RecvShape, SegmentAccounting, rxVars, kernVars
  <2> QED BY <2>2, <2>3
<1>5. ASSUME NEW r \in Recvs, PostRecv(r) PROVE Counted'
  <2>1. ASSUME NEW m \in unexp, unexp' = unexp \ {m}, StartRead(r, m, wire) PROVE Counted'
    <3>1. m \in Msgs /\ wire \in SUBSET Datagram /\ rxs[r] = "new" /\ UNCHANGED ntf
      BY <1>5, <2>1 DEF PostRecv, TypeOK
    <3>2. ReadTypes' /\ RecvShape' /\ SegmentAccounting'
      BY <2>1, <3>1, StartReadCounted, Zenon
    <3>3. TypeOK'
      BY <1>5, <2>1, <3>2 DEF PostRecv, TypeOK, ReadTypes, txVars
    <3> QED BY <3>2, <3>3
  <2>2. ASSUME rxs' = [rxs EXCEPT ![r] = "posted"],
               UNCHANGED <<bound, seg_remaining, seg_deferred, error, rxCq,
                           unexp, dread, dfin, wire, hca>>
        PROVE  Counted'
    <3>1. TypeOK'
      BY <1>5, <2>2 DEF PostRecv, TypeOK, RecvState, txVars
    <3>2. rxs[r] = "new" /\ UNCHANGED ntf
      BY <1>5, Zenon DEF PostRecv
    <3>3. RecvShape'
      BY <2>2, <3>2 DEF RecvShape, TypeOK
    <3>4. SegmentAccounting'
      BY <2>2, <3>2, ZenonT(60) DEF SegmentAccounting, TypeOK
    <3> QED BY <3>1, <3>3, <3>4
  <2> QED BY <1>5, <2>1, <2>2, Zenon DEF PostRecv
<1>6. ASSUME NEW r \in Recvs, Cancel(r) PROVE Counted'
  <2>1. TypeOK'
    BY <1>6 DEF Cancel, TypeOK, RecvState, txVars, kernVars
  <2>2. RecvShape'
    BY <1>6 DEF Cancel, RecvShape, TypeOK, kernVars
  <2>3. SegmentAccounting'
    BY <1>6, ZenonT(60) DEF Cancel, SegmentAccounting, TypeOK, kernVars
  <2> QED BY <2>1, <2>2, <2>3
<1>7. ASSUME NEW r \in Recvs, NEW i \in ntf[r], HandleNotify(r, i) PROVE Counted'
  <2> DEFINE err == error[r] \/ (rxs[r] = "reading" /\ i \notin data[r])
             fin == seg_remaining[r] = 1 /\ seg_deferred[r] = 0
  <2>1. rxs[r] = "reading" /\ bound[r] \in Msgs
    BY DEF RecvShape
  <2>2. /\ IsFiniteSet(hca[r]) /\ IsFiniteSet(ntf[r]) /\ IsFiniteSet(dread[r])
        /\ i \notin hca[r] /\ hca[r] \cap ntf[r] = {} /\ dread[r] \cap (hca[r] \cup ntf[r]) = {}
        /\ seg_remaining[r] = Cardinality(hca[r] \cup ntf[r])
        /\ seg_deferred[r] = Cardinality(dread[r])
    BY <2>1, Zenon DEF RecvShape, SegmentAccounting
  <2>3. IsFiniteSet(hca[r] \cup ntf[r]) /\ IsFiniteSet(ntf[r] \ {i})
    BY <2>2, CardUnion, CardOne, Zenon
  <2>4. /\ Cardinality((hca[r] \cup ntf[r]) \ {i}) = seg_remaining[r] - 1
        /\ IsFiniteSet((hca[r] \cup ntf[r]) \ {i})
    BY <2>2, <2>3, CardOne, ZenonT(60)
  <2>5. (hca[r] \cup ntf[r]) \ {i} = hca[r] \cup (ntf[r] \ {i})
    BY <2>2
  <2>6. seg_remaining[r] \in Nat /\ seg_remaining[r] > 0 /\ seg_deferred[r] \in Nat
    <3>1. Cardinality((hca[r] \cup ntf[r]) \ {i}) \in Nat
      BY <2>4, CardNat, Zenon
    <3> QED BY <2>4, <3>1 DEF TypeOK
  <2>7. /\ error' = [error EXCEPT ![r] = err]
        /\ seg_remaining' = [seg_remaining EXCEPT ![r] = @ - 1]
        /\ rxs' = [rxs EXCEPT ![r] = IF fin THEN "done" ELSE @]
        /\ rxCq' = [rxCq EXCEPT ![r] = IF fin THEN @ + RxEntry(r, err) ELSE @]
        /\ SendFins(IF fin THEN {bound[r]} ELSE {}, wire, dfin)
        /\ ntf' = [ntf EXCEPT ![r] = @ \ {i}]
        /\ UNCHANGED <<tx, txCq, inflight, bound, seg_deferred, unexp, dread, hca, data, cong,
                       draining>>
    BY <1>7, <2>1, <2>6 DEF HandleNotify, TypeOK, txVars
  <2>8. wire' \in SUBSET Datagram /\ dfin' \in SUBSET Msgs
    BY <2>1, <2>7, SendFinsFacts, ZenonT(60) DEF TypeOK
  <2>9. RxEntry(r, err) \in Nat /\ err \in BOOLEAN
    BY Zenon DEF RxEntry, TypeOK
  <2> HIDE DEF err, fin
  <2>10. TypeOK'
    BY <2>6, <2>7, <2>8, <2>9 DEF TypeOK, RecvState
  <2>11. fin => dread[r] = {} /\ hca[r] = {} /\ ntf[r] \ {i} = {}
    <3>1. fin => Cardinality((hca[r] \cup ntf[r]) \ {i}) = 0 /\ Cardinality(dread[r]) = 0
      BY <2>2, <2>4 DEF fin
    <3>2. fin => (hca[r] \cup ntf[r]) \ {i} = {} /\ dread[r] = {}
      BY <3>1, <2>2, <2>4, CardNat, ZenonT(60)
    <3> QED BY <3>2, <2>5, ZenonT(60)
  <2>12. RecvShape'
    BY <2>3, <2>7, <2>11 DEF RecvShape, TypeOK
  <2>13. SegmentAccounting'
    <3>1. Cardinality(hca[r] \cup (ntf[r] \ {i})) = seg_remaining[r] - 1
      BY <2>4, <2>5, ZenonT(60)
    <3>2. ~fin => (seg_remaining[r] - 1) + seg_deferred[r] > 0
      BY <2>6 DEF fin
    <3>3. /\ seg_remaining'[r] = seg_remaining[r] - 1 /\ seg_deferred'[r] = seg_deferred[r]
          /\ hca'[r] = hca[r] /\ ntf'[r] = ntf[r] \ {i} /\ dread'[r] = dread[r]
          /\ rxs'[r] = "reading" => ~fin
      BY <2>7 DEF TypeOK
    <3>4. /\ dread'[r] \cap (hca'[r] \cup ntf'[r]) = {} /\ hca'[r] \cap ntf'[r] = {}
          /\ rxs'[r] = "reading" => /\ seg_remaining'[r] = Cardinality(hca'[r] \cup ntf'[r])
                                    /\ seg_deferred'[r] = Cardinality(dread'[r])
                                    /\ seg_remaining'[r] + seg_deferred'[r] > 0
      BY <3>1, <3>2, <3>3, <2>2, ZenonT(60)
    <3>5. \A q \in Recvs \ {r} :
            /\ dread'[q] = dread[q] /\ hca'[q] = hca[q] /\ ntf'[q] = ntf[q] /\ rxs'[q] = rxs[q]
            /\ seg_remaining'[q] = seg_remaining[q] /\ seg_deferred'[q] = seg_deferred[q]
      BY <2>7 DEF TypeOK
    <3>6. \A q \in Recvs \ {r} :
            /\ dread'[q] \cap (hca'[q] \cup ntf'[q]) = {} /\ hca'[q] \cap ntf'[q] = {}
            /\ rxs'[q] = "reading" => /\ seg_remaining'[q] = Cardinality(hca'[q] \cup ntf'[q])
                                      /\ seg_deferred'[q] = Cardinality(dread'[q])
                                      /\ seg_remaining'[q] + seg_deferred'[q] > 0
      BY <3>5, ZenonT(60) DEF SegmentAccounting
    <3> QED BY <3>4, <3>6, Zenon DEF SegmentAccounting
  <2> QED BY <2>10, <2>12, <2>13
<1>8. ASSUME NEW n \in Nodes, PassBegin(n) PROVE Counted'
  <2>1. ReadTypes' /\ RecvShape' /\ SegmentAccounting'
    BY <1>8, ReissueCounted DEF PassBegin
  <2>2. TypeOK'
    BY <1>8, <2>1 DEF PassBegin, TypeOK, ReadTypes, txVars
  <2> QED BY <2>1, <2>2
<1>9. ASSUME NEW n \in Nodes, PassEnd(n) PROVE Counted'
  <2>1. TypeOK'
    BY <1>9, Zenon DEF PassEnd, TypeOK, txVars, rxVars, kernVars
  <2> QED BY <1>9, <2>1, ZenonT(60) DEF PassEnd, RecvShape, SegmentAccounting, rxVars, kernVars
<1>10. ASSUME NEW r \in Recvs, NEW i \in hca[r], HcaRead(r, i) PROVE Counted'
  <2>1. /\ hca' = [hca EXCEPT ![r] = @ \ {i}] /\ ntf' = [ntf EXCEPT ![r] = @ \cup {i}]
        /\ UNCHANGED <<rxs, bound, seg_remaining, seg_deferred, dread>>
    BY <1>10, Zenon DEF HcaRead, rxVars
  <2>2. TypeOK'
    BY <1>10 DEF HcaRead, TypeOK, txVars, rxVars
  <2>3. rxs[r] = "reading" /\ i \notin ntf[r]
    BY Zenon DEF RecvShape, SegmentAccounting
  <2>4. IsFiniteSet(hca[r] \ {i}) /\ IsFiniteSet(ntf[r] \cup {i})
    BY CardOne, ZenonT(60) DEF RecvShape
  <2>5. RecvShape'
    BY <2>1, <2>3, <2>4 DEF RecvShape, TypeOK
  <2>6. SegmentAccounting'
    <3>1. (hca[r] \ {i}) \cup (ntf[r] \cup {i}) = hca[r] \cup ntf[r]
      OBVIOUS
    <3>2. hca'[r] \cup ntf'[r] = hca[r] \cup ntf[r]
      BY <2>1, <3>1 DEF TypeOK
    <3>3. hca'[r] \cap ntf'[r] = {}
      BY <2>1, Zenon DEF TypeOK, SegmentAccounting
    <3>4. \A q \in Recvs : hca'[q] \cup ntf'[q] = hca[q] \cup ntf[q] /\ hca'[q] \cap ntf'[q] = {}
      BY <2>1, <3>2, <3>3, Zenon DEF TypeOK, SegmentAccounting
    <3> QED BY <2>1, <3>4, ZenonT(60) DEF SegmentAccounting
  <2> QED BY <2>2, <2>5, <2>6
<1>11. ASSUME NEW p \in CongPairs, Congest(p) PROVE Counted'
  <2>1. TypeOK'
    BY <1>11 DEF Congest, TypeOK, txVars, rxVars, kernVars
  <2> QED BY <1>11, <2>1, ZenonT(60) DEF Congest, RecvShape, SegmentAccounting, rxVars, kernVars
<1>12. CASE UNCHANGED vars
  <2>1. TypeOK'
    BY <1>12, ZenonT(60) DEF vars, TypeOK, txVars, rxVars, kernVars
  <2> QED BY <1>12, <2>1, ZenonT(60) DEF vars, RecvShape, SegmentAccounting, rxVars, kernVars
<1> QED
  BY <1>1, <1>2, <1>3, <1>4, <1>5, <1>6, <1>7, <1>8, <1>9, <1>10, <1>11, <1>12, Zenon DEF Next

\* The initial state of rds_endpoint.
LEMMA CountedInit == ASSUME CardFacts, Init PROVE Counted
<1>1. TypeOK
  BY Zenon DEF Init, TypeOK, RecvState
<1>2. RecvShape
  BY DEF Init, RecvShape, CardFacts
<1>3. SegmentAccounting
  BY DEF Init, SegmentAccounting
<1> QED BY <1>1, <1>2, <1>3 DEF Counted

(***************************************************************************)
(* What a step does to one receive                                         *)
(***************************************************************************)

\* The segments of a receive that are placed or still to come.
Held(q) == data[q] \cup Outstanding(q)

\* The receive goes through a step without being matched: it is left alone, posted,
\* cancelled, read further or ended, and what it holds shrinks only with an error.
Kept(q) ==
  /\ bound'[q] = bound[q]
  /\ ~error'[q] => ~error[q] /\ Held(q)' = Held(q)
  /\ bound[q] = NoMsg => data'[q] = data[q]
  /\ \/ rxs'[q] = rxs[q] /\ rxCq'[q] = rxCq[q] /\ (rxs[q] = "done" => error'[q] = error[q])
     \/ rxs[q] = "reading" /\ rxs'[q] = "done" /\ rxCq'[q] = rxCq[q] + RxEntry(q, error'[q])
     \/ rxs[q] = "new" /\ rxs'[q] = "posted" /\ rxCq'[q] = rxCq[q]
     \/ rxs[q] = "posted" /\ rxs'[q] = "done" /\ rxCq'[q] = rxCq[q] + 1

\* The receive is matched: rds_start_rndzv_read runs for it.
Taken(q) ==
  /\ rxs[q] \in {"new", "posted"} /\ bound'[q] \in Msgs /\ data'[q] = data[q]
  /\ ~error'[q] => Held(q)' = data[q] \cup 1 .. NSeg[bound'[q]]
  /\ \/ rxs'[q] = "reading" /\ rxCq'[q] = rxCq[q]
     \/ rxs'[q] = "done" /\ rxCq'[q] = rxCq[q] + RxEntry(q, error'[q])

\* Nothing of the receive changes.
Alone(q) ==
  /\ rxs'[q] = rxs[q] /\ bound'[q] = bound[q] /\ error'[q] = error[q] /\ rxCq'[q] = rxCq[q]
  /\ dread'[q] = dread[q] /\ hca'[q] = hca[q] /\ ntf'[q] = ntf[q] /\ data'[q] = data[q]

\* A receive that is left alone is kept.
LEMMA AloneKept == ASSUME NEW q, Alone(q) PROVE Kept(q)
<1>1. Held(q)' = Held(q)
  BY Zenon DEF Alone, Held, Outstanding
<1> QED BY <1>1, Zenon DEF Alone, Kept

\* READs none of which fails are each posted or parked.
LEMMA AllTaken ==
  ASSUME NEW S, NEW o \in [S -> {"ok", "again", "err"}], Took(o, "err") = {}
  PROVE  Took(o, "ok") \cup Took(o, "again") = S
BY DEF Took

\* A match without an error covers the whole message: nothing is cut off and every READ
\* is posted or parked.
LEMMA StartReadTakes ==
  ASSUME Counted, NEW r \in Recvs, NEW m \in Msgs, NEW w,
         rxs[r] \in {"new", "posted"}, StartRead(r, m, w), UNCHANGED <<ntf, data>>
  PROVE  Taken(r) /\ \A q \in Recvs : q # r => Alone(q)
<1>t. TypeOK /\ ntf[r] = {}
  BY Zenon DEF Counted, RecvShape
<1>1. CASE StartReadNoMem(r, m, w)
  <2>1. /\ rxs' = [rxs EXCEPT ![r] = "done"] /\ bound' = [bound EXCEPT ![r] = m]
        /\ error' = [error EXCEPT ![r] = TRUE] /\ rxCq' = [rxCq EXCEPT ![r] = @ + 1]
        /\ UNCHANGED <<dread, hca>>
    BY <1>1 DEF StartReadNoMem
  <2>2. /\ rxs'[r] = "done" /\ bound'[r] = m /\ error'[r] = TRUE /\ rxCq'[r] = rxCq[r] + 1
    BY <2>1, <1>t, Zenon DEF TypeOK
  <2>3. RxEntry(r, error'[r]) = 1
    BY <2>2 DEF RxEntry
  <2>4. \A q \in Recvs : q # r => Alone(q)
    BY <2>1, <1>t, Zenon DEF TypeOK, Alone
  <2> QED BY <2>2, <2>3, <2>4 DEF Taken
<1>2. CASE StartReadPost(r, m, w)
  <2>1. PICK o \in ReadOutcomes(Planned(r, m), m) :
          /\ bound' = [bound EXCEPT ![r] = m]
          /\ error' = [error EXCEPT ![r] = Truncated(r, m) \/ Took(o, "err") # {}]
          /\ hca' = [hca EXCEPT ![r] = Took(o, "ok")]
          /\ dread' = [dread EXCEPT ![r] = Took(o, "again")]
          /\ rxs' = [rxs EXCEPT ![r] = IF Took(o, "ok") = {} /\ Took(o, "again") = {}
                                      THEN "done" ELSE "reading"]
          /\ rxCq' = [rxCq EXCEPT ![r] =
                        IF Took(o, "ok") = {} /\ Took(o, "again") = {}
                        THEN @ + RxEntry(r, Truncated(r, m) \/ Took(o, "err") # {}) ELSE @]
    BY <1>2, Zenon DEF StartReadPost
  <2> DEFINE none == Took(o, "ok") = {} /\ Took(o, "again") = {}
             err  == Truncated(r, m) \/ Took(o, "err") # {}
  <2>2. /\ bound'[r] = m /\ error'[r] = err
        /\ hca'[r] = Took(o, "ok") /\ dread'[r] = Took(o, "again") /\ ntf'[r] = {}
        /\ rxs'[r] = (IF none THEN "done" ELSE "reading")
        /\ rxCq'[r] = (IF none THEN rxCq[r] + RxEntry(r, err) ELSE rxCq[r])
    <3> HIDE DEF none, err
    <3>1. /\ bound' = [bound EXCEPT ![r] = m] /\ error' = [error EXCEPT ![r] = err]
          /\ hca' = [hca EXCEPT ![r] = Took(o, "ok")]
          /\ dread' = [dread EXCEPT ![r] = Took(o, "again")]
          /\ rxs' = [rxs EXCEPT ![r] = IF none THEN "done" ELSE "reading"]
          /\ rxCq' = [rxCq EXCEPT ![r] = IF none THEN @ + RxEntry(r, err) ELSE @]
      BY <2>1, Zenon DEF none, err
    <3>2. /\ bound \in [Recvs -> Msgs \cup {NoMsg}] /\ error \in [Recvs -> BOOLEAN]
          /\ hca \in [Recvs -> SUBSET Nat] /\ dread \in [Recvs -> SUBSET Nat]
          /\ rxs \in [Recvs -> RecvState] /\ rxCq \in [Recvs -> Nat]
      BY <1>t, Zenon DEF TypeOK
    <3>3. bound'[r] = m /\ error'[r] = err
      BY <3>1, <3>2, Zenon
    <3>4. hca'[r] = Took(o, "ok") /\ dread'[r] = Took(o, "again") /\ ntf'[r] = {}
      BY <3>1, <3>2, <1>t, Zenon
    <3>5. /\ rxs'[r] = (IF none THEN "done" ELSE "reading")
          /\ rxCq'[r] = (IF none THEN rxCq[r] + RxEntry(r, err) ELSE rxCq[r])
      BY <3>1, <3>2, ZenonT(60)
    <3> QED BY <3>3, <3>4, <3>5, Zenon
  <2>3. \A q \in Recvs : q # r => Alone(q)
    BY <2>1, <1>t, Zenon DEF TypeOK, Alone
  <2>4. ASSUME ~error'[r] PROVE Held(r)' = data[r] \cup 1 .. NSeg[bound'[r]]
    <3>0. ~Truncated(r, m) /\ Took(o, "err") = {}
      BY <2>2, <2>4, Zenon
    <3>1. NSeg[m] \in Nat /\ Room[r] \in Nat /\ NSeg[m] <= Room[r] /\ Took(o, "err") = {}
      BY <3>0, RndzvAssumption DEF RndzvAssumption, Truncated
    <3>2. Planned(r, m) = 1 .. NSeg[m]
      BY <3>1, Zenon DEF Planned, Min2
    <3>3. Took(o, "ok") \cup Took(o, "again") = Planned(r, m)
      <4>1. o \in [Planned(r, m) -> {"ok", "again", "err"}]
        BY Zenon DEF ReadOutcomes
      <4> QED BY <3>0, <4>1, AllTaken, Zenon
    <3>4. Held(r)' = data[r] \cup (Took(o, "again") \cup Took(o, "ok") \cup {})
      BY <2>2, Zenon DEF Held, Outstanding
    <3>5. bound'[r] = m
      BY <2>2, Zenon
    <3> QED BY <3>2, <3>3, <3>4, <3>5, Zenon
  <2> HIDE DEF none, err
  <2> QED BY <2>2, <2>3, <2>4, Zenon DEF Taken
<1> QED BY <1>1, <1>2, Zenon DEF StartRead

\* rds_progress_deferred moves READs of a receive from the queue to the adapter; one that
\* cannot be posted leaves an error.
LEMMA ReissueKeeps ==
  ASSUME Counted, NEW n \in Nodes, Reissue(n), UNCHANGED <<ntf, data, bound>>, NEW q \in Recvs
  PROVE  Kept(q)
<1>t. TypeOK
  BY DEF Counted
<1>1. PICK o \in RetryOutcomes(n) :
        /\ hca' = [r \in Recvs |-> hca[r] \cup TookOf(o, r, "ok")]
        /\ dread' = [r \in Recvs |-> IF r \in Orphans(n) THEN {} ELSE dread[r] \ Gone(o, r)]
        /\ error' = [r \in Recvs |-> Bad(o, r)]
        /\ rxs' = [r \in Recvs |-> IF r \in Final(o, n) THEN "done" ELSE rxs[r]]
        /\ rxCq' = [r \in Recvs |-> IF r \in Final(o, n)
                                    THEN rxCq[r] + RxEntry(r, Bad(o, r)) ELSE rxCq[r]]
  BY Zenon DEF Reissue
<1>2. /\ hca'[q] = hca[q] \cup TookOf(o, q, "ok")
      /\ dread'[q] = (IF q \in Orphans(n) THEN {} ELSE dread[q] \ Gone(o, q))
      /\ error'[q] = (error[q] \/ TookOf(o, q, "err") # {})
      /\ rxs'[q] = (IF q \in Final(o, n) THEN "done" ELSE rxs[q])
      /\ rxCq'[q] = (IF q \in Final(o, n) THEN rxCq[q] + RxEntry(q, error'[q]) ELSE rxCq[q])
  BY <1>1, Zenon DEF Bad
<1>3. /\ TookOf(o, q, "ok") \subseteq dread[q] /\ Gone(o, q) \subseteq dread[q]
      /\ q \notin Live(n) => TookOf(o, q, "ok") = {} /\ Gone(o, q) = {}
  BY RetryFacts, Zenon
<1>4. q \in Final(o, n) => rxs[q] = "reading"
  BY DEF Final, Live
<1>5. q \in Orphans(n) => dread[q] = {} /\ q \notin Live(n)
  BY Zenon DEF Orphans, Live, Counted, RecvShape
<1>6. TookOf(o, q, "err") = {} => Held(q)' = Held(q)
  <2>1. ASSUME TookOf(o, q, "err") = {} PROVE Gone(o, q) = TookOf(o, q, "ok")
    BY <2>1 DEF Gone
  <2>2. /\ hca'[q] = hca[q] \cup TookOf(o, q, "ok")
        /\ dread'[q] = (IF q \in Orphans(n) THEN {} ELSE dread[q] \ Gone(o, q))
    BY <1>2, Zenon
  <2>3. ASSUME TookOf(o, q, "err") = {} PROVE dread'[q] \cup hca'[q] = dread[q] \cup hca[q]
    BY <2>1, <2>2, <2>3, <1>3, <1>5
  <2>4. Held(q)' = data[q] \cup (dread'[q] \cup hca'[q] \cup ntf[q])
    BY Zenon DEF Held, Outstanding
  <2> QED BY <2>3, <2>4, Zenon DEF Held, Outstanding
<1>7. rxs[q] = "done" => TookOf(o, q, "err") = {}
  BY <1>3 DEF Live, Gone
<1> HIDE DEF Held
<1>8. ~error'[q] => ~error[q] /\ Held(q)' = Held(q)
  BY <1>2, <1>6, Zenon
<1>9. rxs[q] = "done" => error'[q] = error[q]
  BY <1>2, <1>7, <1>t, Zenon DEF TypeOK
<1> QED BY <1>2, <1>4, <1>8, <1>9, Zenon DEF Kept

\* The status of a READ is consumed: without an error its segment was placed.
LEMMA NotifyKeeps ==
  ASSUME Counted, NEW r \in Recvs, NEW i \in ntf[r], HandleNotify(r, i)
  PROVE  Kept(r) /\ \A q \in Recvs : q # r => Alone(q)
<1>t. TypeOK /\ rxs[r] = "reading"
  BY DEF Counted, RecvShape
<1> DEFINE err == error[r] \/ (rxs[r] = "reading" /\ i \notin data[r])
           fin == rxs[r] = "reading" /\ seg_remaining[r] = 1 /\ seg_deferred[r] = 0
<1>1. /\ error' = [error EXCEPT ![r] = err] /\ ntf' = [ntf EXCEPT ![r] = @ \ {i}]
      /\ rxs' = [rxs EXCEPT ![r] = IF fin THEN "done" ELSE @]
      /\ rxCq' = [rxCq EXCEPT ![r] = IF fin THEN @ + RxEntry(r, err) ELSE @]
      /\ UNCHANGED <<bound, dread, hca, data>>
  BY Zenon DEF HandleNotify
<1>2. ~err => ~error[r] /\ i \in data[r]
  BY <1>t
<1> HIDE DEF err, fin
<1>3. /\ error'[r] = err /\ ntf'[r] = ntf[r] \ {i}
      /\ rxs'[r] = (IF fin THEN "done" ELSE rxs[r])
      /\ rxCq'[r] = (IF fin THEN rxCq[r] + RxEntry(r, err) ELSE rxCq[r])
  BY <1>1, <1>t DEF TypeOK
<1>4. \A q \in Recvs : q # r => Alone(q)
  BY <1>1, <1>t DEF TypeOK, Alone
<1>5. i \in data[r] => Held(r)' = Held(r)
  BY <1>1, <1>3 DEF Held, Outstanding
<1>6. ~error'[r] => ~error[r] /\ Held(r)' = Held(r)
  BY <1>2, <1>3, <1>5, Zenon
<1>7. bound[r] # NoMsg
  BY <1>t, RndzvAssumption, Zenon DEF Counted, RecvShape, RndzvAssumption
<1> QED BY <1>1, <1>3, <1>4, <1>6, <1>7, <1>t, Zenon DEF Kept

\* The adapter ends a READ: its segment moves to the status queue.
LEMMA HcaKeeps ==
  ASSUME Counted, NEW r \in Recvs, NEW i \in hca[r], HcaRead(r, i)
  PROVE  Kept(r) /\ \A q \in Recvs : q # r => Alone(q)
<1>t. TypeOK /\ rxs[r] = "reading" /\ bound[r] # NoMsg
  BY RndzvAssumption DEF Counted, RecvShape, RndzvAssumption
<1>1. /\ hca' = [hca EXCEPT ![r] = @ \ {i}] /\ ntf' = [ntf EXCEPT ![r] = @ \cup {i}]
      /\ data' = [data EXCEPT ![r] = @ \cup {i}] \/ data' = data
      /\ UNCHANGED <<rxs, bound, error, rxCq, dread>>
  BY DEF HcaRead, rxVars
<1>2. /\ hca'[r] = hca[r] \ {i} /\ ntf'[r] = ntf[r] \cup {i}
      /\ data'[r] = data[r] \cup {i} \/ data'[r] = data[r]
  BY <1>1, <1>t DEF TypeOK
<1>3. \A q \in Recvs : q # r => Alone(q)
  BY <1>1, <1>t DEF TypeOK, Alone
<1>4. Held(r)' = Held(r)
  BY <1>1, <1>2 DEF Held, Outstanding
<1> QED BY <1>1, <1>3, <1>4, <1>t, Zenon DEF Kept

\* Every step keeps or matches every receive.
LEMMA RecvStep ==
  ASSUME Counted, [Next]_vars
  PROVE  \A q \in Recvs : Kept(q) \/ Taken(q)
<1>t. TypeOK
  BY DEF Counted
<1>q. (UNCHANGED <<rxs, bound, error, rxCq, dread, hca, ntf, data>>)
        => \A q \in Recvs : Kept(q) \/ Taken(q)
  <2> SUFFICES ASSUME UNCHANGED <<rxs, bound, error, rxCq, dread, hca, ntf, data>>,
                      NEW q \in Recvs
               PROVE  Kept(q)
    BY Zenon
  <2>1. Alone(q)
    BY DEF Alone
  <2> QED BY <2>1, AloneKept
<1>1. ASSUME NEW m \in Msgs,
             SendRndzv(m) \/ HandleFin(m) \/ HandleRtsUnexpected(m)
      PROVE  \A q \in Recvs : Kept(q) \/ Taken(q)
  <2>1. UNCHANGED <<rxs, bound, error, rxCq, dread, hca, ntf, data>>
    BY <1>1 DEF SendRndzv, HandleFin, HandleRtsUnexpected, rxVars, kernVars
  <2> QED BY <2>1, <1>q, Zenon
<1>2. ASSUME NEW m \in Msgs, HandleRtsMatched(m) PROVE \A q \in Recvs : Kept(q) \/ Taken(q)
  <2>1. PICK r \in Posted(m) : StartRead(r, m, wire \ {RTS(m)})
    BY <1>2 DEF HandleRtsMatched
  <2>2. r \in Recvs /\ rxs[r] \in {"new", "posted"} /\ UNCHANGED <<ntf, data>>
    BY <1>2 DEF HandleRtsMatched, Posted
  <2>3. Taken(r) /\ \A q \in Recvs : q # r => Alone(q)
    BY <2>1, <2>2, StartReadTakes
  <2> QED BY <2>3, AloneKept, Zenon
<1>3. ASSUME NEW r \in Recvs, PostRecv(r) PROVE \A q \in Recvs : Kept(q) \/ Taken(q)
  <2>0. rxs[r] = "new" /\ UNCHANGED <<ntf, data>>
    BY <1>3 DEF PostRecv
  <2>1. ASSUME NEW m \in unexp, StartRead(r, m, wire)
        PROVE  \A q \in Recvs : Kept(q) \/ Taken(q)
    <3>1. m \in Msgs
      BY <1>t DEF TypeOK
    <3>2. Taken(r) /\ \A q \in Recvs : q # r => Alone(q)
      BY <2>0, <2>1, <3>1, StartReadTakes
    <3> QED BY <3>2, AloneKept, Zenon
  <2>2. ASSUME rxs' = [rxs EXCEPT ![r] = "posted"],
               UNCHANGED <<bound, error, rxCq, dread, hca>>
        PROVE  \A q \in Recvs : Kept(q) \/ Taken(q)
    <3>1. rxs'[r] = "posted" /\ \A q \in Recvs : q # r => Alone(q)
      BY <2>0, <2>2, <1>t DEF TypeOK, Alone
    <3>2. Held(r)' = Held(r)
      BY <2>0, <2>2, Zenon DEF Held, Outstanding
    <3>3. Kept(r)
      BY <2>0, <2>2, <3>1, <3>2 DEF Kept
    <3> QED BY <3>1, <3>3, AloneKept, Zenon
  <2> QED BY <1>3, <2>1, <2>2, Zenon DEF PostRecv
<1>4. ASSUME NEW r \in Recvs, Cancel(r) PROVE \A q \in Recvs : Kept(q) \/ Taken(q)
  <2>1. /\ rxs[r] = "posted" /\ rxs' = [rxs EXCEPT ![r] = "done"]
        /\ rxCq' = [rxCq EXCEPT ![r] = @ + 1]
        /\ UNCHANGED <<bound, error, dread, hca, ntf, data>>
    BY <1>4 DEF Cancel, kernVars
  <2>2. rxs'[r] = "done" /\ rxCq'[r] = rxCq[r] + 1 /\ \A q \in Recvs : q # r => Alone(q)
    BY <2>1, <1>t DEF TypeOK, Alone
  <2>3. Held(r)' = Held(r)
    BY <2>1, Zenon DEF Held, Outstanding
  <2>4. Kept(r)
    BY <2>1, <2>2, <2>3 DEF Kept
  <2> QED BY <2>2, <2>4, AloneKept, Zenon
<1>5. ASSUME NEW r \in Recvs, NEW i \in ntf[r], HandleNotify(r, i)
      PROVE  \A q \in Recvs : Kept(q) \/ Taken(q)
  BY <1>5, NotifyKeeps, AloneKept, Zenon
<1>6. ASSUME NEW n \in Nodes, PassBegin(n) PROVE \A q \in Recvs : Kept(q) \/ Taken(q)
  <2>1. Reissue(n) /\ UNCHANGED <<ntf, data, bound>>
    BY <1>6 DEF PassBegin
  <2> QED BY <2>1, ReissueKeeps, Zenon
<1>7. ASSUME NEW n \in Nodes, PassEnd(n) PROVE \A q \in Recvs : Kept(q) \/ Taken(q)
  <2>1. UNCHANGED <<rxs, bound, error, rxCq, dread, hca, ntf, data>>
    BY <1>7 DEF PassEnd, rxVars, kernVars
  <2> QED BY <2>1, <1>q, Zenon
<1>8. ASSUME NEW r \in Recvs, NEW i \in hca[r], HcaRead(r, i)
      PROVE  \A q \in Recvs : Kept(q) \/ Taken(q)
  BY <1>8, HcaKeeps, AloneKept, Zenon
<1>9. ASSUME NEW p \in CongPairs, Congest(p) PROVE \A q \in Recvs : Kept(q) \/ Taken(q)
  <2>1. UNCHANGED <<rxs, bound, error, rxCq, dread, hca, ntf, data>>
    BY <1>9 DEF Congest, rxVars, kernVars
  <2> QED BY <2>1, <1>q, Zenon
<1>10. CASE UNCHANGED vars
  <2>1. UNCHANGED <<rxs, bound, error, rxCq, dread, hca, ntf, data>>
    BY <1>10 DEF vars, rxVars, kernVars
  <2> QED BY <2>1, <1>q, Zenon
<1> QED BY <1>1, <1>2, <1>3, <1>4, <1>5, <1>6, <1>7, <1>8, <1>9, <1>10, Zenon DEF Next

(***************************************************************************)
(* What a receive delivers                                                 *)
(***************************************************************************)

\* Nothing is placed before a match; from then on what is placed and what is still to
\* come make up the message, or the receive has an error.
Delivery ==
  \A r \in Recvs : /\ bound[r] = NoMsg => data[r] = {}
                   /\ bound[r] # NoMsg /\ ~error[r] => Held(r) = 1 .. NSeg[bound[r]]

\* Every step keeps what is delivered whole.
LEMMA DeliveryStep == Counted /\ Delivery /\ [Next]_vars => Delivery'
<1> SUFFICES ASSUME Counted, Delivery, [Next]_vars, NEW r \in Recvs
             PROVE  /\ bound'[r] = NoMsg => data'[r] = {}
                    /\ bound'[r] # NoMsg /\ ~error'[r] => Held(r)' = 1 .. NSeg[bound'[r]]
  BY Zenon DEF Delivery
<1>1. /\ bound[r] = NoMsg => data[r] = {}
      /\ bound[r] # NoMsg /\ ~error[r] => Held(r) = 1 .. NSeg[bound[r]]
  BY DEF Delivery
<1>2. CASE Kept(r)
  BY <1>1, <1>2, Zenon DEF Kept
<1>3. CASE Taken(r)
  <2>1. bound[r] = NoMsg /\ bound'[r] # NoMsg
    BY <1>3, RndzvAssumption DEF Taken, Counted, RecvShape, RndzvAssumption
  <2>2. data[r] = {} /\ (~error'[r] => Held(r)' = data[r] \cup 1 .. NSeg[bound'[r]])
    BY <2>1, <1>1, <1>3 DEF Taken
  <2>3. ~error'[r] => Held(r)' = 1 .. NSeg[bound'[r]]
    <3>1. data[r] \cup 1 .. NSeg[bound'[r]] = 1 .. NSeg[bound'[r]]
      BY <2>2, Zenon
    <3> QED BY <2>2, <3>1, Zenon
  <2> QED BY <2>1, <2>3, Zenon
<1> QED BY <1>2, <1>3, RecvStep, Zenon

(***************************************************************************)
(* What is reported                                                        *)
(***************************************************************************)

RecvReported ==
  \A r \in Recvs :
    rxCq[r] = IF rxs[r] = "done" /\ (r \notin Silent \/ error[r] \/ bound[r] = NoMsg)
              THEN 1 ELSE 0

\* Every step keeps a receive's completion unique.
LEMMA RecvReportedStep == Counted /\ RecvReported /\ [Next]_vars => RecvReported'
<1> SUFFICES ASSUME Counted, RecvReported, [Next]_vars, NEW r \in Recvs
             PROVE  rxCq'[r] = IF rxs'[r] = "done"
                                  /\ (r \notin Silent \/ error'[r] \/ bound'[r] = NoMsg)
                               THEN 1 ELSE 0
  BY Zenon DEF RecvReported
<1>1. rxCq[r] = IF rxs[r] = "done" /\ (r \notin Silent \/ error[r] \/ bound[r] = NoMsg)
                THEN 1 ELSE 0
  BY Zenon DEF RecvReported
<1>2. /\ rxs[r] \in {"new", "posted"} => bound[r] = NoMsg
      /\ rxs[r] = "reading" => bound[r] # NoMsg
  BY RndzvAssumption DEF Counted, RecvShape, RndzvAssumption
<1>3. RxEntry(r, error'[r]) = IF r \notin Silent \/ error'[r] THEN 1 ELSE 0
  BY Zenon DEF RxEntry
<1>z. 0 + RxEntry(r, error'[r]) = RxEntry(r, error'[r]) /\ 0 + 1 = 1
  BY DEF RxEntry
<1>4. CASE Kept(r)
  <2>1. CASE rxs'[r] = rxs[r] /\ rxCq'[r] = rxCq[r] /\ (rxs[r] = "done" => error'[r] = error[r])
    BY <1>1, <1>4, <2>1, Zenon DEF Kept
  <2>2. CASE rxs[r] = "reading" /\ rxs'[r] = "done"
             /\ rxCq'[r] = rxCq[r] + RxEntry(r, error'[r])
    BY <1>1, <1>2, <1>3, <1>z, <1>4, <2>2, Zenon DEF Kept
  <2>3. CASE rxs[r] = "new" /\ rxs'[r] = "posted" /\ rxCq'[r] = rxCq[r]
    BY <1>1, <2>3, Zenon
  <2>4. CASE rxs[r] = "posted" /\ rxs'[r] = "done" /\ rxCq'[r] = rxCq[r] + 1
    BY <1>1, <1>2, <1>z, <1>4, <2>4, Zenon DEF Kept
  <2> QED BY <1>4, <2>1, <2>2, <2>3, <2>4, Zenon DEF Kept
<1>5. CASE Taken(r)
  <2>1. bound'[r] # NoMsg
    BY <1>5, RndzvAssumption, Zenon DEF Taken, RndzvAssumption
  <2>2. rxCq[r] = 0
    BY <1>1, <1>5, Zenon DEF Taken
  <2> QED BY <1>3, <1>z, <1>5, <2>1, <2>2, Zenon DEF Taken
<1> QED BY <1>4, <1>5, RecvStep, Zenon

(***************************************************************************)
(* Where a transfer is                                                     *)
(***************************************************************************)

\* A submitted transfer is in at most one of: RTS on the wire, unexpected list, a
\* reading receive, FIN parked, FIN on the wire; and then its send is pending.
OnWire ==
  \A m \in Msgs :
    /\ RTS(m) \in wire => tx[m] = "sent" /\ FIN(m) \notin wire /\ m \notin unexp /\ m \notin dfin
    /\ FIN(m) \in wire => tx[m] = "sent" /\ m \notin unexp /\ m \notin dfin
    /\ m \in unexp => tx[m] = "sent" /\ m \notin dfin
    /\ m \in dfin => tx[m] = "sent"

Nowhere(m, w, u, d) == RTS(m) \notin w /\ FIN(m) \notin w /\ m \notin u /\ m \notin d

AtReader ==
  /\ \A r \in Recvs : rxs[r] = "reading" =>
       tx[bound[r]] = "sent" /\ Nowhere(bound[r], wire, unexp, dfin)
  /\ \A r, q \in Recvs :
       rxs[r] = "reading" /\ rxs[q] = "reading" /\ bound[r] = bound[q] => r = q

Located == Counted /\ OnWire /\ AtReader

\* A match either leaves the transfer with the receive or ends it with a FIN.
LEMMA StartReadOutcome ==
  ASSUME TypeOK, NEW r \in Recvs, NEW m \in Msgs, NEW w, StartRead(r, m, w)
  PROVE  /\ bound' = [bound EXCEPT ![r] = m]
         /\ \/ rxs' = [rxs EXCEPT ![r] = "reading"] /\ SendFins({}, w, dfin)
            \/ rxs' = [rxs EXCEPT ![r] = "done"] /\ SendFins({m}, w, dfin)
<1>1. CASE StartReadNoMem(r, m, w)
  BY <1>1, Zenon DEF StartReadNoMem
<1>2. CASE StartReadPost(r, m, w)
  BY <1>2, Zenon DEF StartReadPost
<1> QED BY <1>1, <1>2, Zenon DEF StartRead

\* Starting the read of a transfer that was taken out of its place puts it in one place.
LEMMA StartReadLocated ==
  ASSUME Located, NEW r \in Recvs, NEW m \in Msgs, NEW w \in SUBSET Datagram,
         rxs[r] # "reading", StartRead(r, m, w), UNCHANGED tx,
         tx[m] = "sent", w \subseteq wire, unexp' \subseteq unexp,
         Nowhere(m, w, unexp', dfin),
         \A q \in Recvs : rxs[q] = "reading" => bound[q] # m
  PROVE  OnWire' /\ AtReader'
<1>0. /\ TypeOK /\ RecvShape /\ OnWire /\ AtReader
      /\ \A q \in Recvs : rxs[q] = "reading" => bound[q] \in Msgs
  BY Zenon DEF Located, Counted, RecvShape
<1>a. /\ bound' = [bound EXCEPT ![r] = m]
      /\ \/ rxs' = [rxs EXCEPT ![r] = "reading"] /\ SendFins({}, w, dfin)
         \/ rxs' = [rxs EXCEPT ![r] = "done"] /\ SendFins({m}, w, dfin)
  BY <1>0, StartReadOutcome, Zenon
<1>1. /\ bound'[r] = m
      /\ \A q \in Recvs \ {r} : bound'[q] = bound[q] /\ rxs'[q] = rxs[q]
  BY <1>0, <1>a, Zenon DEF TypeOK
<1>b. dfin \in SUBSET Msgs /\ {m} \in SUBSET Msgs /\ {} \in SUBSET Msgs
  BY <1>0, Zenon DEF TypeOK
<1>2. CASE rxs' = [rxs EXCEPT ![r] = "reading"] /\ SendFins({}, w, dfin)
  <2>1. /\ dfin' = dfin
        /\ \A x \in Msgs : RTS(x) \in wire' => RTS(x) \in w
        /\ \A x \in Msgs : FIN(x) \in wire' => FIN(x) \in w
    <3>1. /\ dfin \subseteq dfin' /\ dfin' \subseteq dfin \cup {}
          /\ \A x \in Msgs : RTS(x) \in wire' => RTS(x) \in w
          /\ \A x \in Msgs : FIN(x) \in wire' => FIN(x) \in w \/ x \in {}
      BY <1>b, <1>2, SendFinsFacts, Zenon
    <3> QED BY <3>1, Zenon
  <2>2. OnWire'
    BY <1>0, <2>1, Zenon DEF OnWire
  <2>3. AtReader'
    <3>1. \A q \in Recvs : rxs'[q] = "reading" =>
            q = r \/ (q # r /\ rxs[q] = "reading" /\ bound'[q] = bound[q] /\ bound[q] \in Msgs
                     /\ bound[q] # m)
      BY <1>0, <1>1, Zenon
    <3>2. \A x \in Msgs : Nowhere(x, w, unexp', dfin) => Nowhere(x, wire', unexp', dfin')
      BY <2>1, Zenon DEF Nowhere
    <3>3. \A x \in Msgs : Nowhere(x, wire, unexp, dfin) => Nowhere(x, w, unexp', dfin)
      BY Zenon DEF Nowhere
    <3>4. ASSUME NEW q \in Recvs, rxs'[q] = "reading"
          PROVE  tx'[bound'[q]] = "sent" /\ Nowhere(bound'[q], wire', unexp', dfin')
      <4>1. CASE q = r
        BY <4>1, <1>1, <3>2, Zenon
      <4>2. CASE q # r
        <5>1. /\ rxs[q] = "reading" /\ bound'[q] = bound[q] /\ bound[q] \in Msgs
          BY <3>1, <3>4, <4>2, Zenon
        <5>2. tx[bound[q]] = "sent" /\ Nowhere(bound[q], wire, unexp, dfin)
          BY <1>0, <5>1, Zenon DEF AtReader
        <5> QED BY <5>1, <5>2, <3>2, <3>3, Zenon
      <4> QED BY <4>1, <4>2, Zenon
    <3>5. ASSUME NEW q \in Recvs, NEW z \in Recvs, rxs'[q] = "reading", rxs'[z] = "reading",
                 bound'[q] = bound'[z]
          PROVE  q = z
      <4>1. \A x, y \in Recvs :
              rxs[x] = "reading" /\ rxs[y] = "reading" /\ bound[x] = bound[y] => x = y
        BY <1>0, Zenon DEF AtReader
      <4>2. q = r \/ bound'[q] # m
        BY <3>1, <3>5, Zenon
      <4>3. z = r \/ bound'[z] # m
        BY <3>1, <3>5, Zenon
      <4>4. CASE q # r /\ z # r
        BY <3>1, <3>5, <4>1, <4>4, Zenon
      <4> QED BY <1>1, <3>5, <4>2, <4>3, <4>4, Zenon
    <3> QED BY <3>4, <3>5, Zenon DEF AtReader, Nowhere
  <2> QED BY <2>2, <2>3, Zenon
<1>3. CASE rxs' = [rxs EXCEPT ![r] = "done"] /\ SendFins({m}, w, dfin)
  <2>0. rxs'[r] = "done"
    BY <1>0, <1>3, Zenon DEF TypeOK
  <2>1. /\ dfin' \subseteq dfin \cup {m}
        /\ \A x \in Msgs : RTS(x) \in wire' => RTS(x) \in w
        /\ \A x \in Msgs : FIN(x) \in wire' => FIN(x) \in w \/ x = m
        /\ m \in dfin' => FIN(m) \notin wire'
    <3>1. PICK fins \in SUBSET Msgs : fins = {m} /\ SendFins(fins, w, dfin)
      BY <1>3, <1>b, Zenon
    <3>2. /\ dfin' \subseteq dfin \cup fins
          /\ \A x \in Msgs : RTS(x) \in wire' => RTS(x) \in w
          /\ \A x \in Msgs : FIN(x) \in wire' => FIN(x) \in w \/ x \in fins
          /\ \A x \in fins : x \in dfin' => x \in dfin \/ FIN(x) \notin wire' \/ FIN(x) \in w
      BY <3>1, <1>b, SendFinsFacts, Zenon
    <3> QED BY <3>1, <3>2, Zenon DEF Nowhere
  <2>2. OnWire'
    <3> SUFFICES ASSUME NEW x \in Msgs
                 PROVE  /\ RTS(x) \in wire' => tx[x] = "sent" /\ FIN(x) \notin wire'
                                               /\ x \notin unexp' /\ x \notin dfin'
                        /\ FIN(x) \in wire' => tx[x] = "sent" /\ x \notin unexp' /\ x \notin dfin'
                        /\ x \in unexp' => tx[x] = "sent" /\ x \notin dfin'
                        /\ x \in dfin' => tx[x] = "sent"
      BY Zenon DEF OnWire
    <3>1. CASE x = m
      BY <3>1, <2>1, Zenon DEF Nowhere
    <3>2. CASE x # m
      BY <3>2, <2>1, <1>0, Zenon DEF OnWire
    <3> QED BY <3>1, <3>2, Zenon
  <2>3. AtReader'
    <3>1. \A q \in Recvs : rxs'[q] = "reading" =>
            /\ q # r /\ rxs[q] = "reading" /\ bound'[q] = bound[q]
            /\ bound[q] \in Msgs /\ bound[q] # m
      BY <1>0, <1>1, <2>0, Zenon
    <3>2. \A x \in Msgs : x # m /\ Nowhere(x, wire, unexp, dfin)
                            => Nowhere(x, wire', unexp', dfin')
      BY <2>1, Zenon DEF Nowhere
    <3>3. ASSUME NEW q \in Recvs, rxs'[q] = "reading"
          PROVE  tx'[bound'[q]] = "sent" /\ Nowhere(bound'[q], wire', unexp', dfin')
      <4>1. /\ rxs[q] = "reading" /\ bound'[q] = bound[q] /\ bound[q] \in Msgs /\ bound[q] # m
        BY <3>1, <3>3, Zenon
      <4>2. tx[bound[q]] = "sent" /\ Nowhere(bound[q], wire, unexp, dfin)
        BY <1>0, <4>1, Zenon DEF AtReader
      <4> QED BY <4>1, <4>2, <3>2, Zenon
    <3>4. ASSUME NEW q \in Recvs, NEW z \in Recvs, rxs'[q] = "reading", rxs'[z] = "reading",
                 bound'[q] = bound'[z]
          PROVE  q = z
      <4>1. \A x, y \in Recvs :
              rxs[x] = "reading" /\ rxs[y] = "reading" /\ bound[x] = bound[y] => x = y
        BY <1>0, Zenon DEF AtReader
      <4>2. rxs[q] = "reading" /\ bound'[q] = bound[q]
        BY <3>1, <3>4, Zenon
      <4>3. rxs[z] = "reading" /\ bound'[z] = bound[z]
        BY <3>1, <3>4, Zenon
      <4> QED BY <3>4, <4>1, <4>2, <4>3, Zenon
    <3> QED BY <3>3, <3>4, Zenon DEF AtReader, Nowhere
  <2> QED BY <2>2, <2>3, Zenon
<1> QED BY <1>2, <1>3, <1>a, Zenon

\* Finalizing the receives F and retrying the parked FINs P moves those transfers to the
\* wire or to the parked FINs, and no other.
LEMMA FinishLocated ==
  ASSUME Located, NEW F \in SUBSET Recvs, NEW P \in SUBSET dfin, NEW fins \in SUBSET Msgs,
         \A r \in F : rxs[r] = "reading",
         fins = P \cup {bound[r] : r \in F},
         SendFins(fins, wire, dfin \ P),
         UNCHANGED <<tx, bound, unexp>>,
         \A r \in Recvs : rxs'[r] = IF r \in F THEN "done" ELSE rxs[r]
  PROVE  OnWire' /\ AtReader'
<1>0. /\ OnWire /\ AtReader
      /\ \A q \in Recvs : rxs[q] = "reading" => bound[q] \in Msgs
  BY Zenon DEF Located, Counted, RecvShape
<1>1. PICK d \in SUBSET Msgs, w \in SUBSET Datagram : d = dfin \ P /\ w = wire
  BY Zenon DEF Located, Counted, TypeOK
<1>a. SendFins(fins, w, d)
  BY <1>1, Zenon
<1>b. /\ w \subseteq wire' /\ d \subseteq dfin' /\ dfin' \subseteq d \cup fins
      /\ \A m \in Msgs : RTS(m) \in wire' => RTS(m) \in w
      /\ \A m \in Msgs : FIN(m) \in wire' => FIN(m) \in w \/ m \in fins
      /\ \A m \in fins : m \in dfin' => m \in d \/ FIN(m) \notin wire' \/ FIN(m) \in w
  BY <1>a, SendFinsFacts, ZenonT(60)
<1>2. /\ wire \subseteq wire' /\ dfin \ P \subseteq dfin' /\ dfin' \subseteq (dfin \ P) \cup fins
      /\ \A m \in Msgs : RTS(m) \in wire' => RTS(m) \in wire
      /\ \A m \in Msgs : FIN(m) \in wire' => FIN(m) \in wire \/ m \in fins
      /\ \A m \in fins : m \in dfin' => m \in dfin \ P \/ FIN(m) \notin wire' \/ FIN(m) \in wire
  BY <1>1, <1>b, Zenon
<1>3. \A m \in fins : /\ tx[m] = "sent" /\ RTS(m) \notin wire /\ FIN(m) \notin wire
                      /\ m \notin unexp /\ m \notin dfin \ P
  <2>1. \A m \in P : m \in Msgs /\ m \in dfin
    BY Zenon
  <2>2. \A m \in P : /\ tx[m] = "sent" /\ RTS(m) \notin wire /\ FIN(m) \notin wire
                     /\ m \notin unexp
    BY <1>0, <2>1, Zenon DEF OnWire
  <2>3. \A r \in F : /\ tx[bound[r]] = "sent" /\ RTS(bound[r]) \notin wire
                     /\ FIN(bound[r]) \notin wire /\ bound[r] \notin unexp /\ bound[r] \notin dfin
    BY <1>0, Zenon DEF AtReader, Nowhere
  <2>4. \A m \in fins : m \in P \/ \E r \in F : m = bound[r]
    BY Zenon
  <2>5. ASSUME NEW m \in fins
        PROVE  /\ tx[m] = "sent" /\ RTS(m) \notin wire /\ FIN(m) \notin wire
               /\ m \notin unexp /\ m \notin dfin \ P
    <3>1. CASE m \in P
      BY <2>2, <3>1, Zenon
    <3>2. CASE \E r \in F : m = bound[r]
      <4>1. PICK r \in F : m = bound[r]
        BY <3>2, Zenon
      <4> QED BY <2>3, <4>1, Zenon
    <3> QED BY <2>4, <3>1, <3>2, Zenon
  <2> QED BY <2>5, Zenon
<1>4. OnWire'
  BY <1>0, <1>2, <1>3, Zenon DEF OnWire
<1>5. \A r \in Recvs : rxs'[r] = "reading" =>
        rxs[r] = "reading" /\ bound[r] \in Msgs /\ bound[r] \notin fins
  <2>1. \A r \in Recvs, q \in F : rxs[r] = "reading" /\ bound[r] = bound[q] => r = q
    BY <1>0, Zenon DEF AtReader
  <2>2. \A r \in Recvs : rxs[r] = "reading" => bound[r] \notin P
    BY <1>0, Zenon DEF AtReader, Nowhere
  <2> QED BY <1>0, <2>1, <2>2, Zenon
<1>6. AtReader'
  <2>1. \A r \in Recvs : rxs'[r] = "reading" =>
          tx'[bound'[r]] = "sent" /\ Nowhere(bound'[r], wire', unexp', dfin')
    BY <1>0, <1>2, <1>5, Zenon DEF AtReader, Nowhere
  <2>2. \A r, q \in Recvs : rxs'[r] = "reading" /\ rxs'[q] = "reading" /\ bound'[r] = bound'[q]
          => r = q
    BY <1>0, <1>5, Zenon DEF AtReader
  <2> QED BY <2>1, <2>2, Zenon DEF AtReader, Nowhere
<1> QED BY <1>4, <1>6, Zenon

\* Every step keeps a transfer in one place.
LEMMA LocatedStep == ASSUME CardFacts, Located, [Next]_vars PROVE Located'
<1> SUFFICES OnWire' /\ AtReader'
  BY CountedStep, Zenon DEF Located
<1>0. /\ Counted /\ TypeOK /\ RecvShape /\ OnWire /\ AtReader
      /\ \A q \in Recvs : rxs[q] = "reading" => bound[q] \in Msgs
      /\ wire \in SUBSET Datagram /\ dfin \in SUBSET Msgs /\ unexp \in SUBSET Msgs
  BY Zenon DEF Located, Counted, TypeOK, RecvShape
<1>1. ASSUME NEW m \in Msgs, SendRndzv(m) PROVE OnWire' /\ AtReader'
  <2>1. /\ tx[m] = "idle" /\ tx'[m] = "sent" /\ \A x \in Msgs \ {m} : tx'[x] = tx[x]
        /\ wire' = wire \cup {RTS(m)} /\ UNCHANGED <<rxs, bound, unexp, dfin>>
    BY <1>0, <1>1, Zenon DEF SendRndzv, TypeOK, rxVars
  <2>2. Nowhere(m, wire, unexp, dfin) /\ \A r \in Recvs : rxs[r] = "reading" => bound[r] # m
    BY <1>0, <2>1, Zenon DEF OnWire, AtReader, Nowhere
  <2>3. /\ \A x \in Msgs : RTS(x) \in wire' => RTS(x) \in wire \/ x = m
        /\ \A x \in Msgs : FIN(x) \in wire' => FIN(x) \in wire
    BY <2>1, DatagramFacts, Zenon
  <2>4. OnWire'
    BY <1>0, <2>1, <2>2, <2>3, Zenon DEF OnWire, Nowhere
  <2>5. AtReader'
    BY <1>0, <2>1, <2>2, <2>3, ZenonT(60) DEF AtReader, Nowhere
  <2> QED BY <2>4, <2>5, Zenon
<1>2. ASSUME NEW m \in Msgs, HandleFin(m) PROVE OnWire' /\ AtReader'
  <2>1. /\ FIN(m) \in wire /\ wire' = wire \ {FIN(m)} /\ UNCHANGED <<rxs, bound, unexp, dfin>>
        /\ \A x \in Msgs \ {m} : tx'[x] = tx[x]
    BY <1>0, <1>2, Zenon DEF HandleFin, TypeOK, txVars, rxVars
  <2>2. RTS(m) \notin wire /\ m \notin unexp /\ m \notin dfin
        /\ \A r \in Recvs : rxs[r] = "reading" => bound[r] # m
    BY <1>0, <2>1, Zenon DEF OnWire, AtReader, Nowhere
  <2>3. OnWire'
    BY <1>0, <2>1, <2>2, Zenon DEF OnWire
  <2>4. AtReader'
    BY <1>0, <2>1, <2>2, Zenon DEF AtReader, Nowhere
  <2> QED BY <2>3, <2>4, Zenon
<1>3. ASSUME NEW m \in Msgs, HandleRtsMatched(m) PROVE OnWire' /\ AtReader'
  <2>1. PICK r \in Posted(m) : StartRead(r, m, wire \ {RTS(m)})
    BY <1>3, Zenon DEF HandleRtsMatched
  <2>2. r \in Recvs /\ rxs[r] # "reading" /\ UNCHANGED <<tx, unexp>> /\ RTS(m) \in wire
    BY <1>3, Zenon DEF HandleRtsMatched, Posted, txVars
  <2>3. /\ tx[m] = "sent" /\ Nowhere(m, wire \ {RTS(m)}, unexp', dfin)
        /\ \A q \in Recvs : rxs[q] = "reading" => bound[q] # m
    BY <1>0, <2>2, Zenon DEF OnWire, AtReader, Nowhere
  <2>4. PICK w \in SUBSET Datagram : w = wire \ {RTS(m)}
    BY <1>0, Zenon
  <2> QED BY <2>1, <2>2, <2>3, <2>4, StartReadLocated, Zenon
<1>4. ASSUME NEW m \in Msgs, HandleRtsUnexpected(m) PROVE OnWire' /\ AtReader'
  <2>1. /\ RTS(m) \in wire /\ UNCHANGED <<tx, rxs, bound>>
        /\ \/ unexp' = unexp \cup {m} /\ wire' = wire \ {RTS(m)} /\ dfin' = dfin
           \/ SendFins({m}, wire \ {RTS(m)}, dfin) /\ unexp' = unexp
    BY <1>4, Zenon DEF HandleRtsUnexpected, txVars, rxVars
  <2>2. /\ tx[m] = "sent" /\ FIN(m) \notin wire /\ m \notin unexp /\ m \notin dfin
        /\ \A q \in Recvs : rxs[q] = "reading" => bound[q] # m
    BY <1>0, <2>1, Zenon DEF OnWire, AtReader, Nowhere
  <2>3. CASE unexp' = unexp \cup {m} /\ wire' = wire \ {RTS(m)} /\ dfin' = dfin
    <3>1. OnWire'
      BY <1>0, <2>1, <2>2, <2>3, Zenon DEF OnWire
    <3>2. AtReader'
      BY <1>0, <2>1, <2>2, <2>3, Zenon DEF AtReader, Nowhere
    <3> QED BY <3>1, <3>2, Zenon
  <2>4. CASE SendFins({m}, wire \ {RTS(m)}, dfin) /\ unexp' = unexp
    <3>1. PICK fins \in SUBSET Msgs, w \in SUBSET Datagram, d \in SUBSET Msgs :
            fins = {m} /\ w = wire \ {RTS(m)} /\ d = dfin /\ SendFins(fins, w, d)
      BY <1>0, <2>4, Zenon
    <3>a. SendFins(fins, w, d)
      BY <3>1, Zenon
    <3>2. /\ dfin' \subseteq d \cup fins
          /\ \A x \in Msgs : RTS(x) \in wire' => RTS(x) \in w
          /\ \A x \in Msgs : FIN(x) \in wire' => FIN(x) \in w \/ x \in fins
          /\ \A x \in fins : x \in dfin' => x \in d \/ FIN(x) \notin wire' \/ FIN(x) \in w
      BY <3>a, SendFinsFacts, ZenonT(60)
    <3>3. OnWire'
      BY <1>0, <2>1, <2>2, <2>4, <3>1, <3>2, Zenon DEF OnWire
    <3>4. AtReader'
      BY <1>0, <2>1, <2>2, <2>4, <3>1, <3>2, Zenon DEF AtReader, Nowhere
    <3> QED BY <3>3, <3>4, Zenon
  <2> QED BY <2>1, <2>3, <2>4, Zenon
<1>5. ASSUME NEW r \in Recvs, PostRecv(r) PROVE OnWire' /\ AtReader'
  <2>1. rxs[r] = "new" /\ UNCHANGED tx
    BY <1>5, Zenon DEF PostRecv, txVars
  <2>2. ASSUME NEW m \in unexp, unexp' = unexp \ {m}, StartRead(r, m, wire)
        PROVE  OnWire' /\ AtReader'
    <3>1. /\ m \in Msgs /\ tx[m] = "sent" /\ Nowhere(m, wire, unexp', dfin)
          /\ \A q \in Recvs : rxs[q] = "reading" => bound[q] # m
      BY <1>0, <2>2, Zenon DEF OnWire, AtReader, Nowhere
    <3>2. PICK w \in SUBSET Datagram : w = wire
      BY <1>0, Zenon
    <3> QED BY <2>1, <2>2, <3>1, <3>2, StartReadLocated, Zenon
  <2>3. ASSUME rxs' = [rxs EXCEPT ![r] = "posted"], UNCHANGED <<bound, unexp, dfin, wire>>
        PROVE  OnWire' /\ AtReader'
    <3>1. \A q \in Recvs : rxs'[q] = "reading" => rxs[q] = "reading"
      BY <1>0, <2>3, Zenon DEF TypeOK
    <3>2. OnWire'
      BY <1>0, <2>1, <2>3, Zenon DEF OnWire
    <3>3. AtReader'
      BY <1>0, <2>1, <2>3, <3>1, Zenon DEF AtReader, Nowhere
    <3> QED BY <3>2, <3>3, Zenon
  <2> QED BY <1>5, <2>2, <2>3, Zenon DEF PostRecv
<1>6. ASSUME NEW r \in Recvs, Cancel(r) PROVE OnWire' /\ AtReader'
  <2>1. /\ UNCHANGED <<tx, wire, bound, unexp, dfin>>
        /\ \A q \in Recvs : rxs'[q] = "reading" => rxs[q] = "reading"
    BY <1>0, <1>6, Zenon DEF Cancel, TypeOK, txVars
  <2>2. OnWire'
    BY <1>0, <2>1, Zenon DEF OnWire
  <2>3. AtReader'
    BY <1>0, <2>1, Zenon DEF AtReader, Nowhere
  <2> QED BY <2>2, <2>3, Zenon
<1>7. ASSUME NEW r \in Recvs, NEW i \in ntf[r], HandleNotify(r, i) PROVE OnWire' /\ AtReader'
  <2> DEFINE fin == rxs[r] = "reading" /\ seg_remaining[r] = 1 /\ seg_deferred[r] = 0
  <2>1. /\ rxs' = [rxs EXCEPT ![r] = IF fin THEN "done" ELSE @]
        /\ SendFins(IF fin THEN {bound[r]} ELSE {}, wire, dfin)
        /\ UNCHANGED <<tx, bound, unexp>>
    BY <1>7, Zenon DEF HandleNotify, txVars
  <2>2. rxs[r] = "reading" /\ bound[r] \in Msgs
    BY <1>0, Zenon DEF RecvShape
  <2> HIDE DEF fin
  <2>3. PICK F \in SUBSET Recvs : F = IF fin THEN {r} ELSE {}
    BY Zenon
  <2>4. PICK fins \in SUBSET Msgs : fins = IF fin THEN {bound[r]} ELSE {}
    BY <2>2, Zenon
  <2>5. PICK P \in SUBSET dfin : P = {}
    BY Zenon
  <2>6. fins = P \cup {bound[q] : q \in F} /\ \A q \in F : rxs[q] = "reading"
    BY <2>2, <2>3, <2>4, <2>5, Zenon
  <2>7. dfin \ P = dfin
    BY <2>5, Zenon
  <2>8. SendFins(fins, wire, dfin \ P)
    BY <2>1, <2>4, <2>7, ZenonT(60)
  <2>9. \A q \in Recvs : rxs'[q] = IF q \in F THEN "done" ELSE rxs[q]
    BY <1>0, <2>1, <2>3, Zenon DEF TypeOK
  <2> QED BY <2>1, <2>6, <2>8, <2>9, FinishLocated, ZenonT(60)
<1>8. ASSUME NEW n \in Nodes, PassBegin(n) PROVE OnWire' /\ AtReader'
  <2>1. UNCHANGED <<tx, bound, unexp>> /\ Reissue(n)
    BY <1>8, Zenon DEF PassBegin, txVars
  <2>2. PICK o \in RetryOutcomes(n) :
          /\ rxs' = [r \in Recvs |-> IF r \in Final(o, n) THEN "done" ELSE rxs[r]]
          /\ SendFins(ParkedFins(n) \cup {bound[r] : r \in Final(o, n)}, wire,
                      dfin \ ParkedFins(n))
    BY <2>1, ZenonT(60) DEF Reissue
  <2>3. /\ \A r \in Final(o, n) : rxs[r] = "reading" /\ r \in Recvs /\ bound[r] \in Msgs
        /\ ParkedFins(n) \in SUBSET dfin
    BY <1>0, Zenon DEF Final, Live, ParkedFins
  <2>4. PICK F \in SUBSET Recvs : F = Final(o, n)
    BY <2>3, Zenon
  <2>5. PICK fins \in SUBSET Msgs : fins = ParkedFins(n) \cup {bound[r] : r \in F}
    BY <1>0, <2>3, <2>4, Zenon
  <2>6. SendFins(fins, wire, dfin \ ParkedFins(n))
    BY <2>2, <2>4, <2>5, ZenonT(60)
  <2>7. \A r \in Recvs : rxs'[r] = IF r \in F THEN "done" ELSE rxs[r]
    BY <2>2, <2>4, Zenon
  <2> QED BY <2>1, <2>3, <2>4, <2>5, <2>6, <2>7, FinishLocated, ZenonT(60)
<1>9. ASSUME NEW n \in Nodes, PassEnd(n) PROVE OnWire' /\ AtReader'
  BY <1>0, <1>9, Zenon DEF PassEnd, OnWire, AtReader, Nowhere, txVars, rxVars
<1>10. ASSUME NEW r \in Recvs, NEW i \in hca[r], HcaRead(r, i) PROVE OnWire' /\ AtReader'
  BY <1>0, <1>10, Zenon DEF HcaRead, OnWire, AtReader, Nowhere, txVars, rxVars
<1>11. ASSUME NEW p \in CongPairs, Congest(p) PROVE OnWire' /\ AtReader'
  BY <1>0, <1>11, Zenon DEF Congest, OnWire, AtReader, Nowhere, txVars, rxVars
<1>12. CASE UNCHANGED vars
  BY <1>0, <1>12, Zenon DEF vars, OnWire, AtReader, Nowhere, txVars, rxVars
<1> QED
  BY <1>1, <1>2, <1>3, <1>4, <1>5, <1>6, <1>7, <1>8, <1>9, <1>10, <1>11, <1>12, ZenonT(60) DEF Next

\* No transfer is anywhere at the start.
LEMMA LocatedInit == ASSUME CardFacts, Init PROVE Located
<1> SUFFICES OnWire /\ AtReader
  BY CountedInit, Zenon DEF Located
<1> QED BY Zenon DEF Init, OnWire, AtReader

(***************************************************************************)
(* Sends                                                                   *)
(***************************************************************************)

\* The sends a step can end: those whose FIN is handled.
SendsKept == UNCHANGED <<tx, txCq, inflight>>

\* Only rds_send_rndzv and a FIN touch a send.
LEMMA SendStep ==
  ASSUME [Next]_vars
  PROVE  SendsKept \/ \E m \in Msgs : SendRndzv(m) \/ (HandleFin(m) /\ tx[m] = "sent")
<1>1. ASSUME NEW m \in Msgs, HandleFin(m), tx[m] # "sent" PROVE SendsKept
  BY <1>1, Zenon DEF HandleFin, SendsKept, txVars
<1>2. ASSUME NEW m \in Msgs, HandleRtsMatched(m) \/ HandleRtsUnexpected(m) PROVE SendsKept
  BY <1>2, Zenon DEF HandleRtsMatched, HandleRtsUnexpected, SendsKept, txVars
<1>3. ASSUME NEW r \in Recvs, PostRecv(r) \/ Cancel(r) PROVE SendsKept
  BY <1>3, Zenon DEF PostRecv, Cancel, SendsKept, txVars
<1>4. ASSUME NEW r \in Recvs, NEW i, HandleNotify(r, i) \/ HcaRead(r, i) PROVE SendsKept
  BY <1>4, Zenon DEF HandleNotify, HcaRead, SendsKept, txVars
<1>5. ASSUME NEW n \in Nodes, PassBegin(n) \/ PassEnd(n) PROVE SendsKept
  BY <1>5, Zenon DEF PassBegin, PassEnd, SendsKept, txVars
<1>6. ASSUME NEW p, Congest(p) PROVE SendsKept
  BY <1>6, Zenon DEF Congest, SendsKept, txVars
<1>7. CASE UNCHANGED vars
  BY <1>7, Zenon DEF vars, SendsKept, txVars
<1> QED BY <1>1, <1>2, <1>3, <1>4, <1>5, <1>6, <1>7, Zenon DEF Next

SendReported ==
  \A m \in Msgs : txCq[m] = IF tx[m] = "done" /\ m \notin Silent THEN 1 ELSE 0

\* Every step keeps a send's completion unique.
LEMMA SendReportedStep == Counted /\ SendReported /\ [Next]_vars => SendReported'
<1> SUFFICES ASSUME Counted, SendReported, [Next]_vars PROVE SendReported'
  BY Zenon
<1>t. tx \in [Msgs -> {"idle", "sent", "done"}] /\ txCq \in [Msgs -> Nat]
  BY Zenon DEF Counted, TypeOK
<1>1. CASE SendsKept
  BY <1>1, Zenon DEF SendsKept, SendReported
<1>2. ASSUME NEW m \in Msgs, SendRndzv(m) PROVE SendReported'
  <2>1. tx' = [tx EXCEPT ![m] = "sent"] /\ txCq' = txCq /\ tx[m] = "idle"
    BY <1>2, Zenon DEF SendRndzv
  <2> QED BY <2>1, <1>t, Zenon DEF SendReported
<1>3. ASSUME NEW m \in Msgs, HandleFin(m), tx[m] = "sent" PROVE SendReported'
  <2>1. /\ tx' = [tx EXCEPT ![m] = "done"]
        /\ txCq' = [txCq EXCEPT ![m] = IF m \in Silent THEN @ ELSE @ + 1]
    BY <1>3, Zenon DEF HandleFin
  <2> QED BY <2>1, <1>3, <1>t DEF SendReported
<1> QED BY <1>1, <1>2, <1>3, SendStep, Zenon

(***************************************************************************)
(* The cap                                                                 *)
(***************************************************************************)

\* The rendezvous sends of an endpoint that await a FIN.
Pending(n) == {m \in Msgs : Src[m] = n /\ tx[m] = "sent"}

\* Every step keeps ep->rndzv_tx_inflight exact and within the cap.
LEMMA InflightStep ==
  ASSUME CardFacts, Counted, InflightExact, [Next]_vars PROVE InflightExact'
<1> SUFFICES ASSUME NEW n \in Nodes
             PROVE  inflight'[n] = Cardinality(Pending(n)') /\ inflight'[n] <= MaxInflight
  BY Zenon DEF InflightExact, Pending
<1>t. /\ tx \in [Msgs -> {"idle", "sent", "done"}] /\ inflight \in [Nodes -> Nat]
      /\ MaxInflight \in Nat /\ IsFiniteSet(Msgs) /\ Src \in [Msgs -> Nodes]
  BY RndzvAssumption, Zenon DEF Counted, TypeOK, RndzvAssumption
<1>0. /\ inflight[n] = Cardinality(Pending(n)) /\ inflight[n] <= MaxInflight
      /\ IsFiniteSet(Pending(n))
  BY <1>t, CardMinus, Zenon DEF InflightExact, Pending
<1>1. CASE SendsKept
  BY <1>1, <1>0, Zenon DEF SendsKept, Pending
<1>2. ASSUME NEW m \in Msgs, SendRndzv(m)
      PROVE  inflight'[n] = Cardinality(Pending(n)') /\ inflight'[n] <= MaxInflight
  <2>1. /\ tx[m] = "idle" /\ inflight[Src[m]] < MaxInflight /\ tx' = [tx EXCEPT ![m] = "sent"]
        /\ inflight' = [inflight EXCEPT ![Src[m]] = @ + 1]
    BY <1>2, Zenon DEF SendRndzv
  <2>2. CASE Src[m] = n
    <3>1. Pending(n)' = Pending(n) \cup {m} /\ m \notin Pending(n)
      BY <2>1, <2>2, <1>t, Zenon DEF Pending
    <3>2. Cardinality(Pending(n) \cup {m}) = Cardinality(Pending(n)) + 1
      BY <1>0, <3>1, CardOne, Zenon
    <3>3. inflight'[n] = inflight[n] + 1 /\ inflight[n] < MaxInflight
      BY <2>1, <2>2, <1>t, Zenon
    <3>4. Cardinality(Pending(n)') = inflight[n] + 1
      BY <3>1, <3>2, <1>0, Zenon
    <3> QED BY <3>3, <3>4, <1>t
  <2>3. CASE Src[m] # n
    <3>1. Pending(n)' = Pending(n) /\ inflight'[n] = inflight[n]
      BY <2>1, <2>3, <1>t, Zenon DEF Pending
    <3> QED BY <3>1, <1>0, Zenon
  <2> QED BY <2>2, <2>3, Zenon
<1>3. ASSUME NEW m \in Msgs, HandleFin(m), tx[m] = "sent"
      PROVE  inflight'[n] = Cardinality(Pending(n)') /\ inflight'[n] <= MaxInflight
  <2>1. /\ tx' = [tx EXCEPT ![m] = "done"]
        /\ inflight' = [inflight EXCEPT ![Src[m]] = IF @ > 0 THEN @ - 1 ELSE @]
    BY <1>3, Zenon DEF HandleFin
  <2>2. CASE Src[m] = n
    <3>1. Pending(n)' = Pending(n) \ {m} /\ m \in Pending(n)
      BY <2>1, <2>2, <1>3, <1>t, Zenon DEF Pending
    <3>2. /\ Cardinality(Pending(n) \ {m}) = Cardinality(Pending(n)) - 1
          /\ IsFiniteSet(Pending(n) \ {m})
      BY <1>0, <3>1, CardOne, Zenon
    <3>3. Cardinality(Pending(n) \ {m}) \in Nat
      BY <3>2, CardNat, Zenon
    <3>4. inflight[n] > 0 /\ inflight[n] \in Nat
      BY <3>2, <3>3, <1>0, <1>t
    <3>5. inflight'[n] = inflight[n] - 1
      BY <2>1, <2>2, <3>4, <1>t, Zenon
    <3>6. Cardinality(Pending(n)') = inflight[n] - 1
      BY <3>1, <3>2, <1>0, Zenon
    <3> QED BY <3>4, <3>5, <3>6, <1>0, <1>t
  <2>3. CASE Src[m] # n
    <3>1. Pending(n)' = Pending(n) /\ inflight'[n] = inflight[n]
      BY <2>1, <2>3, <1>t, Zenon DEF Pending
    <3> QED BY <3>1, <1>0, Zenon
  <2> QED BY <2>2, <2>3, Zenon
<1> QED BY <1>1, <1>2, <1>3, SendStep, Zenon

(***************************************************************************)
(* The matching lists                                                      *)
(***************************************************************************)

\* Every step keeps posted receives and unexpected messages apart.
LEMMA NoMissedStep == Counted /\ NoMissedMatch /\ [Next]_vars => NoMissedMatch'
<1> SUFFICES ASSUME Counted, NoMissedMatch, [Next]_vars PROVE NoMissedMatch'
  BY Zenon
<1>t. rxs \in [Recvs -> RecvState] /\ unexp \in SUBSET Msgs /\ TypeOK
  BY Zenon DEF Counted, TypeOK
<1>q. ASSUME \A q \in Recvs : rxs'[q] = "posted" => rxs[q] = "posted", unexp' \subseteq unexp
      PROVE  NoMissedMatch'
  BY <1>q, Zenon DEF NoMissedMatch
<1>r. ASSUME NEW r \in Recvs, NEW m \in Msgs, NEW w, StartRead(r, m, w), unexp' \subseteq unexp
      PROVE  NoMissedMatch'
  <2>1. rxs' = [rxs EXCEPT ![r] = "done"] \/ rxs' = [rxs EXCEPT ![r] = "reading"]
    <3>1. CASE StartReadNoMem(r, m, w)
      BY <3>1, Zenon DEF StartReadNoMem
    <3>2. CASE StartReadPost(r, m, w)
      BY <3>2, Zenon DEF StartReadPost
    <3> QED BY <1>r, <3>1, <3>2, Zenon DEF StartRead
  <2>2. \A q \in Recvs : rxs'[q] = "posted" => rxs[q] = "posted"
    BY <2>1, <1>t, Zenon
  <2> QED BY <2>2, <1>r, <1>q, Zenon
<1>1. ASSUME NEW m \in Msgs, SendRndzv(m) \/ HandleFin(m) PROVE NoMissedMatch'
  <2>1. UNCHANGED <<rxs, unexp>>
    BY <1>1, Zenon DEF SendRndzv, HandleFin, rxVars
  <2> QED BY <2>1, <1>q, Zenon
<1>2. ASSUME NEW m \in Msgs, HandleRtsMatched(m) PROVE NoMissedMatch'
  <2>1. PICK r \in Posted(m) : StartRead(r, m, wire \ {RTS(m)})
    BY <1>2, Zenon DEF HandleRtsMatched
  <2>2. r \in Recvs /\ unexp' \subseteq unexp
    BY <1>2, Zenon DEF HandleRtsMatched, Posted
  <2> QED BY <2>1, <2>2, <1>r, Zenon
<1>3. ASSUME NEW m \in Msgs, HandleRtsUnexpected(m) PROVE NoMissedMatch'
  <2>1. Posted(m) = {} /\ rxs' = rxs /\ unexp' \subseteq unexp \cup {m}
    BY <1>3, Zenon DEF HandleRtsUnexpected, rxVars
  <2> QED BY <2>1, ZenonT(60) DEF NoMissedMatch, Posted
<1>4. ASSUME NEW r \in Recvs, PostRecv(r) PROVE NoMissedMatch'
  <2>1. ASSUME NEW m \in unexp, unexp' = unexp \ {m}, StartRead(r, m, wire) PROVE NoMissedMatch'
    <3>1. m \in Msgs /\ unexp' \subseteq unexp
      BY <2>1, <1>t, Zenon
    <3> QED BY <2>1, <3>1, <1>r, Zenon
  <2>2. ASSUME {m \in unexp : <<r, m>> \in Matches} = {},
               rxs' = [rxs EXCEPT ![r] = "posted"], unexp' = unexp
        PROVE  NoMissedMatch'
    <3>1. \A m \in unexp : <<r, m>> \notin Matches
      BY <2>2, Zenon
    <3>2. \A q \in Recvs : q # r => rxs'[q] = rxs[q]
      BY <2>2, <1>t, Zenon
    <3> QED BY <2>2, <3>1, <3>2, ZenonT(60) DEF NoMissedMatch
  <2> QED BY <1>4, <2>1, <2>2, Zenon DEF PostRecv
<1>5. ASSUME NEW r \in Recvs, Cancel(r) PROVE NoMissedMatch'
  <2>1. rxs' = [rxs EXCEPT ![r] = "done"] /\ unexp' = unexp
    BY <1>5, Zenon DEF Cancel
  <2>2. \A q \in Recvs : rxs'[q] = "posted" => rxs[q] = "posted"
    BY <2>1, <1>t, Zenon
  <2> QED BY <2>1, <2>2, <1>q, Zenon
<1>6. ASSUME NEW r \in Recvs, NEW i \in ntf[r], HandleNotify(r, i) PROVE NoMissedMatch'
  <2>1. unexp' = unexp /\ (rxs' = [rxs EXCEPT ![r] = "done"] \/ rxs' = [rxs EXCEPT ![r] = @])
    BY <1>6, Zenon DEF HandleNotify
  <2>2. \A q \in Recvs : rxs'[q] = "posted" => rxs[q] = "posted"
    BY <2>1, <1>t, Zenon
  <2> QED BY <2>1, <2>2, <1>q, Zenon
<1>7. ASSUME NEW n \in Nodes, PassBegin(n) PROVE NoMissedMatch'
  <2>1. unexp' = unexp /\ \E F : rxs' = [r \in Recvs |-> IF r \in F THEN "done" ELSE rxs[r]]
    BY <1>7, Zenon DEF PassBegin, Reissue
  <2>2. \A q \in Recvs : rxs'[q] = "posted" => rxs[q] = "posted"
    BY <2>1, Zenon
  <2> QED BY <2>1, <2>2, <1>q, Zenon
<1>8. ASSUME NEW n \in Nodes, PassEnd(n) PROVE NoMissedMatch'
  <2>1. UNCHANGED <<rxs, unexp>>
    BY <1>8, Zenon DEF PassEnd, rxVars
  <2> QED BY <2>1, <1>q, Zenon
<1>9. ASSUME NEW r \in Recvs, NEW i \in hca[r], HcaRead(r, i) PROVE NoMissedMatch'
  <2>1. UNCHANGED <<rxs, unexp>>
    BY <1>9, Zenon DEF HcaRead, rxVars
  <2> QED BY <2>1, <1>q, Zenon
<1>10. ASSUME NEW p \in CongPairs, Congest(p) PROVE NoMissedMatch'
  <2>1. UNCHANGED <<rxs, unexp>>
    BY <1>10, Zenon DEF Congest, rxVars
  <2> QED BY <2>1, <1>q, Zenon
<1>11. CASE UNCHANGED vars
  <2>1. UNCHANGED <<rxs, unexp>>
    BY <1>11, Zenon DEF vars, rxVars
  <2> QED BY <2>1, <1>q, Zenon
<1> QED
  BY <1>1, <1>2, <1>3, <1>4, <1>5, <1>6, <1>7, <1>8, <1>9, <1>10, <1>11, Zenon DEF Next

(***************************************************************************)
(* What ends a send                                                        *)
(***************************************************************************)

\* The transfer is somewhere on its way.
Somewhere(m) ==
  \/ RTS(m) \in wire \/ FIN(m) \in wire \/ m \in unexp \/ m \in dfin
  \/ \E r \in Recvs : rxs[r] = "reading" /\ bound[r] = m

NoneLost == \A m \in Msgs : tx[m] = "sent" => Somewhere(m)

\* Unless FINs can be lost, every FIN rds_send_fin is called for is sent or parked.
LEMMA SendFinsKeeps ==
  ASSUME "fin_lost" \notin Faults, NEW fins, NEW w, NEW d, SendFins(fins, w, d)
  PROVE  /\ w \subseteq wire' /\ d \subseteq dfin'
         /\ \A m \in fins : FIN(m) \in wire' \/ m \in dfin'
<1>1. PICK o \in FinOutcomes(fins) :
        /\ wire' = w \cup {FIN(m) : m \in {x \in fins : o[x] = "sent"}}
        /\ dfin' = d \cup {m \in fins : o[m] = "parked"}
  BY Zenon DEF SendFins
<1>2. \A m \in fins : o[m] = "sent" \/ o[m] = "parked"
  <2>1. o \in [fins -> {"sent", "parked", "lost"}] /\ \A m \in fins : o[m] # "lost"
    BY Zenon DEF FinOutcomes
  <2> QED BY <2>1, Zenon
<1> QED BY <1>1, <1>2, Zenon

\* A step that takes transfers only to end them with a FIN, or to read them.
LEMMA MovedNotLost ==
  ASSUME "fin_lost" \notin Faults, Counted, NoneLost, tx' = tx,
         NEW fins, NEW w, NEW d, SendFins(fins, w, d),
         \A m \in Msgs : RTS(m) \in wire \/ FIN(m) \in wire =>
            RTS(m) \in w \/ FIN(m) \in w \/ m \in fins \/ Somewhere(m)',
         \A m \in dfin : m \in d \/ m \in fins,
         \A m \in unexp : m \in unexp' \/ m \in fins \/ Somewhere(m)',
         \A r \in Recvs : rxs[r] = "reading" =>
            (rxs'[r] = "reading" /\ bound'[r] = bound[r]) \/ bound[r] \in fins
  PROVE  NoneLost'
<1>1. /\ w \subseteq wire' /\ d \subseteq dfin'
      /\ \A m \in fins : FIN(m) \in wire' \/ m \in dfin'
  BY SendFinsKeeps, Zenon
<1> SUFFICES ASSUME NEW m \in Msgs, tx[m] = "sent" PROVE Somewhere(m)'
  BY Zenon DEF NoneLost
<1>2. Somewhere(m)
  BY Zenon DEF NoneLost
<1>3. m \in fins => Somewhere(m)'
  BY <1>1, Zenon DEF Somewhere
<1>4. CASE RTS(m) \in wire \/ FIN(m) \in wire
  <2>1. RTS(m) \in w \/ FIN(m) \in w => Somewhere(m)'
    BY <1>1, Zenon DEF Somewhere
  <2> QED BY <1>3, <1>4, <2>1, Zenon
<1>5. CASE m \in unexp
  <2>1. m \in unexp' => Somewhere(m)'
    BY Zenon DEF Somewhere
  <2> QED BY <1>3, <1>5, <2>1, Zenon
<1>6. CASE m \in dfin
  <2>1. m \in d => Somewhere(m)'
    BY <1>1, Zenon DEF Somewhere
  <2> QED BY <1>3, <1>6, <2>1, Zenon
<1>7. ASSUME NEW r \in Recvs, rxs[r] = "reading", bound[r] = m PROVE Somewhere(m)'
  <2>1. rxs'[r] = "reading" /\ bound'[r] = m => Somewhere(m)'
    BY Zenon DEF Somewhere
  <2> QED BY <1>3, <1>7, <2>1, Zenon
<1> QED BY <1>2, <1>4, <1>5, <1>6, <1>7, Zenon DEF Somewhere

\* A match takes a transfer from the wire or the unexpected list to its receive.
LEMMA StartReadNotLost ==
  ASSUME "fin_lost" \notin Faults, Counted, NoneLost, tx' = tx,
         NEW r \in Recvs, NEW m \in Msgs, NEW w, rxs[r] # "reading", StartRead(r, m, w),
         \A x \in Msgs : x # m => /\ RTS(x) \in wire => RTS(x) \in w
                                  /\ FIN(x) \in wire => FIN(x) \in w
                                  /\ x \in unexp => x \in unexp'
  PROVE  NoneLost'
<1>t. rxs \in [Recvs -> RecvState] /\ bound \in [Recvs -> Msgs \cup {NoMsg}]
      /\ unexp \in SUBSET Msgs
  BY Zenon DEF Counted, TypeOK
<1>1. /\ bound' = [bound EXCEPT ![r] = m]
      /\ \/ rxs' = [rxs EXCEPT ![r] = "reading"] /\ SendFins({}, w, dfin)
         \/ rxs' = [rxs EXCEPT ![r] = "done"] /\ SendFins({m}, w, dfin)
  <2>1. CASE StartReadNoMem(r, m, w)
    BY <2>1, Zenon DEF StartReadNoMem
  <2>2. CASE StartReadPost(r, m, w)
    BY <2>2, Zenon DEF StartReadPost
  <2> QED BY <2>1, <2>2, Zenon DEF StartRead
<1>2. \A q \in Recvs : rxs[q] = "reading" => rxs'[q] = "reading" /\ bound'[q] = bound[q]
  BY <1>1, <1>t, Zenon
<1>3. PICK fins : SendFins(fins, w, dfin) /\ (m \in fins \/ Somewhere(m)')
  <2>1. CASE rxs' = [rxs EXCEPT ![r] = "reading"] /\ SendFins({}, w, dfin)
    <3>1. rxs'[r] = "reading" /\ bound'[r] = m
      BY <1>1, <1>t, <2>1, Zenon
    <3>2. Somewhere(m)'
      BY <3>1, Zenon DEF Somewhere
    <3> QED BY <2>1, <3>2, Zenon
  <2>2. CASE rxs' = [rxs EXCEPT ![r] = "done"] /\ SendFins({m}, w, dfin)
    <3>1. m \in {m}
      BY Zenon
    <3> QED BY <2>2, <3>1, Zenon
  <2> QED BY <1>1, <2>1, <2>2, Zenon
<1>4. \A x \in Msgs : RTS(x) \in wire \/ FIN(x) \in wire =>
        RTS(x) \in w \/ FIN(x) \in w \/ x \in fins \/ Somewhere(x)'
  BY <1>3, Zenon
<1>5. \A x \in unexp : x \in unexp' \/ x \in fins \/ Somewhere(x)'
  BY <1>3, <1>t, Zenon
<1>6. \A x \in dfin : x \in dfin \/ x \in fins
  BY Zenon
<1> QED BY <1>2, <1>3, <1>4, <1>5, <1>6, MovedNotLost, Zenon

\* Without lost FINs no step leaves a pending send with nothing that will end it.
LEMMA NoneLostStep ==
  ASSUME "fin_lost" \notin Faults
  PROVE  Counted /\ NoneLost /\ [Next]_vars => NoneLost'
<1> SUFFICES ASSUME Counted, NoneLost, [Next]_vars PROVE NoneLost'
  BY Zenon
<1>t. /\ TypeOK /\ tx \in [Msgs -> {"idle", "sent", "done"}]
      /\ unexp \in SUBSET Msgs /\ rxs \in [Recvs -> RecvState]
  BY Zenon DEF Counted, TypeOK
<1>q. (UNCHANGED <<tx, wire, unexp, dfin, rxs, bound>>) => NoneLost'
  BY Zenon DEF NoneLost, Somewhere
<1>1. ASSUME NEW m \in Msgs, SendRndzv(m) PROVE NoneLost'
  <2>1. /\ tx' = [tx EXCEPT ![m] = "sent"] /\ wire' = wire \cup {RTS(m)}
        /\ UNCHANGED <<unexp, dfin, rxs, bound>>
    BY <1>1, Zenon DEF SendRndzv, rxVars
  <2>2. ASSUME NEW x \in Msgs, tx'[x] = "sent" PROVE Somewhere(x)'
    <3>1. CASE x = m
      BY <3>1, <2>1, Zenon DEF Somewhere
    <3>2. CASE x # m
      <4>1. Somewhere(x)
        BY <3>2, <2>2, <2>1, <1>t, Zenon DEF NoneLost
      <4> QED BY <4>1, <2>1, Zenon DEF Somewhere
    <3> QED BY <3>1, <3>2, Zenon
  <2> QED BY <2>2, Zenon DEF NoneLost
<1>2. ASSUME NEW m \in Msgs, HandleFin(m) PROVE NoneLost'
  <2>1. /\ wire' = wire \ {FIN(m)} /\ UNCHANGED <<unexp, dfin, rxs, bound>>
        /\ IF tx[m] = "sent" THEN tx' = [tx EXCEPT ![m] = "done"] ELSE tx' = tx
    BY <1>2, Zenon DEF HandleFin, rxVars, txVars
  <2>2. ASSUME NEW x \in Msgs, tx'[x] = "sent" PROVE Somewhere(x)'
    <3>1. x # m /\ tx[x] = "sent"
      BY <2>1, <2>2, <1>t, Zenon
    <3>2. Somewhere(x)
      BY <3>1, Zenon DEF NoneLost
    <3>3. FIN(x) # FIN(m) /\ RTS(x) # FIN(m)
      BY <3>1, DatagramFacts, Zenon
    <3> QED BY <3>2, <3>3, <2>1, Zenon DEF Somewhere
  <2> QED BY <2>2, Zenon DEF NoneLost
<1>3. ASSUME NEW m \in Msgs, HandleRtsMatched(m) PROVE NoneLost'
  <2>1. PICK r \in Posted(m) : StartRead(r, m, wire \ {RTS(m)})
    BY <1>3, Zenon DEF HandleRtsMatched
  <2>2. r \in Recvs /\ rxs[r] # "reading" /\ tx' = tx /\ unexp' = unexp
    BY <1>3, Zenon DEF HandleRtsMatched, Posted, txVars
  <2>3. \A x \in Msgs : x # m => /\ RTS(x) \in wire => RTS(x) \in wire \ {RTS(m)}
                                 /\ FIN(x) \in wire => FIN(x) \in wire \ {RTS(m)}
    BY DatagramFacts, Zenon
  <2> QED BY <2>1, <2>2, <2>3, StartReadNotLost, Zenon
<1>4. ASSUME NEW m \in Msgs, HandleRtsUnexpected(m) PROVE NoneLost'
  <2>0. /\ UNCHANGED <<tx, rxs, bound>>
        /\ \A x \in Msgs : FIN(x) # RTS(m) /\ (RTS(x) = RTS(m) => x = m)
    BY <1>4, DatagramFacts, Zenon DEF HandleRtsUnexpected, txVars, rxVars
  <2>1. CASE unexp' = unexp \cup {m} /\ wire' = wire \ {RTS(m)} /\ dfin' = dfin
    BY <2>0, <2>1, Zenon DEF NoneLost, Somewhere
  <2>2. CASE SendFins({m}, wire \ {RTS(m)}, dfin) /\ unexp' = unexp
    <3>1. \A x \in Msgs : RTS(x) \in wire \/ FIN(x) \in wire =>
            \/ RTS(x) \in wire \ {RTS(m)} \/ FIN(x) \in wire \ {RTS(m)} \/ x \in {m}
      BY <2>0, Zenon
    <3> QED BY <2>0, <2>2, <3>1, MovedNotLost, Zenon
  <2> QED BY <1>4, <2>1, <2>2, Zenon DEF HandleRtsUnexpected
<1>5. ASSUME NEW r \in Recvs, PostRecv(r) PROVE NoneLost'
  <2>0. rxs[r] = "new" /\ tx' = tx
    BY <1>5, Zenon DEF PostRecv, txVars
  <2>1. ASSUME NEW m \in unexp, unexp' = unexp \ {m}, StartRead(r, m, wire) PROVE NoneLost'
    <3>1. m \in Msgs /\ \A x \in Msgs : x # m /\ x \in unexp => x \in unexp'
      BY <1>t, <2>1, Zenon
    <3>2. rxs[r] # "reading"
      BY <2>0, Zenon
    <3> QED BY <2>0, <2>1, <3>1, <3>2, StartReadNotLost, Zenon
  <2>2. ASSUME rxs' = [rxs EXCEPT ![r] = "posted"], UNCHANGED <<bound, unexp, dfin, wire>>
        PROVE  NoneLost'
    <3>1. \A q \in Recvs : rxs[q] = "reading" => rxs'[q] = "reading"
      BY <2>0, <2>2, <1>t, Zenon
    <3> QED BY <2>0, <2>2, <3>1, Zenon DEF NoneLost, Somewhere
  <2> QED BY <1>5, <2>1, <2>2, Zenon DEF PostRecv
<1>6. ASSUME NEW r \in Recvs, Cancel(r) PROVE NoneLost'
  <2>1. UNCHANGED <<tx, wire, bound, unexp, dfin>> /\ rxs' = [rxs EXCEPT ![r] = "done"]
        /\ rxs[r] = "posted"
    BY <1>6, Zenon DEF Cancel, txVars
  <2>2. \A q \in Recvs : rxs[q] = "reading" => rxs'[q] = "reading"
    BY <2>1, <1>t, Zenon
  <2> QED BY <2>1, <2>2, Zenon DEF NoneLost, Somewhere
<1>7. ASSUME NEW r \in Recvs, NEW i \in ntf[r], HandleNotify(r, i) PROVE NoneLost'
  <2> DEFINE fin == rxs[r] = "reading" /\ seg_remaining[r] = 1 /\ seg_deferred[r] = 0
             fins == IF fin THEN {bound[r]} ELSE {}
  <2>1. /\ rxs' = [rxs EXCEPT ![r] = IF fin THEN "done" ELSE @] /\ SendFins(fins, wire, dfin)
        /\ UNCHANGED <<tx, bound, unexp>>
    BY <1>7, Zenon DEF HandleNotify, txVars
  <2> HIDE DEF fin
  <2>2. \A q \in Recvs : rxs[q] = "reading" =>
          (rxs'[q] = "reading" /\ bound'[q] = bound[q]) \/ bound[q] \in fins
    BY <2>1, <1>t, Zenon
  <2> HIDE DEF fins
  <2> QED BY <2>1, <2>2, MovedNotLost, Zenon
<1>8. ASSUME NEW n \in Nodes, PassBegin(n) PROVE NoneLost'
  <2>1. UNCHANGED <<tx, bound, unexp>> /\ Reissue(n)
    BY <1>8, Zenon DEF PassBegin, txVars
  <2>2. PICK o \in RetryOutcomes(n) :
          /\ rxs' = [r \in Recvs |-> IF r \in Final(o, n) THEN "done" ELSE rxs[r]]
          /\ SendFins(ParkedFins(n) \cup {bound[r] : r \in Final(o, n)}, wire,
                      dfin \ ParkedFins(n))
    BY <2>1, ZenonT(60) DEF Reissue
  <2> DEFINE fins == ParkedFins(n) \cup {bound[r] : r \in Final(o, n)}
             d == dfin \ ParkedFins(n)
  <2>3. \A q \in Recvs : rxs[q] = "reading" =>
          (rxs'[q] = "reading" /\ bound'[q] = bound[q]) \/ bound[q] \in fins
    BY <2>1, <2>2, Zenon
  <2>4. (\A m \in dfin : m \in d \/ m \in fins) /\ SendFins(fins, wire, d)
    BY <2>2, Zenon
  <2> HIDE DEF fins, d
  <2> QED BY <2>1, <2>3, <2>4, MovedNotLost, Zenon
<1>9. ASSUME NEW n \in Nodes, PassEnd(n) PROVE NoneLost'
  BY <1>9, <1>q, Zenon DEF PassEnd, txVars, rxVars
<1>10. ASSUME NEW r \in Recvs, NEW i \in hca[r], HcaRead(r, i) PROVE NoneLost'
  BY <1>10, <1>q, Zenon DEF HcaRead, txVars, rxVars
<1>11. ASSUME NEW p \in CongPairs, Congest(p) PROVE NoneLost'
  BY <1>11, <1>q, Zenon DEF Congest, txVars, rxVars
<1>12. CASE UNCHANGED vars
  BY <1>12, <1>q, Zenon DEF vars, txVars, rxVars
<1> QED
  BY <1>1, <1>2, <1>3, <1>4, <1>5, <1>6, <1>7, <1>8, <1>9, <1>10, <1>11, <1>12, Zenon DEF Next

\* The inductive invariant: what a step may rely on.
Sound == Counted /\ Delivery /\ RecvReported /\ SendReported /\ InflightExact /\ NoMissedMatch

\* Nothing is submitted at the start.
LEMMA SoundInit == ASSUME CardFacts, Init PROVE Sound
<1>1. Delivery /\ RecvReported /\ SendReported /\ NoMissedMatch
  <2>1. Delivery
    BY Zenon DEF Init, Delivery
  <2>2. RecvReported /\ SendReported
    BY Zenon DEF Init, RecvReported, SendReported
  <2>3. NoMissedMatch
    BY Zenon DEF Init, NoMissedMatch
  <2> QED BY <2>1, <2>2, <2>3, Zenon
<1>2. InflightExact
  <2>1. \A n \in Nodes : {m \in Msgs : Src[m] = n /\ tx[m] = "sent"} = {}
    BY Zenon DEF Init
  <2>2. Cardinality({}) = 0 /\ MaxInflight \in Nat
    BY CardNone, RndzvAssumption, Zenon DEF RndzvAssumption
  <2>3. \A n \in Nodes : inflight[n] = 0
    BY Zenon DEF Init
  <2> QED BY <2>1, <2>2, <2>3 DEF InflightExact
<1> QED BY <1>1, <1>2, CountedInit, Zenon DEF Sound

-----------------------------------------------------------------------------
(* Theorems *)

INSTANCE FiniteSetTheorems

\* Finite sets are what the lemmas take them to be.
LEMMA CardFactsHold == CardFacts
<1>1. \A S : IsFiniteSet(S) => Cardinality(S) \in Nat /\ (Cardinality(S) = 0 <=> S = {})
  BY FS_CardinalityType, FS_EmptySet, Zenon
<1>2. ASSUME NEW S, NEW T, IsFiniteSet(S), IsFiniteSet(T)
      PROVE  /\ IsFiniteSet(S \cup T)
             /\ S \cap T = {} => Cardinality(S \cup T) = Cardinality(S) + Cardinality(T)
  <2>1. /\ IsFiniteSet(S \cup T)
        /\ Cardinality(S \cup T) = Cardinality(S) + Cardinality(T) - Cardinality(S \cap T)
    BY <1>2, FS_Union, Zenon
  <2>2. S \cap T = {} => Cardinality(S \cap T) = 0
    BY FS_EmptySet, Zenon
  <2> QED BY <2>1, <2>2, <1>1, <1>2
<1>3. ASSUME NEW S, NEW T \in SUBSET S, IsFiniteSet(S)
      PROVE  /\ IsFiniteSet(T) /\ IsFiniteSet(S \ T)
             /\ Cardinality(S \ T) = Cardinality(S) - Cardinality(T)
  <2>1. IsFiniteSet(T) /\ IsFiniteSet(S \ T)
    BY <1>3, FS_Subset, Zenon
  <2>2. T \cap (S \ T) = {} /\ T \cup (S \ T) = S
    BY Zenon
  <2>3. Cardinality(T \cup (S \ T)) = Cardinality(T) + Cardinality(S \ T)
    BY <2>1, <2>2, <1>2, Zenon
  <2>4. Cardinality(S) = Cardinality(T) + Cardinality(S \ T)
    BY <2>2, <2>3, Zenon
  <2>5. Cardinality(T) \in Nat /\ Cardinality(S \ T) \in Nat
    BY <2>1, <1>1, Zenon
  <2> QED BY <2>1, <2>4, <2>5
<1>4. \A x : IsFiniteSet({x}) /\ Cardinality({x}) = 1
  BY FS_Singleton, Zenon
<1>5. \A a, b \in Nat : IsFiniteSet(a .. b)
  BY FS_Interval
<1> QED BY <1>1, <1>2, <1>3, <1>4, <1>5, FS_EmptySet, Zenon DEF CardFacts

\* The inductive invariant holds in every reachable state.
LEMMA SoundAlways == Spec => []Sound
<1>1. Sound /\ [Next]_vars => Sound'
  BY CardFactsHold, CountedStep, DeliveryStep, RecvReportedStep, SendReportedStep, InflightStep,
     NoMissedStep, Zenon DEF Sound
<1>2. Init => Sound
  BY CardFactsHold, SoundInit, Zenon
<1> QED BY <1>1, <1>2, PTL DEF Spec

\* Where transfers can be holds in every reachable state.
LEMMA LocatedAlways == Spec => []Located
<1>1. Located /\ [Next]_vars => Located'
  BY CardFactsHold, LocatedStep, Zenon
<1>2. Init => Located
  BY CardFactsHold, LocatedInit, Zenon
<1> QED BY <1>1, <1>2, PTL DEF Spec

\* Theorem: the variables of the protocol keep their types.
THEOREM RndzvStaysTyped == Spec => []TypeOK
<1>1. Sound => TypeOK
  BY Zenon DEF Sound, Counted
<1> QED BY <1>1, SoundAlways, PTL

\* Theorem: exact segment counters, for any number of endpoints, messages, segments and
\* receives: what rds_rndzv_rx_finalize is decided on is always the number of READs in the
\* adapter, in the notification queue and on ep->deferred.
THEOREM CountersExact == Spec => []SegmentAccounting
<1>1. Sound => SegmentAccounting
  BY Zenon DEF Sound, Counted
<1> QED BY <1>1, SoundAlways, PTL

\* Theorem: rds_rndzv_rx_finalize never sends the FIN that releases the sender's source
\* registration while one of the READs of that message is parked, executing or unread.
THEOREM SourceHeld == Spec => []SourceHeldDuringReads
<1>1. Located => SourceHeldDuringReads
  BY Zenon DEF Located, Counted, RecvShape, AtReader, Nowhere, SourceHeldDuringReads, Outstanding
<1> QED BY <1>1, LocatedAlways, PTL

\* Theorem: a transfer is in one place at a time: its RTS or FIN on the wire, the
\* unexpected list, one receive that reads it, or the parked FINs.
THEOREM TransferInOnePlace == Spec => []OnePlace
<1>1. Located => OnePlace
  <2> SUFFICES ASSUME Located, NEW m \in Msgs
               PROVE  /\ \A p, q \in Places(m) : p = q
                      /\ tx[m] # "sent" => Places(m) = {}
    BY Zenon DEF OnePlace
  <2>1. OnWire /\ AtReader
    BY Zenon DEF Located
  <2> DEFINE Rd == {r \in Recvs : rxs[r] = "reading" /\ bound[r] = m}
  <2>2. \A p \in Places(m) :
          \/ p = <<"rts", RTS(m)>> /\ RTS(m) \in wire
          \/ p = <<"fin", FIN(m)>> /\ FIN(m) \in wire
          \/ p = <<"unexp", m>> /\ m \in unexp
          \/ p = <<"parked", m>> /\ m \in dfin
          \/ \E r \in Rd : p = <<"recv", r>>
    BY DEF Places
  <2>3. \A r, q \in Rd : r = q
    BY <2>1, Zenon DEF AtReader
  <2>4. \A r \in Rd : tx[m] = "sent" /\ Nowhere(m, wire, unexp, dfin)
    BY <2>1, Zenon DEF AtReader
  <2>5. \A p, q \in Places(m) : p = q
    BY <2>1, <2>2, <2>3, <2>4, ZenonT(60) DEF OnWire, Nowhere
  <2>6. tx[m] # "sent" => Places(m) = {}
    BY <2>1, <2>2, <2>4, Zenon DEF OnWire
  <2> QED BY <2>5, <2>6, Zenon
<1> QED BY <1>1, LocatedAlways, PTL

\* Theorem: a receive that rds_rndzv_rx_finalize completes without an error holds every
\* segment of the message; truncation, a READ that cannot be posted and one the adapter
\* fails are always reported.
THEOREM ReceiveCompleteOrError == Spec => []CompleteOrError
<1>1. Sound => CompleteOrError
  <2> SUFFICES ASSUME Sound, NEW r \in Recvs,
                      rxs[r] = "done", bound[r] # NoMsg, ~error[r]
               PROVE  data[r] = 1 .. NSeg[bound[r]]
    BY Zenon DEF CompleteOrError
  <2>1. Outstanding(r) = {}
    BY Zenon DEF Sound, Counted, RecvShape, Outstanding
  <2>2. Held(r) = 1 .. NSeg[bound[r]]
    BY Zenon DEF Sound, Delivery
  <2> QED BY <2>1, <2>2, Zenon DEF Held
<1> QED BY <1>1, SoundAlways, PTL

\* Theorem: every operation gets exactly one completion, from rds_pending_complete,
\* rds_rndzv_rx_finalize or rds_ep_cancel, and an operation submitted without
\* FI_COMPLETION one only for an error or a cancellation.
THEOREM CompletedOnce == Spec => []OneCompletion
<1>1. Sound => OneCompletion
  BY Zenon DEF Sound, RecvReported, SendReported, OneCompletion
<1> QED BY <1>1, SoundAlways, PTL

\* Theorem: ep->rndzv_tx_inflight is the number of sends awaiting their FIN and never
\* exceeds rds_rndzv_max_inflight.
THEOREM CapRespected == Spec => []InflightExact
<1>1. Sound => InflightExact
  BY Zenon DEF Sound
<1> QED BY <1>1, SoundAlways, PTL

\* Theorem: no receive stays posted while a message it matches waits on the unexpected
\* list, in whatever order rds_post_recv and rds_handle_inbound ran.
THEOREM MatchNotMissed == Spec => []NoMissedMatch
<1>1. Sound => NoMissedMatch
  BY Zenon DEF Sound
<1> QED BY <1>1, SoundAlways, PTL

\* Theorem: when no FIN is lost to a hard error of the socket or to memory running out in
\* rds_defer_fin, every pending send has its RTS, its FIN, an unexpected entry or a reading
\* receive that will end it: nothing else in the protocol drops a transfer.
THEOREM PendingSendEnds ==
  ASSUME "fin_lost" \notin Faults
  PROVE  Spec => []NoOrphanedSend
<1>1. Init => NoneLost
  BY Zenon DEF Init, NoneLost
<1>2. Sound /\ NoneLost /\ [Next]_vars => NoneLost'
  BY NoneLostStep, Zenon DEF Sound
<1>3. NoneLost => NoOrphanedSend
  <2> SUFFICES ASSUME NoneLost, NEW m \in Msgs, tx[m] = "sent" PROVE Places(m) # {}
    BY Zenon DEF NoOrphanedSend
  <2>1. Somewhere(m)
    BY Zenon DEF NoneLost
  <2>2. CASE RTS(m) \in wire \/ FIN(m) \in wire \/ m \in unexp \/ m \in dfin
    <3>1. \/ <<"rts", RTS(m)>> \in Places(m) \/ <<"fin", FIN(m)>> \in Places(m)
          \/ <<"unexp", m>> \in Places(m) \/ <<"parked", m>> \in Places(m)
      BY <2>2, Zenon DEF Places
    <3> QED BY <3>1, Zenon
  <2>3. CASE \E r \in Recvs : rxs[r] = "reading" /\ bound[r] = m
    <3>1. PICK r \in Recvs : rxs[r] = "reading" /\ bound[r] = m
      BY <2>3, Zenon
    <3>2. <<"recv", r>> \in Places(m)
      BY <3>1, Zenon DEF Places
    <3> QED BY <3>2, Zenon
  <2> QED BY <2>1, <2>2, <2>3, Zenon DEF Somewhere
<1> QED BY <1>1, <1>2, <1>3, SoundAlways, PTL DEF Spec
=============================================================================
