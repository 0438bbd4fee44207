------------------------------ MODULE RdsMatch ------------------------------
(***************************************************************************)
(* The matching engine of one endpoint (rds_msg.c): posted receives and    *)
(* unexpected messages, each on one list for tagged and one for untagged   *)
(* traffic.  Messages of a source arrive in the order it sent them, on one *)
(* channel or the other; what is done with a matched message (copy, or the *)
(* READs of module RdsRndzv) does not concern the lists.                   *)
(*                                                                         *)
(* A tag is the set of its one bits.  A source is resolved to its fi_addr  *)
(* when its message arrives, which needs its address in the AV by then.    *)
(***************************************************************************)
EXTENDS Naturals, Sequences

CONSTANTS
  Sources,   \* peers
  Sent,      \* [Sources -> Seq(Msgs)]: what each of them sends, in order
  Msgs, Recvs,
  List,      \* [Msgs \cup Recvs -> {"tag", "msg"}]: RDS_HF_TAGGED / fi_trecv or not
  Tag,       \* [Msgs \cup Recvs -> set of bits]
  Ignore,    \* [Recvs -> set of bits]
  Addr,      \* [Recvs -> Sources \cup {Unspec}]: directed receive or any source
  Unspec,    \* FI_ADDR_UNSPEC and FI_ADDR_NOTAVAIL, the same value
  NoMsg,
  InAv,      \* sources in the AV from the start
  Faults     \* subset of {"nomem"}

Lists == {"tag", "msg"}

SourceOf(m) == CHOOSE s \in Sources : \E i \in 1 .. Len(Sent[s]) : Sent[s][i] = m

ASSUME MatchAssumption ==
  /\ Sent \in [Sources -> Seq(Msgs)]
  /\ \A s, t \in Sources : \A i \in 1 .. Len(Sent[s]), j \in 1 .. Len(Sent[t]) :
       Sent[s][i] = Sent[t][j] => s = t /\ i = j
  /\ Msgs \cap Recvs = {} /\ List \in [Msgs \cup Recvs -> Lists]
  /\ DOMAIN Tag = Msgs \cup Recvs /\ DOMAIN Ignore = Recvs
  /\ Addr \in [Recvs -> Sources \cup {Unspec}]
  /\ Unspec \notin Sources /\ NoMsg \notin Msgs
  /\ InAv \subseteq Sources

VARIABLES
  av,       \* sources in the address vector
  next,     \* [Sources -> Nat]: messages of s that have arrived
  posted,   \* [Lists -> Seq(Recvs)]: rx_posted_tag, rx_posted_msg
  unexp,    \* [Lists -> Seq([m, addr])]: rx_unexp_tag, rx_unexp_msg
  match,    \* [Recvs -> Msgs \cup {NoMsg}]
  ended,    \* receives cancelled
  dropped,  \* messages dropped for want of memory
  postSeq,  \* receives in the order they were posted
  arrSeq    \* messages in the order they arrived

vars == <<av, next, posted, unexp, match, ended, dropped, postSeq, arrSeq>>

SymDiff(S, T) == (S \ T) \cup (T \ S)

\* Mutant: the ignore mask is not complemented.
TagMatchMask(r, m) == SymDiff(Tag[r], Tag[m]) \cap Ignore[r] = {}

\* rds_tag_match: ((rx_tag ^ msg_tag) & ~ignore) == 0
TagMatch(r, m) == SymDiff(Tag[r], Tag[m]) \subseteq Ignore[r]

\* rds_addr_match
AddrMatch(r, addr) == Addr[r] = Unspec \/ Addr[r] = addr

\* The test of both searches, on entries of the same list.
Accepts(r, m, addr) == AddrMatch(r, addr) /\ (List[m] = "tag" => TagMatch(r, m))

\* Where a search of a list stops, as a set of at most one of the positions I that pass
\* its test.
First(I) == {i \in I : \A j \in I : i <= j}

\* dlist_remove
Without(q, i) == [j \in 1 .. Len(q) - 1 |-> IF j < i THEN q[j] ELSE q[j + 1]]

Init ==
  /\ av = InAv
  /\ next = [s \in Sources |-> 0]
  /\ posted = [l \in Lists |-> <<>>]
  /\ unexp = [l \in Lists |-> <<>>]
  /\ match = [r \in Recvs |-> NoMsg]
  /\ ended = {}
  /\ dropped = {}
  /\ postSeq = <<>>
  /\ arrSeq = <<>>

\* fi_av_insert of s; messages already on the unexpected lists keep what they have.
InsertAv(s) ==
  /\ s \notin av
  /\ av' = av \cup {s}
  /\ UNCHANGED <<next, posted, unexp, match, ended, dropped, postSeq, arrSeq>>

Arrival(s) ==
  /\ next[s] < Len(Sent[s])
  /\ next' = [next EXCEPT ![s] = @ + 1]
  /\ arrSeq' = Append(arrSeq, Sent[s][next[s] + 1])

\* ofi_ip_av_get_fi_addr
Resolved(s) == IF s \in av THEN s ELSE Unspec

\* Positions of the posted list that rds_match_posted would take for message m of s.
PostedFor(m, s) ==
  LET q == posted[List[m]] IN First({i \in DOMAIN q : Accepts(q[i], m, Resolved(s))})

\* rds_handle_inbound, a posted receive matches.
ArriveMatched(s) ==
  LET m == Sent[s][next[s] + 1]
      l == List[m]
  IN /\ Arrival(s)
     /\ \E i \in PostedFor(m, s) :
          /\ match' = [match EXCEPT ![posted[l][i]] = m]
          /\ posted' = [posted EXCEPT ![l] = Without(@, i)]
     /\ UNCHANGED <<av, unexp, ended, dropped, postSeq>>

\* rds_handle_inbound, no posted receive matches: rds_enqueue_unexp, or dropped when the
\* message cannot be buffered.
ArriveUnexpected(s) ==
  LET m == Sent[s][next[s] + 1]
      l == List[m]
  IN /\ Arrival(s)
     /\ PostedFor(m, s) = {}
     /\ \/ /\ unexp' = [unexp EXCEPT ![l] = Append(@, [m |-> m, addr |-> Resolved(s)])]
           /\ UNCHANGED dropped
        \/ /\ "nomem" \in Faults
           /\ dropped' = dropped \cup {m}
           /\ UNCHANGED unexp
     /\ UNCHANGED <<av, posted, match, ended, postSeq>>

\* Mutant: rds_match_unexp returns the newest entry that passes the test.
UnexpForNewest(r) ==
  LET q == unexp[List[r]]
      I == {i \in DOMAIN q : Accepts(r, q[i].m, q[i].addr)}
  IN {i \in I : \A j \in I : i >= j}

\* Positions of the unexpected list that rds_match_unexp would take for r.
UnexpFor(r) ==
  LET q == unexp[List[r]] IN First({i \in DOMAIN q : Accepts(r, q[i].m, q[i].addr)})

Posting(r) ==
  /\ \A i \in 1 .. Len(postSeq) : postSeq[i] # r
  /\ postSeq' = Append(postSeq, r)

\* Mutant: rds_post_recv inserts the receive at the head of its list.
PostWaitsAtHead(r) ==
  /\ Posting(r)
  /\ UnexpFor(r) = {}
  /\ posted' = [posted EXCEPT ![List[r]] = <<r>> \o @]
  /\ UNCHANGED <<av, next, unexp, match, ended, dropped, arrSeq>>

\* Mutant: rds_post_recv puts every receive on rx_posted_msg.
PostWaitsUntagged(r) ==
  /\ Posting(r)
  /\ UnexpFor(r) = {}
  /\ posted' = [posted EXCEPT !["msg"] = Append(@, r)]
  /\ UNCHANGED <<av, next, unexp, match, ended, dropped, arrSeq>>

\* rds_post_recv, no unexpected message matches (out of memory it returns an error and
\* changes nothing).
PostWaits(r) ==
  /\ Posting(r)
  /\ UnexpFor(r) = {}
  /\ posted' = [posted EXCEPT ![List[r]] = Append(@, r)]
  /\ UNCHANGED <<av, next, unexp, match, ended, dropped, arrSeq>>

\* Mutant: rds_match_unexp does not remove the entry it returns.
PostMatchedKeeps(r) ==
  /\ Posting(r)
  /\ \E i \in UnexpFor(r) : match' = [match EXCEPT ![r] = unexp[List[r]][i].m]
  /\ UNCHANGED <<av, next, unexp, posted, ended, dropped, arrSeq>>

\* rds_post_recv, an unexpected message matches.
PostMatched(r) ==
  /\ Posting(r)
  /\ \E i \in UnexpFor(r) :
       /\ match' = [match EXCEPT ![r] = unexp[List[r]][i].m]
       /\ unexp' = [unexp EXCEPT ![List[r]] = Without(@, i)]
  /\ UNCHANGED <<av, next, posted, ended, dropped, arrSeq>>

\* rds_ep_cancel of a receive that is still posted.
Cancel(r) ==
  /\ \E i \in First({j \in DOMAIN posted[List[r]] : posted[List[r]][j] = r}) :
       posted' = [posted EXCEPT ![List[r]] = Without(@, i)]
  /\ ended' = ended \cup {r}
  /\ UNCHANGED <<av, next, unexp, match, dropped, postSeq, arrSeq>>

Next ==
  \/ \E s \in Sources : InsertAv(s)
  \/ \E s \in Sources : ArriveMatched(s)
  \/ \E s \in Sources : ArriveUnexpected(s)
  \/ \E r \in Recvs : PostWaits(r)
  \/ \E r \in Recvs : PostMatched(r)
  \/ \E r \in Recvs : Cancel(r)

Spec == Init /\ [][Next]_vars

(***************************************************************************)
(* Properties                                                              *)
(***************************************************************************)

Elems(q) == {q[i] : i \in 1 .. Len(q)}
Waiting(r) == r \in Elems(posted[List[r]])
Buffered(m) == \E u \in Elems(unexp[List[m]]) : u.m = m

\* q holds x before y.
Precedes(q, x, y) == \E i, j \in 1 .. Len(q) : i < j /\ q[i] = x /\ q[j] = y

\* Every variable has the shape of the C object it stands for, and tagged and untagged
\* traffic never meet on a list: the searches do not look at the kind of what they find
\* (rds_match_posted, rds_match_unexp).
TypeOK ==
  /\ av \subseteq Sources
  /\ next \in [Sources -> Nat] /\ \A s \in Sources : next[s] <= Len(Sent[s])
  /\ posted \in [Lists -> Seq(Recvs)]
  /\ unexp \in [Lists -> Seq([m : Msgs, addr : Sources \cup {Unspec}])]
  /\ match \in [Recvs -> Msgs \cup {NoMsg}]
  /\ ended \subseteq Recvs /\ dropped \subseteq Msgs
  /\ postSeq \in Seq(Recvs) /\ arrSeq \in Seq(Msgs)
  /\ \A l \in Lists : /\ \A r \in Elems(posted[l]) : List[r] = l
                      /\ \A u \in Elems(unexp[l]) : List[u.m] = l

\* What the application asked r to accept, whatever the AV held when m arrived.
Wanted(r, m) ==
  /\ List[r] = List[m]
  /\ Addr[r] \in {Unspec, SourceOf(m)}
  /\ List[m] = "tag" => SymDiff(Tag[r], Tag[m]) \subseteq Ignore[r]

\* Messages are matched in the order sent (FI_ORDER_SAS): no receive holds a message
\* while an earlier one of the same source that it also accepts waits on the unexpected
\* list (rds_match_unexp, rds_enqueue_unexp).
NoOvertaking ==
  \A r \in Recvs, x \in Msgs :
    match[r] # NoMsg /\ Buffered(x) /\ SourceOf(x) = SourceOf(match[r]) /\ Wanted(r, x)
      => ~Precedes(arrSeq, x, match[r])

\* Receives are used in the order posted: no receive waits while one posted later holds a
\* message it also accepts (rds_match_posted, rds_post_recv).
OldestReceiveFirst ==
  \A r, q \in Recvs :
    Waiting(r) /\ match[q] # NoMsg /\ Wanted(r, match[q]) => ~Precedes(postSeq, r, q)

\* No receive waits for a message that waits for it: each side searches the other's list
\* before joining its own.
NoMissedMatch == \A r \in Recvs, m \in Msgs : ~(Waiting(r) /\ Buffered(m) /\ Wanted(r, m))

\* A message that arrived is on an unexpected list once, or is held by one receive that
\* accepts it, or was dropped, and a posted receive waits, holds a message or was
\* cancelled; never two of them.
OnePlaceEach ==
  /\ \A m \in Elems(arrSeq) :
       LET places == {<<"unexp", i>> : i \in {k \in 1 .. Len(unexp[List[m]]) :
                                                unexp[List[m]][k].m = m}}
                     \cup {<<"held", r>> : r \in {x \in Recvs : match[x] = m}}
                     \cup {<<"dropped", m>> : x \in {m} \cap dropped}
       IN places # {} /\ \A p, q \in places : p = q
  /\ \A r \in Elems(postSeq) :
       /\ Waiting(r) => match[r] = NoMsg /\ r \notin ended
       /\ r \in ended => match[r] = NoMsg
       /\ Waiting(r) \/ r \in ended \/ match[r] # NoMsg
       /\ match[r] # NoMsg => Wanted(r, match[r])
=============================================================================
