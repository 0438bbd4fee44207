--------------------------- MODULE RdsMatchProofs ---------------------------
(***************************************************************************)
(* Proofs about RdsMatch, for any sources, messages, receives, tags and    *)
(* faults.  First what appending to and removing from a list does to its   *)
(* elements and their order, then the invariant of the lists (ListInv),    *)
(* then what each step does to the sets of waiting receives and of         *)
(* buffered messages, from which the properties follow.                    *)
(***************************************************************************)
EXTENDS RdsMatch, WellFoundedInduction, TLAPS

USE SMTT(60)

(***************************************************************************)
(* Lists                                                                   *)
(***************************************************************************)

Distinct(q) == \A i, j \in 1 .. Len(q) : q[i] = q[j] => i = j

\* The elements of q come in the order in which p has them.
Sorted(p, q) == \A i, j \in 1 .. Len(q) : i < j => Precedes(p, q[i], q[j])

\* Appending at the tail, position by position.
LEMMA AppendFacts ==
  ASSUME NEW S, NEW q \in Seq(S), NEW x \in S
  PROVE  /\ Append(q, x) \in Seq(S) /\ Len(q) \in Nat /\ Len(Append(q, x)) = Len(q) + 1
         /\ Append(q, x)[Len(q) + 1] = x
         /\ \A i \in 1 .. Len(q) : Append(q, x)[i] = q[i]
OBVIOUS

\* dlist_remove, position by position.
LEMMA WithoutFacts ==
  ASSUME NEW S, NEW q \in Seq(S), NEW i \in 1 .. Len(q)
  PROVE  /\ Without(q, i) \in Seq(S) /\ Len(q) \in Nat /\ Len(Without(q, i)) = Len(q) - 1
         /\ \A j \in 1 .. Len(q) - 1 :
              Without(q, i)[j] = IF j < i THEN q[j] ELSE q[j + 1]
<1>1. Len(q) \in Nat /\ Len(q) - 1 \in Nat /\ \A j \in 1 .. Len(q) : q[j] \in S
  OBVIOUS
<1>2. Without(q, i) \in [1 .. Len(q) - 1 -> S]
  BY <1>1 DEF Without
<1> QED BY <1>1, <1>2 DEF Without

\* Appending adds one element.
LEMMA AppendElems ==
  ASSUME NEW S, NEW q \in Seq(S), NEW x \in S
  PROVE  Elems(Append(q, x)) = Elems(q) \cup {x}
<1> DEFINE a == Append(q, x)
<1>1. /\ Len(q) \in Nat /\ Len(a) = Len(q) + 1 /\ a[Len(q) + 1] = x
      /\ \A i \in 1 .. Len(q) : a[i] = q[i]
  BY AppendFacts
<1> HIDE DEF a
<1>2. ASSUME NEW y PROVE y \in Elems(a) <=> y \in Elems(q) \/ y = x
  <2>1. ASSUME y \in Elems(a) PROVE y \in Elems(q) \/ y = x
    <3>1. PICK i \in 1 .. Len(a) : y = a[i]
      BY <2>1 DEF Elems
    <3>2. i \in 1 .. Len(q) \/ i = Len(q) + 1
      BY <1>1
    <3> QED BY <1>1, <3>1, <3>2 DEF Elems
  <2>2. ASSUME y \in Elems(q) PROVE y \in Elems(a)
    <3>1. PICK i \in 1 .. Len(q) : y = q[i]
      BY <2>2 DEF Elems
    <3>2. i \in 1 .. Len(a) /\ y = a[i]
      BY <1>1, <3>1
    <3> QED BY <3>2 DEF Elems
  <2>3. x \in Elems(a)
    <3>1. Len(q) + 1 \in 1 .. Len(a)
      BY <1>1
    <3> QED BY <1>1, <3>1 DEF Elems
  <2> QED BY <2>1, <2>2, <2>3
<1> QED BY <1>2 DEF a

\* Removing a position of a list without repetitions removes that element.
LEMMA WithoutElems ==
  ASSUME NEW S, NEW q \in Seq(S), NEW i \in 1 .. Len(q), Distinct(q)
  PROVE  Elems(Without(q, i)) = Elems(q) \ {q[i]}
<1> DEFINE w == Without(q, i)
<1>1. /\ Len(q) \in Nat /\ Len(w) = Len(q) - 1
      /\ \A j \in 1 .. Len(q) - 1 : w[j] = IF j < i THEN q[j] ELSE q[j + 1]
  BY WithoutFacts, Zenon
<1> HIDE DEF w
<1>2. ASSUME NEW y PROVE y \in Elems(w) <=> y \in Elems(q) /\ y # q[i]
  <2>1. ASSUME y \in Elems(w) PROVE y \in Elems(q) /\ y # q[i]
    <3>1. PICK j \in 1 .. Len(w) : y = w[j]
      BY <2>1 DEF Elems
    <3>2. PICK k \in 1 .. Len(q) : k # i /\ y = q[k]
      <4>1. CASE j < i
        BY <1>1, <3>1, <4>1
      <4>2. CASE ~(j < i)
        <5>1. j + 1 \in 1 .. Len(q) /\ j + 1 # i /\ y = q[j + 1]
          BY <1>1, <3>1, <4>2
        <5> QED BY <5>1
      <4> QED BY <4>1, <4>2
    <3> QED BY <3>2 DEF Elems, Distinct
  <2>2. ASSUME y \in Elems(q), y # q[i] PROVE y \in Elems(w)
    <3>1. PICK k \in 1 .. Len(q) : y = q[k]
      BY <2>2 DEF Elems
    <3>2. k # i
      BY <2>2, <3>1
    <3>3. \E j \in 1 .. Len(w) : y = w[j]
      <4>1. CASE k < i
        <5>1. k \in 1 .. Len(q) - 1 /\ k \in 1 .. Len(w)
          BY <1>1, <4>1
        <5> QED BY <1>1, <3>1, <4>1, <5>1
      <4>2. CASE k > i
        <5>1. k - 1 \in 1 .. Len(q) - 1 /\ k - 1 \in 1 .. Len(w) /\ ~(k - 1 < i) /\ (k - 1) + 1 = k
          BY <1>1, <4>2
        <5>2. w[k - 1] = q[k]
          BY <1>1, <5>1
        <5> QED BY <3>1, <5>1, <5>2
      <4> QED BY <3>2, <4>1, <4>2
    <3> QED BY <3>3 DEF Elems
  <2> QED BY <2>1, <2>2
<1> QED BY <1>2 DEF w

\* What is last comes after everything else and before nothing.
LEMMA AppendPrecedes ==
  ASSUME NEW S, NEW q \in Seq(S), NEW z \in S
  PROVE  \A x, y : Precedes(Append(q, z), x, y) <=> Precedes(q, x, y) \/ (x \in Elems(q) /\ y = z)
<1> SUFFICES ASSUME NEW x, NEW y
             PROVE  Precedes(Append(q, z), x, y) <=> Precedes(q, x, y) \/ (x \in Elems(q) /\ y = z)
  OBVIOUS
<1> DEFINE a == Append(q, z)
<1>1. /\ Len(q) \in Nat /\ Len(a) = Len(q) + 1 /\ a[Len(q) + 1] = z
      /\ \A i \in 1 .. Len(q) : a[i] = q[i]
  BY AppendFacts
<1> HIDE DEF a
<1>2. ASSUME Precedes(a, x, y) PROVE Precedes(q, x, y) \/ (x \in Elems(q) /\ y = z)
  <2>1. PICK i \in 1 .. Len(a), j \in 1 .. Len(a) : i < j /\ a[i] = x /\ a[j] = y
    BY <1>2 DEF Precedes
  <2>2. i \in 1 .. Len(q) /\ (j \in 1 .. Len(q) \/ j = Len(q) + 1) /\ q[i] = x
    BY <1>1, <2>1
  <2>3. CASE j \in 1 .. Len(q)
    BY <1>1, <2>1, <2>2, <2>3 DEF Precedes
  <2>4. CASE j = Len(q) + 1
    BY <1>1, <2>1, <2>2, <2>4 DEF Elems
  <2> QED BY <2>2, <2>3, <2>4
<1>3. ASSUME Precedes(q, x, y) PROVE Precedes(a, x, y)
  <2>1. PICK i \in 1 .. Len(q), j \in 1 .. Len(q) : i < j /\ q[i] = x /\ q[j] = y
    BY <1>3 DEF Precedes
  <2>2. i \in 1 .. Len(a) /\ j \in 1 .. Len(a) /\ a[i] = x /\ a[j] = y
    BY <1>1, <2>1
  <2> QED BY <2>1, <2>2 DEF Precedes
<1>4. ASSUME x \in Elems(q), y = z PROVE Precedes(a, x, y)
  <2>1. PICK i \in 1 .. Len(q) : q[i] = x
    BY <1>4 DEF Elems
  <2>2. /\ i \in 1 .. Len(a) /\ Len(q) + 1 \in 1 .. Len(a) /\ i < Len(q) + 1
        /\ a[i] = x /\ a[Len(q) + 1] = y
    BY <1>1, <1>4, <2>1
  <2> QED BY <2>2 DEF Precedes
<1> QED BY <1>2, <1>3, <1>4 DEF a

\* Of two elements of a list without repetitions one is first.
LEMMA PrecedesFacts ==
  ASSUME NEW S, NEW q \in Seq(S), NEW x, NEW y, Precedes(q, x, y)
  PROVE  x \in Elems(q) /\ y \in Elems(q) /\ (Distinct(q) => x # y /\ ~Precedes(q, y, x))
<1>0. Len(q) \in Nat
  OBVIOUS
<1>1. PICK i \in 1 .. Len(q), j \in 1 .. Len(q) : i < j /\ q[i] = x /\ q[j] = y
  BY DEF Precedes
<1>2. x \in Elems(q) /\ y \in Elems(q)
  BY <1>1 DEF Elems
<1>3. Distinct(q) => x # y
  BY <1>0, <1>1 DEF Distinct
<1>4. ASSUME Distinct(q), Precedes(q, y, x) PROVE FALSE
  <2>1. PICK k \in 1 .. Len(q), n \in 1 .. Len(q) : k < n /\ q[k] = y /\ q[n] = x
    BY <1>4 DEF Precedes
  <2>2. k = j /\ n = i
    BY <1>1, <1>4, <2>1 DEF Distinct
  <2> QED BY <1>0, <1>1, <2>1, <2>2
<1> QED BY <1>2, <1>3, <1>4

\* Appending a new element keeps a list free of repetitions.
LEMMA AppendDistinct ==
  ASSUME NEW S, NEW q \in Seq(S), NEW x \in S, Distinct(q), x \notin Elems(q)
  PROVE  Distinct(Append(q, x))
<1> DEFINE a == Append(q, x)
<1>1. /\ Len(q) \in Nat /\ Len(a) = Len(q) + 1 /\ a[Len(q) + 1] = x
      /\ \A i \in 1 .. Len(q) : a[i] = q[i]
  BY AppendFacts
<1>2. \A i \in 1 .. Len(q) : q[i] # x
  BY DEF Elems
<1> HIDE DEF a
<1>3. ASSUME NEW i \in 1 .. Len(a), NEW j \in 1 .. Len(a), a[i] = a[j] PROVE i = j
  <2>1. (i \in 1 .. Len(q) \/ i = Len(q) + 1) /\ (j \in 1 .. Len(q) \/ j = Len(q) + 1)
    BY <1>1
  <2> QED BY <1>1, <1>2, <1>3, <2>1 DEF Distinct
<1> QED BY <1>3 DEF Distinct, a

\* A sorted list has no repetitions.
LEMMA SortedDistinct ==
  ASSUME NEW S, NEW p \in Seq(S), NEW T, NEW q \in Seq(T), Distinct(p), Sorted(p, q)
  PROVE  Distinct(q)
<1>1. \A x : ~Precedes(p, x, x)
  BY PrecedesFacts
<1>2. Len(q) \in Nat
  OBVIOUS
<1>3. ASSUME NEW i \in 1 .. Len(q), NEW j \in 1 .. Len(q), q[i] = q[j] PROVE i = j
  <2>1. ~(i < j) /\ ~(j < i)
    BY <1>1, <1>3 DEF Sorted
  <2> QED BY <1>2, <2>1
<1> QED BY <1>3 DEF Distinct

\* A list stays sorted when the order grows at its end,
LEMMA SortedGrow ==
  ASSUME NEW S, NEW p \in Seq(S), NEW x \in S, NEW q, Sorted(p, q)
  PROVE  Sorted(Append(p, x), q)
BY AppendPrecedes DEF Sorted

\* when both get the same new last element,
LEMMA SortedAppend ==
  ASSUME NEW S, NEW p \in Seq(S), NEW x \in S, NEW q \in Seq(S), Sorted(p, q),
         Elems(q) \subseteq Elems(p)
  PROVE  Sorted(Append(p, x), Append(q, x))
<1> DEFINE a == Append(q, x)
<1>1. /\ Len(q) \in Nat /\ Len(a) = Len(q) + 1 /\ a[Len(q) + 1] = x
      /\ \A i \in 1 .. Len(q) : a[i] = q[i]
  BY AppendFacts
<1>2. \A u, v : Precedes(Append(p, x), u, v) <=> Precedes(p, u, v) \/ (u \in Elems(p) /\ v = x)
  BY AppendPrecedes
<1>3. \A i \in 1 .. Len(q) : q[i] \in Elems(p)
  BY Zenon DEF Elems
<1> HIDE DEF a
<1>4. ASSUME NEW i \in 1 .. Len(a), NEW j \in 1 .. Len(a), i < j
      PROVE  Precedes(Append(p, x), a[i], a[j])
  <2>1. i \in 1 .. Len(q) /\ (j \in 1 .. Len(q) \/ j = Len(q) + 1)
    BY <1>1, <1>4
  <2>2. CASE j \in 1 .. Len(q)
    <3>1. Precedes(p, q[i], q[j])
      BY <1>4, <2>1, <2>2 DEF Sorted
    <3> QED BY <1>1, <1>2, <2>1, <2>2, <3>1
  <2>3. CASE j = Len(q) + 1
    BY <1>1, <1>2, <1>3, <2>1, <2>3
  <2> QED BY <2>1, <2>2, <2>3
<1> QED BY <1>4 DEF Sorted, a

\* and when an element is removed.
LEMMA SortedWithout ==
  ASSUME NEW p, NEW S, NEW q \in Seq(S), NEW i \in 1 .. Len(q), Sorted(p, q)
  PROVE  Sorted(p, Without(q, i))
<1> DEFINE w == Without(q, i)
<1>1. /\ Len(q) \in Nat /\ Len(w) = Len(q) - 1
      /\ \A j \in 1 .. Len(q) - 1 : w[j] = IF j < i THEN q[j] ELSE q[j + 1]
  BY WithoutFacts, Zenon
<1> HIDE DEF w
<1>2. ASSUME NEW j \in 1 .. Len(w), NEW k \in 1 .. Len(w), j < k PROVE Precedes(p, w[j], w[k])
  <2> DEFINE at(n) == IF n < i THEN n ELSE n + 1
  <2>1. /\ at(j) \in 1 .. Len(q) /\ at(k) \in 1 .. Len(q) /\ at(j) < at(k)
        /\ w[j] = q[at(j)] /\ w[k] = q[at(k)]
    BY <1>1, <1>2
  <2> HIDE DEF at
  <2> QED BY <2>1 DEF Sorted
<1> QED BY <1>2 DEF Sorted, w

\* Where a search stops is before everything else that passes the test.
LEMMA FirstFacts ==
  ASSUME NEW I \in SUBSET Nat
  PROVE  /\ \A i \in First(I) : i \in I /\ \A j \in I : i <= j
         /\ First(I) = {} => I = {}
<1>1. \A i \in First(I) : i \in I /\ \A j \in I : i <= j
  BY DEF First
<1>2. ASSUME I # {} PROVE First(I) # {}
  <2> DEFINE R == {ss \in Nat \X Nat : ss[1] < ss[2]}
  <2>1. IsWellFoundedOn(R, Nat)
    BY NatLessThanWellFounded, Zenon DEF OpToRel
  <2> HIDE DEF R
  <2>2. PICK i \in I : \A j \in I : ~(<<j, i>> \in R)
    BY <1>2, <2>1, WFMin, Zenon
  <2>3. \A j \in I : ~(j < i)
    <3> TAKE j \in I
    <3>1. <<j, i>> \in Nat \X Nat /\ <<j, i>>[1] = j /\ <<j, i>>[2] = i
      OBVIOUS
    <3>2. <<j, i>> \notin R
      BY <2>2
    <3> QED BY <3>1, <3>2, Zenon DEF R
  <2>4. \A j \in I : i <= j
    BY <2>3
  <2> QED BY <2>4 DEF First
<1> QED BY <1>1, <1>2

(***************************************************************************)
(* The lists of the endpoint                                               *)
(***************************************************************************)

Entry == [m : Msgs, addr : Sources \cup {Unspec}]
Names(q) == [i \in 1 .. Len(q) |-> q[i].m]

\* The messages of an unexpected list, position by position.
LEMMA NamesFacts ==
  ASSUME NEW q \in Seq(Entry)
  PROVE  /\ Names(q) \in Seq(Msgs) /\ Len(q) \in Nat /\ Len(Names(q)) = Len(q)
         /\ \A i \in 1 .. Len(q) : Names(q)[i] = q[i].m /\ q[i] \in Entry /\ q[i].m \in Msgs
<1>1. Len(q) \in Nat /\ \A i \in 1 .. Len(q) : q[i] \in Entry
  OBVIOUS
<1>2. \A i \in 1 .. Len(q) : q[i].m \in Msgs
  BY <1>1 DEF Entry
<1>3. Names(q) \in [1 .. Len(q) -> Msgs]
  BY <1>2 DEF Names
<1> QED BY <1>1, <1>2, <1>3 DEF Names

\* A message is on the list if an entry names it.
LEMMA NamesElems ==
  ASSUME NEW q \in Seq(Entry)
  PROVE  \A x : x \in Elems(Names(q)) <=> \E u \in Elems(q) : u.m = x
<1>1. Len(Names(q)) = Len(q) /\ \A i \in 1 .. Len(q) : Names(q)[i] = q[i].m
  BY NamesFacts
<1> QED BY <1>1, Zenon DEF Elems

\* Two lists with the same length and positions are the same.
LEMMA SameList ==
  ASSUME NEW S, NEW p \in Seq(S), NEW q \in Seq(S), Len(p) = Len(q),
         \A i \in 1 .. Len(p) : p[i] = q[i]
  PROVE  p = q
OBVIOUS

\* rds_enqueue_unexp adds the message of the entry,
LEMMA NamesAppend ==
  ASSUME NEW q \in Seq(Entry), NEW u \in Entry
  PROVE  Names(Append(q, u)) = Append(Names(q), u.m)
<1> DEFINE a == Append(q, u)  n == Names(q)
<1>0. u.m \in Msgs
  BY DEF Entry
<1>1. /\ a \in Seq(Entry) /\ Len(q) \in Nat /\ Len(a) = Len(q) + 1 /\ a[Len(q) + 1] = u
      /\ \A i \in 1 .. Len(q) : a[i] = q[i]
  BY AppendFacts
<1>2. n \in Seq(Msgs) /\ Len(n) = Len(q) /\ \A i \in 1 .. Len(q) : n[i] = q[i].m
  BY NamesFacts
<1>3. /\ Append(n, u.m) \in Seq(Msgs) /\ Len(Append(n, u.m)) = Len(q) + 1
      /\ Append(n, u.m)[Len(q) + 1] = u.m
      /\ \A i \in 1 .. Len(q) : Append(n, u.m)[i] = n[i]
  BY <1>0, <1>2, AppendFacts
<1>4. /\ Names(a) \in Seq(Msgs) /\ Len(Names(a)) = Len(a)
      /\ \A i \in 1 .. Len(a) : Names(a)[i] = a[i].m
  <2> HIDE DEF a
  <2> QED BY <1>1, NamesFacts
<1> HIDE DEF a, n
<1>5. ASSUME NEW i \in 1 .. Len(q) + 1 PROVE Names(a)[i] = Append(n, u.m)[i]
  <2>1. i \in 1 .. Len(q) \/ i = Len(q) + 1
    BY <1>1
  <2>2. i \in 1 .. Len(a)
    BY <1>1
  <2>3. Names(a)[i] = a[i].m
    BY <1>4, <2>2
  <2> QED BY <1>1, <1>2, <1>3, <2>1, <2>3, Zenon
<1>6. Len(Names(a)) = Len(q) + 1
  BY <1>1, <1>4
<1>7. Names(a) = Append(n, u.m)
  BY <1>3, <1>4, <1>5, <1>6, SameList, Zenon
<1> QED BY <1>7 DEF a, n

\* and a match removes that of the entry it takes.
LEMMA NamesWithout ==
  ASSUME NEW q \in Seq(Entry), NEW i \in 1 .. Len(q)
  PROVE  Names(Without(q, i)) = Without(Names(q), i)
<1> DEFINE w == Without(q, i)  n == Names(q)
<1>1. /\ w \in Seq(Entry) /\ Len(q) \in Nat /\ Len(w) = Len(q) - 1
      /\ \A j \in 1 .. Len(q) - 1 : w[j] = IF j < i THEN q[j] ELSE q[j + 1]
  BY WithoutFacts, Zenon
<1>2. n \in Seq(Msgs) /\ Len(n) = Len(q) /\ \A j \in 1 .. Len(q) : n[j] = q[j].m
  BY NamesFacts
<1>3. /\ Without(n, i) \in Seq(Msgs) /\ Len(Without(n, i)) = Len(q) - 1
      /\ \A j \in 1 .. Len(q) - 1 : Without(n, i)[j] = IF j < i THEN n[j] ELSE n[j + 1]
  <2> HIDE DEF n
  <2> QED BY <1>2, WithoutFacts
<1>4. /\ Names(w) \in Seq(Msgs) /\ Len(Names(w)) = Len(w)
      /\ \A j \in 1 .. Len(w) : Names(w)[j] = w[j].m
  <2> HIDE DEF w
  <2> QED BY <1>1, NamesFacts, Zenon
<1> HIDE DEF w, n
<1>5. ASSUME NEW j \in 1 .. Len(q) - 1 PROVE Names(w)[j] = Without(n, i)[j]
  <2>1. Names(w)[j] = w[j].m
    BY <1>1, <1>4
  <2>2. j \in 1 .. Len(q) /\ j + 1 \in 1 .. Len(q)
    BY <1>1
  <2> QED BY <1>1, <1>2, <1>3, <2>1, <2>2, Zenon
<1>6. Names(w) = Without(n, i)
  BY <1>1, <1>3, <1>4, <1>5, SameList, Zenon
<1> QED BY <1>6 DEF w, n

\* A posted list q, given the order p in which receives were posted.
PostedOK(p, q, l) ==
  Elems(q) \subseteq Elems(p) /\ Sorted(p, q) /\ \A r \in Elems(q) : List[r] = l

\* An entry names the source of its message, unless that was unknown.
Labelled(u) ==
  /\ u.addr \in {SourceOf(u.m), Unspec}
  /\ SourceOf(u.m) \in InAv => u.addr = SourceOf(u.m)

\* An unexpected list q, given the order p in which messages arrived.
UnexpOK(p, q, l) ==
  /\ Elems(Names(q)) \subseteq Elems(p) /\ Sorted(p, Names(q))
  /\ \A u \in Elems(q) : List[u.m] = l /\ Labelled(u)

\* A receive joins the posted list it belongs to; the other only sees the order grow.
LEMMA PostedKept ==
  ASSUME NEW p \in Seq(Recvs), NEW q \in Seq(Recvs), NEW l, PostedOK(p, q, l)
  PROVE  /\ \A r \in Recvs : PostedOK(Append(p, r), q, l)
         /\ \A r \in Recvs : List[r] = l => PostedOK(Append(p, r), Append(q, r), l)
         /\ Distinct(p) => \A i \in 1 .. Len(q) : PostedOK(p, Without(q, i), l)
<1>0. Elems(q) \subseteq Elems(p) /\ Sorted(p, q) /\ \A r \in Elems(q) : List[r] = l
  BY DEF PostedOK
<1>1. ASSUME NEW r \in Recvs PROVE PostedOK(Append(p, r), q, l)
  <2>1. Elems(Append(p, r)) = Elems(p) \cup {r}
    BY AppendElems
  <2>2. Sorted(Append(p, r), q)
    BY <1>0, SortedGrow
  <2> QED BY <1>0, <2>1, <2>2 DEF PostedOK
<1>2. ASSUME NEW r \in Recvs, List[r] = l PROVE PostedOK(Append(p, r), Append(q, r), l)
  <2>1. Elems(Append(p, r)) = Elems(p) \cup {r} /\ Elems(Append(q, r)) = Elems(q) \cup {r}
    BY AppendElems
  <2>2. Sorted(Append(p, r), Append(q, r))
    BY <1>0, SortedAppend
  <2> QED BY <1>0, <1>2, <2>1, <2>2 DEF PostedOK
<1>3. ASSUME Distinct(p), NEW i \in 1 .. Len(q) PROVE PostedOK(p, Without(q, i), l)
  <2>1. Distinct(q)
    BY <1>0, <1>3, SortedDistinct
  <2>2. Elems(Without(q, i)) = Elems(q) \ {q[i]}
    BY <2>1, WithoutElems
  <2>3. Sorted(p, Without(q, i))
    BY <1>0, SortedWithout
  <2> QED BY <1>0, <2>2, <2>3 DEF PostedOK
<1> QED BY <1>1, <1>2, <1>3

\* The same of a message that joins or leaves an unexpected list.
LEMMA UnexpKept ==
  ASSUME NEW p \in Seq(Msgs), NEW q \in Seq(Entry), NEW l, UnexpOK(p, q, l)
  PROVE  /\ \A x \in Msgs : UnexpOK(Append(p, x), q, l)
         /\ \A u \in Entry : List[u.m] = l /\ Labelled(u)
                               => UnexpOK(Append(p, u.m), Append(q, u), l)
         /\ Distinct(p) => \A i \in 1 .. Len(q) :
              /\ UnexpOK(p, Without(q, i), l)
              /\ Elems(Names(Without(q, i))) = Elems(Names(q)) \ {q[i].m}
<1>0. /\ Elems(Names(q)) \subseteq Elems(p) /\ Sorted(p, Names(q))
      /\ \A u \in Elems(q) : List[u.m] = l /\ Labelled(u)
  BY DEF UnexpOK
<1>n. Names(q) \in Seq(Msgs)
  BY NamesFacts
<1>1. ASSUME NEW x \in Msgs PROVE UnexpOK(Append(p, x), q, l)
  <2>1. Elems(Append(p, x)) = Elems(p) \cup {x}
    BY AppendElems
  <2>2. Sorted(Append(p, x), Names(q))
    BY <1>0, SortedGrow
  <2>3. Elems(Names(q)) \subseteq Elems(Append(p, x))
    BY <1>0, <2>1
  <2> QED BY <1>0, <2>2, <2>3 DEF UnexpOK
<1>2. ASSUME NEW u \in Entry, List[u.m] = l, Labelled(u)
      PROVE  UnexpOK(Append(p, u.m), Append(q, u), l)
  <2>0. u.m \in Msgs
    BY DEF Entry
  <2>1. /\ Elems(Append(p, u.m)) = Elems(p) \cup {u.m}
        /\ Elems(Append(Names(q), u.m)) = Elems(Names(q)) \cup {u.m}
    BY <1>n, <2>0, AppendElems
  <2>2. Elems(Append(q, u)) = Elems(q) \cup {u}
    BY AppendElems
  <2>3. Sorted(Append(p, u.m), Append(Names(q), u.m))
    BY <1>0, <1>n, <2>0, SortedAppend
  <2>4. Names(Append(q, u)) = Append(Names(q), u.m)
    BY NamesAppend
  <2>5. Elems(Names(Append(q, u))) \subseteq Elems(Append(p, u.m))
    BY <1>0, <2>1, <2>4
  <2> QED BY <1>0, <1>2, <2>2, <2>3, <2>4, <2>5, Zenon DEF UnexpOK
<1>3. ASSUME Distinct(p), NEW i \in 1 .. Len(q)
      PROVE  /\ UnexpOK(p, Without(q, i), l)
             /\ Elems(Names(Without(q, i))) = Elems(Names(q)) \ {q[i].m}
  <2>1. Distinct(Names(q))
    BY <1>0, <1>3, <1>n, SortedDistinct
  <2>2. Len(Names(q)) = Len(q) /\ \A k \in 1 .. Len(q) : Names(q)[k] = q[k].m
    BY NamesFacts
  <2>3. Distinct(q)
    BY <2>1, <2>2 DEF Distinct
  <2>4. Elems(Without(q, i)) = Elems(q) \ {q[i]}
    BY <2>3, WithoutElems
  <2>5. Elems(Without(Names(q), i)) = Elems(Names(q)) \ {q[i].m}
    BY <1>n, <2>1, <2>2, WithoutElems
  <2>6. Sorted(p, Without(Names(q), i))
    BY <1>0, <1>n, <2>2, SortedWithout
  <2>7. Names(Without(q, i)) = Without(Names(q), i)
    BY NamesWithout
  <2>8. Elems(Names(Without(q, i))) \subseteq Elems(p)
    BY <1>0, <2>5, <2>7
  <2>9. \A u \in Elems(Without(q, i)) : List[u.m] = l /\ Labelled(u)
    BY <1>0, <2>4
  <2> QED BY <2>5, <2>6, <2>7, <2>8, <2>9, Zenon DEF UnexpOK
<1> QED BY <1>1, <1>2, <1>3

(***************************************************************************)
(* What each step does to the lists                                        *)
(***************************************************************************)

Arrived(a, n) ==
  \A s \in Sources : \A i \in 1 .. Len(Sent[s]) : Sent[s][i] \in Elems(a) => i <= n[s]

\* The lists are sorted and hold what belongs to them, and of a source only the messages
\* up to next have arrived.
ListInv ==
  /\ TypeOK /\ InAv \subseteq av
  /\ Distinct(postSeq) /\ Distinct(arrSeq) /\ Arrived(arrSeq, next)
  /\ \A l \in Lists : PostedOK(postSeq, posted[l], l) /\ UnexpOK(arrSeq, unexp[l], l)

\* The types of the lists, without the rest of TypeOK.
LEMMA ListTypes ==
  ASSUME TypeOK
  PROVE  /\ postSeq \in Seq(Recvs) /\ arrSeq \in Seq(Msgs)
         /\ posted \in [Lists -> Seq(Recvs)] /\ \A l \in Lists : posted[l] \in Seq(Recvs)
         /\ unexp \in [Lists -> Seq(Entry)] /\ \A l \in Lists : unexp[l] \in Seq(Entry)
<1>1. /\ postSeq \in Seq(Recvs) /\ arrSeq \in Seq(Msgs)
      /\ posted \in [Lists -> Seq(Recvs)] /\ unexp \in [Lists -> Seq(Entry)]
  BY Zenon DEF TypeOK, Entry
<1> QED BY <1>1

\* A message belongs to the source that sends it.
LEMMA SourceFacts ==
  ASSUME NEW s \in Sources, NEW i \in 1 .. Len(Sent[s])
  PROVE  SourceOf(Sent[s][i]) = s /\ Sent[s][i] \in Msgs
<1>1. Sent[s] \in Seq(Msgs)
  BY MatchAssumption DEF MatchAssumption
<1>2. Sent[s][i] \in Msgs
  BY <1>1
<1>3. \A t \in Sources : (\E j \in 1 .. Len(Sent[t]) : Sent[t][j] = Sent[s][i]) <=> t = s
  BY MatchAssumption, Zenon DEF MatchAssumption
<1>4. SourceOf(Sent[s][i]) = s
  BY <1>3, Zenon DEF SourceOf
<1> QED BY <1>2, <1>4

NewMsg(s) == Sent[s][next[s] + 1]

\* The next message of a source is new, and the order of arrival grows by it.
LEMMA ArrivalFacts ==
  ASSUME ListInv, NEW s \in Sources, Arrival(s)
  PROVE  /\ NewMsg(s) \in Msgs /\ SourceOf(NewMsg(s)) = s /\ NewMsg(s) \notin Elems(arrSeq)
         /\ arrSeq' = Append(arrSeq, NewMsg(s)) /\ arrSeq' \in Seq(Msgs) /\ Distinct(arrSeq')
         /\ Elems(arrSeq') = Elems(arrSeq) \cup {NewMsg(s)}
         /\ Arrived(arrSeq', next')
         /\ next' \in [Sources -> Nat] /\ \A t \in Sources : next'[t] <= Len(Sent[t])
<1> DEFINE m == NewMsg(s)
<1>1. /\ next \in [Sources -> Nat] /\ \A t \in Sources : next[t] <= Len(Sent[t])
      /\ arrSeq \in Seq(Msgs) /\ Distinct(arrSeq) /\ Arrived(arrSeq, next)
  BY DEF ListInv, TypeOK
<1>2. /\ next[s] < Len(Sent[s]) /\ next' = [next EXCEPT ![s] = next[s] + 1]
      /\ arrSeq' = Append(arrSeq, m)
  BY DEF Arrival, NewMsg
<1>3. \A t \in Sources : Len(Sent[t]) \in Nat
  BY MatchAssumption DEF MatchAssumption
<1>4. next[s] + 1 \in 1 .. Len(Sent[s])
  BY <1>1, <1>2, <1>3
<1>5. m \in Msgs /\ SourceOf(m) = s
  BY <1>4, SourceFacts DEF NewMsg
<1>6. m \notin Elems(arrSeq)
  <2>1. ASSUME m \in Elems(arrSeq) PROVE next[s] + 1 <= next[s]
    BY <1>1, <1>4, <2>1, Zenon DEF Arrived, NewMsg
  <2> QED BY <1>1, <2>1
<1>7. arrSeq' \in Seq(Msgs) /\ Distinct(arrSeq') /\ Elems(arrSeq') = Elems(arrSeq) \cup {m}
  <2> HIDE DEF m
  <2> QED BY <1>1, <1>2, <1>5, <1>6, AppendFacts, AppendElems, AppendDistinct
<1>8. next' \in [Sources -> Nat] /\ \A t \in Sources : next'[t] <= Len(Sent[t])
  BY <1>1, <1>2, <1>3
<1>9. ASSUME NEW t \in Sources, NEW i \in 1 .. Len(Sent[t]), Sent[t][i] \in Elems(arrSeq')
      PROVE  i <= next'[t]
  <2>1. CASE Sent[t][i] = m
    <3>1. \A j \in 1 .. Len(Sent[s]) : Sent[t][i] = Sent[s][j] => t = s /\ i = j
      BY MatchAssumption, Zenon DEF MatchAssumption
    <3>2. t = s /\ i = next[s] + 1
      BY <1>4, <2>1, <3>1, Zenon DEF NewMsg
    <3> QED BY <1>1, <1>2, <3>2
  <2>2. CASE Sent[t][i] \in Elems(arrSeq)
    <3>1. i <= next[t]
      BY <1>1, <2>2 DEF Arrived
    <3> QED BY <1>1, <1>2, <1>3, <3>1
  <2> QED BY <1>7, <1>9, <2>1, <2>2
<1>10. Arrived(arrSeq', next')
  BY <1>9, Zenon DEF Arrived
<1> QED BY <1>2, <1>5, <1>6, <1>7, <1>8, <1>10

\* A receive waits where it belongs, and a message is buffered where it belongs.
LEMMA WaitingFacts ==
  ASSUME ListInv, NEW l \in Lists
  PROVE  /\ \A r \in Elems(posted[l]) :
              r \in Recvs /\ List[r] = l /\ Waiting(r) /\ r \in Elems(postSeq)
         /\ \A u \in Elems(unexp[l]) :
              /\ u \in Entry /\ u.m \in Msgs /\ List[u.m] = l /\ Buffered(u.m)
              /\ u.m \in Elems(arrSeq) /\ Labelled(u)
<1>1. posted[l] \in Seq(Recvs) /\ unexp[l] \in Seq(Entry)
  BY ListTypes DEF ListInv
<1>2. PostedOK(postSeq, posted[l], l) /\ UnexpOK(arrSeq, unexp[l], l)
  BY DEF ListInv
<1>3. Elems(posted[l]) \subseteq Recvs /\ Elems(unexp[l]) \subseteq Entry
  BY <1>1 DEF Elems
<1>4. ASSUME NEW r \in Elems(posted[l])
      PROVE  r \in Recvs /\ List[r] = l /\ Waiting(r) /\ r \in Elems(postSeq)
  BY <1>2, <1>3, Zenon DEF PostedOK, Waiting
<1>5. ASSUME NEW u \in Elems(unexp[l])
      PROVE  /\ u \in Entry /\ u.m \in Msgs /\ List[u.m] = l /\ Buffered(u.m)
             /\ u.m \in Elems(arrSeq) /\ Labelled(u)
  <2>1. u \in Entry /\ u.m \in Msgs
    BY <1>3 DEF Entry
  <2>2. List[u.m] = l /\ Labelled(u) /\ u.m \in Elems(arrSeq)
    BY <1>1, <1>2, NamesElems, Zenon DEF UnexpOK
  <2> QED BY <2>1, <2>2, Zenon DEF Buffered
<1> QED BY <1>4, <1>5

\* A receive leaves the posted list: a match or a cancel.
LEMMA TakePosted ==
  ASSUME ListInv, NEW l \in Lists, NEW i \in 1 .. Len(posted[l]),
         posted' = [posted EXCEPT ![l] = Without(posted[l], i)], postSeq' = postSeq
  PROVE  /\ posted[l][i] \in Elems(posted[l])
         /\ posted' \in [Lists -> Seq(Recvs)]
         /\ \A k \in Lists : PostedOK(postSeq', posted'[k], k)
         /\ \A r \in Recvs : Waiting(r)' <=> Waiting(r) /\ r # posted[l][i]
<1> DEFINE x == posted[l][i]
<1>1. /\ posted \in [Lists -> Seq(Recvs)] /\ \A k \in Lists : posted[k] \in Seq(Recvs)
      /\ postSeq \in Seq(Recvs)
  BY ListTypes DEF ListInv
<1>2. Distinct(postSeq) /\ \A k \in Lists : PostedOK(postSeq, posted[k], k)
  BY DEF ListInv
<1>3. x \in Elems(posted[l])
  BY DEF Elems
<1>4. x \in Recvs /\ List[x] = l
  BY <1>3, WaitingFacts, Zenon
<1>5. Distinct(posted[l])
  BY <1>1, <1>2, SortedDistinct DEF PostedOK
<1>6. /\ Without(posted[l], i) \in Seq(Recvs)
      /\ Elems(Without(posted[l], i)) = Elems(posted[l]) \ {x}
      /\ PostedOK(postSeq, Without(posted[l], i), l)
  BY <1>1, <1>2, <1>5, WithoutFacts, WithoutElems, PostedKept
<1>7. /\ posted' \in [Lists -> Seq(Recvs)] /\ posted'[l] = Without(posted[l], i)
      /\ \A k \in Lists \ {l} : posted'[k] = posted[k]
  BY <1>1, <1>6
<1>8. \A k \in Lists : PostedOK(postSeq', posted'[k], k)
  BY <1>2, <1>6, <1>7, Zenon
<1>9. ASSUME NEW r \in Recvs PROVE Waiting(r)' <=> Waiting(r) /\ r # x
  <2>0. List[r] \in Lists
    BY MatchAssumption DEF MatchAssumption
  <2>1. CASE List[r] = l
    BY <1>6, <1>7, <2>1 DEF Waiting
  <2>2. CASE List[r] # l
    BY <1>4, <1>7, <2>0, <2>2 DEF Waiting
  <2> QED BY <2>1, <2>2
<1> QED BY <1>3, <1>7, <1>8, <1>9

\* An entry leaves the unexpected list: a match.
LEMMA TakeUnexp ==
  ASSUME ListInv, NEW l \in Lists, NEW i \in 1 .. Len(unexp[l]),
         unexp' = [unexp EXCEPT ![l] = Without(unexp[l], i)], arrSeq' = arrSeq
  PROVE  /\ unexp[l][i] \in Elems(unexp[l])
         /\ unexp' \in [Lists -> Seq(Entry)]
         /\ \A k \in Lists : UnexpOK(arrSeq', unexp'[k], k)
         /\ \A m \in Msgs : Buffered(m)' <=> Buffered(m) /\ m # unexp[l][i].m
<1> DEFINE x == unexp[l][i]
<1>1. /\ unexp \in [Lists -> Seq(Entry)] /\ \A k \in Lists : unexp[k] \in Seq(Entry)
      /\ arrSeq \in Seq(Msgs)
  BY ListTypes DEF ListInv
<1>2. Distinct(arrSeq) /\ \A k \in Lists : UnexpOK(arrSeq, unexp[k], k)
  BY DEF ListInv
<1>3. x \in Elems(unexp[l])
  BY DEF Elems
<1>4. x.m \in Msgs /\ List[x.m] = l
  BY <1>3, WaitingFacts, Zenon
<1>6. /\ Without(unexp[l], i) \in Seq(Entry)
      /\ Elems(Names(Without(unexp[l], i))) = Elems(Names(unexp[l])) \ {x.m}
      /\ UnexpOK(arrSeq, Without(unexp[l], i), l)
  BY <1>1, <1>2, WithoutFacts, UnexpKept
<1>7. /\ unexp' \in [Lists -> Seq(Entry)] /\ unexp'[l] = Without(unexp[l], i)
      /\ \A k \in Lists \ {l} : unexp'[k] = unexp[k]
  BY <1>1, <1>6
<1>8. \A k \in Lists : UnexpOK(arrSeq', unexp'[k], k)
  BY <1>2, <1>6, <1>7, Zenon
<1>9. ASSUME NEW m \in Msgs PROVE Buffered(m)' <=> Buffered(m) /\ m # x.m
  <2>0. List[m] \in Lists
    BY MatchAssumption DEF MatchAssumption
  <2>1. CASE List[m] = l
    <3>1. Buffered(m) <=> m \in Elems(Names(unexp[l]))
      BY <1>1, <2>1, NamesElems, Zenon DEF Buffered
    <3>2. Buffered(m)' <=> m \in Elems(Names(unexp'[l]))
      <4>1. unexp'[l] \in Seq(Entry)
        BY <1>6, <1>7
      <4> QED BY <2>1, <4>1, NamesElems, Zenon DEF Buffered
    <3> QED BY <1>6, <1>7, <3>1, <3>2
  <2>2. CASE List[m] # l
    BY <1>4, <1>7, <2>0, <2>2, Zenon DEF Buffered
  <2> QED BY <2>1, <2>2
<1> QED BY <1>3, <1>7, <1>8, <1>9

\* rds_post_recv without a match: a new receive joins its list.
LEMMA AddPosted ==
  ASSUME ListInv, NEW r \in Recvs, Posting(r),
         posted' = [posted EXCEPT ![List[r]] = Append(posted[List[r]], r)]
  PROVE  /\ posted' \in [Lists -> Seq(Recvs)]
         /\ \A k \in Lists : PostedOK(postSeq', posted'[k], k)
         /\ \A q \in Recvs : Waiting(q)' <=> Waiting(q) \/ q = r
<1> DEFINE l == List[r]
<1>0. l \in Lists /\ \A q \in Recvs : List[q] \in Lists
  BY MatchAssumption DEF MatchAssumption
<1>1. /\ posted \in [Lists -> Seq(Recvs)] /\ \A k \in Lists : posted[k] \in Seq(Recvs)
      /\ postSeq \in Seq(Recvs)
  BY ListTypes DEF ListInv
<1>2. postSeq' = Append(postSeq, r) /\ \A k \in Lists : PostedOK(postSeq, posted[k], k)
  BY DEF ListInv, Posting
<1>3. /\ Append(posted[l], r) \in Seq(Recvs)
      /\ Elems(Append(posted[l], r)) = Elems(posted[l]) \cup {r}
  BY <1>0, <1>1, AppendFacts, AppendElems
<1>4. \A k \in Lists :
        /\ PostedOK(Append(postSeq, r), posted[k], k)
        /\ k = l => PostedOK(Append(postSeq, r), Append(posted[k], r), k)
  BY <1>1, <1>2, PostedKept, Zenon
<1>5. /\ posted' \in [Lists -> Seq(Recvs)] /\ posted'[l] = Append(posted[l], r)
      /\ \A k \in Lists \ {l} : posted'[k] = posted[k]
  BY <1>0, <1>1, <1>3
<1>6. ASSUME NEW k \in Lists PROVE PostedOK(postSeq', posted'[k], k)
  <2>1. CASE k = l
    BY <1>2, <1>4, <1>5, <2>1, Zenon
  <2>2. CASE k # l
    BY <1>2, <1>4, <1>5, <2>2, Zenon
  <2> QED BY <2>1, <2>2
<1>7. ASSUME NEW q \in Recvs PROVE Waiting(q)' <=> Waiting(q) \/ q = r
  <2>1. CASE List[q] = l
    BY <1>3, <1>5, <2>1 DEF Waiting
  <2>2. CASE List[q] # l
    BY <1>0, <1>5, <2>2 DEF Waiting
  <2> QED BY <2>1, <2>2
<1> QED BY <1>5, <1>6, <1>7

\* rds_enqueue_unexp: a new message joins its list.
LEMMA AddUnexp ==
  ASSUME ListInv, NEW u \in Entry, Labelled(u), arrSeq' = Append(arrSeq, u.m),
         unexp' = [unexp EXCEPT ![List[u.m]] = Append(unexp[List[u.m]], u)]
  PROVE  /\ unexp' \in [Lists -> Seq(Entry)]
         /\ \A k \in Lists : UnexpOK(arrSeq', unexp'[k], k)
         /\ \A m \in Msgs : Buffered(m)' <=> Buffered(m) \/ m = u.m
<1> DEFINE l == List[u.m]
<1>m. u.m \in Msgs
  BY DEF Entry
<1>0. l \in Lists /\ \A m \in Msgs : List[m] \in Lists
  BY <1>m, MatchAssumption DEF MatchAssumption
<1>1. /\ unexp \in [Lists -> Seq(Entry)] /\ \A k \in Lists : unexp[k] \in Seq(Entry)
      /\ arrSeq \in Seq(Msgs)
  BY ListTypes DEF ListInv
<1>2. \A k \in Lists : UnexpOK(arrSeq, unexp[k], k)
  BY DEF ListInv
<1>3. /\ Append(unexp[l], u) \in Seq(Entry)
      /\ Elems(Append(unexp[l], u)) = Elems(unexp[l]) \cup {u}
  BY <1>0, <1>1, AppendFacts, AppendElems
<1>4. \A k \in Lists :
        /\ UnexpOK(Append(arrSeq, u.m), unexp[k], k)
        /\ k = l => UnexpOK(Append(arrSeq, u.m), Append(unexp[k], u), k)
  BY <1>m, <1>1, <1>2, UnexpKept, Zenon
<1>5. /\ unexp' \in [Lists -> Seq(Entry)] /\ unexp'[l] = Append(unexp[l], u)
      /\ \A k \in Lists \ {l} : unexp'[k] = unexp[k]
  BY <1>0, <1>1, <1>3
<1>6. ASSUME NEW k \in Lists PROVE UnexpOK(arrSeq', unexp'[k], k)
  <2>1. CASE k = l
    BY <1>4, <1>5, <2>1, Zenon
  <2>2. CASE k # l
    BY <1>4, <1>5, <2>2, Zenon
  <2> QED BY <2>1, <2>2
<1>7. ASSUME NEW m \in Msgs PROVE Buffered(m)' <=> Buffered(m) \/ m = u.m
  <2>1. CASE List[m] = l
    BY <1>3, <1>5, <2>1, Zenon DEF Buffered
  <2>2. CASE List[m] # l
    BY <1>0, <1>5, <2>2, Zenon DEF Buffered
  <2> QED BY <2>1, <2>2
<1> QED BY <1>5, <1>6, <1>7

\* The order in which receives were posted grows by a new one.
LEMMA PostingFacts ==
  ASSUME ListInv, NEW r \in Recvs, Posting(r)
  PROVE  /\ r \notin Elems(postSeq) /\ postSeq' = Append(postSeq, r)
         /\ postSeq' \in Seq(Recvs) /\ Distinct(postSeq')
         /\ Elems(postSeq') = Elems(postSeq) \cup {r}
<1>1. postSeq \in Seq(Recvs) /\ Distinct(postSeq)
  BY DEF ListInv, TypeOK
<1>2. r \notin Elems(postSeq) /\ postSeq' = Append(postSeq, r)
  BY Zenon DEF Posting, Elems
<1> QED BY <1>1, <1>2, AppendFacts, AppendElems, AppendDistinct

\* The searches of the two lists: they stop at the first entry that passes the test.
LEMMA SearchPosted ==
  ASSUME ListInv, NEW m \in Msgs, NEW s
  PROVE  /\ \A i \in PostedFor(m, s) :
              /\ i \in 1 .. Len(posted[List[m]]) /\ Accepts(posted[List[m]][i], m, Resolved(s))
              /\ \A r \in Recvs : Waiting(r) /\ List[r] = List[m] /\ r # posted[List[m]][i]
                     /\ Accepts(r, m, Resolved(s)) => Precedes(postSeq, posted[List[m]][i], r)
         /\ PostedFor(m, s) = {} => \A r \in Recvs :
              ~(Waiting(r) /\ List[r] = List[m] /\ Accepts(r, m, Resolved(s)))
<1> DEFINE q == posted[List[m]]
           I == {i \in DOMAIN q : Accepts(q[i], m, Resolved(s))}
<1>0. List[m] \in Lists
  BY MatchAssumption DEF MatchAssumption
<1>1. q \in Seq(Recvs) /\ Sorted(postSeq, q)
  BY <1>0, ListTypes DEF ListInv, PostedOK
<1>2. DOMAIN q = 1 .. Len(q) /\ Len(q) \in Nat
  BY <1>1
<1>3. I \in SUBSET Nat /\ I \subseteq 1 .. Len(q)
  BY <1>2
<1>4. /\ \A i \in First(I) : i \in I /\ \A j \in I : i <= j
      /\ First(I) = {} => I = {}
  <2> HIDE DEF I
  <2> QED BY <1>3, FirstFacts, Zenon
<1>5. PostedFor(m, s) = First(I)
  BY DEF PostedFor
<1>6. ASSUME NEW r \in Recvs, Waiting(r), List[r] = List[m], Accepts(r, m, Resolved(s))
      PROVE  \E j \in I : q[j] = r
  <2>1. PICK j \in 1 .. Len(q) : q[j] = r
    BY <1>6, Zenon DEF Waiting, Elems
  <2> QED BY <1>2, <1>6, <2>1, Zenon
<1>7. \A i \in I : i \in 1 .. Len(q) /\ Accepts(q[i], m, Resolved(s))
  BY <1>3
<1> HIDE DEF I, q
<1>8. ASSUME NEW i \in First(I), NEW r \in Recvs, Waiting(r), List[r] = List[m], r # q[i],
             Accepts(r, m, Resolved(s))
      PROVE  Precedes(postSeq, q[i], r)
  <2>1. PICK j \in I : q[j] = r
    BY <1>6, <1>8
  <2>2. i \in 1 .. Len(q) /\ j \in 1 .. Len(q) /\ i <= j /\ i # j
    BY <1>4, <1>7, <1>8, <2>1
  <2>3. i < j
    BY <2>2
  <2> QED BY <1>1, <2>1, <2>2, <2>3 DEF Sorted
<1>9. ASSUME PostedFor(m, s) = {}, NEW r \in Recvs,
             Waiting(r), List[r] = List[m], Accepts(r, m, Resolved(s))
      PROVE  FALSE
  BY <1>4, <1>5, <1>6, <1>9
<1> QED BY <1>4, <1>5, <1>7, <1>8, <1>9, Zenon DEF q

\* The same of rds_match_unexp.
LEMMA SearchUnexp ==
  ASSUME ListInv, NEW r \in Recvs
  PROVE  /\ \A i \in UnexpFor(r) : LET u == unexp[List[r]][i] IN
              /\ i \in 1 .. Len(unexp[List[r]]) /\ Accepts(r, u.m, u.addr)
              /\ \A v \in Elems(unexp[List[r]]) :
                   v.m # u.m /\ Accepts(r, v.m, v.addr) => Precedes(arrSeq, u.m, v.m)
         /\ UnexpFor(r) = {} => \A v \in Elems(unexp[List[r]]) : ~Accepts(r, v.m, v.addr)
<1> DEFINE q == unexp[List[r]]
           I == {i \in DOMAIN q : Accepts(r, q[i].m, q[i].addr)}
<1>0. List[r] \in Lists
  BY MatchAssumption DEF MatchAssumption
<1>1. q \in Seq(Entry) /\ Sorted(arrSeq, Names(q))
  BY <1>0, ListTypes DEF ListInv, UnexpOK
<1>2. DOMAIN q = 1 .. Len(q) /\ Len(q) \in Nat
  BY <1>1
<1>n. Len(Names(q)) = Len(q) /\ \A i \in 1 .. Len(q) : Names(q)[i] = q[i].m
  <2> HIDE DEF q
  <2> QED BY <1>1, NamesFacts
<1>3. I \in SUBSET Nat /\ I \subseteq 1 .. Len(q)
  BY <1>2
<1>4. /\ \A i \in First(I) : i \in I /\ \A j \in I : i <= j
      /\ First(I) = {} => I = {}
  <2> HIDE DEF I
  <2> QED BY <1>3, FirstFacts, Zenon
<1>5. UnexpFor(r) = First(I)
  BY DEF UnexpFor
<1>6. ASSUME NEW v \in Elems(q), Accepts(r, v.m, v.addr) PROVE \E j \in I : q[j] = v
  <2>1. PICK j \in 1 .. Len(q) : q[j] = v
    BY <1>6, Zenon DEF Elems
  <2> QED BY <1>2, <1>6, <2>1, Zenon
<1>7. \A i \in I : i \in 1 .. Len(q) /\ Accepts(r, q[i].m, q[i].addr)
  BY <1>3
<1> HIDE DEF I, q
<1>8. ASSUME NEW i \in First(I), NEW v \in Elems(q), v.m # q[i].m, Accepts(r, v.m, v.addr)
      PROVE  Precedes(arrSeq, q[i].m, v.m)
  <2>1. PICK j \in I : q[j] = v
    BY <1>6, <1>8
  <2>2. i \in 1 .. Len(q) /\ j \in 1 .. Len(q) /\ i <= j /\ i # j
    BY <1>4, <1>7, <1>8, <2>1
  <2>3. i < j
    BY <2>2
  <2>4. Precedes(arrSeq, Names(q)[i], Names(q)[j])
    BY <1>1, <1>n, <2>2, <2>3, Zenon DEF Sorted
  <2> QED BY <1>n, <2>1, <2>2, <2>4, Zenon
<1>9. ASSUME UnexpFor(r) = {}, NEW v \in Elems(q), Accepts(r, v.m, v.addr) PROVE FALSE
  BY <1>4, <1>5, <1>6, <1>9
<1> QED BY <1>4, <1>5, <1>7, <1>8, <1>9, Zenon DEF q

\* Directed receives name sources that were in the address vector from the start.
KnownSources == \A r \in Recvs : Addr[r] \in InAv \cup {Unspec}

\* The test of the searches accepts what the application asked for, and all of it if
\* directed receives name known sources.
LEMMA AcceptsWanted ==
  ASSUME NEW r \in Recvs, NEW m \in Msgs, NEW addr, addr \in {SourceOf(m), Unspec},
         SourceOf(m) \in InAv => addr = SourceOf(m), List[r] = List[m]
  PROVE  /\ Accepts(r, m, addr) => Wanted(r, m)
         /\ KnownSources /\ Wanted(r, m) => Accepts(r, m, addr)
<1>1. Addr[r] \in Sources \cup {Unspec} /\ Unspec \notin Sources
  BY MatchAssumption DEF MatchAssumption
<1>2. TagMatch(r, m) <=> SymDiff(Tag[r], Tag[m]) \subseteq Ignore[r]
  BY DEF TagMatch
<1>3. Accepts(r, m, addr) => Addr[r] \in {Unspec, SourceOf(m)}
  BY <1>1, Zenon DEF Accepts, AddrMatch
<1>4. ASSUME KnownSources, Addr[r] \in {Unspec, SourceOf(m)} PROVE AddrMatch(r, addr)
  BY <1>4, Zenon DEF KnownSources, AddrMatch
<1>5. Accepts(r, m, addr) => Wanted(r, m)
  BY <1>2, <1>3, Zenon DEF Accepts, Wanted
<1>6. KnownSources /\ Wanted(r, m) => Accepts(r, m, addr)
  BY <1>2, <1>4, Zenon DEF Accepts, Wanted
<1> QED BY <1>5, <1>6

\* Lists that do not change.
LEMMA SameLists ==
  /\ posted' = posted => \A r \in Recvs : Waiting(r)' <=> Waiting(r)
  /\ unexp' = unexp => \A m \in Msgs : Buffered(m)' <=> Buffered(m)
BY Zenon DEF Waiting, Buffered

\* The invariant of the lists from its parts.
LEMMA ListInvIs ==
  ASSUME av' \subseteq Sources, InAv \subseteq av',
         next' \in [Sources -> Nat], \A s \in Sources : next'[s] <= Len(Sent[s]),
         posted' \in [Lists -> Seq(Recvs)], unexp' \in [Lists -> Seq(Entry)],
         match' \in [Recvs -> Msgs \cup {NoMsg}], ended' \subseteq Recvs, dropped' \subseteq Msgs,
         postSeq' \in Seq(Recvs), arrSeq' \in Seq(Msgs), Distinct(postSeq'), Distinct(arrSeq'),
         Arrived(arrSeq', next'),
         \A l \in Lists : PostedOK(postSeq', posted'[l], l),
         \A l \in Lists : UnexpOK(arrSeq', unexp'[l], l)
  PROVE  ListInv'
<1>1. TypeOK'
  BY Zenon DEF TypeOK, Entry, PostedOK, UnexpOK
<1> QED BY <1>1, Zenon DEF ListInv

\* The same of the state before.
LEMMA ListInvHas ==
  ASSUME ListInv
  PROVE  /\ av \subseteq Sources /\ InAv \subseteq av
         /\ next \in [Sources -> Nat] /\ (\A s \in Sources : next[s] <= Len(Sent[s]))
         /\ posted \in [Lists -> Seq(Recvs)] /\ unexp \in [Lists -> Seq(Entry)]
         /\ match \in [Recvs -> Msgs \cup {NoMsg}]
         /\ ended \subseteq Recvs /\ dropped \subseteq Msgs
         /\ postSeq \in Seq(Recvs) /\ arrSeq \in Seq(Msgs) /\ Distinct(postSeq) /\ Distinct(arrSeq)
         /\ Arrived(arrSeq, next)
         /\ (\A l \in Lists : PostedOK(postSeq, posted[l], l))
         /\ (\A l \in Lists : UnexpOK(arrSeq, unexp[l], l))
BY Zenon DEF ListInv, TypeOK, Entry

\* Nothing is posted and nothing has arrived at the start.
LEMMA ListInit == ASSUME Init PROVE ListInv
<1>1. TypeOK /\ InAv \subseteq av
  <2>1. \A s \in Sources : Len(Sent[s]) \in Nat /\ 0 <= Len(Sent[s])
    <3>1. Sent \in [Sources -> Seq(Msgs)]
      BY MatchAssumption DEF MatchAssumption
    <3> QED BY <3>1
  <2>2. \A i : i \notin 1 .. Len(<<>>)
    OBVIOUS
  <2>3. \A l \in Lists : posted[l] = <<>> /\ unexp[l] = <<>>
    BY DEF Init
  <2>4. \A l \in Lists : Elems(posted[l]) = {} /\ Elems(unexp[l]) = {}
    BY <2>2, <2>3, Zenon DEF Elems
  <2> QED BY <2>1, <2>4, MatchAssumption DEF MatchAssumption, Init, TypeOK
<1>2. Len(<<>>) = 0 /\ \A i : i \notin 1 .. 0
  OBVIOUS
<1>3. Elems(<<>>) = {} /\ Distinct(<<>>) /\ \A p : Sorted(p, <<>>)
  BY <1>2, Zenon DEF Elems, Distinct, Sorted
<1>4. Names(<<>>) = <<>>
  BY DEF Names
<1>5. \A l \in Lists : posted[l] = <<>> /\ unexp[l] = <<>>
  BY DEF Init
<1>6. postSeq = <<>> /\ arrSeq = <<>>
  BY DEF Init
<1>7. ASSUME NEW l \in Lists PROVE PostedOK(postSeq, posted[l], l) /\ UnexpOK(arrSeq, unexp[l], l)
  BY <1>3, <1>4, <1>5, <1>6, Zenon DEF PostedOK, UnexpOK
<1>8. Arrived(arrSeq, next)
  BY <1>3, <1>6, Zenon DEF Arrived
<1> QED BY <1>1, <1>3, <1>6, <1>7, <1>8, Zenon DEF ListInv

\* rds_handle_inbound, a posted receive matches: it leaves the list with the message, and
\* those that stay and also want it were posted later.
LEMMA StepArriveMatched ==
  ASSUME ListInv, NEW s \in Sources, ArriveMatched(s)
  PROVE  /\ ListInv'
         /\ \E q \in Recvs :
              /\ Waiting(q) /\ Wanted(q, NewMsg(s)) /\ match' = [match EXCEPT ![q] = NewMsg(s)]
              /\ \A r \in Recvs : Waiting(r)' <=> Waiting(r) /\ r # q
              /\ KnownSources => \A r \in Recvs :
                   Waiting(r) /\ r # q /\ Wanted(r, NewMsg(s)) => Precedes(postSeq, q, r)
<1> DEFINE m == NewMsg(s)  l == List[m]
<1>1. /\ Arrival(s) /\ UNCHANGED <<av, unexp, ended, dropped, postSeq>>
      /\ \E i \in PostedFor(m, s) : /\ match' = [match EXCEPT ![posted[l][i]] = m]
                                    /\ posted' = [posted EXCEPT ![l] = Without(posted[l], i)]
  BY Zenon DEF ArriveMatched, NewMsg
<1>2. /\ m \in Msgs /\ SourceOf(m) = s /\ arrSeq' = Append(arrSeq, m)
      /\ arrSeq' \in Seq(Msgs) /\ Distinct(arrSeq') /\ Arrived(arrSeq', next')
      /\ next' \in [Sources -> Nat] /\ \A t \in Sources : next'[t] <= Len(Sent[t])
  BY <1>1, ArrivalFacts
<1>3. l \in Lists
  BY <1>2, MatchAssumption DEF MatchAssumption
<1> HIDE DEF m, l
<1>4. PICK i \in PostedFor(m, s) : /\ match' = [match EXCEPT ![posted[l][i]] = m]
                                   /\ posted' = [posted EXCEPT ![l] = Without(posted[l], i)]
  BY <1>1, Zenon
<1> DEFINE q == posted[l][i]
<1>5. /\ i \in 1 .. Len(posted[l]) /\ Accepts(q, m, Resolved(s))
      /\ \A r \in Recvs : Waiting(r) /\ List[r] = l /\ r # q
             /\ Accepts(r, m, Resolved(s)) => Precedes(postSeq, q, r)
  BY <1>2, <1>4, SearchPosted, Zenon DEF l
<1>6. /\ q \in Elems(posted[l]) /\ posted' \in [Lists -> Seq(Recvs)]
      /\ \A k \in Lists : PostedOK(postSeq', posted'[k], k)
      /\ \A r \in Recvs : Waiting(r)' <=> Waiting(r) /\ r # q
  BY <1>1, <1>3, <1>4, <1>5, TakePosted, Zenon
<1>7. q \in Recvs /\ List[q] = l /\ Waiting(q)
  BY <1>3, <1>6, WaitingFacts, Zenon
<1>8. Resolved(s) \in {SourceOf(m), Unspec} /\ (SourceOf(m) \in InAv => Resolved(s) = SourceOf(m))
  BY <1>2, ListInvHas, Zenon DEF Resolved
<1>9. \A r \in Recvs : List[r] = l => /\ Accepts(r, m, Resolved(s)) => Wanted(r, m)
                                      /\ KnownSources /\ Wanted(r, m) => Accepts(r, m, Resolved(s))
  BY <1>2, <1>8, AcceptsWanted, Zenon DEF l
<1>10. \A r \in Recvs : Wanted(r, m) => List[r] = l
  BY Zenon DEF Wanted, l
<1>11. ListInv'
  <2>1. match' \in [Recvs -> Msgs \cup {NoMsg}]
    BY <1>2, <1>4, <1>7, ListInvHas
  <2>2. \A k \in Lists : UnexpOK(arrSeq', unexp'[k], k)
    BY <1>1, <1>2, ListInvHas, UnexpKept, ListTypes, Zenon DEF ListInv
  <2> QED BY <1>1, <1>2, <1>6, <2>1, <2>2, ListInvHas, ListInvIs, Zenon
<1> HIDE DEF q
<1>12. Wanted(q, m)
  BY <1>5, <1>7, <1>9, Zenon
<1>13. ASSUME KnownSources, NEW r \in Recvs, Waiting(r), r # q, Wanted(r, m)
       PROVE  Precedes(postSeq, q, r)
  BY <1>5, <1>9, <1>10, <1>13, Zenon
<1>14. match' = [match EXCEPT ![q] = m]
  BY <1>4 DEF q
<1> QED BY <1>6, <1>7, <1>11, <1>12, <1>13, <1>14, Zenon DEF m

\* rds_handle_inbound, no posted receive matches: nobody waits for the message, which is
\* buffered or dropped.
LEMMA StepArriveUnexpected ==
  ASSUME ListInv, NEW s \in Sources, ArriveUnexpected(s)
  PROVE  /\ ListInv' /\ (KnownSources => \A r \in Recvs : ~(Waiting(r) /\ Wanted(r, NewMsg(s))))
         /\ \/ /\ dropped' = dropped
               /\ \A x \in Msgs : Buffered(x)' <=> Buffered(x) \/ x = NewMsg(s)
            \/ /\ dropped' = dropped \cup {NewMsg(s)}
               /\ \A x \in Msgs : Buffered(x)' <=> Buffered(x)
<1> DEFINE m == NewMsg(s)  l == List[m]  u == [m |-> m, addr |-> Resolved(s)]
<1>1. /\ Arrival(s) /\ UNCHANGED <<av, posted, match, ended, postSeq>> /\ PostedFor(m, s) = {}
      /\ \/ unexp' = [unexp EXCEPT ![l] = Append(unexp[l], u)] /\ dropped' = dropped
         \/ dropped' = dropped \cup {m} /\ unexp' = unexp
  BY Zenon DEF ArriveUnexpected, NewMsg
<1>2. /\ m \in Msgs /\ SourceOf(m) = s /\ arrSeq' = Append(arrSeq, m)
      /\ arrSeq' \in Seq(Msgs) /\ Distinct(arrSeq') /\ Arrived(arrSeq', next')
      /\ next' \in [Sources -> Nat] /\ \A t \in Sources : next'[t] <= Len(Sent[t])
  BY <1>1, ArrivalFacts
<1> HIDE DEF m
<1>3. Resolved(s) \in {SourceOf(m), Unspec} /\ (SourceOf(m) \in InAv => Resolved(s) = SourceOf(m))
  BY <1>2, ListInvHas, Zenon DEF Resolved
<1>4. u \in Entry /\ u.m = m /\ Labelled(u)
  <2>1. u.m = m /\ u.addr = Resolved(s) /\ (Resolved(s) \in Sources \cup {Unspec})
    BY DEF Resolved
  <2>2. u \in Entry
    BY <1>2, <2>1 DEF Entry
  <2> QED BY <1>3, <2>1, <2>2 DEF Labelled
<1>5. ASSUME KnownSources, NEW r \in Recvs, Waiting(r), Wanted(r, m) PROVE FALSE
  <2>1. List[r] = l
    BY <1>5, Zenon DEF Wanted
  <2>2. Accepts(r, m, Resolved(s))
    BY <1>2, <1>3, <1>5, <2>1, AcceptsWanted, Zenon
  <2> QED BY <1>1, <1>2, <1>5, <2>1, <2>2, SearchPosted, Zenon
<1>6. \A k \in Lists : PostedOK(postSeq', posted'[k], k)
  BY <1>1, ListInvHas, Zenon
<1>7. CASE unexp' = [unexp EXCEPT ![l] = Append(unexp[l], u)] /\ dropped' = dropped
  <2> HIDE DEF u
  <2>1. /\ unexp' \in [Lists -> Seq(Entry)] /\ \A k \in Lists : UnexpOK(arrSeq', unexp'[k], k)
        /\ \A x \in Msgs : Buffered(x)' <=> Buffered(x) \/ x = m
    BY <1>2, <1>4, <1>7, AddUnexp, Zenon
  <2>2. ListInv'
    BY <1>1, <1>2, <1>6, <1>7, <2>1, ListInvHas, ListInvIs, Zenon
  <2> QED BY <1>5, <1>7, <2>1, <2>2, Zenon DEF m
<1>8. CASE dropped' = dropped \cup {m} /\ unexp' = unexp
  <2>1. \A k \in Lists : UnexpOK(arrSeq', unexp'[k], k)
    BY <1>2, <1>8, ListInvHas, UnexpKept, ListTypes, Zenon DEF ListInv
  <2>2. dropped' \subseteq Msgs
    BY <1>2, <1>8, ListInvHas
  <2>3. ListInv'
    BY <1>1, <1>2, <1>6, <1>8, <2>1, <2>2, ListInvHas, ListInvIs, Zenon
  <2> QED BY <1>5, <1>8, <2>3, SameLists, Zenon DEF m
<1> QED BY <1>1, <1>7, <1>8

\* rds_post_recv, no unexpected message matches: none that the receive wants is buffered.
LEMMA StepPostWaits ==
  ASSUME ListInv, NEW r \in Recvs, PostWaits(r)
  PROVE  /\ ListInv' /\ \A q \in Recvs : Waiting(q)' <=> Waiting(q) \/ q = r
         /\ KnownSources => \A x \in Msgs : ~(Buffered(x) /\ Wanted(r, x))
<1>1. /\ Posting(r) /\ UnexpFor(r) = {}
      /\ posted' = [posted EXCEPT ![List[r]] = Append(posted[List[r]], r)]
      /\ UNCHANGED <<av, next, unexp, match, ended, dropped, arrSeq>>
  BY Zenon DEF PostWaits
<1>2. /\ posted' \in [Lists -> Seq(Recvs)] /\ \A k \in Lists : PostedOK(postSeq', posted'[k], k)
      /\ \A q \in Recvs : Waiting(q)' <=> Waiting(q) \/ q = r
  BY <1>1, AddPosted, Zenon
<1>3. postSeq' \in Seq(Recvs) /\ Distinct(postSeq')
  BY <1>1, PostingFacts, Zenon
<1>4. ListInv'
  BY <1>1, <1>2, <1>3, ListInvHas, ListInvIs, Zenon
<1>5. ASSUME KnownSources, NEW x \in Msgs, Buffered(x), Wanted(r, x) PROVE FALSE
  <2>1. List[r] = List[x] /\ List[r] \in Lists
    BY <1>5, MatchAssumption DEF Wanted, MatchAssumption
  <2>2. PICK u \in Elems(unexp[List[r]]) : u.m = x
    BY <1>5, <2>1, Zenon DEF Buffered
  <2>3. Labelled(u)
    BY <2>1, <2>2, WaitingFacts, Zenon
  <2>4. u.addr \in {SourceOf(x), Unspec} /\ (SourceOf(x) \in InAv => u.addr = SourceOf(x))
    BY <2>2, <2>3 DEF Labelled
  <2>5. Accepts(r, x, u.addr)
    BY <1>5, <2>1, <2>4, AcceptsWanted, Zenon
  <2> QED BY <1>1, <2>2, <2>5, SearchUnexp, Zenon
<1> QED BY <1>2, <1>4, <1>5, Zenon

\* rds_post_recv, an unexpected message matches: it leaves the list with the receive, and
\* those that stay and that it also wants arrived later.
LEMMA StepPostMatched ==
  ASSUME ListInv, NEW r \in Recvs, PostMatched(r)
  PROVE  /\ ListInv'
         /\ \E x \in Msgs :
              /\ Buffered(x) /\ Wanted(r, x) /\ match' = [match EXCEPT ![r] = x]
              /\ \A m \in Msgs : Buffered(m)' <=> Buffered(m) /\ m # x
              /\ KnownSources => \A m \in Msgs :
                   Buffered(m) /\ m # x /\ Wanted(r, m) => Precedes(arrSeq, x, m)
<1> DEFINE l == List[r]
<1>1. /\ Posting(r) /\ UNCHANGED <<av, next, posted, ended, dropped, arrSeq>>
      /\ \E i \in UnexpFor(r) : /\ match' = [match EXCEPT ![r] = unexp[l][i].m]
                                /\ unexp' = [unexp EXCEPT ![l] = Without(unexp[l], i)]
  BY Zenon DEF PostMatched
<1>2. l \in Lists
  BY MatchAssumption DEF MatchAssumption
<1>3. PICK i \in UnexpFor(r) : /\ match' = [match EXCEPT ![r] = unexp[l][i].m]
                               /\ unexp' = [unexp EXCEPT ![l] = Without(unexp[l], i)]
  BY <1>1, Zenon
<1> DEFINE u == unexp[l][i]
<1>4. /\ i \in 1 .. Len(unexp[l]) /\ Accepts(r, u.m, u.addr)
      /\ \A v \in Elems(unexp[l]) :
           v.m # u.m /\ Accepts(r, v.m, v.addr) => Precedes(arrSeq, u.m, v.m)
  BY <1>3, SearchUnexp, Zenon
<1> HIDE DEF l
<1>5. /\ u \in Elems(unexp[l]) /\ unexp' \in [Lists -> Seq(Entry)]
      /\ \A k \in Lists : UnexpOK(arrSeq', unexp'[k], k)
      /\ \A m \in Msgs : Buffered(m)' <=> Buffered(m) /\ m # u.m
  BY <1>1, <1>2, <1>3, <1>4, TakeUnexp, Zenon
<1>6. \A v \in Elems(unexp[l]) : v.m \in Msgs /\ List[v.m] = l /\ Buffered(v.m) /\ Labelled(v)
  BY <1>2, WaitingFacts, Zenon
<1>7. match' = [match EXCEPT ![r] = u.m]
  BY <1>3
<1> HIDE DEF u
<1>8. ASSUME NEW v \in Elems(unexp[l])
      PROVE  /\ Accepts(r, v.m, v.addr) => Wanted(r, v.m)
             /\ KnownSources /\ Wanted(r, v.m) => Accepts(r, v.m, v.addr)
  <2>1. /\ v.addr \in {SourceOf(v.m), Unspec}
        /\ SourceOf(v.m) \in InAv => v.addr = SourceOf(v.m)
    BY <1>6, Zenon DEF Labelled
  <2> QED BY <1>6, <2>1, AcceptsWanted, Zenon DEF l
<1>9. ListInv'
  <2>1. postSeq' \in Seq(Recvs) /\ Distinct(postSeq') /\ postSeq' = Append(postSeq, r)
    BY <1>1, PostingFacts, Zenon
  <2>2. \A k \in Lists : PostedOK(postSeq', posted'[k], k)
    BY <1>1, <2>1, ListInvHas, PostedKept, ListTypes, Zenon DEF ListInv
  <2>3. match' \in [Recvs -> Msgs \cup {NoMsg}]
    <3>1. u.m \in Msgs /\ match \in [Recvs -> Msgs \cup {NoMsg}]
      BY <1>5, <1>6, ListInvHas, Zenon
    <3> QED BY <1>7, <3>1
  <2> QED BY <1>1, <1>5, <2>1, <2>2, <2>3, ListInvHas, ListInvIs, Zenon
<1>10. ASSUME KnownSources, NEW m \in Msgs, Buffered(m), m # u.m, Wanted(r, m)
       PROVE  Precedes(arrSeq, u.m, m)
  <2>1. List[m] = l
    BY <1>10, Zenon DEF Wanted, l
  <2>2. PICK v \in Elems(unexp[l]) : v.m = m
    BY <1>10, <2>1, Zenon DEF Buffered
  <2> QED BY <1>4, <1>8, <1>10, <2>2, Zenon
<1> QED BY <1>4, <1>5, <1>6, <1>7, <1>8, <1>9, <1>10, Zenon

\* rds_ep_cancel removes a receive that waits.
LEMMA StepCancel ==
  ASSUME ListInv, NEW r \in Recvs, Cancel(r)
  PROVE  ListInv' /\ Waiting(r) /\ \A q \in Recvs : Waiting(q)' <=> Waiting(q) /\ q # r
<1> DEFINE l == List[r]  I == {j \in DOMAIN posted[l] : posted[l][j] = r}
<1>1. /\ \E i \in First(I) : posted' = [posted EXCEPT ![l] = Without(posted[l], i)]
      /\ ended' = ended \cup {r} /\ UNCHANGED <<av, next, unexp, match, dropped, postSeq, arrSeq>>
  BY Zenon DEF Cancel
<1>2. l \in Lists
  BY MatchAssumption DEF MatchAssumption
<1>3. PICK i \in First(I) : posted' = [posted EXCEPT ![l] = Without(posted[l], i)]
  BY <1>1, Zenon
<1>4. i \in 1 .. Len(posted[l]) /\ posted[l][i] = r
  <2>1. i \in I
    BY <1>3, Zenon DEF First
  <2>2. posted[l] \in Seq(Recvs)
    BY <1>2, ListTypes DEF ListInv
  <2> QED BY <2>1, <2>2
<1> HIDE DEF l, I
<1>5. /\ r \in Elems(posted[l]) /\ posted' \in [Lists -> Seq(Recvs)]
      /\ \A k \in Lists : PostedOK(postSeq', posted'[k], k)
      /\ \A q \in Recvs : Waiting(q)' <=> Waiting(q) /\ q # r
  BY <1>1, <1>2, <1>3, <1>4, TakePosted, Zenon
<1>6. Waiting(r)
  BY <1>2, <1>5, WaitingFacts, Zenon
<1>7. ended' \subseteq Recvs
  BY <1>1, ListInvHas
<1>8. ListInv'
  BY <1>1, <1>5, <1>7, ListInvHas, ListInvIs, Zenon
<1> QED BY <1>5, <1>6, <1>8

\* The lists stay in order.
LEMMA ListStep == ASSUME ListInv, [Next]_vars PROVE ListInv'
<1>1. CASE UNCHANGED vars
  BY <1>1, ListInvHas, ListInvIs, Zenon DEF vars
<1>2. CASE \E s \in Sources : InsertAv(s)
  <2>1. PICK s \in Sources : InsertAv(s)
    BY <1>2
  <2>2. av' \subseteq Sources /\ InAv \subseteq av'
    BY <2>1, ListInvHas DEF InsertAv
  <2> QED BY <2>1, <2>2, ListInvHas, ListInvIs, Zenon DEF InsertAv
<1>3. CASE \E s \in Sources : ArriveMatched(s) \/ ArriveUnexpected(s)
  BY <1>3, StepArriveMatched, StepArriveUnexpected, Zenon
<1>4. CASE \E r \in Recvs : PostWaits(r) \/ PostMatched(r) \/ Cancel(r)
  BY <1>4, StepPostWaits, StepPostMatched, StepCancel, Zenon
<1> QED BY <1>1, <1>2, <1>3, <1>4, Zenon DEF Next

(***************************************************************************)
(* Where messages and receives are                                         *)
(***************************************************************************)

\* What a receive holds has arrived, was wanted and is nowhere else; what has arrived and
\* what was posted is somewhere.
Placed ==
  /\ \A r \in Recvs : match[r] # NoMsg =>
       /\ r \in Elems(postSeq) /\ r \notin ended /\ Wanted(r, match[r])
       /\ match[r] \in Elems(arrSeq) /\ match[r] \notin dropped /\ ~Buffered(match[r])
  /\ \A r, q \in Recvs : match[r] # NoMsg /\ match[r] = match[q] => r = q
  /\ \A r \in Recvs : Waiting(r) => match[r] = NoMsg /\ r \notin ended
  /\ \A r \in Recvs : r \in Elems(postSeq) => Waiting(r) \/ r \in ended \/ match[r] # NoMsg
  /\ ended \subseteq Elems(postSeq) /\ dropped \subseteq Elems(arrSeq)
  /\ \A m \in Msgs : Buffered(m) => m \notin dropped
  /\ \A m \in Msgs : m \in Elems(arrSeq) =>
       Buffered(m) \/ m \in dropped \/ \E r \in Recvs : match[r] = m

\* Only receives that were posted wait, only messages that arrived are buffered.
LEMMA WaitingPosted ==
  ASSUME ListInv
  PROVE  /\ \A r \in Recvs : Waiting(r) => r \in Elems(postSeq)
         /\ \A m \in Msgs : Buffered(m) => m \in Elems(arrSeq)
<1>1. \A x \in Msgs \cup Recvs : List[x] \in Lists
  BY MatchAssumption DEF MatchAssumption
<1>2. \A r \in Recvs : Waiting(r) => r \in Elems(postSeq)
  BY <1>1, WaitingFacts, Zenon DEF Waiting
<1>3. ASSUME NEW m \in Msgs, Buffered(m) PROVE m \in Elems(arrSeq)
  <2>1. PICK u \in Elems(unexp[List[m]]) : u.m = m
    BY <1>3, Zenon DEF Buffered
  <2>2. List[m] \in Lists
    BY <1>1
  <2> QED BY <2>1, <2>2, WaitingFacts, Zenon
<1> QED BY <1>2, <1>3

\* One element of match changes.
LEMMA MatchStep ==
  ASSUME ListInv, NEW q \in Recvs, NEW x, match' = [match EXCEPT ![q] = x]
  PROVE  match'[q] = x /\ \A r \in Recvs : r # q => match'[r] = match[r]
BY ListInvHas

\* A message that arrives gets one place.
LEMMA PlacedArrive ==
  ASSUME ListInv, Placed, NEW s \in Sources, ArriveMatched(s) \/ ArriveUnexpected(s)
  PROVE  Placed'
<1> DEFINE m == NewMsg(s)
<1>0. Arrival(s) /\ ended' = ended /\ postSeq' = postSeq
  BY Zenon DEF ArriveMatched, ArriveUnexpected
<1>1. m \in Msgs /\ m \notin Elems(arrSeq) /\ Elems(arrSeq') = Elems(arrSeq) \cup {m} /\ m # NoMsg
  BY <1>0, ArrivalFacts, MatchAssumption DEF MatchAssumption
<1>2. \A x : x \in Elems(arrSeq') <=> x \in Elems(arrSeq) \/ x = m
  BY <1>1
<1>3. ~Buffered(m) /\ m \notin dropped /\ \A r \in Recvs : match[r] # m
  BY <1>1, WaitingPosted, Zenon DEF Placed
<1>4. CASE ArriveMatched(s)
  <2>1. PICK q \in Recvs :
          /\ Waiting(q) /\ Wanted(q, m) /\ match' = [match EXCEPT ![q] = m]
          /\ \A r \in Recvs : Waiting(r)' <=> Waiting(r) /\ r # q
    BY <1>4, StepArriveMatched, Zenon
  <2>2. match'[q] = m /\ \A r \in Recvs : r # q => match'[r] = match[r]
    BY <2>1, MatchStep, Zenon
  <2>3. dropped' = dropped /\ \A x \in Msgs : Buffered(x)' <=> Buffered(x)
    BY <1>4, SameLists, Zenon DEF ArriveMatched
  <2>4. q \in Elems(postSeq) /\ match[q] = NoMsg /\ q \notin ended
    BY <2>1, WaitingPosted, Zenon DEF Placed
  <2>m. \A r \in Recvs : match[r] # NoMsg => match[r] \in Msgs
    BY ListInvHas
  <2> HIDE DEF m
  <2>5. ASSUME NEW r \in Recvs, match'[r] # NoMsg
        PROVE  /\ r \in Elems(postSeq') /\ r \notin ended' /\ Wanted(r, match'[r])
               /\ match'[r] \in Elems(arrSeq') /\ match'[r] \notin dropped' /\ ~Buffered(match[r])'
    <3>1. CASE r = q
      <4>1. ~Buffered(match[r])'
        BY <1>1, <1>3, <2>2, <2>3, <3>1, Zenon
      <4>2. match'[r] = m /\ r \in Elems(postSeq') /\ r \notin ended' /\ m \notin dropped'
        BY <1>0, <1>3, <2>2, <2>3, <2>4, <3>1
      <4>3. m \in Elems(arrSeq') /\ Wanted(r, m)
        BY <1>2, <2>1, <3>1
      <4> QED BY <4>1, <4>2, <4>3
    <3>2. CASE r # q
      BY <1>0, <1>2, <2>2, <2>3, <2>5, <2>m, <3>2, Zenon DEF Placed
    <3> QED BY <3>1, <3>2
  <2>6. ASSUME NEW r \in Recvs, NEW p \in Recvs, match'[r] # NoMsg, match'[r] = match'[p]
        PROVE  r = p
    <3>1. CASE r = q \/ p = q
      BY <1>3, <2>2, <2>6, <3>1, Zenon
    <3>2. CASE r # q /\ p # q
      BY <2>2, <2>6, <3>2, Zenon DEF Placed
    <3> QED BY <3>1, <3>2
  <2>7. ASSUME NEW r \in Recvs, Waiting(r)' PROVE match'[r] = NoMsg /\ r \notin ended'
    BY <1>0, <2>1, <2>2, <2>7, Zenon DEF Placed
  <2>8. ASSUME NEW r \in Recvs, r \in Elems(postSeq')
        PROVE  Waiting(r)' \/ r \in ended' \/ match'[r] # NoMsg
    BY <1>0, <1>1, <2>1, <2>2, <2>8, Zenon DEF Placed
  <2>9. ended' \subseteq Elems(postSeq') /\ dropped' \subseteq Elems(arrSeq')
    BY <1>0, <1>2, <2>3, Zenon DEF Placed
  <2>10. \A x \in Msgs : Buffered(x)' => x \notin dropped'
    BY <2>3, Zenon DEF Placed
  <2>11. ASSUME NEW x \in Msgs, x \in Elems(arrSeq')
         PROVE  Buffered(x)' \/ x \in dropped' \/ \E r \in Recvs : match'[r] = x
    <3>1. CASE x = m
      BY <2>2, <3>1, Zenon
    <3>2. CASE x \in Elems(arrSeq) /\ ~(Buffered(x) \/ x \in dropped)
      <4>1. PICK r \in Recvs : match[r] = x
        BY <3>2, Zenon DEF Placed
      <4>2. r # q
        BY <2>4, <4>1, MatchAssumption DEF MatchAssumption
      <4> QED BY <2>2, <4>1, <4>2, Zenon
    <3> QED BY <1>2, <2>3, <2>11, <3>1, <3>2, Zenon
  <2> QED BY <2>5, <2>6, <2>7, <2>8, <2>9, <2>10, <2>11, Zenon DEF Placed
<1>5. CASE ArriveUnexpected(s)
  <2>1. \/ /\ dropped' = dropped
           /\ \A x \in Msgs : Buffered(x)' <=> Buffered(x) \/ x = m
        \/ /\ dropped' = dropped \cup {m}
           /\ \A x \in Msgs : Buffered(x)' <=> Buffered(x)
    BY <1>5, StepArriveUnexpected, Zenon
  <2>2. match' = match /\ \A r \in Recvs : Waiting(r)' <=> Waiting(r)
    BY <1>5, SameLists, Zenon DEF ArriveUnexpected
  <2>m. \A r \in Recvs : match[r] # NoMsg => match[r] \in Msgs
    BY ListInvHas
  <2>3. /\ \A x : x \in dropped => x \in dropped'
        /\ \A x : x \in dropped' => x \in dropped \/ x = m
        /\ \A x \in Msgs : Buffered(x) => Buffered(x)'
        /\ \A x \in Msgs : Buffered(x)' => Buffered(x) \/ x = m
        /\ \A x \in Msgs : x = m => (Buffered(x)' <=> x \notin dropped')
    <3>1. CASE dropped' = dropped /\ \A x \in Msgs : Buffered(x)' <=> Buffered(x) \/ x = m
      BY <1>1, <1>3, <3>1, Zenon
    <3>2. CASE dropped' = dropped \cup {m} /\ \A x \in Msgs : Buffered(x)' <=> Buffered(x)
      BY <1>1, <1>3, <3>2, Zenon
    <3> QED BY <2>1, <3>1, <3>2
  <2> HIDE DEF m
  <2>5. ASSUME NEW r \in Recvs, match[r] # NoMsg
        PROVE  /\ r \in Elems(postSeq') /\ r \notin ended' /\ Wanted(r, match[r])
               /\ match[r] \in Elems(arrSeq') /\ match[r] \notin dropped' /\ ~Buffered(match[r])'
    <3>1. match[r] # m /\ match[r] \in Msgs /\ match'[r] = match[r]
      BY <1>3, <2>2, <2>5, <2>m, Zenon
    <3>2. ~Buffered(match[r])'
      BY <2>2, <2>3, <2>5, <3>1, Zenon DEF Placed
    <3> QED BY <1>0, <1>2, <2>3, <2>5, <3>1, <3>2, Zenon DEF Placed
  <2>6. \A r \in Recvs : Waiting(r)' => match[r] = NoMsg /\ r \notin ended'
    BY <1>0, <2>2, Zenon DEF Placed
  <2>7. \A r \in Recvs : r \in Elems(postSeq') => Waiting(r)' \/ r \in ended' \/ match[r] # NoMsg
    BY <1>0, <2>2, Zenon DEF Placed
  <2>8. ended' \subseteq Elems(postSeq') /\ dropped' \subseteq Elems(arrSeq')
    BY <1>0, <1>2, <2>3, Zenon DEF Placed
  <2>9. ASSUME NEW x \in Msgs, Buffered(x)', x \in dropped' PROVE FALSE
    <3>1. CASE x = m
      BY <2>3, <2>9, <3>1, Zenon
    <3>2. CASE x # m
      BY <2>3, <2>9, <3>2, Zenon DEF Placed
    <3> QED BY <3>1, <3>2
  <2>10. ASSUME NEW x \in Msgs, x \in Elems(arrSeq')
         PROVE  Buffered(x)' \/ x \in dropped' \/ \E r \in Recvs : match[r] = x
    <3>1. CASE x = m
      BY <2>3, <3>1, Zenon
    <3>2. CASE x \in Elems(arrSeq)
      BY <2>3, <3>2, Zenon DEF Placed
    <3> QED BY <1>2, <2>10, <3>1, <3>2
  <2>11. \A r, q \in Recvs : match[r] # NoMsg /\ match[r] = match[q] => r = q
    BY Zenon DEF Placed
  <2> QED BY <2>2, <2>5, <2>6, <2>7, <2>8, <2>9, <2>10, <2>11, Zenon DEF Placed
<1> QED BY <1>4, <1>5

\* A receive that is posted gets one place.
LEMMA PlacedPost ==
  ASSUME ListInv, Placed, NEW r \in Recvs, PostWaits(r) \/ PostMatched(r)
  PROVE  Placed'
<1>0. Posting(r) /\ ended' = ended /\ dropped' = dropped /\ arrSeq' = arrSeq
  BY Zenon DEF PostWaits, PostMatched
<1>1. r \notin Elems(postSeq) /\ Elems(postSeq') = Elems(postSeq) \cup {r}
  BY <1>0, PostingFacts, Zenon
<1>2. \A x : x \in Elems(postSeq') <=> x \in Elems(postSeq) \/ x = r
  BY <1>1
<1>3. ~Waiting(r) /\ r \notin ended /\ match[r] = NoMsg
  BY <1>1, WaitingPosted, Zenon DEF Placed
<1>4. ended' \subseteq Elems(postSeq') /\ dropped' \subseteq Elems(arrSeq')
  BY <1>0, <1>2, Zenon DEF Placed
<1>m. \A q \in Recvs : match[q] # NoMsg => match[q] \in Msgs
  BY ListInvHas
<1>5. CASE PostWaits(r)
  <2>1. \A q \in Recvs : Waiting(q)' <=> Waiting(q) \/ q = r
    BY <1>5, StepPostWaits, Zenon
  <2>2. match' = match /\ \A x \in Msgs : Buffered(x)' <=> Buffered(x)
    BY <1>5, SameLists, Zenon DEF PostWaits
  <2>3. ASSUME NEW q \in Recvs, match[q] # NoMsg
        PROVE  /\ q \in Elems(postSeq') /\ q \notin ended' /\ Wanted(q, match[q])
               /\ match[q] \in Elems(arrSeq') /\ match[q] \notin dropped' /\ ~Buffered(match[q])'
    <3>1. ~Buffered(match[q])'
      BY <1>m, <2>2, <2>3, Zenon DEF Placed
    <3> QED BY <1>0, <1>2, <2>3, <3>1, Zenon DEF Placed
  <2>4. ASSUME NEW q \in Recvs, Waiting(q)' PROVE match[q] = NoMsg /\ q \notin ended'
    BY <1>0, <1>3, <2>1, <2>4, Zenon DEF Placed
  <2>5. ASSUME NEW q \in Recvs, q \in Elems(postSeq')
        PROVE  Waiting(q)' \/ q \in ended' \/ match[q] # NoMsg
    BY <1>0, <1>2, <2>1, <2>5, Zenon DEF Placed
  <2>6. \A x \in Msgs : Buffered(x)' => x \notin dropped'
    BY <1>0, <2>2, Zenon DEF Placed
  <2>7. ASSUME NEW x \in Msgs, x \in Elems(arrSeq')
        PROVE  Buffered(x)' \/ x \in dropped' \/ \E q \in Recvs : match[q] = x
    BY <1>0, <2>2, <2>7, Zenon DEF Placed
  <2>8. \A p, q \in Recvs : match[p] # NoMsg /\ match[p] = match[q] => p = q
    BY Zenon DEF Placed
  <2> QED BY <1>4, <2>2, <2>3, <2>4, <2>5, <2>6, <2>7, <2>8, Zenon DEF Placed
<1>6. CASE PostMatched(r)
  <2>1. PICK x \in Msgs : /\ Buffered(x) /\ Wanted(r, x) /\ match' = [match EXCEPT ![r] = x]
                          /\ \A m \in Msgs : Buffered(m)' <=> Buffered(m) /\ m # x
    BY <1>6, StepPostMatched, Zenon
  <2>2. match'[r] = x /\ \A q \in Recvs : q # r => match'[q] = match[q]
    BY <2>1, MatchStep, Zenon
  <2>3. \A q \in Recvs : Waiting(q)' <=> Waiting(q)
    BY <1>6, SameLists, Zenon DEF PostMatched
  <2>4. /\ x \in Elems(arrSeq) /\ x \notin dropped /\ x # NoMsg
        /\ \A q \in Recvs : match[q] # x
    <3>1. x # NoMsg
      BY MatchAssumption DEF MatchAssumption
    <3> QED BY <2>1, <3>1, WaitingPosted, Zenon DEF Placed
  <2>5. ASSUME NEW q \in Recvs, match'[q] # NoMsg
        PROVE  /\ q \in Elems(postSeq') /\ q \notin ended' /\ Wanted(q, match'[q])
               /\ match'[q] \in Elems(arrSeq') /\ match'[q] \notin dropped' /\ ~Buffered(match[q])'
    <3>1. CASE q = r
      <4>1. ~Buffered(match[q])'
        BY <2>1, <2>2, <3>1, Zenon
      <4>2. match'[q] = x
        BY <2>2, <3>1
      <4> QED BY <1>0, <1>2, <1>3, <2>1, <2>4, <3>1, <4>1, <4>2
    <3>2. CASE q # r
      <4>1. match'[q] = match[q] /\ match[q] # NoMsg /\ match[q] \in Msgs
        BY <1>m, <2>2, <2>5, <3>2, Zenon
      <4>2. ~Buffered(match[q])'
        BY <2>1, <4>1, Zenon DEF Placed
      <4> QED BY <1>0, <1>2, <4>1, <4>2, Zenon DEF Placed
    <3> QED BY <3>1, <3>2
  <2>6. ASSUME NEW p \in Recvs, NEW q \in Recvs, match'[p] # NoMsg, match'[p] = match'[q]
        PROVE  p = q
    <3>1. CASE p = r \/ q = r
      BY <2>2, <2>4, <2>6, <3>1, Zenon
    <3>2. CASE p # r /\ q # r
      BY <2>2, <2>6, <3>2, Zenon DEF Placed
    <3> QED BY <3>1, <3>2
  <2>7. ASSUME NEW q \in Recvs, Waiting(q)' PROVE match'[q] = NoMsg /\ q \notin ended'
    BY <1>0, <1>3, <2>2, <2>3, <2>7, Zenon DEF Placed
  <2>8. ASSUME NEW q \in Recvs, q \in Elems(postSeq')
        PROVE  Waiting(q)' \/ q \in ended' \/ match'[q] # NoMsg
    BY <1>0, <1>2, <2>2, <2>3, <2>4, <2>8, Zenon DEF Placed
  <2>9. \A y \in Msgs : Buffered(y)' => y \notin dropped'
    BY <1>0, <2>1, Zenon DEF Placed
  <2>10. ASSUME NEW y \in Msgs, y \in Elems(arrSeq')
         PROVE  Buffered(y)' \/ y \in dropped' \/ \E q \in Recvs : match'[q] = y
    <3>1. CASE y = x
      BY <2>2, <3>1, Zenon
    <3>2. CASE y # x /\ (Buffered(y) \/ y \in dropped)
      BY <1>0, <2>1, <3>2, Zenon
    <3>3. CASE \E q \in Recvs : match[q] = y
      <4>1. PICK q \in Recvs : match[q] = y
        BY <3>3
      <4>2. q # r
        BY <1>3, <4>1, MatchAssumption DEF MatchAssumption
      <4> QED BY <2>2, <4>1, <4>2, Zenon
    <3> QED BY <1>0, <2>10, <3>1, <3>2, <3>3, Zenon DEF Placed
  <2> QED BY <1>4, <2>5, <2>6, <2>7, <2>8, <2>9, <2>10, Zenon DEF Placed
<1> QED BY <1>5, <1>6

\* Nothing gets lost, doubled or given to a receive that did not want it.
LEMMA PlacedStep == ASSUME ListInv, Placed, [Next]_vars PROVE Placed'
<1>1. CASE UNCHANGED vars \/ \E s \in Sources : InsertAv(s)
  <2>1. UNCHANGED <<posted, unexp, match, ended, dropped, postSeq, arrSeq>>
    BY <1>1, Zenon DEF vars, InsertAv
  <2> QED BY <2>1, Zenon DEF Placed, Waiting, Buffered
<1>2. CASE \E s \in Sources : ArriveMatched(s) \/ ArriveUnexpected(s)
  BY <1>2, PlacedArrive, Zenon
<1>3. CASE \E r \in Recvs : PostWaits(r) \/ PostMatched(r)
  BY <1>3, PlacedPost, Zenon
<1>4. CASE \E r \in Recvs : Cancel(r)
  <2>1. PICK r \in Recvs : Cancel(r)
    BY <1>4
  <2>2. Waiting(r) /\ \A q \in Recvs : Waiting(q)' <=> Waiting(q) /\ q # r
    BY <2>1, StepCancel, Zenon
  <2>3. /\ ended' = ended \cup {r} /\ match' = match /\ dropped' = dropped
        /\ postSeq' = postSeq /\ arrSeq' = arrSeq /\ unexp' = unexp
    BY <2>1, Zenon DEF Cancel
  <2>4. r \in Elems(postSeq) /\ match[r] = NoMsg
    BY <2>2, WaitingPosted, Zenon DEF Placed
  <2>5. \A x : x \in ended' <=> x \in ended \/ x = r
    BY <2>3
  <2>6. ASSUME NEW q \in Recvs, match[q] # NoMsg
        PROVE  /\ q \in Elems(postSeq') /\ q \notin ended' /\ Wanted(q, match[q])
               /\ match[q] \in Elems(arrSeq') /\ match[q] \notin dropped' /\ ~Buffered(match[q])'
    <3>1. q \notin ended'
      BY <2>4, <2>5, <2>6, Zenon DEF Placed
    <3>2. ~Buffered(match[q])'
      BY <2>3, <2>6, Zenon DEF Placed, Buffered
    <3> QED BY <2>3, <2>6, <3>1, <3>2, Zenon DEF Placed
  <2>7. ASSUME NEW q \in Recvs, Waiting(q)' PROVE match[q] = NoMsg /\ q \notin ended'
    BY <2>2, <2>5, <2>7, Zenon DEF Placed
  <2>8. ASSUME NEW q \in Recvs, q \in Elems(postSeq')
        PROVE  Waiting(q)' \/ q \in ended' \/ match[q] # NoMsg
    BY <2>2, <2>3, <2>5, <2>8, Zenon DEF Placed
  <2>9. ended' \subseteq Elems(postSeq') /\ dropped' \subseteq Elems(arrSeq')
    BY <2>3, <2>4, <2>5, Zenon DEF Placed
  <2>10. /\ \A x \in Msgs : Buffered(x)' => x \notin dropped'
         /\ \A x \in Msgs : x \in Elems(arrSeq') =>
              Buffered(x)' \/ x \in dropped' \/ \E q \in Recvs : match[q] = x
    BY <2>3, Zenon DEF Placed, Buffered
  <2>11. \A p, q \in Recvs : match[p] # NoMsg /\ match[p] = match[q] => p = q
    BY Zenon DEF Placed
  <2> QED BY <2>3, <2>6, <2>7, <2>8, <2>9, <2>10, <2>11, Zenon DEF Placed
<1> QED BY <1>1, <1>2, <1>3, <1>4, Zenon DEF Next

(***************************************************************************)
(* Order                                                                   *)
(***************************************************************************)

\* NoOvertaking, also between messages of different sources.
InTurn ==
  \A r \in Recvs, x \in Msgs :
    match[r] # NoMsg /\ Buffered(x) /\ Wanted(r, x) => ~Precedes(arrSeq, x, match[r])

\* Both searches come before joining the other list.
LEMMA MissedStep ==
  ASSUME KnownSources, ListInv, NoMissedMatch, [Next]_vars
  PROVE  NoMissedMatch'
<1> SUFFICES ASSUME NEW r \in Recvs, NEW m \in Msgs, Waiting(r)', Buffered(m)', Wanted(r, m)
             PROVE  FALSE
  BY Zenon DEF NoMissedMatch, Wanted
<1>0. ~(Waiting(r) /\ Buffered(m))
  BY Zenon DEF NoMissedMatch
<1>1. CASE UNCHANGED vars \/ \E s \in Sources : InsertAv(s)
  <2>1. posted' = posted /\ unexp' = unexp
    BY <1>1, Zenon DEF vars, InsertAv
  <2> QED BY <1>0, <2>1, SameLists, Zenon
<1>2. CASE \E s \in Sources : ArriveMatched(s)
  <2>1. unexp' = unexp
    BY <1>2, Zenon DEF ArriveMatched
  <2>2. Waiting(r)' => Waiting(r)
    BY <1>2, StepArriveMatched, Zenon
  <2> QED BY <1>0, <2>1, <2>2, SameLists, Zenon
<1>3. CASE \E s \in Sources : ArriveUnexpected(s)
  <2>1. PICK s \in Sources : ArriveUnexpected(s)
    BY <1>3
  <2>2. posted' = posted
    BY <2>1, Zenon DEF ArriveUnexpected
  <2>3. Waiting(r)
    BY <2>2, SameLists, Zenon
  <2>4. Buffered(m) \/ m = NewMsg(s)
    BY <2>1, StepArriveUnexpected, Zenon
  <2>5. m # NewMsg(s)
    BY <2>1, <2>3, StepArriveUnexpected, Zenon
  <2> QED BY <1>0, <2>3, <2>4, <2>5
<1>4. CASE \E q \in Recvs : PostWaits(q)
  <2>1. PICK q \in Recvs : PostWaits(q)
    BY <1>4
  <2>2. unexp' = unexp
    BY <2>1, Zenon DEF PostWaits
  <2>3. Buffered(m)
    BY <2>2, SameLists, Zenon
  <2>4. Waiting(r) \/ r = q
    BY <2>1, StepPostWaits, Zenon
  <2>5. r # q
    BY <2>1, <2>3, StepPostWaits, Zenon
  <2> QED BY <1>0, <2>3, <2>4, <2>5
<1>5. CASE \E q \in Recvs : PostMatched(q)
  <2>1. posted' = posted
    BY <1>5, Zenon DEF PostMatched
  <2>2. Buffered(m)' => Buffered(m)
    BY <1>5, StepPostMatched, Zenon
  <2> QED BY <1>0, <2>1, <2>2, SameLists, Zenon
<1>6. CASE \E q \in Recvs : Cancel(q)
  <2>1. unexp' = unexp
    BY <1>6, Zenon DEF Cancel
  <2>2. Waiting(r)' => Waiting(r)
    BY <1>6, StepCancel, Zenon
  <2> QED BY <1>0, <2>1, <2>2, SameLists, Zenon
<1> QED BY <1>1, <1>2, <1>3, <1>4, <1>5, <1>6, Zenon DEF Next

\* A receive takes the oldest message it wants.
LEMMA InTurnStep ==
  ASSUME KnownSources, ListInv, Placed, NoMissedMatch, InTurn, [Next]_vars
  PROVE  InTurn'
<1> SUFFICES ASSUME NEW r \in Recvs, NEW x \in Msgs, match'[r] # NoMsg, Buffered(x)', Wanted(r, x),
                    Precedes(arrSeq', x, match'[r])
             PROVE  FALSE
  BY Zenon DEF InTurn, Wanted
<1>0. match[r] # NoMsg /\ Buffered(x) => ~Precedes(arrSeq, x, match[r])
  BY Zenon DEF InTurn
<1>t. arrSeq \in Seq(Msgs) /\ Distinct(arrSeq)
  BY ListInvHas, Zenon
<1>1. CASE UNCHANGED <<unexp, match, arrSeq>>
  BY <1>0, <1>1, SameLists, Zenon
<1>2. ASSUME NEW s \in Sources, ArriveMatched(s) PROVE FALSE
  <2>1. PICK q \in Recvs :
          Waiting(q) /\ Wanted(q, NewMsg(s)) /\ match' = [match EXCEPT ![q] = NewMsg(s)]
    BY <1>2, StepArriveMatched, Zenon
  <2>2. match'[q] = NewMsg(s) /\ \A p \in Recvs : p # q => match'[p] = match[p]
    BY <2>1, MatchStep, Zenon
  <2>3. Arrival(s) /\ unexp' = unexp
    BY <1>2, Zenon DEF ArriveMatched
  <2>4. Buffered(x)
    BY <2>3, SameLists, Zenon
  <2>5. r # q
    BY <2>1, <2>4, Zenon DEF NoMissedMatch
  <2>6. arrSeq' = Append(arrSeq, NewMsg(s)) /\ NewMsg(s) \in Msgs /\ NewMsg(s) \notin Elems(arrSeq)
    BY <1>2, <2>3, ArrivalFacts, Zenon
  <2>7. match[r] # NoMsg /\ match[r] \in Elems(arrSeq) /\ match'[r] = match[r]
    BY <2>2, <2>5, Zenon DEF Placed
  <2>8. Precedes(arrSeq, x, match[r])
    <3>1. match[r] # NewMsg(s) /\ Precedes(Append(arrSeq, NewMsg(s)), x, match[r])
      BY <2>6, <2>7
    <3> QED BY <1>t, <2>6, <3>1, AppendPrecedes, Zenon
  <2> QED BY <1>0, <2>4, <2>7, <2>8
<1>3. ASSUME NEW s \in Sources, ArriveUnexpected(s) PROVE FALSE
  <2>1. Arrival(s) /\ match' = match
    BY <1>3, Zenon DEF ArriveUnexpected
  <2>2. arrSeq' = Append(arrSeq, NewMsg(s)) /\ NewMsg(s) \in Msgs /\ NewMsg(s) \notin Elems(arrSeq)
    BY <2>1, ArrivalFacts, Zenon
  <2>3. match[r] # NoMsg /\ match[r] \in Elems(arrSeq)
    BY <2>1, Zenon DEF Placed
  <2>4. Precedes(arrSeq, x, match[r])
    BY <1>t, <2>1, <2>2, <2>3, AppendPrecedes, Zenon
  <2>5. x # NewMsg(s)
    BY <1>t, <2>2, <2>4, PrecedesFacts, Zenon
  <2>6. Buffered(x)
    BY <1>3, <2>5, StepArriveUnexpected, Zenon
  <2> QED BY <1>0, <2>3, <2>4, <2>6
<1>4. ASSUME NEW q \in Recvs, PostMatched(q) PROVE FALSE
  <2>1. PICK y \in Msgs :
          /\ Buffered(y) /\ match' = [match EXCEPT ![q] = y]
          /\ \A m \in Msgs : Buffered(m)' <=> Buffered(m) /\ m # y
          /\ \A m \in Msgs : Buffered(m) /\ m # y /\ Wanted(q, m) => Precedes(arrSeq, y, m)
    BY <1>4, StepPostMatched, Zenon
  <2>2. match'[q] = y /\ \A p \in Recvs : p # q => match'[p] = match[p]
    BY <2>1, MatchStep, Zenon
  <2>3. arrSeq' = arrSeq
    BY <1>4, Zenon DEF PostMatched
  <2>4. Buffered(x) /\ x # y
    BY <2>1, Zenon
  <2>5. CASE r = q
    <3>1. Precedes(arrSeq, y, x) /\ Precedes(arrSeq, x, y)
      BY <2>1, <2>2, <2>3, <2>4, <2>5, Zenon
    <3> QED BY <1>t, <3>1, PrecedesFacts, Zenon
  <2>6. CASE r # q
    BY <1>0, <2>2, <2>3, <2>4, <2>6, Zenon
  <2> QED BY <2>5, <2>6
<1> QED BY <1>1, <1>2, <1>3, <1>4, Zenon DEF Next, vars, InsertAv, PostWaits, Cancel

\* A message goes to the oldest receive that wants it.
LEMMA OldestStep ==
  ASSUME KnownSources, ListInv, Placed, NoMissedMatch, OldestReceiveFirst, [Next]_vars
  PROVE  OldestReceiveFirst'
<1> SUFFICES ASSUME NEW r \in Recvs, NEW q \in Recvs, Waiting(r)', match'[q] # NoMsg,
                    Wanted(r, match'[q]), Precedes(postSeq', r, q)
             PROVE  FALSE
  BY Zenon DEF OldestReceiveFirst, Wanted
<1>0. Waiting(r) /\ match[q] # NoMsg /\ Wanted(r, match[q]) => ~Precedes(postSeq, r, q)
  BY Zenon DEF OldestReceiveFirst
<1>t. postSeq \in Seq(Recvs) /\ Distinct(postSeq)
  BY ListInvHas, Zenon
<1>1. CASE UNCHANGED <<posted, match, postSeq>>
  BY <1>0, <1>1, SameLists, Zenon
<1>2. ASSUME NEW s \in Sources, ArriveMatched(s) PROVE FALSE
  <2>1. PICK p \in Recvs :
          /\ Waiting(p) /\ match' = [match EXCEPT ![p] = NewMsg(s)]
          /\ \A z \in Recvs : Waiting(z)' <=> Waiting(z) /\ z # p
          /\ \A z \in Recvs : Waiting(z) /\ z # p /\ Wanted(z, NewMsg(s)) => Precedes(postSeq, p, z)
    BY <1>2, StepArriveMatched, Zenon
  <2>2. match'[p] = NewMsg(s) /\ \A z \in Recvs : z # p => match'[z] = match[z]
    BY <2>1, MatchStep, Zenon
  <2>3. postSeq' = postSeq
    BY <1>2, Zenon DEF ArriveMatched
  <2>4. Waiting(r) /\ r # p
    BY <2>1, Zenon
  <2>5. CASE q = p
    <3>1. Precedes(postSeq, p, r) /\ Precedes(postSeq, r, p)
      BY <2>1, <2>2, <2>3, <2>4, <2>5, Zenon
    <3> QED BY <1>t, <3>1, PrecedesFacts, Zenon
  <2>6. CASE q # p
    BY <1>0, <2>2, <2>3, <2>4, <2>6, Zenon
  <2> QED BY <2>5, <2>6
<1>3. ASSUME NEW p \in Recvs, PostWaits(p) PROVE FALSE
  <2>1. Posting(p) /\ match' = match
    BY <1>3, Zenon DEF PostWaits
  <2>2. postSeq' = Append(postSeq, p) /\ p \notin Elems(postSeq)
    BY <2>1, PostingFacts, Zenon
  <2>3. q \in Elems(postSeq)
    BY <2>1, Zenon DEF Placed
  <2>4. Precedes(postSeq, r, q)
    BY <1>t, <2>2, <2>3, AppendPrecedes, Zenon
  <2>5. r # p
    BY <1>t, <2>2, <2>4, PrecedesFacts, Zenon
  <2>6. Waiting(r)
    BY <1>3, <2>5, StepPostWaits, Zenon
  <2> QED BY <1>0, <2>1, <2>4, <2>6, Zenon
<1>4. ASSUME NEW p \in Recvs, PostMatched(p) PROVE FALSE
  <2>1. PICK y \in Msgs : Buffered(y) /\ match' = [match EXCEPT ![p] = y]
    BY <1>4, StepPostMatched, Zenon
  <2>2. match'[p] = y /\ \A z \in Recvs : z # p => match'[z] = match[z]
    BY <2>1, MatchStep, Zenon
  <2>3. Posting(p) /\ posted' = posted
    BY <1>4, Zenon DEF PostMatched
  <2>4. postSeq' = Append(postSeq, p) /\ p \notin Elems(postSeq)
    BY <2>3, PostingFacts, Zenon
  <2>5. Waiting(r)
    BY <2>3, SameLists, Zenon
  <2>6. q # p
    BY <2>1, <2>2, <2>5, Zenon DEF NoMissedMatch
  <2>7. Precedes(postSeq, r, q)
    BY <1>t, <2>4, <2>6, AppendPrecedes, Zenon
  <2> QED BY <1>0, <2>2, <2>5, <2>6, <2>7, Zenon
<1>5. ASSUME NEW p \in Recvs, Cancel(p) PROVE FALSE
  <2>1. match' = match /\ postSeq' = postSeq
    BY <1>5, Zenon DEF Cancel
  <2>2. Waiting(r)
    BY <1>5, StepCancel, Zenon
  <2> QED BY <1>0, <2>1, <2>2, Zenon
<1> QED BY <1>1, <1>2, <1>3, <1>4, <1>5, Zenon DEF Next, vars, InsertAv, ArriveUnexpected

(***************************************************************************)
(* Theorems                                                                *)
(***************************************************************************)

\* The initial lists are empty.
LEMMA PlacedInit == ASSUME Init PROVE Placed /\ NoMissedMatch /\ InTurn /\ OldestReceiveFirst
<1>1. Elems(<<>>) = {}
  BY DEF Elems
<1>2. \A x \in Msgs \cup Recvs : List[x] \in Lists
  BY MatchAssumption DEF MatchAssumption
<1>3. (\A r \in Recvs : ~Waiting(r)) /\ (\A m \in Msgs : ~Buffered(m))
  BY <1>1, <1>2 DEF Init, Waiting, Buffered
<1>4. \A r \in Recvs : match[r] = NoMsg
  BY DEF Init
<1>5. ended = {} /\ dropped = {} /\ Elems(postSeq) = {} /\ Elems(arrSeq) = {}
  BY <1>1 DEF Init
<1> QED BY <1>3, <1>4, <1>5, Zenon DEF Placed, NoMissedMatch, InTurn, OldestReceiveFirst

\* In every reachable state the lists are in order and everything is in its place.
LEMMA PlacedAlways == Spec => [](ListInv /\ Placed)
<1>1. Init => ListInv /\ Placed
  BY ListInit, PlacedInit
<1>2. (ListInv /\ Placed) /\ [Next]_vars => (ListInv /\ Placed)'
  BY ListStep, PlacedStep
<1> QED BY <1>1, <1>2, PTL DEF Spec

\* Every message is in one place: on an unexpected list once, with one receive that asked
\* for it, or dropped for want of memory; every receive waits, holds a message or was
\* cancelled.
THEOREM EverythingInOnePlace == Spec => []OnePlaceEach
<1>1. ASSUME ListInv, Placed PROVE OnePlaceEach
  <2>1. ASSUME NEW m \in Elems(arrSeq)
        PROVE  LET places == {<<"unexp", i>> : i \in {k \in 1 .. Len(unexp[List[m]]) :
                                                        unexp[List[m]][k].m = m}}
                             \cup {<<"held", r>> : r \in {x \in Recvs : match[x] = m}}
                             \cup {<<"dropped", m>> : x \in {m} \cap dropped}
               IN places # {} /\ \A p, q \in places : p = q
    <3> DEFINE l == List[m]
               U == {k \in 1 .. Len(unexp[l]) : unexp[l][k].m = m}
               H == {x \in Recvs : match[x] = m}
               places == {<<"unexp", i>> : i \in U} \cup {<<"held", r>> : r \in H}
                         \cup {<<"dropped", m>> : x \in {m} \cap dropped}
    <3>1. m \in Msgs /\ m # NoMsg
      <4>1. arrSeq \in Seq(Msgs)
        BY <1>1, ListInvHas, Zenon
      <4>2. m \in Msgs
        BY <2>1, <4>1 DEF Elems
      <4> QED BY <4>2, MatchAssumption DEF MatchAssumption
    <3>2. Buffered(m) <=> \E k \in 1 .. Len(unexp[l]) : unexp[l][k].m = m
      BY Zenon DEF Buffered, Elems
    <3>3. \A i, k \in U : i = k
      <4>0. l \in Lists
        BY <3>1, MatchAssumption DEF MatchAssumption
      <4>1. /\ unexp[l] \in Seq(Entry) /\ Sorted(arrSeq, Names(unexp[l]))
            /\ arrSeq \in Seq(Msgs) /\ Distinct(arrSeq)
        BY <1>1, <4>0, ListInvHas, ListTypes, Zenon DEF ListInv, UnexpOK
      <4>2. Names(unexp[l]) \in Seq(Msgs)
        BY <4>1, NamesFacts, Zenon
      <4>3. Distinct(Names(unexp[l]))
        BY <4>1, <4>2, SortedDistinct, Zenon
      <4>4. /\ Len(Names(unexp[l])) = Len(unexp[l])
            /\ \A i \in 1 .. Len(unexp[l]) : Names(unexp[l])[i] = unexp[l][i].m
        BY <4>1, NamesFacts, Zenon
      <4> QED BY <4>3, <4>4, Zenon DEF Distinct
    <3>4. /\ Buffered(m) => m \notin dropped /\ \A r \in Recvs : match[r] # m
          /\ \A r \in Recvs : match[r] = m =>
               m \notin dropped /\ \A q \in Recvs : match[q] = m => q = r
          /\ Buffered(m) \/ m \in dropped \/ \E r \in Recvs : match[r] = m
      BY <1>1, <2>1, <3>1, Zenon DEF Placed
    <3>5. /\ U # {} <=> Buffered(m)
          /\ \A r : r \in H <=> r \in Recvs /\ match[r] = m
      BY <3>2, Zenon
    <3> HIDE DEF U, H
    <3>6. places # {}
      <4>1. CASE U # {}
        BY <4>1, Zenon
      <4>2. CASE m \in dropped
        <5>1. m \in {m} \cap dropped
          BY <4>2
        <5> QED BY <5>1, Zenon
      <4>3. CASE \E r \in Recvs : match[r] = m
        BY <3>5, <4>3, Zenon
      <4> QED BY <3>4, <3>5, <4>1, <4>2, <4>3
    <3>7. \A p, q \in places : p = q
      BY <3>3, <3>4, <3>5
    <3> QED BY <3>6, <3>7 DEF U, H
  <2>2. Elems(postSeq) \subseteq Recvs
    <3>1. postSeq \in Seq(Recvs)
      BY <1>1, ListInvHas, Zenon
    <3> QED BY <3>1 DEF Elems
  <2>3. ASSUME NEW r \in Elems(postSeq)
        PROVE  /\ Waiting(r) => match[r] = NoMsg /\ r \notin ended
               /\ r \in ended => match[r] = NoMsg
               /\ Waiting(r) \/ r \in ended \/ match[r] # NoMsg
               /\ match[r] # NoMsg => Wanted(r, match[r])
    BY <1>1, <2>2, Zenon DEF Placed
  <2> QED BY <2>1, <2>3, Zenon DEF OnePlaceEach
<1> QED BY <1>1, PlacedAlways, PTL

\* The lists, receives and messages of the matching keep their types, and tagged and
\* untagged traffic keep apart.
THEOREM MatchStaysTyped == Spec => []TypeOK
<1>1. ListInv => TypeOK
  BY DEF ListInv
<1> QED BY <1>1, PlacedAlways, PTL

\* Messages are matched in order, receives are used in order, and no receive waits for a
\* message that waits for it, when directed receives name sources that were in the address
\* vector from the start.
LEMMA OrderAlways ==
  ASSUME KnownSources
  PROVE  Spec => [](NoOvertaking /\ OldestReceiveFirst /\ NoMissedMatch)
<1> DEFINE J == NoMissedMatch /\ InTurn /\ OldestReceiveFirst
<1>1. Init => J
  BY PlacedInit
<1>2. ListInv /\ Placed /\ J /\ [Next]_vars => J'
  BY MissedStep, InTurnStep, OldestStep
<1>3. J => NoOvertaking /\ OldestReceiveFirst /\ NoMissedMatch
  BY Zenon DEF InTurn, NoOvertaking
<1> QED BY <1>1, <1>2, <1>3, PlacedAlways, PTL DEF Spec

\* Messages of one source that a receive asked for are matched in the order they arrived,
\* when directed receives name sources that were in the address vector from the start.
THEOREM MatchedInOrder == ASSUME KnownSources PROVE Spec => []NoOvertaking
BY OrderAlways, PTL

\* Under the same condition the oldest of the receives that fit a message gets it.
THEOREM OldestReceiveUsed == ASSUME KnownSources PROVE Spec => []OldestReceiveFirst
BY OrderAlways, PTL

\* Under the same condition no posted receive waits for a message that waits for it.
THEOREM MatchNeverMissed == ASSUME KnownSources PROVE Spec => []NoMissedMatch
BY OrderAlways, PTL
=============================================================================
