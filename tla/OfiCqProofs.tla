---------------------------- MODULE OfiCqProofs ------------------------------
(***************************************************************************)
(* OfiCq for a ring of any size: the asserts of the code hold and the ring *)
(* with its overflow list implements OfiCompletions.                       *)
(*                                                                         *)
(* The invariant is a relation between the ring, the overflow list and the *)
(* range of numbers still to be read: every number of the range stands in  *)
(* one place, in a slot or in the list, and places are in the order of the *)
(* numbers, where several list entries may share a slot.                   *)
(***************************************************************************)
EXTENDS OfiCq, TLAPS

\* Leaves go to SMT unless they name another prover.
USE SMTT(60)

Entry == [n : Nat, place : Nat]
SlotType == [flags : {"normal", "aux"}, n : Nat]

\* Types and bounds of ring b from r to w, list a, numbers g .. n - 1 and errors e.
Shape(b, r, w, a, g, n, e) ==
  /\ b \in [0 .. Size - 1 -> SlotType] /\ a \in Seq(Entry)
  /\ r \in Nat /\ w \in Nat /\ g \in Nat /\ n \in Nat /\ e \in SUBSET Nat
  /\ r <= w /\ w <= r + Size /\ g <= n
  /\ \A m \in e : m < n

\* The slots in use: ordinary ones hold numbers of the range in order, none an error, and
\* a full ring ends in a place holder.
Slots(b, r, w, g, n, e) ==
  /\ \A p \in r .. w - 1 : b[Idx(p)].flags = "normal" =>
       g <= b[Idx(p)].n /\ b[Idx(p)].n < n /\ b[Idx(p)].n \notin e
  /\ \A p \in r .. w - 1 : \A q \in r .. w - 1 :
       p < q /\ b[Idx(p)].flags = "normal" /\ b[Idx(q)].flags = "normal"
         => b[Idx(p)].n < b[Idx(q)].n
  /\ w = r + Size => b[Idx(w - 1)].flags = "aux"

\* The overflow list: numbers of the range in order, at place holders in order.
List(b, r, w, a, g, n) ==
  /\ \A i \in 1 .. Len(a) : /\ a[i].place \in r .. w - 1 /\ b[Idx(a[i].place)].flags = "aux"
                            /\ g <= a[i].n /\ a[i].n < n
  /\ \A i \in 1 .. Len(a) : \A j \in 1 .. Len(a) :
       i < j => a[i].n < a[j].n /\ a[i].place <= a[j].place
  /\ \A p \in r .. w - 1 : b[Idx(p)].flags = "aux" =>
       \E i \in 1 .. Len(a) : a[i].place = p

\* Slots and list together: one order, and nothing of the range is missing.
Merged(b, r, w, a, g, n) ==
  /\ \A p \in r .. w - 1 : \A i \in 1 .. Len(a) :
       b[Idx(p)].flags = "normal" =>
         /\ p < a[i].place => b[Idx(p)].n < a[i].n
         /\ a[i].place < p => a[i].n < b[Idx(p)].n
  /\ \A m \in g .. n - 1 :
       \/ \E p \in r .. w - 1 : b[Idx(p)].flags = "normal" /\ b[Idx(p)].n = m
       \/ \E i \in 1 .. Len(a) : a[i].n = m

Layout(b, r, w, a, g, n, e) ==
  /\ Shape(b, r, w, a, g, n, e) /\ Slots(b, r, w, g, n, e)
  /\ List(b, r, w, a, g, n) /\ Merged(b, r, w, a, g, n)

(***************************************************************************)
(* Slot indices                                                            *)
(***************************************************************************)

\* A place is a lap and a slot.
LEMMA IdxSplit ==
  ASSUME NEW p \in Nat
  PROVE  /\ p \div Size \in Nat /\ Idx(p) \in 0 .. Size - 1
         /\ p = Size * (p \div Size) + Idx(p)
BY CqAssumption, Z3 DEF Idx, CqAssumption

\* Two places fewer than a ring apart are different slots.
LEMMA IdxApart ==
  ASSUME NEW p \in Nat, NEW q \in Nat, p < q, q - p < Size
  PROVE  Idx(p) # Idx(q)
<1> SUFFICES ASSUME Idx(p) = Idx(q) PROVE FALSE
  OBVIOUS
<1> DEFINE x == p \div Size  y == q \div Size
<1>1. Size \in Nat \ {0}
  BY CqAssumption DEF CqAssumption
<1>2. x \in Nat /\ Idx(p) \in 0 .. Size - 1 /\ p = Size * x + Idx(p)
  BY IdxSplit
<1>3. y \in Nat /\ q = Size * y + Idx(q)
  BY IdxSplit
<1> HIDE DEF x, y
<1>4. q - p = Size * (y - x) /\ y - x \in Int
  BY <1>1, <1>2, <1>3
<1>5. CASE y - x <= 0
  BY <1>1, <1>4, <1>5
<1>6. CASE y - x > 0
  BY <1>1, <1>4, <1>6
<1> QED BY <1>4, <1>5, <1>6

\* What the proofs use of indices.
LEMMA IdxFacts ==
  /\ Size \in Nat \ {0}
  /\ \A p \in Nat : Idx(p) \in 0 .. Size - 1
  /\ \A p \in Nat, q \in Nat : p < q /\ q - p < Size => Idx(p) # Idx(q)
BY CqAssumption, IdxSplit, IdxApart DEF CqAssumption

(***************************************************************************)
(* The head of the queue is the first number not read                      *)
(***************************************************************************)

\* At the head of a ring without a place holder is the oldest completion, and no error.
LEMMA HeadNormal ==
  ASSUME NEW b, NEW r, NEW w, NEW a, NEW g, NEW n, NEW e, Layout(b, r, w, a, g, n, e),
         r < w, b[Idx(r)].flags = "normal"
  PROVE  b[Idx(r)].n = g /\ g < n /\ g \notin e
<1>1. r \in r .. w - 1 /\ b[Idx(r)].n \in Nat /\ g \in Nat /\ n \in Nat
  BY IdxFacts DEF Layout, Shape, SlotType
<1>2. g <= b[Idx(r)].n /\ b[Idx(r)].n < n /\ b[Idx(r)].n \notin e
  BY <1>1 DEF Layout, Slots
<1>3. g \in g .. n - 1
  BY <1>1, <1>2
<1>4. CASE \E p \in r .. w - 1 : b[Idx(p)].flags = "normal" /\ b[Idx(p)].n = g
  <2>1. PICK p \in r .. w - 1 : b[Idx(p)].flags = "normal" /\ b[Idx(p)].n = g
    BY <1>4
  <2>2. p = r
    BY <1>1, <1>2, <2>1 DEF Layout, Slots, Shape
  <2> QED BY <1>2, <2>1, <2>2
<1>5. CASE \E i \in 1 .. Len(a) : a[i].n = g
  <2>1. PICK i \in 1 .. Len(a) : a[i].n = g
    BY <1>5
  <2>2. a[i].place \in r .. w - 1 /\ b[Idx(a[i].place)].flags = "aux"
    BY <2>1 DEF Layout, List
  <2>3. r < a[i].place
    BY <1>1, <2>2 DEF Layout, Shape
  <2>4. b[Idx(r)].n < g
    BY <1>1, <2>1, <2>3 DEF Layout, Merged
  <2> QED BY <1>1, <1>2, <2>4
<1> QED BY <1>3, <1>4, <1>5 DEF Layout, Merged

\* At a place holder the oldest completion is the first of the overflow list.
LEMMA HeadAux ==
  ASSUME NEW b, NEW r, NEW w, NEW a, NEW g, NEW n, NEW e, Layout(b, r, w, a, g, n, e),
         r < w, b[Idx(r)].flags = "aux"
  PROVE  a # <<>> /\ a[1].place = r /\ a[1].n = g /\ g < n
<1>0. a \in Seq(Entry) /\ Len(a) \in Nat /\ r \in Nat /\ w \in Nat /\ g \in Nat /\ n \in Nat
  BY DEF Layout, Shape
<1>1. r \in r .. w - 1
  BY <1>0
<1>2. PICK j \in 1 .. Len(a) : a[j].place = r
  BY <1>1 DEF Layout, List
<1>3. 1 \in 1 .. Len(a) /\ a # <<>> /\ a[1] \in Entry /\ a[j] \in Entry
  BY <1>0, <1>2
<1>4. a[1].place \in r .. w - 1 /\ g <= a[1].n /\ a[1].n < n
  BY <1>3 DEF Layout, List
<1>5. a[1].place = r
  <2>1. a[1].place <= a[j].place
    <3>1. CASE j = 1
      BY <1>3, <3>1 DEF Entry
    <3>2. CASE 1 < j
      BY <1>2, <1>3, <3>2 DEF Layout, List
    <3> QED BY <1>0, <1>2, <3>1, <3>2
  <2> QED BY <1>0, <1>2, <1>4, <2>1
<1>6. a[1].n \in Nat
  BY <1>3 DEF Entry
<1>7. g \in g .. n - 1
  BY <1>0, <1>4, <1>6
<1>8. CASE \E p \in r .. w - 1 : b[Idx(p)].flags = "normal" /\ b[Idx(p)].n = g
  <2>1. PICK p \in r .. w - 1 : b[Idx(p)].flags = "normal" /\ b[Idx(p)].n = g
    BY <1>8
  <2>2. a[1].place < p
    BY <1>0, <1>5, <2>1
  <2>3. a[1].n < g
    BY <1>3, <2>1, <2>2 DEF Layout, Merged
  <2> QED BY <1>0, <1>4, <1>6, <2>3
<1>9. CASE \E i \in 1 .. Len(a) : a[i].n = g
  <2>1. PICK i \in 1 .. Len(a) : a[i].n = g
    BY <1>9
  <2>2. CASE i = 1
    BY <1>3, <1>4, <1>5, <1>7, <2>1, <2>2, <1>0
  <2>3. CASE 1 < i
    <3>1. a[1].n < a[i].n
      BY <1>3, <2>1, <2>3 DEF Layout, List
    <3> QED BY <1>0, <1>4, <1>6, <2>1, <3>1
  <2> QED BY <1>0, <2>1, <2>2, <2>3
<1> QED BY <1>7, <1>8, <1>9 DEF Layout, Merged

(***************************************************************************)
(* Writes                                                                  *)
(***************************************************************************)

\* An ordinary completion in a new slot (WriteEntry).
LEMMA PutSlot ==
  ASSUME NEW b, NEW r, NEW w, NEW a, NEW g, NEW n, NEW e, Layout(b, r, w, a, g, n, e),
         Size - (w - r) > 1
  PROVE  Layout([b EXCEPT ![Idx(w)] = Normal(n)], r, w + 1, a, g, n + 1, e)
<1> DEFINE c == [b EXCEPT ![Idx(w)] = Normal(n)]
<1>0. Shape(b, r, w, a, g, n, e)
  BY DEF Layout
<1>a. Size \in Nat \ {0}
  BY IdxFacts
<1>b. b \in [0 .. Size - 1 -> SlotType] /\ w \in Nat /\ r \in Nat /\ n \in Nat /\ r <= w
  BY <1>0 DEF Shape
<1>c. Normal(n) \in SlotType
  BY <1>b DEF Normal, SlotType
<1>d. /\ c \in [0 .. Size - 1 -> SlotType] /\ c[Idx(w)] = Normal(n)
      /\ \A p \in Nat : (p < w /\ w - p < Size) => c[Idx(p)] = b[Idx(p)]
      /\ \A p \in Nat : b[Idx(p)] \in SlotType
  <2>1. c = [b EXCEPT ![Idx(w)] = Normal(n)]
    OBVIOUS
  <2> HIDE DEF c
  <2>2. /\ Idx(w) \in 0 .. Size - 1 /\ \A p \in Nat : Idx(p) \in 0 .. Size - 1
        /\ \A p \in Nat : (p < w /\ w - p < Size) => Idx(p) # Idx(w)
    BY <1>b, IdxFacts
  <2> QED BY <1>b, <1>c, <2>1, <2>2, Zenon
<1> HIDE DEF c
<1>1. Shape(c, r, w + 1, a, g, n + 1, e)
  <2>1. e \in SUBSET Nat /\ \A m \in e : m < n + 1
    BY <1>0 DEF Shape
  <2>2. a \in Seq(Entry) /\ g \in Nat /\ g <= n + 1 /\ w + 1 <= r + Size /\ r <= w + 1
    BY <1>0, <1>a DEF Shape
  <2> QED BY <1>b, <1>d, <2>1, <2>2 DEF Shape
<1>2. \A p \in r .. w - 1 : c[Idx(p)] = b[Idx(p)] /\ c[Idx(p)] \in SlotType
  BY <1>a, <1>b, <1>d
<1>3. c[Idx(w)].flags = "normal" /\ c[Idx(w)].n = n
  BY <1>d DEF Normal
<1>4. \A p \in r .. (w + 1) - 1 : p \in r .. w - 1 \/ p = w
  BY <1>0 DEF Shape
<1>5. \A p \in r .. w - 1 : p < w /\ p \in r .. (w + 1) - 1 /\ c[Idx(p)].n \in Nat
  BY <1>b, <1>2 DEF SlotType
<1>6. w \in r .. (w + 1) - 1 /\ n \in Nat /\ w \in Nat /\ g \in Nat /\ g <= n /\ n \notin e
  BY <1>0 DEF Shape
<1>7. Slots(c, r, w + 1, g, n + 1, e)
  <2>1. \A p \in r .. (w + 1) - 1 : c[Idx(p)].flags = "normal" =>
          g <= c[Idx(p)].n /\ c[Idx(p)].n < n + 1 /\ c[Idx(p)].n \notin e
    BY <1>2, <1>3, <1>4, <1>5, <1>6 DEF Layout, Slots
  <2>2. \A p \in r .. (w + 1) - 1 : \A q \in r .. (w + 1) - 1 :
          p < q /\ c[Idx(p)].flags = "normal" /\ c[Idx(q)].flags = "normal"
            => c[Idx(p)].n < c[Idx(q)].n
    <3> TAKE p \in r .. (w + 1) - 1
    <3> TAKE q \in r .. (w + 1) - 1
    <3> HAVE p < q /\ c[Idx(p)].flags = "normal" /\ c[Idx(q)].flags = "normal"
    <3>1. p \in r .. w - 1
      BY <1>0, <1>4 DEF Shape
    <3>2. CASE q \in r .. w - 1
      BY <1>2, <3>1, <3>2 DEF Layout, Slots
    <3>3. CASE q = w
      BY <1>2, <1>3, <3>1, <3>3 DEF Layout, Slots
    <3> QED BY <1>4, <3>2, <3>3
  <2>3. w + 1 # r + Size
    BY <1>0, IdxFacts DEF Shape
  <2> QED BY <2>1, <2>2, <2>3 DEF Slots
<1>8. List(c, r, w + 1, a, g, n + 1)
  <2>1. \A i \in 1 .. Len(a) : /\ a[i].place \in r .. (w + 1) - 1
                               /\ c[Idx(a[i].place)].flags = "aux"
                               /\ g <= a[i].n /\ a[i].n < n + 1
    <3> TAKE i \in 1 .. Len(a)
    <3>1. /\ a[i].place \in r .. w - 1 /\ b[Idx(a[i].place)].flags = "aux"
          /\ g <= a[i].n /\ a[i].n < n
      BY DEF Layout, List
    <3>2. a \in Seq(Entry) /\ a[i] \in Entry
      BY <1>0 DEF Shape
    <3>3. a[i].n \in Nat
      BY <3>2 DEF Entry
    <3>4. c[Idx(a[i].place)].flags = "aux" /\ a[i].place \in r .. (w + 1) - 1
      BY <1>2, <1>5, <3>1
    <3> QED BY <1>6, <3>1, <3>3, <3>4
  <2>2. \A p \in r .. (w + 1) - 1 : c[Idx(p)].flags = "aux" =>
          \E i \in 1 .. Len(a) : a[i].place = p
    BY <1>2, <1>3, <1>4 DEF Layout, List
  <2> QED BY <2>1, <2>2 DEF Layout, List
<1>9. Merged(c, r, w + 1, a, g, n + 1)
  <2>1. \A p \in r .. (w + 1) - 1 : \A i \in 1 .. Len(a) :
          c[Idx(p)].flags = "normal" =>
            /\ p < a[i].place => c[Idx(p)].n < a[i].n
            /\ a[i].place < p => a[i].n < c[Idx(p)].n
    <3> TAKE p \in r .. (w + 1) - 1
    <3> TAKE i \in 1 .. Len(a)
    <3>1. CASE p \in r .. w - 1
      BY <1>2, <3>1 DEF Layout, Merged
    <3>2. CASE p = w
      <4>1. a[i].place \in r .. w - 1 /\ a[i].n < n
        BY DEF Layout, List
      <4> QED BY <1>0, <1>3, <3>2, <4>1 DEF Shape
    <3> QED BY <1>4, <3>1, <3>2
  <2>2. \A m \in g .. (n + 1) - 1 :
          \/ \E p \in r .. (w + 1) - 1 : c[Idx(p)].flags = "normal" /\ c[Idx(p)].n = m
          \/ \E i \in 1 .. Len(a) : a[i].n = m
    <3> TAKE m \in g .. (n + 1) - 1
    <3>1. CASE m = n
      BY <1>3, <1>6, <3>1
    <3>2. CASE m # n
      <4>1. m \in g .. n - 1
        BY <1>6, <3>2
      <4>2. \/ \E p \in r .. w - 1 : b[Idx(p)].flags = "normal" /\ b[Idx(p)].n = m
            \/ \E i \in 1 .. Len(a) : a[i].n = m
        BY <4>1 DEF Layout, Merged
      <4> QED BY <1>2, <1>5, <4>2
    <3> QED BY <3>1, <3>2
  <2> QED BY <2>1, <2>2 DEF Merged
<1> QED BY <1>1, <1>7, <1>8, <1>9 DEF Layout, c

\* An entry of the overflow list whose slot is the last one of the ring that results.
LEMMA PutList ==
  ASSUME NEW b, NEW r, NEW w, NEW a, NEW g, NEW n, NEW e, Layout(b, r, w, a, g, n, e),
         NEW v, NEW f, f = e \/ f = e \cup {n},
         Size - (w - r) > 0 => v = w + 1, ~(Size - (w - r) > 0) => v = w
  PROVE  Layout([b EXCEPT ![Idx(v - 1)] = AUX], r, v,
                Append(a, [n |-> n, place |-> v - 1]), g, n + 1, f)
<1> DEFINE c == [b EXCEPT ![Idx(v - 1)] = AUX]
           x == [n |-> n, place |-> v - 1]
           d == Append(a, x)
<1>0. Shape(b, r, w, a, g, n, e)
  BY DEF Layout
<1>a. Size \in Nat \ {0}
  BY IdxFacts
<1>b. /\ r \in Nat /\ w \in Nat /\ g \in Nat /\ n \in Nat /\ r <= w /\ w <= r + Size /\ g <= n
      /\ b \in [0 .. Size - 1 -> SlotType] /\ a \in Seq(Entry) /\ Len(a) \in Nat
  BY <1>0 DEF Shape
<1>1. /\ r \in Nat /\ w \in Nat /\ v \in Nat /\ g \in Nat /\ n \in Nat /\ r <= w
      /\ r <= v - 1 /\ w <= v /\ v <= r + Size /\ v - 1 \in Nat /\ g <= n
      /\ (v = w \/ v = w + 1) /\ Len(a) \in Nat
  BY <1>a, <1>b
<1>c. x \in Entry /\ AUX \in SlotType
  BY <1>1 DEF Entry, AUX, SlotType
<1>d. /\ c \in [0 .. Size - 1 -> SlotType] /\ c[Idx(v - 1)] = AUX
      /\ \A p \in Nat : (p < v - 1 /\ (v - 1) - p < Size) => c[Idx(p)] = b[Idx(p)]
      /\ \A p \in Nat : b[Idx(p)] \in SlotType
  <2>1. c = [b EXCEPT ![Idx(v - 1)] = AUX]
    OBVIOUS
  <2> HIDE DEF c
  <2>2. /\ Idx(v - 1) \in 0 .. Size - 1 /\ \A p \in Nat : Idx(p) \in 0 .. Size - 1
        /\ \A p \in Nat : (p < v - 1 /\ (v - 1) - p < Size) => Idx(p) # Idx(v - 1)
    BY <1>1, IdxFacts, Zenon
  <2> QED BY <1>b, <1>c, <2>1, <2>2, Zenon
<1>7. x.n = n /\ x.place = v - 1
  OBVIOUS
<1> HIDE DEF c, x
<1>2. Len(d) = Len(a) + 1 /\ (\A i \in 1 .. Len(a) : d[i] = a[i] /\ a[i] \in Entry)
      /\ d[Len(a) + 1] = x /\ d \in Seq(Entry)
  BY <1>b, <1>c
<1>3. Shape(c, r, v, d, g, n + 1, f)
  <2>1. e \in SUBSET Nat /\ \A m \in e : m < n
    BY <1>0 DEF Shape
  <2>2. f \in SUBSET Nat /\ \A m \in f : m < n + 1
    <3>1. CASE f = e
      BY <1>1, <2>1, <3>1
    <3>2. CASE f = e \cup {n}
      BY <1>1, <2>1, <3>2
    <3> QED BY <3>1, <3>2
  <2>3. g <= n + 1 /\ r <= v /\ n + 1 \in Nat
    BY <1>1
  <2> QED BY <1>1, <1>2, <1>d, <2>2, <2>3 DEF Shape
<1>4. \A p \in r .. v - 1 : p # v - 1 =>
        p \in r .. w - 1 /\ c[Idx(p)] = b[Idx(p)] /\ c[Idx(p)].n \in Nat
  <2> SUFFICES ASSUME NEW p \in r .. v - 1, p # v - 1
               PROVE  p \in r .. w - 1 /\ c[Idx(p)] = b[Idx(p)] /\ c[Idx(p)].n \in Nat
    OBVIOUS
  <2>1. p \in Nat /\ p < v - 1 /\ (v - 1) - p < Size /\ p \in r .. w - 1
    BY <1>1, <1>a
  <2>2. c[Idx(p)] = b[Idx(p)] /\ b[Idx(p)] \in SlotType
    BY <1>d, <2>1
  <2> QED BY <2>1, <2>2 DEF SlotType
<1>5. c[Idx(v - 1)].flags = "aux" /\ v - 1 \in r .. v - 1
  BY <1>1, <1>d DEF AUX
<1>6. \A p \in r .. w - 1 : p \in r .. v - 1 /\ c[Idx(p)].flags = b[Idx(p)].flags
  <2> TAKE p \in r .. w - 1
  <2>1. p \in r .. v - 1
    BY <1>1
  <2>2. CASE p # v - 1
    BY <1>4, <2>1, <2>2
  <2>3. CASE p = v - 1
    <3>1. v = w /\ w = r + Size
      BY <1>1, <1>a, <2>3
    <3>2. b[Idx(w - 1)].flags = "aux"
      BY <3>1 DEF Layout, Slots
    <3> QED BY <1>5, <2>3, <2>1, <3>1, <3>2
  <2> QED BY <2>2, <2>3
<1>8. \A i \in 1 .. Len(d) : i \in 1 .. Len(a) \/ i = Len(a) + 1
  BY <1>1, <1>2
<1> HIDE DEF d
<1>9. \A p \in r .. v - 1 : c[Idx(p)].flags = "normal" =>
        /\ p # v - 1 /\ p \in r .. w - 1 /\ b[Idx(p)].flags = "normal"
        /\ c[Idx(p)].n = b[Idx(p)].n /\ c[Idx(p)].n \in Nat
  BY <1>4, <1>5
<1>10. Slots(c, r, v, g, n + 1, f)
  <2>1. \A p \in r .. v - 1 : c[Idx(p)].flags = "normal" =>
          g <= c[Idx(p)].n /\ c[Idx(p)].n < n + 1 /\ c[Idx(p)].n \notin f
    <3> SUFFICES ASSUME NEW p \in r .. v - 1, c[Idx(p)].flags = "normal"
                 PROVE  g <= c[Idx(p)].n /\ c[Idx(p)].n < n + 1 /\ c[Idx(p)].n \notin f
      OBVIOUS
    <3>1. g <= c[Idx(p)].n /\ c[Idx(p)].n < n /\ c[Idx(p)].n \notin e
      BY <1>9 DEF Layout, Slots
    <3> QED BY <1>1, <1>9, <3>1
  <2>2. \A p \in r .. v - 1 : \A q \in r .. v - 1 :
          p < q /\ c[Idx(p)].flags = "normal" /\ c[Idx(q)].flags = "normal"
            => c[Idx(p)].n < c[Idx(q)].n
    BY <1>9 DEF Layout, Slots
  <2> QED BY <1>5, <2>1, <2>2 DEF Slots
<1>11. List(c, r, v, d, g, n + 1)
  <2>1. \A i \in 1 .. Len(a) : /\ a[i].place \in r .. w - 1 /\ b[Idx(a[i].place)].flags = "aux"
                               /\ g <= a[i].n /\ a[i].n < n
                               /\ a[i].n \in Nat /\ a[i].place <= v - 1
    <3> TAKE i \in 1 .. Len(a)
    <3>1. /\ a[i].place \in r .. w - 1 /\ b[Idx(a[i].place)].flags = "aux"
          /\ g <= a[i].n /\ a[i].n < n
      BY DEF Layout, List
    <3>2. a[i].n \in Nat
      BY <1>2, Zenon DEF Entry
    <3> QED BY <1>1, <3>1, <3>2
  <2>2. \A i \in 1 .. Len(d) : /\ d[i].place \in r .. v - 1 /\ c[Idx(d[i].place)].flags = "aux"
                               /\ g <= d[i].n /\ d[i].n < n + 1
    <3> TAKE i \in 1 .. Len(d)
    <3>1. CASE i \in 1 .. Len(a)
      <4>1. d[i] = a[i] /\ a[i].place \in r .. w - 1 /\ c[Idx(a[i].place)].flags = "aux"
        BY <1>2, <1>6, <2>1, <3>1
      <4> QED BY <1>1, <1>6, <2>1, <3>1, <4>1
    <3>2. CASE i = Len(a) + 1
      BY <1>1, <1>2, <1>5, <1>7, <3>2
    <3> QED BY <1>8, <3>1, <3>2
  <2>3. \A i \in 1 .. Len(d) : \A j \in 1 .. Len(d) :
          i < j => d[i].n < d[j].n /\ d[i].place <= d[j].place
    <3> SUFFICES ASSUME NEW i \in 1 .. Len(d), NEW j \in 1 .. Len(d), i < j
                 PROVE  d[i].n < d[j].n /\ d[i].place <= d[j].place
      OBVIOUS
    <3>1. i \in 1 .. Len(a)
      BY <1>1, <1>8
    <3>2. CASE j \in 1 .. Len(a)
      BY <1>2, <3>1, <3>2 DEF Layout, List
    <3>3. CASE j = Len(a) + 1
      BY <1>2, <1>7, <2>1, <3>1, <3>3
    <3> QED BY <1>8, <3>2, <3>3
  <2>4. \A p \in r .. v - 1 : c[Idx(p)].flags = "aux" => \E i \in 1 .. Len(d) : d[i].place = p
    <3> SUFFICES ASSUME NEW p \in r .. v - 1, c[Idx(p)].flags = "aux"
                 PROVE  \E i \in 1 .. Len(d) : d[i].place = p
      OBVIOUS
    <3>1. CASE p = v - 1
      <4>1. Len(a) + 1 \in 1 .. Len(d) /\ d[Len(a) + 1].place = p
        BY <1>1, <1>2, <1>7, <3>1
      <4> QED BY <4>1
    <3>2. CASE p # v - 1
      <4>1. PICK i \in 1 .. Len(a) : a[i].place = p
        BY <1>4, <3>2 DEF Layout, List
      <4>2. i \in 1 .. Len(d) /\ d[i].place = p
        BY <1>1, <1>2, <4>1
      <4> QED BY <4>2
    <3> QED BY <3>1, <3>2
  <2> QED BY <2>2, <2>3, <2>4 DEF List
<1>12. Merged(c, r, v, d, g, n + 1)
  <2>1. \A p \in r .. v - 1 : \A i \in 1 .. Len(d) :
          c[Idx(p)].flags = "normal" =>
            /\ p < d[i].place => c[Idx(p)].n < d[i].n
            /\ d[i].place < p => d[i].n < c[Idx(p)].n
    <3> SUFFICES ASSUME NEW p \in r .. v - 1, NEW i \in 1 .. Len(d),
                        c[Idx(p)].flags = "normal"
                 PROVE  /\ p < d[i].place => c[Idx(p)].n < d[i].n
                        /\ d[i].place < p => d[i].n < c[Idx(p)].n
      BY Zenon
    <3>1. CASE i \in 1 .. Len(a)
      BY <1>2, <1>9, <3>1 DEF Layout, Merged
    <3>2. CASE i = Len(a) + 1
      <4>1. c[Idx(p)].n < n
        BY <1>9 DEF Layout, Slots
      <4> QED BY <1>1, <1>2, <1>7, <3>2, <4>1
    <3> QED BY <1>8, <3>1, <3>2
  <2>2. \A m \in g .. (n + 1) - 1 :
          \/ \E p \in r .. v - 1 : c[Idx(p)].flags = "normal" /\ c[Idx(p)].n = m
          \/ \E i \in 1 .. Len(d) : d[i].n = m
    <3> TAKE m \in g .. (n + 1) - 1
    <3>1. CASE m = n
      <4>1. Len(a) + 1 \in 1 .. Len(d) /\ d[Len(a) + 1].n = m
        BY <1>1, <1>2, <1>7, <3>1
      <4> QED BY <4>1
    <3>2. CASE m # n
      <4>1. m \in g .. n - 1
        BY <1>1, <3>2
      <4>2. CASE \E p \in r .. w - 1 : b[Idx(p)].flags = "normal" /\ b[Idx(p)].n = m
        <5>1. PICK p \in r .. w - 1 : b[Idx(p)].flags = "normal" /\ b[Idx(p)].n = m
          BY <4>2
        <5>2. p \in r .. v - 1 /\ c[Idx(p)].flags = "normal"
          BY <1>6, <5>1
        <5>3. c[Idx(p)].n = m
          BY <1>9, <5>1, <5>2
        <5> QED BY <5>2, <5>3
      <4>3. CASE \E i \in 1 .. Len(a) : a[i].n = m
        <5>1. PICK i \in 1 .. Len(a) : a[i].n = m
          BY <4>3
        <5>2. i \in 1 .. Len(d) /\ d[i].n = m
          BY <1>1, <1>2, <5>1
        <5> QED BY <5>2
      <4> QED BY <4>1, <4>2, <4>3 DEF Layout, Merged
    <3> QED BY <3>1, <3>2
  <2> QED BY <2>1, <2>2 DEF Merged
<1> QED BY <1>3, <1>10, <1>11, <1>12 DEF Layout, c, d, x

(***************************************************************************)
(* Reads                                                                   *)
(***************************************************************************)

\* The ordinary slot at the head is read and discarded (ReadSlot).
LEMMA TakeSlot ==
  ASSUME NEW b, NEW r, NEW w, NEW a, NEW g, NEW n, NEW e, Layout(b, r, w, a, g, n, e),
         r < w, b[Idx(r)].flags = "normal"
  PROVE  Layout(b, r + 1, w, a, g + 1, n, e)
<1>0. Shape(b, r, w, a, g, n, e)
  BY DEF Layout
<1>1. b[Idx(r)].n = g /\ g < n /\ g \notin e
  BY HeadNormal
<1>2. r \in Nat /\ w \in Nat /\ g \in Nat /\ n \in Nat /\ Size \in Nat \ {0} /\ w <= r + Size
  BY <1>0, IdxFacts DEF Shape
<1>3. r \in r .. w - 1 /\ \A p \in (r + 1) .. w - 1 : p \in r .. w - 1 /\ r < p
  BY <1>2
<1>4. \A p \in (r + 1) .. w - 1 : b[Idx(p)].flags = "normal" =>
        b[Idx(p)].n \in Nat /\ g < b[Idx(p)].n
  <2> SUFFICES ASSUME NEW p \in (r + 1) .. w - 1, b[Idx(p)].flags = "normal"
               PROVE  b[Idx(p)].n \in Nat /\ g < b[Idx(p)].n
    OBVIOUS
  <2>1. b[Idx(r)].n < b[Idx(p)].n
    BY <1>3 DEF Layout, Slots
  <2>2. p \in Nat /\ Idx(p) \in 0 .. Size - 1
    BY <1>2, IdxFacts
  <2>3. b[Idx(p)].n \in Nat
    BY <1>0, <2>2 DEF Shape, SlotType
  <2> QED BY <1>1, <2>1, <2>3
<1>5. \A i \in 1 .. Len(a) : /\ a[i].place \in (r + 1) .. w - 1 /\ a[i].n \in Nat /\ g < a[i].n
                             /\ a[i].place \in Nat
  <2> TAKE i \in 1 .. Len(a)
  <2>1. a[i].place \in r .. w - 1 /\ b[Idx(a[i].place)].flags = "aux"
    BY DEF Layout, List
  <2>2. r < a[i].place
    BY <1>2, <2>1
  <2>3. b[Idx(r)].n < a[i].n
    BY <1>3, <2>2 DEF Layout, Merged
  <2>4. a \in Seq(Entry) /\ a[i] \in Entry
    BY <1>0 DEF Shape
  <2>5. a[i].n \in Nat /\ a[i].place \in Nat
    BY <2>4 DEF Entry
  <2> QED BY <1>1, <1>2, <2>1, <2>2, <2>3, <2>5
<1>6. Shape(b, r + 1, w, a, g + 1, n, e)
  <2>1. r + 1 <= w /\ w <= (r + 1) + Size /\ g + 1 <= n /\ r + 1 \in Nat /\ g + 1 \in Nat
    BY <1>1, <1>2
  <2> QED BY <1>0, <2>1 DEF Shape
<1>7. Slots(b, r + 1, w, g + 1, n, e)
  <2>1. \A p \in (r + 1) .. w - 1 : b[Idx(p)].flags = "normal" =>
          g + 1 <= b[Idx(p)].n /\ b[Idx(p)].n < n /\ b[Idx(p)].n \notin e
    BY <1>2, <1>3, <1>4 DEF Layout, Slots
  <2>2. w # (r + 1) + Size
    BY <1>2
  <2>3. \A p \in (r + 1) .. w - 1 : \A q \in (r + 1) .. w - 1 :
          p < q /\ b[Idx(p)].flags = "normal" /\ b[Idx(q)].flags = "normal"
            => b[Idx(p)].n < b[Idx(q)].n
    BY <1>3, Zenon DEF Layout, Slots
  <2> QED BY <2>1, <2>2, <2>3 DEF Slots
<1>8. List(b, r + 1, w, a, g + 1, n)
  <2>1. \A i \in 1 .. Len(a) : /\ a[i].place \in (r + 1) .. w - 1
                               /\ b[Idx(a[i].place)].flags = "aux"
                               /\ g + 1 <= a[i].n /\ a[i].n < n
    BY <1>2, <1>5 DEF Layout, List
  <2>2. \A p \in (r + 1) .. w - 1 : b[Idx(p)].flags = "aux" =>
          \E i \in 1 .. Len(a) : a[i].place = p
    BY <1>3 DEF Layout, List
  <2> QED BY <2>1, <2>2 DEF Layout, List
<1>9. Merged(b, r + 1, w, a, g + 1, n)
  <2>1. \A p \in (r + 1) .. w - 1 : \A i \in 1 .. Len(a) :
          b[Idx(p)].flags = "normal" =>
            /\ p < a[i].place => b[Idx(p)].n < a[i].n
            /\ a[i].place < p => a[i].n < b[Idx(p)].n
    BY <1>3 DEF Layout, Merged
  <2>2. \A m \in g + 1 .. n - 1 :
          \/ \E p \in (r + 1) .. w - 1 : b[Idx(p)].flags = "normal" /\ b[Idx(p)].n = m
          \/ \E i \in 1 .. Len(a) : a[i].n = m
    <3> TAKE m \in g + 1 .. n - 1
    <3>1. m \in g .. n - 1 /\ m # g
      BY <1>2
    <3>2. CASE \E p \in r .. w - 1 : b[Idx(p)].flags = "normal" /\ b[Idx(p)].n = m
      <4>1. PICK p \in r .. w - 1 : b[Idx(p)].flags = "normal" /\ b[Idx(p)].n = m
        BY <3>2
      <4>2. p # r
        BY <1>1, <3>1, <4>1
      <4>3. p \in (r + 1) .. w - 1
        BY <1>2, <4>2
      <4> QED BY <4>1, <4>3
    <3> QED BY <3>1, <3>2 DEF Layout, Merged
  <2> QED BY <2>1, <2>2, Zenon DEF Merged
<1> QED BY <1>6, <1>7, <1>8, <1>9 DEF Layout

\* The first entry of the overflow list is read: its slot goes with it unless the second
\* entry stands behind the same slot (PopAux).
LEMMA TakeList ==
  ASSUME NEW b, NEW r, NEW w, NEW a, NEW g, NEW n, NEW e, Layout(b, r, w, a, g, n, e),
         r < w, b[Idx(r)].flags = "aux",
         NEW s, s = (IF Len(a) > 1 /\ Idx(a[2].place) = Idx(r) THEN r ELSE r + 1)
  PROVE  Layout(b, s, w, Tail(a), g + 1, n, e)
<1> DEFINE d == Tail(a)
<1>0. Shape(b, r, w, a, g, n, e)
  BY DEF Layout
<1>1. a # <<>> /\ a[1].place = r /\ a[1].n = g /\ g < n
  BY HeadAux
<1>a. r \in Nat /\ w \in Nat /\ g \in Nat /\ n \in Nat /\ w <= r + Size /\ a \in Seq(Entry)
  BY <1>0 DEF Shape
<1>b. Size \in Nat \ {0}
  BY IdxFacts
<1>c. Len(a) \in Nat /\ Len(a) >= 1
  BY <1>a, <1>1
<1>2. /\ r \in Nat /\ w \in Nat /\ g \in Nat /\ n \in Nat /\ Size \in Nat \ {0} /\ w <= r + Size
      /\ a \in Seq(Entry) /\ Len(a) \in Nat /\ Len(a) >= 1
  BY <1>a, <1>b, <1>c
<1>3. /\ d \in Seq(Entry) /\ Len(d) = Len(a) - 1
      /\ \A i \in 1 .. Len(d) : d[i] = a[i + 1] /\ i + 1 \in 1 .. Len(a)
  BY <1>1, <1>2
<1>4. \A i \in 1 .. Len(a) : a[i].n \in Nat /\ a[i].place \in Nat
  <2> TAKE i \in 1 .. Len(a)
  <2>1. a[i] \in Entry
    BY <1>a
  <2> QED BY <2>1 DEF Entry
<1>5. s \in Nat /\ (s = r \/ s = r + 1) /\ s <= w
  BY <1>2
<1>6. \A p \in s .. w - 1 : p \in r .. w - 1
  BY <1>2, <1>5
<1> HIDE DEF d
<1>7. \A i \in 2 .. Len(a) : a[i].place \in s .. w - 1 /\ g < a[i].n
  <2> TAKE i \in 2 .. Len(a)
  <2>1. 1 \in 1 .. Len(a) /\ 2 \in 1 .. Len(a) /\ i \in 1 .. Len(a) /\ 1 < i /\ Len(a) > 1
    BY <1>2
  <2>2. g < a[i].n
    BY <1>1, <2>1 DEF Layout, List
  <2>3. a[i].place \in r .. w - 1 /\ a[2].place \in r .. w - 1
    BY <2>1 DEF Layout, List
  <2>4. a[2].place <= a[i].place
    <3>1. CASE i = 2
      BY <1>4, <2>1, <3>1
    <3>2. CASE 2 < i
      BY <2>1, <3>2 DEF Layout, List
    <3> QED BY <2>1, <3>1, <3>2
  <2>5. CASE Idx(a[2].place) = Idx(r)
    BY <1>2, <2>1, <2>2, <2>3, <2>5
  <2>6. CASE Idx(a[2].place) # Idx(r)
    <3>1. a[2].place # r
      BY <2>6
    <3> QED BY <1>2, <1>4, <2>1, <2>2, <2>3, <2>4, <2>6, <3>1
  <2> QED BY <2>5, <2>6
<1>8. r \in r .. w - 1
  BY <1>2
<1>9. \A p \in s .. w - 1 : b[Idx(p)].flags = "normal" => b[Idx(p)].n \in Nat /\ g < b[Idx(p)].n
  <2> SUFFICES ASSUME NEW p \in s .. w - 1, b[Idx(p)].flags = "normal"
               PROVE  b[Idx(p)].n \in Nat /\ g < b[Idx(p)].n
    OBVIOUS
  <2>1. p \in r .. w - 1 /\ p # r /\ 1 \in 1 .. Len(a)
    BY <1>2, <1>6
  <2>2. a[1].place < p
    BY <1>1, <1>2, <2>1
  <2>3. a[1].n < b[Idx(p)].n
    BY <2>1, <2>2 DEF Layout, Merged
  <2>x. p \in Nat
    BY <1>2, <2>1
  <2>4. p \in Nat /\ Idx(p) \in 0 .. Size - 1
    BY <2>x, IdxFacts
  <2>5. b[Idx(p)].n \in Nat
    BY <1>0, <2>4 DEF Shape, SlotType
  <2> QED BY <1>1, <2>3, <2>5
<1>10. Shape(b, s, w, d, g + 1, n, e)
  <2>1. w <= s + Size /\ g + 1 <= n /\ g + 1 \in Nat
    BY <1>1, <1>2, <1>5
  <2> QED BY <1>0, <1>3, <1>5, <2>1 DEF Shape
<1>11. Slots(b, s, w, g + 1, n, e)
  <2>1. \A p \in s .. w - 1 : b[Idx(p)].flags = "normal" =>
          g + 1 <= b[Idx(p)].n /\ b[Idx(p)].n < n /\ b[Idx(p)].n \notin e
    BY <1>2, <1>6, <1>9 DEF Layout, Slots
  <2>2. w = s + Size => b[Idx(w - 1)].flags = "aux"
    BY <1>2, <1>5 DEF Layout, Slots
  <2>3. \A p \in s .. w - 1 : \A q \in s .. w - 1 :
          p < q /\ b[Idx(p)].flags = "normal" /\ b[Idx(q)].flags = "normal"
            => b[Idx(p)].n < b[Idx(q)].n
    BY <1>6, Zenon DEF Layout, Slots
  <2> QED BY <2>1, <2>2, <2>3, Zenon DEF Slots
<1>12. \A i \in 1 .. Len(d) : i + 1 \in 2 .. Len(a) /\ d[i] = a[i + 1]
  BY <1>2, <1>3
<1>13. List(b, s, w, d, g + 1, n)
  <2>1. \A i \in 1 .. Len(d) : /\ d[i].place \in s .. w - 1
                               /\ b[Idx(d[i].place)].flags = "aux"
                               /\ g + 1 <= d[i].n /\ d[i].n < n
    <3> TAKE i \in 1 .. Len(d)
    <3>1. d[i] = a[i + 1] /\ i + 1 \in 1 .. Len(a) /\ i + 1 \in 2 .. Len(a)
      BY <1>3, <1>12
    <3>2. a[i + 1].place \in s .. w - 1 /\ g < a[i + 1].n
      BY <1>7, <3>1
    <3>3. b[Idx(a[i + 1].place)].flags = "aux" /\ a[i + 1].n < n /\ a[i + 1].n \in Nat
      BY <1>4, <3>1 DEF Layout, List
    <3> QED BY <1>2, <3>1, <3>2, <3>3
  <2>2. \A i \in 1 .. Len(d) : \A j \in 1 .. Len(d) :
          i < j => d[i].n < d[j].n /\ d[i].place <= d[j].place
    <3> SUFFICES ASSUME NEW i \in 1 .. Len(d), NEW j \in 1 .. Len(d), i < j
                 PROVE  d[i].n < d[j].n /\ d[i].place <= d[j].place
      OBVIOUS
    <3>1. d[i] = a[i + 1] /\ i + 1 \in 1 .. Len(a) /\ d[j] = a[j + 1] /\ j + 1 \in 1 .. Len(a)
          /\ i + 1 < j + 1
      BY <1>3
    <3>2. a[i + 1].n < a[j + 1].n /\ a[i + 1].place <= a[j + 1].place
      BY <3>1 DEF Layout, List
    <3> QED BY <3>1, <3>2
  <2>3. \A p \in s .. w - 1 : b[Idx(p)].flags = "aux" => \E i \in 1 .. Len(d) : d[i].place = p
    <3> SUFFICES ASSUME NEW p \in s .. w - 1, b[Idx(p)].flags = "aux"
                 PROVE  \E i \in 1 .. Len(d) : d[i].place = p
      OBVIOUS
    <3>1. PICK i \in 1 .. Len(a) : a[i].place = p
      BY <1>6, Zenon DEF Layout, List
    <3>2. CASE i = 1
      <4>1. p = r /\ s = r
        BY <1>1, <1>2, <1>5, <3>1, <3>2
      <4>2. Len(a) > 1 /\ Idx(a[2].place) = Idx(r)
        BY <1>2, <4>1
      <4>3. 2 \in 1 .. Len(a) /\ a[2].place \in r .. w - 1
        BY <1>2, <4>2 DEF Layout, List
      <4>4. a[2].place = r
        <5>1. a[2].place \in Nat /\ r <= a[2].place /\ a[2].place - r < Size
          BY <1>2, <4>3
        <5>2. CASE r < a[2].place
          BY <1>2, <4>2, <5>1, <5>2, IdxFacts, Zenon
        <5> QED BY <1>2, <5>1, <5>2
      <4>5. 1 \in 1 .. Len(d) /\ d[1] = a[1 + 1]
        BY <1>2, <1>3, <4>2
      <4> QED BY <4>1, <4>4, <4>5
    <3>3. CASE i # 1
      <4>1. i - 1 \in 1 .. Len(d) /\ d[i - 1] = a[(i - 1) + 1] /\ (i - 1) + 1 = i
        BY <1>2, <1>3, <3>1, <3>3
      <4> QED BY <3>1, <4>1
    <3> QED BY <3>2, <3>3
  <2> QED BY <2>1, <2>2, <2>3 DEF List
<1>14. Merged(b, s, w, d, g + 1, n)
  <2>1. \A p \in s .. w - 1 : \A i \in 1 .. Len(d) :
          b[Idx(p)].flags = "normal" =>
            /\ p < d[i].place => b[Idx(p)].n < d[i].n
            /\ d[i].place < p => d[i].n < b[Idx(p)].n
    BY <1>3, <1>6 DEF Layout, Merged
  <2>2. \A m \in g + 1 .. n - 1 :
          \/ \E p \in s .. w - 1 : b[Idx(p)].flags = "normal" /\ b[Idx(p)].n = m
          \/ \E i \in 1 .. Len(d) : d[i].n = m
    <3> TAKE m \in g + 1 .. n - 1
    <3>1. m \in g .. n - 1 /\ m # g
      BY <1>2
    <3>2. CASE \E p \in r .. w - 1 : b[Idx(p)].flags = "normal" /\ b[Idx(p)].n = m
      <4>1. PICK p \in r .. w - 1 : b[Idx(p)].flags = "normal" /\ b[Idx(p)].n = m
        BY <3>2
      <4>2. p # r
        BY <4>1
      <4>3. p \in s .. w - 1
        BY <1>2, <1>5, <4>2
      <4> QED BY <4>1, <4>3
    <3>3. CASE \E i \in 1 .. Len(a) : a[i].n = m
      <4>1. PICK i \in 1 .. Len(a) : a[i].n = m
        BY <3>3
      <4>2. i # 1
        BY <1>1, <3>1, <4>1
      <4>3. i - 1 \in 1 .. Len(d) /\ d[i - 1] = a[(i - 1) + 1] /\ (i - 1) + 1 = i
        BY <1>2, <1>3, <4>1, <4>2
      <4> QED BY <4>1, <4>3
    <3> QED BY <3>1, <3>2, <3>3 DEF Layout, Merged
  <2> QED BY <2>1, <2>2, Zenon DEF Merged
<1> QED BY <1>10, <1>11, <1>13, <1>14, Zenon DEF Layout, d

(***************************************************************************)
(* The invariant                                                           *)
(***************************************************************************)

\* A read loop in progress has no more iterations left than the ring has slots in use.
CqInv ==
  /\ CqTypeOK
  /\ Layout(buf, rcnt, wcnt, aux, got, nwr, errs)
  /\ left <= Used

\* An empty ring has no place holders and an empty list (ofi_cq_init).
LEMMA InitInv == CqInit => CqInv
<1> SUFFICES ASSUME CqInit PROVE CqInv
  OBVIOUS
<1>0. Size \in Nat \ {0}
  BY CqAssumption DEF CqAssumption
<1>1. CqTypeOK
  BY DEF CqInit, CqTypeOK, Normal
<1>2. Shape(buf, rcnt, wcnt, aux, got, nwr, errs)
  BY <1>0, <1>1 DEF CqInit, CqTypeOK, Shape, Entry, SlotType
<1>3. rcnt .. wcnt - 1 = {} /\ got .. nwr - 1 = {} /\ 1 .. Len(aux) = {} /\ wcnt # rcnt + Size
  BY <1>0 DEF CqInit
<1>4. Slots(buf, rcnt, wcnt, got, nwr, errs)
  BY <1>3 DEF Slots
<1>5. List(buf, rcnt, wcnt, aux, got, nwr) /\ Merged(buf, rcnt, wcnt, aux, got, nwr)
  BY <1>3 DEF List, Merged
<1> QED BY <1>1, <1>2, <1>4, <1>5 DEF CqInv, Layout, CqInit, Used

\* A write appends to the queue, in a slot or to the overflow list.
LEMMA WriteStep ==
  ASSUME CqInv, NEW err \in BOOLEAN, CqWrite(err)
  PROVE  CqInv' /\ Queue!Accept(err)
<1>0. /\ rcnt \in Nat /\ wcnt \in Nat /\ nwr \in Nat /\ left = 0 /\ left' = 0
      /\ Size \in Nat \ {0} /\ via' = via /\ got' = got
  BY CqAssumption DEF CqInv, CqTypeOK, CqWrite, seenVars, CqAssumption
<1>1. Layout(buf, rcnt, wcnt, aux, got, nwr, errs)
  BY DEF CqInv
<1>2. Layout(buf, rcnt, wcnt, aux, got, nwr, errs)' /\ rcnt' = rcnt
  <2>1. CASE ~err /\ Fits
    <3>1. Size - (wcnt - rcnt) > 1
      BY <2>1 DEF Fits, Free, Used
    <3>2. Layout([buf EXCEPT ![Idx(wcnt)] = Normal(nwr)], rcnt, wcnt + 1, aux, got, nwr + 1, errs)
      BY <1>1, <3>1, PutSlot
    <3>3. /\ buf' = [buf EXCEPT ![Idx(wcnt)] = Normal(nwr)] /\ wcnt' = wcnt + 1
          /\ rcnt' = rcnt /\ aux' = aux /\ nwr' = nwr + 1 /\ errs' = errs
      BY <2>1 DEF CqWrite, WriteEntry
    <3> QED BY <1>0, <3>2, <3>3
  <2>2. CASE ~(~err /\ Fits)
    <3>1. /\ Size - (wcnt - rcnt) > 0 => wcnt' = wcnt + 1
          /\ ~(Size - (wcnt - rcnt) > 0) => wcnt' = wcnt
          /\ buf' = [buf EXCEPT ![Idx(wcnt' - 1)] = AUX]
          /\ aux' = Append(aux, [n |-> nwr, place |-> wcnt' - 1])
          /\ rcnt' = rcnt /\ nwr' = nwr + 1
      BY <2>2 DEF CqWrite, InsertAux, Free, Used
    <3>2. errs' = errs \/ errs' = errs \cup {nwr}
      BY DEF CqWrite
    <3>a. ASSUME NEW v, NEW f, f = errs \/ f = errs \cup {nwr},
                 Size - (wcnt - rcnt) > 0 => v = wcnt + 1,
                 ~(Size - (wcnt - rcnt) > 0) => v = wcnt
          PROVE  Layout([buf EXCEPT ![Idx(v - 1)] = AUX], rcnt, v,
                        Append(aux, [n |-> nwr, place |-> v - 1]), got, nwr + 1, f)
      BY <1>1, <3>a, PutList, Zenon
    <3>3. Layout([buf EXCEPT ![Idx(wcnt' - 1)] = AUX], rcnt, wcnt',
                 Append(aux, [n |-> nwr, place |-> wcnt' - 1]), got, nwr + 1, errs')
      BY <3>1, <3>2, <3>a, Zenon
    <3> QED BY <1>0, <3>1, <3>3
  <2> QED BY <2>1, <2>2
<1>3. CqTypeOK'
  <2>1. left' \in Nat /\ via' \in {"none", "read", "readerr"}
    BY <1>0 DEF CqInv, CqTypeOK
  <2> QED BY <1>2, <2>1 DEF Layout, Shape, CqTypeOK, Entry, SlotType
<1>4. (left <= Used)'
  BY <1>0, <1>2 DEF Layout, Shape, Used
<1>5. Queue!Accept(err)
  BY DEF CqWrite, seenVars, Queue!Accept
<1> QED BY <1>2, <1>3, <1>4, <1>5 DEF CqInv

\* An ordinary slot at the head is the next completion of the queue, and no error.
LEMMA ReadSlotStep ==
  ASSUME CqInv, ReadSlot
  PROVE  CqInv' /\ Queue!Take
<1>0. /\ rcnt \in Nat /\ wcnt \in Nat /\ nwr \in Nat /\ left \in Nat /\ got \in Nat
      /\ left <= wcnt - rcnt /\ left > 0 /\ buf[Idx(rcnt)].flags = "normal"
  BY DEF CqInv, CqTypeOK, Used, ReadSlot, HeadSlot
<1>1. Layout(buf, rcnt, wcnt, aux, got, nwr, errs) /\ rcnt < wcnt
  BY <1>0 DEF CqInv
<1>2. buf[Idx(rcnt)].n = got /\ got < nwr /\ got \notin errs
  BY <1>0, <1>1, HeadNormal
<1>3. /\ got' = got + 1 /\ via' = "read" /\ rcnt' = rcnt + 1 /\ left' = left - 1
      /\ buf' = buf /\ wcnt' = wcnt /\ aux' = aux /\ nwr' = nwr /\ errs' = errs
  BY <1>2 DEF ReadSlot, Deliver, HeadSlot
<1>4. Layout(buf, rcnt + 1, wcnt, aux, got + 1, nwr, errs)
  BY <1>0, <1>1, TakeSlot
<1>5. Layout(buf, rcnt, wcnt, aux, got, nwr, errs)'
  BY <1>3, <1>4
<1>6. left' \in Nat /\ via' \in {"none", "read", "readerr"} /\ (left <= Used)'
  BY <1>0, <1>3 DEF Used
<1>7. CqTypeOK'
  BY <1>5, <1>6 DEF Layout, Shape, CqTypeOK, Entry, SlotType
<1>8. Queue!Take
  BY <1>2, <1>3 DEF Queue!Take
<1> QED BY <1>5, <1>6, <1>7, <1>8 DEF CqInv

\* A place holder at the head is the slot of the first overflow entry, which is the next
\* completion of the queue.
LEMMA PopStep ==
  ASSUME CqInv, Used > 0, HeadSlot.flags = "aux", PopAux, UNCHANGED <<nwr, errs>>,
         NEW call \in {"read", "readerr"}, Deliver(aux[1].n, call),
         call = (IF aux[1].n \in errs THEN "readerr" ELSE "read"),
         left' \in Nat, left' = 0 \/ left' < left
  PROVE  CqInv' /\ Queue!Take
<1>0. /\ rcnt \in Nat /\ wcnt \in Nat /\ nwr \in Nat /\ left \in Nat /\ got \in Nat
      /\ left <= wcnt - rcnt /\ buf[Idx(rcnt)].flags = "aux" /\ rcnt < wcnt
  BY DEF CqInv, CqTypeOK, Used, HeadSlot
<1>1. Layout(buf, rcnt, wcnt, aux, got, nwr, errs)
  BY DEF CqInv
<1>2. aux[1].n = got /\ got < nwr
  BY <1>0, <1>1, HeadAux
<1>3. /\ got' = got + 1 /\ via' = call /\ aux' = Tail(aux) /\ nwr' = nwr /\ errs' = errs
      /\ buf' = buf /\ wcnt' = wcnt
      /\ rcnt' = (IF Len(aux) > 1 /\ Idx(aux[2].place) = Idx(rcnt) THEN rcnt ELSE rcnt + 1)
  BY <1>2 DEF PopAux, Deliver
<1>4. Layout(buf, rcnt', wcnt, Tail(aux), got + 1, nwr, errs)
  BY <1>0, <1>1, <1>3, TakeList, Zenon
<1>5. Layout(buf, rcnt, wcnt, aux, got, nwr, errs)'
  BY <1>3, <1>4
<1>6. (left <= Used)'
  <2>1. rcnt' \in Nat /\ rcnt' <= rcnt + 1
    BY <1>0, <1>3
  <2> QED BY <1>0, <1>3, <2>1 DEF Used
<1>7. CqTypeOK'
  BY <1>3, <1>5, Zenon DEF Layout, Shape, CqTypeOK, Entry, SlotType
<1>8. Queue!Take
  BY <1>2, <1>3 DEF Queue!Take
<1> QED BY <1>5, <1>6, <1>7, <1>8 DEF CqInv

\* Every step keeps the invariant and is a step of the abstract queue or none.
LEMMA StepInv ==
  ASSUME CqInv, [CqNext]_cqVars
  PROVE  CqInv' /\ [Queue!QueueNext]_<<nwr, errs, got, via>>
<1>0. Size \in Nat \ {0} /\ rcnt \in Nat /\ wcnt \in Nat /\ left \in Nat /\ left <= Used
      /\ Used \in Int
  BY CqAssumption DEF CqAssumption, CqInv, CqTypeOK, Used
<1>1. CASE UNCHANGED cqVars
  BY <1>1 DEF cqVars, ringVars, seenVars, CqInv, CqTypeOK, Used
<1>2. ASSUME NEW count \in 1 .. ReadMax, ReadBegin(count)
      PROVE  CqInv' /\ UNCHANGED <<nwr, errs, got, via>>
  <2>1. left' \in Nat /\ left' <= Used
    BY <1>0, <1>2, CqAssumption DEF ReadBegin, CqAssumption
  <2> QED BY <1>2, <2>1 DEF ReadBegin, ringVars, seenVars, CqInv, CqTypeOK, Used
<1>3. CASE ReadSlot
  BY <1>3, ReadSlotStep DEF Queue!QueueNext
<1>4. CASE ReadAux
  <2>1. Used > 0 /\ left' \in Nat /\ left' < left
    BY <1>0, <1>4 DEF ReadAux
  <2>2. /\ HeadSlot.flags = "aux" /\ PopAux /\ UNCHANGED <<nwr, errs>>
        /\ Deliver(aux[1].n, "read") /\ aux[1].n \notin errs
    BY <1>4 DEF ReadAux
  <2> QED BY <2>1, <2>2, PopStep DEF Queue!QueueNext
<1>5. CASE ReadStops
  <2>1. left' = 0
    BY <1>5 DEF ReadStops
  <2>2. UNCHANGED <<buf, rcnt, wcnt, aux, nwr, errs, got, via>>
    BY <1>5 DEF ReadStops, ringVars, seenVars
  <2>3. CqTypeOK' /\ (left <= Used)'
    BY <1>0, <2>1, <2>2 DEF CqInv, CqTypeOK, Used
  <2> QED BY <2>2, <2>3 DEF CqInv
<1>6. CASE ReadErr
  <2>1. Used > 0 /\ left' \in Nat /\ left' = 0
    BY <1>0, <1>6 DEF ReadErr
  <2>2. /\ HeadSlot.flags = "aux" /\ PopAux /\ UNCHANGED <<nwr, errs>>
        /\ Deliver(aux[1].n, "readerr") /\ aux[1].n \in errs
    BY <1>6 DEF ReadErr
  <2> QED BY <2>1, <2>2, PopStep DEF Queue!QueueNext
<1>7. ASSUME NEW err \in BOOLEAN, CqWrite(err)
      PROVE  CqInv' /\ Queue!QueueNext
  BY <1>7, WriteStep DEF Queue!QueueNext
<1>8. ASSUME NEW err \in BOOLEAN, CqWriteFails(err)
      PROVE  CqInv' /\ UNCHANGED <<nwr, errs, got, via>>
  BY <1>8 DEF CqWriteFails, cqVars, ringVars, seenVars, CqInv, CqTypeOK, Used
<1> QED BY <1>1, <1>2, <1>3, <1>4, <1>5, <1>6, <1>7, <1>8 DEF CqNext, CqRead

(***************************************************************************)
(* Theorems                                                                *)
(***************************************************************************)

\* What the code asserts follows from the layout.
LEMMA InvAsserts == CqInv => CqAsserts
<1> SUFFICES ASSUME CqInv PROVE CqAsserts
  OBVIOUS
<1>1. Layout(buf, rcnt, wcnt, aux, got, nwr, errs) /\ left <= Used
  BY DEF CqInv
<1>2. /\ rcnt \in Nat /\ wcnt \in Nat /\ rcnt <= wcnt /\ wcnt <= rcnt + Size
      /\ aux \in Seq(Entry)
  BY <1>1 DEF Layout, Shape
<1>3. ASSUME Used > 0, HeadSlot.flags = "aux" PROVE aux # <<>> /\ Idx(aux[1].place) = Idx(rcnt)
  <2>1. rcnt < wcnt /\ buf[Idx(rcnt)].flags = "aux"
    BY <1>2, <1>3 DEF Used, HeadSlot
  <2> QED BY <1>1, <2>1, HeadAux
<1>4. ASSUME Used = 0, aux # <<>> PROVE FALSE
  <2>1. 1 \in 1 .. Len(aux)
    BY <1>2, <1>4
  <2>2. aux[1].place \in rcnt .. wcnt - 1
    BY <1>1, <2>1 DEF Layout, List
  <2> QED BY <1>2, <1>4, <2>2 DEF Used
<1> QED BY <1>1, <1>2, <1>3, <1>4 DEF CqAsserts

\* For a ring of any size: the ring holds at most its slots, a read loop never runs past
\* the last one, and a place holder at the head belongs to the first overflow entry.
THEOREM CqAssertsHold == CqSpec => []CqAsserts
<1>1. CqInv /\ [CqNext]_cqVars => CqInv'
  BY StepInv
<1> QED BY <1>1, InitInv, InvAsserts, PTL DEF CqSpec

\* For a ring of any size: the ring with its overflow list implements the abstract queue,
\* so completions come out once, in order, and errors only through fi_cq_readerr.
THEOREM CqIsQueueHolds == CqSpec => CqIsQueue
<1>1. CqInit => Queue!QueueInit
  BY DEF CqInit, Queue!QueueInit
<1>2. CqInv /\ [CqNext]_cqVars => CqInv' /\ [Queue!QueueNext]_<<nwr, errs, got, via>>
  BY StepInv
<1> QED BY <1>1, <1>2, InitInv, PTL DEF CqSpec, CqIsQueue, Queue!QueueSpec
=============================================================================
