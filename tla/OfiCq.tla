-------------------------------- MODULE OfiCq --------------------------------
(***************************************************************************)
(* The completion queue behind rds_cq_open: util_cq.c of libfabric with    *)
(* the circular buffer of ofi_rbuf.h.  Ordinary completions take a slot of *)
(* the ring; the last free slot, and every error, becomes a place holder   *)
(* (UTIL_FLAG_AUX) for entries of an unbounded overflow list, several of   *)
(* which can stand behind one slot.                                        *)
(*                                                                         *)
(* A completion is known by its number: how many were accepted before it.  *)
(* All calls run under cq_lock; the loop of ofi_cq_read_entries holds it   *)
(* from ReadBegin until left is 0 again.                                   *)
(***************************************************************************)
EXTENDS Integers, Sequences

CONSTANTS
  Size,      \* slots of the ring, a power of two (so that a mask is a remainder)
  ReadMax    \* largest count the application passes to fi_cq_read

ASSUME CqAssumption == Size \in Nat \ {0} /\ ReadMax \in Nat \ {0}

VARIABLES
  buf,     \* [0 .. Size - 1 -> slot]
  rcnt,    \* slots consumed
  wcnt,    \* slots committed
  aux,     \* aux_queue, each entry with its number and the place of its cq_slot
  nwr,     \* completions accepted
  errs,    \* the numbers of those with err set
  got,     \* number after the last completion handed to the application
  via,     \* the call that handed it over
  left     \* iterations ofi_cq_read_entries has left, 0 when cq_lock is free

ringVars == <<buf, rcnt, wcnt, aux>>
seenVars == <<got, via>>
cqVars == <<ringVars, nwr, errs, seenVars, left>>

AUX == [flags |-> "aux", n |-> 0]
Normal(n) == [flags |-> "normal", n |-> n]

Idx(p) == p % Size
Used == wcnt - rcnt
Free == Size - Used
HeadSlot == buf[Idx(rcnt)]

CqInit ==
  /\ buf = [i \in 0 .. Size - 1 |-> Normal(0)]
  /\ rcnt = 0 /\ wcnt = 0 /\ aux = <<>>
  /\ nwr = 0 /\ errs = {} /\ got = 0 /\ via = "none" /\ left = 0

(***************************************************************************)
(* Writers                                                                 *)
(***************************************************************************)

\* ofi_cq_write_entry: the next slot is filled and committed.
WriteEntry ==
  /\ buf' = [buf EXCEPT ![Idx(wcnt)] = Normal(nwr)]
  /\ wcnt' = wcnt + 1
  /\ UNCHANGED <<rcnt, aux>>

\* Mutant: the overflow list is used without taking a new slot while one is free.
InsertAuxNoCommit ==
  /\ wcnt' = IF Used = 0 THEN wcnt + 1 ELSE wcnt
  /\ buf' = [buf EXCEPT ![Idx(wcnt' - 1)] = AUX]
  /\ aux' = Append(aux, [n |-> nwr, place |-> wcnt' - 1])
  /\ UNCHANGED rcnt

\* util_cq_insert_aux: a new slot if there is one, and the tail slot stands for the entry.
InsertAux ==
  /\ wcnt' = IF Free > 0 THEN wcnt + 1 ELSE wcnt
  /\ buf' = [buf EXCEPT ![Idx(wcnt' - 1)] = AUX]
  /\ aux' = Append(aux, [n |-> nwr, place |-> wcnt' - 1])
  /\ UNCHANGED rcnt

\* The test of ofi_cq_write: an ordinary completion leaves one slot for the overflow.
Fits == Free > 1

\* ofi_cq_write and ofi_cq_write_src (err = FALSE), ofi_cq_write_error (err = TRUE).
CqWrite(err) ==
  /\ left = 0
  /\ IF ~err /\ Fits THEN WriteEntry ELSE InsertAux
  /\ nwr' = nwr + 1
  /\ errs' = IF err THEN errs \cup {nwr} ELSE errs
  /\ UNCHANGED <<seenVars, left>>

\* The calloc of ofi_cq_write_overflow or util_cq_insert_error fails: -FI_ENOMEM.
CqWriteFails(err) ==
  /\ left = 0
  /\ err \/ ~Fits
  /\ UNCHANGED cqVars

(***************************************************************************)
(* Readers                                                                 *)
(***************************************************************************)

\* Mutant: a slot shared by several overflow entries is given up with the first.
PopAuxAlways ==
  /\ aux' = Tail(aux)
  /\ rcnt' = rcnt + 1
  /\ UNCHANGED <<buf, wcnt>>

\* The head of aux_queue goes, and its slot with it unless the next entry stands there too.
PopAux ==
  /\ aux' = Tail(aux)
  /\ rcnt' = IF Len(aux) > 1 /\ Idx(aux[2].place) = Idx(rcnt) THEN rcnt ELSE rcnt + 1
  /\ UNCHANGED <<buf, wcnt>>

Deliver(n, call) == got' = n + 1 /\ via' = call

\* ofi_cq_read_entries on a ring that is not empty (on an empty one it returns -FI_EAGAIN).
ReadBegin(count) ==
  /\ left = 0 /\ Used > 0
  /\ left' = IF count > Used THEN Used ELSE count
  /\ UNCHANGED <<ringVars, nwr, errs, seenVars>>

\* One iteration: an ordinary slot is read and discarded.
ReadSlot ==
  /\ left > 0 /\ HeadSlot.flags = "normal"
  /\ Deliver(HeadSlot.n, "read")
  /\ rcnt' = rcnt + 1
  /\ left' = left - 1
  /\ UNCHANGED <<buf, wcnt, aux, nwr, errs>>

\* One iteration: an entry of the overflow list is read.
ReadAux ==
  /\ left > 0 /\ HeadSlot.flags = "aux" /\ aux # <<>> /\ aux[1].n \notin errs
  /\ Deliver(aux[1].n, "read")
  /\ PopAux
  /\ left' = left - 1
  /\ UNCHANGED <<nwr, errs>>

\* An error ends the loop: what was read so far is returned, or -FI_EAVAIL.
ReadStops ==
  /\ left > 0 /\ HeadSlot.flags = "aux" /\ aux # <<>> /\ aux[1].n \in errs
  /\ left' = 0
  /\ UNCHANGED <<ringVars, nwr, errs, seenVars>>

\* ofi_cq_readerr with an error at the head (otherwise it returns -FI_EAGAIN).
ReadErr ==
  /\ left = 0 /\ Used > 0 /\ HeadSlot.flags = "aux" /\ aux # <<>> /\ aux[1].n \in errs
  /\ Deliver(aux[1].n, "readerr")
  /\ PopAux
  /\ UNCHANGED <<nwr, errs, left>>

CqRead ==
  \/ \E count \in 1 .. ReadMax : ReadBegin(count)
  \/ ReadSlot
  \/ ReadAux
  \/ ReadStops
  \/ ReadErr

CqNext == CqRead \/ \E err \in BOOLEAN : CqWrite(err) \/ CqWriteFails(err)

CqSpec == CqInit /\ [][CqNext]_cqVars

(***************************************************************************)
(* Properties                                                              *)
(***************************************************************************)

CqTypeOK ==
  /\ buf \in [0 .. Size - 1 -> [flags : {"normal", "aux"}, n : Nat]]
  /\ rcnt \in Nat /\ wcnt \in Nat
  /\ aux \in Seq([n : Nat, place : Nat])
  /\ nwr \in Nat /\ errs \in SUBSET Nat /\ got \in Nat
  /\ via \in {"none", "read", "readerr"} /\ left \in Nat

\* What the code asserts or relies on without a test: the ring never holds more than its
\* slots, a reader never looks past the last one, and a place holder at the head is the
\* slot of the first overflow entry (the asserts of ofi_cq_read_entries, ofi_cq_readerr).
CqAsserts ==
  /\ rcnt <= wcnt /\ wcnt <= rcnt + Size
  /\ left <= Used
  /\ Used > 0 /\ HeadSlot.flags = "aux" => aux # <<>> /\ Idx(aux[1].place) = Idx(rcnt)
  /\ Used = 0 => aux = <<>>

Queue == INSTANCE OfiCompletions

\* The ring and its overflow list are one queue: however slots fill, wrap and are shared,
\* completions come out once each, in the order written, and an error only through
\* fi_cq_readerr (ofi_cq_write, ofi_cq_write_error, ofi_cq_read_entries, ofi_cq_readerr).
CqIsQueue == Queue!QueueSpec
=============================================================================
