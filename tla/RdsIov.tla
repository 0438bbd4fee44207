-------------------------------- MODULE RdsIov -------------------------------
(***************************************************************************)
(* How the provider cuts scattered buffers: rds_iov_slice, the chunk loop  *)
(* of rds_send_rndzv and the table size it computes first.                 *)
(*                                                                         *)
(* An iov is the sequence of the lengths of its buffers; a piece of it is  *)
(* len bytes of buffer iov from byte at on.                                *)
(***************************************************************************)
EXTENDS Integers, SequencesExt

CONSTANTS
  SegMax,    \* RDS_KERNEL_SEG_MAX: bytes of one RDMA operation or registration
  IovLimit   \* RDS_IOV_LIMIT: local pieces of one RDMA operation

ASSUME IovAssumption == SegMax \in Nat \ {0} /\ IovLimit \in Nat \ {0}

Smaller(a, b) == IF a <= b THEN a ELSE b

Piece(i, s, n) == [iov |-> i, at |-> s, len |-> n]

\* rds_iov_len, ofi_total_iov_len
IovLen(iov) == FoldLeft(LAMBDA sum, n : sum + n, 0, iov)

PieceLen(pieces) == FoldLeft(LAMBDA sum, p : sum + p.len, 0, pieces)

\* Mutant: a buffer that starts before off is taken from its first byte.
SliceNoSkip(iov, off, len) ==
  LET Loop[i \in 0 .. Len(iov)] ==
        IF i = 0 THEN [pos |-> 0, len |-> len, dst |-> <<>>]
        ELSE LET acc == Loop[i - 1] IN
        IF acc.len = 0 \/ Len(acc.dst) = IovLimit THEN acc
        ELSE IF acc.pos + iov[i] <= off THEN [acc EXCEPT !.pos = @ + iov[i]]
        ELSE LET take == Smaller(iov[i], acc.len)
             IN  [pos |-> acc.pos + iov[i], len |-> acc.len - take,
                  dst |-> Append(acc.dst, Piece(i, 0, take))]
  IN  Loop[Len(iov)].dst

\* rds_iov_slice: the pieces of bytes off .. off + len - 1 of iov, at most IovLimit of
\* them, so that fewer than len bytes may be covered.
Slice(iov, off, len) ==
  LET Loop[i \in 0 .. Len(iov)] ==
        IF i = 0 THEN [pos |-> 0, len |-> len, dst |-> <<>>]
        ELSE LET acc == Loop[i - 1] IN
        IF acc.len = 0 \/ Len(acc.dst) = IovLimit THEN acc
        ELSE IF acc.pos + iov[i] <= off THEN [acc EXCEPT !.pos = @ + iov[i]]
        ELSE LET s == IF off > acc.pos THEN off - acc.pos ELSE 0
                 take == Smaller(iov[i] - s, acc.len)
             IN  [pos |-> acc.pos + iov[i], len |-> acc.len - take,
                  dst |-> Append(acc.dst, Piece(i, s, take))]
  IN  Loop[Len(iov)].dst

\* Mutant: the last, partial chunk of a buffer is not counted.
NSegWhole(iov) == FoldLeft(LAMBDA sum, n : sum + n \div SegMax, 0, iov)

\* The segments rds_send_rndzv makes room for: chunks of every source buffer.
NSeg(iov) == FoldLeft(LAMBDA sum, n : sum + (n + SegMax - 1) \div SegMax, 0, iov)

\* The while (left) loop over one buffer i of n bytes.
Chunks(i, n) ==
  LET Cut[left \in 0 .. n] ==
        IF left = 0 THEN <<>>
        ELSE LET clen == Smaller(left, SegMax)
             IN  <<Piece(i, n - left, clen)>> \o Cut[left - clen]
  IN  Cut[n]

\* The segments rds_send_rndzv fills in.
Segments(iov) == FlattenSeq([i \in 1 .. Len(iov) |-> Chunks(i, iov[i])])
=============================================================================
