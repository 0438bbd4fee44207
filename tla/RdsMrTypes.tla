------------------------------ MODULE RdsMrTypes -----------------------------
\* Memory, cache entries and registrations held: what the modules about registrations share.
EXTENDS Integers

CONSTANTS
  Eps,       \* endpoints of the domain
  NPages,    \* pages of the application
  NSlots     \* entries the pool can allocate

Pages == 1 .. NPages
Slots == 1 .. NSlots

Iovs == {i \in [lo : Pages, hi : Pages] : i.lo <= i.hi}
NoIov == [lo |-> 1, hi |-> 1]

\* Registration number n of operation o: the chunk it is for, and the cache entry or,
\* without a cache, the cookie.
Hold(o, n, i, id) == [op |-> o, n |-> n, iov |-> i, id |-> id]
=============================================================================
