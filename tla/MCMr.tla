--------------------------------- MODULE MCMr --------------------------------
\* Two endpoints that send equal, nested and overlapping buffers of three pages, through a
\* cache that holds two of them.
EXTENDS RdsMr

CONSTANTS a, b

I(lo, hi) == [lo |-> lo, hi |-> hi]

MCEps == {a, b}
MCMessages == [t \in MCEps |->
                IF t = a THEN {<<I(2, 3), I(2, 2)>>} ELSE {<<I(1, 2)>>, <<I(2, 2)>>}]
MCFaults == {"pool", "kernel", "again", "rbnode", "subscribe", "rts"}

\* Where the destination plays no part, and where each endpoint has a peer of its own.
MCAnyDest == [t \in MCEps |-> {NoDest}]
MCOwnDest == [t \in MCEps |-> {t}]
=============================================================================
