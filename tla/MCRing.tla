------------------------------- MODULE MCRing -------------------------------
\* Instances of RdsRing for TLC.
EXTENDS RdsRing

CONSTANTS a, b

MCNodes == {a, b}
MCPeer == [n \in MCNodes |-> IF n = a THEN b ELSE a]

\* More than two laps one way, so that generations repeat, and one message the other way.
Duplex == [n \in MCNodes |-> IF n = a THEN 5 ELSE 1]

\* More than two laps of four slots, one way only.
OneWay == [n \in MCNodes |-> IF n = a THEN 9 ELSE 0]
=============================================================================
