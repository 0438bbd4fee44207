------------------------------ MODULE MCMatch ------------------------------
\* Instances of RdsMatch for TLC.
EXTENDS RdsMatch

CONSTANTS s1, s2, m1, m2, m3, m4, r1, r2, r3, r4

MCSources == {s1, s2}
MCMsgs == {m1, m2, m3, m4}
MCRecvs == {r1, r2, r3, r4}

\* s1 sends two tagged messages and an untagged one between them, s2 a tagged one.
MCSent == [s \in MCSources |-> IF s = s1 THEN <<m1, m4, m2>> ELSE <<m3>>]
MCList == [x \in MCMsgs \cup MCRecvs |-> IF x \in {m4, r4} THEN "msg" ELSE "tag"]
MCTag == [x \in MCMsgs \cup MCRecvs |-> IF x \in {m2, r2, r4} THEN {1} ELSE {}]

\* r1 takes any tag, r2 tag {1} of s1, r3 tag {} of any source, r4 untagged messages.
MCIgnore == [r \in MCRecvs |-> IF r = r1 THEN {1} ELSE {}]
MCAddr == [r \in MCRecvs |-> IF r = r2 THEN s1 ELSE Unspec]

\* Directed receives for a source that enters the AV late.
LateSent == [s \in MCSources |-> IF s = s1 THEN <<m1, m2>> ELSE <<>>]
LateAddr == [r \in MCRecvs |-> s1]
LateTag == [x \in MCMsgs \cup MCRecvs |-> {}]
=============================================================================
