------------------------------- MODULE MCPeer -------------------------------
\* Instances of RdsPeer for TLC.
EXTENDS RdsPeer

CONSTANTS a, b

MCNodes == {a, b}
MCPeerOf == [n \in MCNodes |-> IF n = a THEN b ELSE a]

\* Both ends send, so that both may start the handshake, or one of them only injects.
BothSend == [n \in MCNodes |-> IF n = a THEN <<"send", "send", "send">> ELSE <<"send", "send">>]
OneInjects == [n \in MCNodes |-> IF n = a THEN <<"send", "send">> ELSE <<"inject", "inject">>]
MCProgs == {BothSend, OneInjects}

\* An application that mixes small sends with a larger inject.
MixInject == {[n \in MCNodes |-> IF n = a THEN <<"send", "inject">> ELSE <<>>]}
=============================================================================
