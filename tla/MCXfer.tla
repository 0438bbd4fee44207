-------------------------------- MODULE MCXfer -------------------------------
\* Two operations of every kind on fragmented buffers, with chunks of two bytes and two
\* pieces, and an eager send, reporting to a ring of two slots.
EXTENDS RdsXfer

Op(kind, iov, src, comp) == [kind |-> kind, iov |-> iov, src |-> src, comp |-> comp]

\* Sizes around the chunk: empty, less than one, fragments beyond the piece limit, empty
\* buffers inside; receives that fit, are too small, and have other boundaries than their
\* message, one buffer of which is empty.
Scattered ==
  {Op("write", <<1, 0, 2>>, <<>>, TRUE), Op("read", <<1, 1, 1>>, <<>>, TRUE),
   Op("write", <<0>>, <<>>, TRUE), Op("inject", <<2>>, <<>>, FALSE),
   Op("recv", <<1, 2>>, <<2, 0, 1>>, TRUE), Op("recv", <<2>>, <<3>>, FALSE)}

MCInputs == <<Scattered, Scattered, {Op("eager", <<1>>, <<>>, TRUE)}>>

\* The same without the transfer of zero bytes.
MCNonEmpty ==
  LET moving == {i \in Scattered : Total(i) > 0}
  IN  <<moving, moving, {Op("eager", <<1>>, <<>>, TRUE)}>>

MCFaults == {"refuse", "again", "dma", "nomem", "cq_nomem"}
=============================================================================
