--------------------------- MODULE MCLunixProtocol ---------------------------
(* Instances of LunixProtocol for TLC.                                      *)
EXTENDS LunixProtocol

\* Streams of these bytes, cut anywhere.  As a payload length they mean no
\* payload, and more than a short packet[] can hold; the last buffer is long
\* enough for the loop guard of the debug build, where IterLimit is 3.
MCShortBuffers == {<<0>>, <<125>>, <<126>>, <<125, 0>>, <<126, 125>>, <<0, 0, 0>>}
=============================================================================
