----------------------------- MODULE MCStreams -----------------------------
(* Instances of Streams for TLC.                                           *)
EXTENDS Streams

\* With two streams and an int of -8 .. 7 no fragment exceeds an int.
SmallSizes == {1, 2, 5, 6}
=============================================================================
