------------------------- MODULE MCResponseBuffers -------------------------
(***************************************************************************)
(* Two responses at a time: what one of them returns, the other borrows.   *)
(***************************************************************************)
EXTENDS ResponseBuffers, TLC

CONSTANTS s1, s2, b1, b2, b3
TwoStreams == {s1, s2}
ThreeBuffers == {b1, b2, b3}
Interchangeable == Permutations(Streams) \cup Permutations(Buffers)
=============================================================================
