--------------------------- MODULE MCResponseRing ---------------------------
(***************************************************************************)
(* Three handlers over two slots: the ring fills, slots are reused, and a  *)
(* handler can be told that the ring is overloaded.                        *)
(***************************************************************************)
EXTENDS ResponseRing, TLC

CONSTANTS h1, h2, h3
Three == {h1, h2, h3}
Symmetry == Permutations(Three)
=============================================================================
