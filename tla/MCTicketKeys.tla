---------------------------- MODULE MCTicketKeys ----------------------------
(***************************************************************************)
(* Two processes that share a store, and a native manager of one of them,  *)
(* for a little less than the life of a key.                               *)
(***************************************************************************)
EXTENDS TicketKeys

CONSTANTS p, q, m
TwoServices == {p, q}
OneManager == {m}
AtFirst == [x \in Managers |-> p]
=============================================================================
