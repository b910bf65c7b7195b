-------------------------- MODULE MCResponseStream --------------------------
(***************************************************************************)
(* ResponseStream with a queue of two bytes and chunks of one or two, so   *)
(* that one chunk or two fill the queue and the writer blocks.             *)
(***************************************************************************)
EXTENDS ResponseStream

MCSizes == {1, 2}
=============================================================================
