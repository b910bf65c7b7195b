------------------------- MODULE MCResponseEmitter -------------------------
(***************************************************************************)
(* Two application threads that share an emitter, as a handler and the     *)
(* thread it hands the emitter to do.                                      *)
(***************************************************************************)
EXTENDS ResponseEmitter

CONSTANTS t1, t2
MCThreads == {t1, t2}
=============================================================================
