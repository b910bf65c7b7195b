------------------------------ MODULE MCTempoStep ------------------------------
(***************************************************************************)
(* Instances of TempoStep for TLC.                                         *)
(***************************************************************************)
EXTENDS TempoStep

AllKinds == {"build", "test", "profile", "measure", "edit", "consult"}
===============================================================================
