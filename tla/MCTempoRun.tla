------------------------------ MODULE MCTempoRun ------------------------------
(***************************************************************************)
(* Instances of TempoRun for TLC.                                          *)
(***************************************************************************)
EXTENDS TempoRun

\* 104 beats 100 by more than the floor of 3 percent, 110 meets the goal of
\* 110 percent; 90 fails a protection of 95 percent.
MCRates == {100, 104, 110}
MCGuardedRates == {90, 100}
===============================================================================
