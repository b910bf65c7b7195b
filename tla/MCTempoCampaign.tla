---------------------------- MODULE MCTempoCampaign ----------------------------
(***************************************************************************)
(* Instances of TempoCampaign for TLC.                                     *)
(***************************************************************************)
EXTENDS TempoCampaign

\* 104 is an improvement on 100 within the repeatability of 5 percent; 110
\* is beyond it, and an improvement on both.
MCRates == {100, 104, 110}
MCGuardedRates == {100}
===============================================================================
