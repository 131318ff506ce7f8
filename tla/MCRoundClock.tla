---------------------------- MODULE MCRoundClock ----------------------------
(* Clocks of two games for TLC.                                             *)
EXTENDS RoundClock
=============================================================================
