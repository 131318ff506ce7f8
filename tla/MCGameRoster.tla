---------------------------- MODULE MCGameRoster ----------------------------
(* Small instances of one game for TLC.                                     *)
EXTENDS RosterTurns
=============================================================================
