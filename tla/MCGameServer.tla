---------------------------- MODULE MCGameServer ----------------------------
(* Small instances of the server for TLC.                                   *)
EXTENDS ServerRotation

\* The names are interchangeable; the descriptors and the games are not.
Symmetry == Permutations(Names)
=============================================================================
