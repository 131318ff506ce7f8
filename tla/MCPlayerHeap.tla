---------------------------- MODULE MCPlayerHeap ----------------------------
(* Small heaps for TLC.                                                     *)
EXTENDS PlayerHeap, TLC

\* The names are interchangeable; the nodes are numbered as they are allocated.
Symmetry == Permutations(Names)
=============================================================================
