------------------------------ MODULE MCSession ------------------------------
(* A small session for TLC.                                                 *)
EXTENDS Session

\* One stroke within the canvas, and one that leaves it after its first index.
TwoStrokes == {<<0>>, <<0, CANVAS_SIZE>>}
=============================================================================
