-------------------------------- MODULE MCWire --------------------------------
(* Two connections with short fields for TLC.                               *)
EXTENDS Wire

\* No index, one within the canvas, one outside, and more than an int counts the bytes of.
FourStrokes == {<<>>, <<0>>, <<CANVAS_SIZE>>, [k \in 1..5 |-> 0]}
FewLengths == -1..3
=============================================================================
