--------------------------- MODULE MCNebulaMemory ---------------------------
(* Small memories for NebulaMemory.                                        *)
EXTENDS NebulaMemory

TwoSegments == {<<1, 0>>, <<1, 1>>, <<4, 0>>}
Filled == [c \in TwoSegments |-> c[2]]
=============================================================================
