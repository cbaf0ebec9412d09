------------------------- MODULE MCInterleavingSpec -------------------------
EXTENDS InterleavingSpec, TLC
CONSTANTS m1, m2, v1, h1, h2
Interchangeable == Permutations({m1, m2}) \cup Permutations({h1, h2})
=============================================================================
