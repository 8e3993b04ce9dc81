--------------------------- MODULE MCDelayDelPtr ---------------------------
EXTENDS DelayDelPtr, TLC
Symmetry == Permutations(Objects) \cup Permutations(Writers) \cup Permutations(Readers)
=============================================================================
