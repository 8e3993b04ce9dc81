------------------------------- MODULE MCPipe -------------------------------
EXTENDS MPSCFixedPipe, TLC
Symmetry == Permutations(Senders)
=============================================================================
