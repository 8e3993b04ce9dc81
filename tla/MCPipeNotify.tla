---------------------------- MODULE MCPipeNotify ----------------------------
EXTENDS PipeNotify, TLC
Symmetry == Permutations(Senders)
=============================================================================
