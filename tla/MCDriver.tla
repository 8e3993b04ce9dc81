------------------------------ MODULE MCDriver ------------------------------
EXTENDS EventsDriver, TLC
Symmetry == Permutations(Fds) \cup Permutations(Contexts) \cup Permutations(Signs)
Timeo == {-1, 0, 2}
=============================================================================
