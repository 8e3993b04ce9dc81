------------------------------ MODULE MCHashmap ------------------------------
EXTENDS CloseHashmap, TLC
Symmetry == Permutations(Keys) \cup Permutations(Vals)
SmallPrimes == <<5, 7>>
=============================================================================
